--------------------------- MODULE UserTaskProofs ---------------------------
(***************************************************************************)
(* Facts about the queues, the programs and the parts of the inductive     *)
(* invariant, which the proofs about the steps of TicketManager share; and *)
(* the steps of the user tasks, the completion task, MPI and the clock:    *)
(* each keeps the inductive invariant.                                     *)
(***************************************************************************)
EXTENDS TicketManagerInv, TLAPS, FiniteSetTheorems

\* Zenon is tried first, briefly, and both provers get more time than by default.
USE ZenonT(4), SMTT(20), ZenonT(20)

(***************************************************************************)
(* A queue just emptied holds no operation.                                *)
(***************************************************************************)
LEMMA ElementsEmpty == Elements(<<>>) = {}
BY DEF Elements

(***************************************************************************)
(* What a queue of operations holds are operations.                        *)
(***************************************************************************)
LEMMA ElementsSubset ==
  ASSUME NEW S, NEW s \in Seq(S)
  PROVE  Elements(s) \subseteq S
BY DEF Elements

(***************************************************************************)
(* A push adds one element to a queue.                                     *)
(***************************************************************************)
LEMMA ElementsAppend ==
  ASSUME NEW S, NEW s \in Seq(S), NEW e \in S
  PROVE  /\ Append(s, e) \in Seq(S)
         /\ Elements(Append(s, e)) = Elements(s) \cup {e}
         /\ Distinct(s) /\ e \notin Elements(s) => Distinct(Append(s, e))
<1>1. Append(s, e) \in Seq(S) /\ Len(Append(s, e)) = Len(s) + 1
  OBVIOUS
<1>2. \A i \in 1..Len(s) : Append(s, e)[i] = s[i]
  OBVIOUS
<1>3. Append(s, e)[Len(s) + 1] = e
  OBVIOUS
<1>4. Elements(Append(s, e)) = Elements(s) \cup {e}
  BY <1>1, <1>2, <1>3 DEF Elements
<1>5. ASSUME Distinct(s), e \notin Elements(s) PROVE Distinct(Append(s, e))
  BY <1>1, <1>2, <1>3, <1>5 DEF Distinct, Elements
<1>6. QED
  BY <1>1, <1>4, <1>5

(***************************************************************************)
(* A pop takes the front element from a queue.                             *)
(***************************************************************************)
LEMMA ElementsTail ==
  ASSUME NEW S, NEW s \in Seq(S), s # <<>>
  PROVE  /\ Tail(s) \in Seq(S) /\ Len(Tail(s)) = Len(s) - 1
         /\ Head(s) \in S /\ Head(s) \in Elements(s)
         /\ Elements(s) = Elements(Tail(s)) \cup {Head(s)}
         /\ Distinct(s) => Distinct(Tail(s)) /\ Head(s) \notin Elements(Tail(s))
<1>1. Tail(s) \in Seq(S) /\ Len(Tail(s)) = Len(s) - 1 /\ Len(s) \in Nat \ {0}
  OBVIOUS
<1>2. Head(s) = s[1] /\ Head(s) \in S
  OBVIOUS
<1>3. \A i \in 1..Len(Tail(s)) : Tail(s)[i] = s[i + 1]
  BY <1>1
<1>4. Head(s) \in Elements(s)
  BY <1>1, <1>2 DEF Elements
<1>5. Elements(s) \subseteq Elements(Tail(s)) \cup {Head(s)}
  <2>1. ASSUME NEW i \in 1..Len(s), i # 1 PROVE s[i] \in Elements(Tail(s))
    <3>1. i - 1 \in 1..Len(Tail(s)) /\ Tail(s)[i - 1] = s[i]
      BY <1>1, <1>3, <2>1
    <3>2. QED
      BY <3>1 DEF Elements
  <2>2. QED
    BY <2>1, <1>2 DEF Elements
<1>6. Elements(Tail(s)) \subseteq Elements(s)
  <2>1. ASSUME NEW i \in 1..Len(Tail(s)) PROVE Tail(s)[i] \in Elements(s)
    <3>1. i + 1 \in 1..Len(s)
      BY <1>1
    <3>2. QED
      BY <3>1, <1>3 DEF Elements
  <2>2. QED
    BY <2>1 DEF Elements
<1>7. ASSUME Distinct(s) PROVE Distinct(Tail(s)) /\ Head(s) \notin Elements(Tail(s))
  BY <1>1, <1>2, <1>3, <1>7 DEF Distinct, Elements
<1>8. QED
  BY <1>1, <1>2, <1>4, <1>5, <1>6, <1>7

-----------------------------------------------------------------------------
(***************************************************************************)
(* The elements that the sequences u and s share come in the same order in *)
(* both; and in u, what is in s is ahead of what is in r.                  *)
(***************************************************************************)
Ordered(u, s) ==
  \A i, j \in 1..Len(u), a, b \in 1..Len(s) : i < j /\ s[a] = u[i] /\ s[b] = u[j] => a < b

Ahead(u, s, r) ==
  \A i, j \in 1..Len(u), a \in 1..Len(s), b \in 1..Len(r) : s[a] = u[i] /\ r[b] = u[j] => i < j

(***************************************************************************)
(* Appending a new element to both keeps the order.                        *)
(***************************************************************************)
LEMMA OrderedBoth ==
  ASSUME NEW S, NEW u \in Seq(S), NEW s \in Seq(S), NEW r \in Seq(S), NEW e \in S,
         e \notin Elements(u), e \notin Elements(s), e \notin Elements(r),
         Ordered(u, s), Ordered(u, r), Ahead(u, s, r)
  PROVE  /\ Ordered(Append(u, e), s)
         /\ Ordered(Append(u, e), Append(r, e))
         /\ Ahead(Append(u, e), s, Append(r, e))
<1>0. Append(u, e) \in Seq(S) /\ Append(r, e) \in Seq(S)
  OBVIOUS
<1> PICK v \in Seq(S) : v = Append(u, e)
  BY <1>0, Zenon
<1> PICK w \in Seq(S) : w = Append(r, e)
  BY <1>0, Zenon
<1>1. /\ Len(v) = Len(u) + 1 /\ v[Len(u) + 1] = e /\ Len(u) \in Nat
      /\ \A i \in 1..Len(u) : v[i] = u[i] /\ u[i] # e
  BY DEF Elements
<1>2. /\ Len(w) = Len(r) + 1 /\ w[Len(r) + 1] = e /\ Len(r) \in Nat
      /\ \A i \in 1..Len(r) : w[i] = r[i] /\ r[i] # e
  BY DEF Elements
<1>3. \A a \in 1..Len(s) : s[a] # e
  BY DEF Elements
<1>4. \A i \in 1..Len(v) : i \in 1..Len(u) \/ (i = Len(u) + 1 /\ v[i] = e)
  BY <1>1
<1>5. \A i \in 1..Len(w) : i \in 1..Len(r) \/ (i = Len(r) + 1 /\ w[i] = e)
  BY <1>2
<1>6. Ordered(v, s)
  BY <1>1, <1>3, <1>4 DEF Ordered
<1>7. ASSUME NEW i \in 1..Len(v), NEW j \in 1..Len(v),
             NEW a \in 1..Len(w), NEW b \in 1..Len(w), i < j, w[a] = v[i], w[b] = v[j]
      PROVE  a < b
  <2>0. i \in 1..Len(u)
    <3>1. j <= Len(u) + 1 /\ i >= 1 /\ Len(u) \in Nat /\ i \in Nat /\ j \in Nat
      BY <1>1, <1>7
    <3>2. QED
      BY <1>7, <3>1
  <2>1. i \in 1..Len(u) /\ w[a] # e
    BY <1>1, <1>7, <2>0
  <2>2. a \in 1..Len(r)
    BY <1>5, <2>1
  <2>3. CASE j \in 1..Len(u)
    <3>1. w[b] # e
      BY <1>1, <1>7, <2>3
    <3>2. b \in 1..Len(r)
      BY <1>5, <3>1
    <3>3. r[a] = u[i] /\ r[b] = u[j]
      BY <1>1, <1>2, <1>7, <2>1, <2>2, <2>3, <3>2
    <3>4. QED
      BY <1>7, <2>1, <2>2, <2>3, <3>2, <3>3 DEF Ordered
  <2>4. CASE j = Len(u) + 1
    <3>1. b = Len(r) + 1
      BY <1>1, <1>2, <1>5, <1>7, <2>4
    <3>2. QED
      BY <1>2, <2>2, <3>1
  <2>5. QED
    BY <1>4, <2>3, <2>4
<1>8. Ordered(v, w)
  BY ONLY <1>7 DEF Ordered
<1>9. Ahead(v, s, w)
  <2> SUFFICES ASSUME NEW i \in 1..Len(v), NEW j \in 1..Len(v),
                      NEW a \in 1..Len(s), NEW b \in 1..Len(w), s[a] = v[i], w[b] = v[j]
               PROVE  i < j
    BY DEF Ahead
  <2>1. i \in 1..Len(u) /\ s[a] = u[i]
    BY <1>1, <1>3, <1>4
  <2>2. CASE j \in 1..Len(u)
    <3>1. w[b] # e
      BY <1>1, <2>2
    <3>2. b \in 1..Len(r)
      BY <1>5, <3>1
    <3>3. r[b] = u[j]
      BY <1>1, <1>2, <2>2, <3>2
    <3>4. QED
      BY <2>1, <2>2, <3>2, <3>3 DEF Ahead
  <2>3. CASE j = Len(u) + 1
    BY <1>1, <2>1, <2>3
  <2>4. QED
    BY <1>4, <2>2, <2>3
<1>10. QED
  BY <1>6, <1>8, <1>9

(***************************************************************************)
(* Moving the head of r to the end of s keeps the order.                   *)
(***************************************************************************)
LEMMA OrderedMove ==
  ASSUME NEW S, NEW u \in Seq(S), NEW s \in Seq(S), NEW r \in Seq(S), r # <<>>, Distinct(r),
         Ordered(u, s), Ordered(u, r), Ahead(u, s, r)
  PROVE  /\ Ordered(u, Append(s, Head(r)))
         /\ Ordered(u, Tail(r))
         /\ Ahead(u, Append(s, Head(r)), Tail(r))
<1>0. Head(r) \in S /\ Head(r) = r[1] /\ Len(r) \in Nat \ {0}
  OBVIOUS
<1>0a. Append(s, Head(r)) \in Seq(S) /\ Tail(r) \in Seq(S)
  BY <1>0
<1> PICK v \in Seq(S) : v = Append(s, Head(r))
  BY <1>0a, Zenon
<1> PICK w \in Seq(S) : w = Tail(r)
  BY <1>0a, Zenon
<1>1. /\ Len(v) = Len(s) + 1 /\ v[Len(s) + 1] = r[1] /\ Len(s) \in Nat
      /\ \A a \in 1..Len(s) : v[a] = s[a]
  BY <1>0
<1>2. \A a \in 1..Len(v) : a \in 1..Len(s) \/ (a = Len(s) + 1 /\ v[a] = r[1])
  BY <1>1
<1>3. \A b \in 1..Len(w) : b + 1 \in 1..Len(r) /\ w[b] = r[b + 1] /\ b \in Nat \ {0}
  BY <1>0
<1>4. 1 \in 1..Len(r)
  BY <1>0
<1>5. Ordered(u, v)
  <2> SUFFICES ASSUME NEW i \in 1..Len(u), NEW j \in 1..Len(u),
                      NEW a \in 1..Len(v), NEW b \in 1..Len(v),
                      i < j, v[a] = u[i], v[b] = u[j]
               PROVE  a < b
    BY DEF Ordered
  <2>1. CASE a \in 1..Len(s) /\ b \in 1..Len(s)
    BY <1>1, <2>1 DEF Ordered
  <2>2. CASE a \in 1..Len(s) /\ b = Len(s) + 1
    BY <1>1, <2>2
  <2>3. CASE a = Len(s) + 1 /\ b \in 1..Len(s)
    <3>1. j < i
      BY <1>1, <1>4, <2>3 DEF Ahead
    <3>2. QED
      BY <3>1
  <2>4. CASE a = Len(s) + 1 /\ b = Len(s) + 1
    <3>1. 1 < 1
      BY <1>1, <1>4, <2>4 DEF Ordered
    <3>2. QED
      BY <3>1
  <2>5. QED
    BY <1>2, <2>1, <2>2, <2>3, <2>4
<1>6. Ordered(u, w)
  <2> SUFFICES ASSUME NEW i \in 1..Len(u), NEW j \in 1..Len(u),
                      NEW a \in 1..Len(w), NEW b \in 1..Len(w),
                      i < j, w[a] = u[i], w[b] = u[j]
               PROVE  a < b
    BY DEF Ordered
  <2>1. /\ a + 1 \in 1..Len(r) /\ b + 1 \in 1..Len(r)
        /\ r[a + 1] = u[i] /\ r[b + 1] = u[j]
    BY <1>3, Zenon
  <2>2. a + 1 < b + 1
    BY <2>1, Zenon DEF Ordered
  <2>3. QED
    BY <1>3, <2>2
<1>7. Ahead(u, v, w)
  <2> SUFFICES ASSUME NEW i \in 1..Len(u), NEW j \in 1..Len(u),
                      NEW a \in 1..Len(v), NEW b \in 1..Len(w), v[a] = u[i], w[b] = u[j]
               PROVE  i < j
    BY DEF Ahead
  <2>1. b + 1 \in 1..Len(r) /\ r[b + 1] = u[j] /\ b + 1 # 1
    BY <1>3
  <2>2. CASE a \in 1..Len(s)
    BY <1>1, <2>1, <2>2 DEF Ahead
  <2>3. CASE a = Len(s) + 1
    <3>1. r[1] = u[i]
      BY <1>1, <2>3
    <3>2. i # j
      BY <1>4, <2>1, <3>1 DEF Distinct
    <3>3. ~ (j < i)
      <4>1. j < i => b + 1 < 1
        BY <1>4, <2>1, <3>1 DEF Ordered
      <4>2. QED
        BY <1>3, <4>1
    <3>4. QED
      BY <3>2, <3>3
  <2>4. QED
    BY <1>2, <2>2, <2>3
<1>8. QED
  BY <1>5, <1>6, <1>7

(***************************************************************************)
(* Appending to s an element that is not in u keeps the order.             *)
(***************************************************************************)
LEMMA OrderedOther ==
  ASSUME NEW S, NEW u \in Seq(S), NEW s \in Seq(S), NEW r \in Seq(S), NEW e \in S,
         e \notin Elements(u), Ordered(u, s), Ahead(u, s, r)
  PROVE  Ordered(u, Append(s, e)) /\ Ahead(u, Append(s, e), r)
<1>0. Append(s, e) \in Seq(S)
  OBVIOUS
<1> PICK v \in Seq(S) : v = Append(s, e)
  BY <1>0, Zenon
<1>1. /\ Len(s) \in Nat /\ \A a \in 1..Len(s) : v[a] = s[a]
      /\ \A a \in 1..Len(v) : a \in 1..Len(s) \/ v[a] = e
  OBVIOUS
<1>2. \A i \in 1..Len(u) : u[i] # e
  BY DEF Elements
<1>3. Ordered(u, v)
  BY <1>1, <1>2 DEF Ordered
<1>4. Ahead(u, v, r)
  BY <1>1, <1>2 DEF Ahead
<1>5. QED
  BY <1>3, <1>4

(***************************************************************************)
(* Taking the head of s, and the same element from u if u has it: it is    *)
(* then the head of u.                                                     *)
(***************************************************************************)
LEMMA OrderedTake ==
  ASSUME NEW S, NEW u \in Seq(S), NEW s \in Seq(S), NEW r \in Seq(S), s # <<>>,
         Elements(r) \subseteq Elements(u), Elements(u) \subseteq Elements(s) \cup Elements(r),
         Elements(s) \cap Elements(r) = {},
         Ordered(u, s), Ordered(u, r), Ahead(u, s, r),
         NEW v, v = IF u # <<>> /\ Head(u) = Head(s) THEN Tail(u) ELSE u
  PROVE  /\ Elements(v) \subseteq Elements(u)
         /\ Elements(r) \subseteq Elements(v)
         /\ Elements(v) \subseteq Elements(Tail(s)) \cup Elements(r)
         /\ Ordered(v, Tail(s)) /\ Ordered(v, r) /\ Ahead(v, Tail(s), r)
<1>0. /\ Tail(s) \in Seq(S) /\ Elements(s) = Elements(Tail(s)) \cup {Head(s)}
      /\ Head(s) \in Elements(s)
  BY ElementsTail
<1> PICK w \in Seq(S) : w = Tail(s)
  BY <1>0, Zenon
<1>1. /\ Head(s) = s[1] /\ 1 \in 1..Len(s)
      /\ \A a \in 1..Len(w) : a + 1 \in 1..Len(s) /\ w[a] = s[a + 1] /\ a \in Nat \ {0}
  OBVIOUS
<1>2. Ordered(u, w) /\ Ahead(u, w, r)
  <2>1. ASSUME NEW i \in 1..Len(u), NEW j \in 1..Len(u),
               NEW a \in 1..Len(w), NEW b \in 1..Len(w), i < j, w[a] = u[i], w[b] = u[j]
        PROVE  a < b
    <3>0. a + 1 \in 1..Len(s) /\ b + 1 \in 1..Len(s) /\ s[a + 1] = u[i] /\ s[b + 1] = u[j]
      BY <1>1, <2>1, Zenon
    <3>1. a + 1 < b + 1
      BY <2>1, <3>0, Zenon DEF Ordered
    <3>2. QED
      BY <1>1, <3>1
  <2>2. Ahead(u, w, r)
    BY <1>1 DEF Ahead
  <2>3. QED
    BY <2>1, <2>2 DEF Ordered
<1>3. CASE u # <<>> /\ Head(u) = Head(s)
  <2>1. /\ v \in Seq(S) /\ u[1] = s[1] /\ Len(u) \in Nat \ {0}
        /\ \A i \in 1..Len(v) : i + 1 \in 1..Len(u) /\ v[i] = u[i + 1] /\ i \in Nat \ {0}
    BY <1>1, <1>3
  <2>2. Elements(u) = Elements(v) \cup {Head(s)}
    <3>1. v = Tail(u)
      BY <1>3
    <3>2. Elements(u) = Elements(Tail(u)) \cup {Head(u)}
      BY <1>3, ElementsTail
    <3>3. QED
      BY <1>3, <3>1, <3>2
  <2>3. Head(s) \notin Elements(v)
    <3> SUFFICES ASSUME NEW i \in 1..Len(v), v[i] = s[1] PROVE FALSE
      BY <1>1 DEF Elements
    <3>1. i + 1 \in 1..Len(u) /\ u[i + 1] = s[1] /\ 1 < i + 1 /\ 1 \in 1..Len(u)
      BY <2>1
    <3>2. 1 < 1
      BY <1>1, <2>1, <3>1, Zenon DEF Ordered
    <3>3. QED
      BY <3>2
  <2>4. Ordered(v, w)
    <3> SUFFICES ASSUME NEW i \in 1..Len(v), NEW j \in 1..Len(v),
                        NEW a \in 1..Len(w), NEW b \in 1..Len(w),
                        i < j, w[a] = v[i], w[b] = v[j]
                 PROVE  a < b
      BY DEF Ordered
    <3>1. i + 1 < j + 1
      BY <2>1
    <3>2. i + 1 \in 1..Len(u) /\ j + 1 \in 1..Len(u) /\ w[a] = u[i + 1] /\ w[b] = u[j + 1]
      BY <2>1, Zenon
    <3>3. QED
      BY ONLY <1>2, <3>1, <3>2, a \in 1..Len(w), b \in 1..Len(w) DEF Ordered
  <2>5. Ordered(v, r)
    <3> SUFFICES ASSUME NEW i \in 1..Len(v), NEW j \in 1..Len(v),
                        NEW a \in 1..Len(r), NEW b \in 1..Len(r),
                        i < j, r[a] = v[i], r[b] = v[j]
                 PROVE  a < b
      BY DEF Ordered
    <3>1. i + 1 < j + 1
      BY <2>1
    <3>2. QED
      BY <2>1, <3>1 DEF Ordered
  <2>6. Ahead(v, w, r)
    <3> SUFFICES ASSUME NEW i \in 1..Len(v), NEW j \in 1..Len(v),
                        NEW a \in 1..Len(w), NEW b \in 1..Len(r), w[a] = v[i], r[b] = v[j]
                 PROVE  i < j
      BY DEF Ahead
    <3>1. i + 1 < j + 1
      BY <1>2, <2>1 DEF Ahead
    <3>2. QED
      BY <2>1, <3>1
  <2>7. QED
    BY <1>0, <2>2, <2>3, <2>4, <2>5, <2>6
<1>4. CASE ~ (u # <<>> /\ Head(u) = Head(s))
  <2>1. v = u
    BY <1>4
  <2>2. Head(s) \notin Elements(u)
    <3> SUFFICES ASSUME NEW j \in 1..Len(u), u[j] = s[1] PROVE FALSE
      BY <1>1 DEF Elements
    <3>1. u # <<>> /\ 1 \in 1..Len(u) /\ Head(u) = u[1]
      OBVIOUS
    <3>2. j # 1 /\ 1 < j
      BY <1>1, <1>4, <3>1
    <3>3. u[1] \in Elements(s) \cup Elements(r)
      BY <3>1 DEF Elements
    <3>4. ASSUME NEW b \in 1..Len(s), s[b] = u[1] PROVE FALSE
      <4>1. b < 1
        BY <1>1, <3>1, <3>2, <3>4 DEF Ordered
      <4>2. QED
        BY <4>1
    <3>5. ASSUME NEW b \in 1..Len(r), r[b] = u[1] PROVE FALSE
      <4>1. j < 1
        BY <1>1, <3>1, <3>5 DEF Ahead
      <4>2. QED
        BY <4>1
    <3>6. QED
      BY <3>3, <3>4, <3>5 DEF Elements
  <2>3. QED
    BY <1>0, <1>2, <2>1, <2>2
<1>5. QED
  BY <1>3, <1>4

(***************************************************************************)
(* The calls of a task are operations.                                     *)
(***************************************************************************)
LEMMA ProgramType ==
  ASSUME NEW t \in Tasks
  PROVE  /\ Program[t] \in Seq(Ops)
         /\ Len(Program[t]) \in Nat
         /\ \A i \in 1..Len(Program[t]) : Program[t][i] \in Ops
<1>1. Program[t] \in Seq(Ops)
  BY ProgramAssumption
<1>2. QED
  BY <1>1

(***************************************************************************)
(* The calls a task has made are places of its program.                    *)
(***************************************************************************)
LEMMA CalledPlaces ==
  ASSUME TypeOK, NEW t \in Tasks
  PROVE  \A i \in 1..(next[t] - 1) : i \in 1..Len(Program[t])
<1>1. next[t] \in Nat /\ next[t] <= Len(Program[t]) + 1
  BY DEF TypeOK
<1>2. QED
  BY <1>1, ProgramType

(***************************************************************************)
(* Each call of the library creates an operation of its own, so an         *)
(* operation has one place in the programs.                                *)
(***************************************************************************)
LEMMA ProgramInjective ==
  ASSUME NEW t \in Tasks, NEW u \in Tasks,
         NEW i \in 1..Len(Program[t]), NEW j \in 1..Len(Program[u]),
         Program[t][i] = Program[u][j]
  PROVE  t = u /\ i = j
BY ProgramAssumption

(***************************************************************************)
(* Every operation has its place in a program, and the invariant speaks    *)
(* about it.                                                               *)
(***************************************************************************)
LEMMA PlaceOf ==
  ASSUME WhereOperationsAre, NEW o \in Ops
  PROVE  \E t \in Tasks : \E i \in 1..Len(Program[t]) : Program[t][i] = o /\ WhereIs(t, i)
BY ProgramAssumption DEF WhereOperationsAre

(***************************************************************************)
(* Where an operation is follows from the state of its request, without    *)
(* mention of its task.                                                    *)
(***************************************************************************)
LEMMA WhereSummary ==
  ASSUME WhereOperationsAre, NEW o \in Ops
  PROVE  /\ Waiting(o) => request[o] = "none"
         /\ o \in reqs \cup (inflight \ finished) <=> request[o] \in {"active", "complete"}
         /\ o \in done \cup Elements(cqueue) <=> request[o] = "null" /\ o \notin notified
         /\ o \in finished \cup notified => request[o] = "null"
         /\ ~NullRequests /\ request[o] = "null" /\ o \in WithStatus => o \in stored
BY PlaceOf DEF WhereIs

(***************************************************************************)
(* The context of an operation names the task that called it.              *)
(***************************************************************************)
LEMMA InProgram ==
  ASSUME NEW o \in Ops
  PROVE  /\ Owner(o) \in Tasks
         /\ \E i \in 1..Len(Program[Owner(o)]) : Program[Owner(o)][i] = o
BY ProgramAssumption DEF Owner

(***************************************************************************)
(* The invariant locates an operation in the program of the task its       *)
(* context names.                                                          *)
(***************************************************************************)
LEMMA PlaceInOwner ==
  ASSUME WhereOperationsAre, NEW o \in Ops
  PROVE  /\ Owner(o) \in Tasks
         /\ \E i \in 1..Len(Program[Owner(o)]) : Program[Owner(o)][i] = o /\ WhereIs(Owner(o), i)
BY InProgram DEF WhereOperationsAre

(***************************************************************************)
(* A task inside OperationManager::process is there for an operation of    *)
(* its program.                                                            *)
(***************************************************************************)
LEMMA CurrentPlace ==
  ASSUME TypeOK, Handshake, NEW t \in Tasks, call[t] # "user" \/ task[t] = "blocked"
  PROVE  /\ next[t] - 1 \in 1..Len(Program[t])
         /\ Current(t) \in Ops
<1>1. next[t] # 1
  BY DEF Handshake, HandshakeOf
<1>2. next[t] \in Nat \ {0} /\ next[t] <= Len(Program[t]) + 1
  BY DEF TypeOK
<1>3. QED
  BY <1>1, <1>2, ProgramType DEF Current

-----------------------------------------------------------------------------
(***************************************************************************)
(* A step that moves no operation keeps it in one place only.              *)
(***************************************************************************)
LEMMA NoDuplicatesFrame ==
  ASSUME NoDuplicates, UNCHANGED <<queue, tmp, cqueue, reqs, inflight, finished, unchecked, done>>
  PROVE  NoDuplicates'
BY DEF NoDuplicates

(***************************************************************************)
(* Popping moves operations only within the places of those that are not   *)
(* issued yet: every operation stays where its request state says.         *)
(***************************************************************************)
LEMMA WhereKept ==
  ASSUME WhereOperationsAre, \A o : Waiting(o)' <=> Waiting(o),
         UNCHANGED <<next, call, request, reqs, inflight, finished, done, cqueue, notified, stored>>
  PROVE  WhereOperationsAre'
<1> SUFFICES ASSUME NEW t \in Tasks, NEW i \in 1..Len(Program[t]) PROVE WhereIs(t, i)'
  BY DEF WhereOperationsAre
<1>1. WhereIs(t, i)
  BY DEF WhereOperationsAre
<1>2. Pushed(t, i)' <=> Pushed(t, i)
  BY DEF Pushed
<1>3. QED
  BY <1>1, <1>2 DEF WhereIs

(***************************************************************************)
(* A step that moves no operation keeps every operation where its request  *)
(* state says.                                                             *)
(***************************************************************************)
LEMMA WhereFrame ==
  ASSUME WhereOperationsAre,
         UNCHANGED <<next, call, queue, tmp, request, reqs, inflight, finished, done, cqueue,
                     notified, stored>>
  PROVE  WhereOperationsAre'
<1>1. \A o : Waiting(o)' <=> Waiting(o)
  BY DEF Waiting
<1>2. QED
  BY <1>1, WhereKept

(***************************************************************************)
(* A step that moves operations between the arrays, or hands over what is  *)
(* completed, keeps every operation where its request state says if the    *)
(* places of that state together hold the same operations.                 *)
(***************************************************************************)
LEMMA WhereMoved ==
  ASSUME WhereOperationsAre,
         UNCHANGED <<next, call, queue, tmp, request, stored>>,
         (reqs \cup (inflight \ finished))' = reqs \cup (inflight \ finished),
         \A o \in Ops : o \in (done \cup Elements(cqueue))' <=>
                          request[o] = "null" /\ o \notin notified',
         \A o \in Ops : o \in (finished \cup notified)' => request[o] = "null"
  PROVE  WhereOperationsAre'
<1> SUFFICES ASSUME NEW t \in Tasks, NEW i \in 1..Len(Program[t]) PROVE WhereIs(t, i)'
  BY DEF WhereOperationsAre
<1>1. WhereIs(t, i) /\ Program[t][i] \in Ops
  BY ProgramType DEF WhereOperationsAre
<1>2. Waiting(Program[t][i])' <=> Waiting(Program[t][i])
  BY DEF Waiting
<1>3. Pushed(t, i)' <=> Pushed(t, i)
  BY DEF Pushed
<1>4. QED
  BY <1>1, <1>2, <1>3 DEF WhereIs

(***************************************************************************)
(* A step that neither resumes nor notifies a task keeps the handshake of  *)
(* blockCurrentTask and unblockTask.                                       *)
(***************************************************************************)
LEMMA HandshakeFrame ==
  ASSUME Handshake, UNCHANGED <<task, events, token, next, call, notified>>
  PROVE  Handshake'
<1> SUFFICES ASSUME NEW t \in Tasks PROVE HandshakeOf(t)'
  BY Zenon DEF Handshake
<1>1. HandshakeOf(t)
  BY Zenon DEF Handshake
<1>2. /\ task' = task /\ events' = events /\ token' = token
      /\ next' = next /\ call' = call /\ notified' = notified
  BY Zenon
<1>3. Current(t)' = Current(t) /\ \A i : Past(t, i)' <=> Past(t, i)
  BY ONLY <1>2, Zenon DEF Current, Past
<1> QED
  BY ONLY <1>1, <1>2, <1>3, SMTT(20) DEF HandshakeOf

(***************************************************************************)
(* A step that calls and notifies nothing keeps the counts of events.      *)
(***************************************************************************)
LEMMA EventsFrame ==
  ASSUME EventsMatch, UNCHANGED <<events, next, notified>>
  PROVE  EventsMatch'
BY DEF EventsMatch, OpenEvents

(***************************************************************************)
(* One more request takes at most one more position.                       *)
(***************************************************************************)
LEMMA CardinalityAdd ==
  ASSUME NEW S \in SUBSET Ops, NEW o \in Ops
  PROVE  /\ Cardinality(S) \in Nat
         /\ Cardinality(S \cup {o}) \in Nat
         /\ Cardinality(S \cup {o}) <= Cardinality(S) + 1
<1>1. IsFiniteSet(S)
  BY ProgramAssumption, FS_Subset
<1>2. IsFiniteSet(S \cup {o})
  BY <1>1, FS_AddElement
<1>3. Cardinality(S) \in Nat /\ Cardinality(S \cup {o}) \in Nat
  BY <1>1, <1>2, FS_CardinalityType
<1>4. Cardinality(S \cup {o}) = IF o \in S THEN Cardinality(S) ELSE Cardinality(S) + 1
  BY <1>1, FS_AddElement
<1>5. QED
  BY <1>3, <1>4

(***************************************************************************)
(* Part of the requests take no more positions than all of them.           *)
(***************************************************************************)
LEMMA CardinalitySubset ==
  ASSUME NEW S \in SUBSET Ops, NEW T \in SUBSET S
  PROVE  /\ Cardinality(S) \in Nat
         /\ Cardinality(T) \in Nat
         /\ Cardinality(T) <= Cardinality(S)
BY ProgramAssumption, FS_Subset, FS_CardinalityType

(***************************************************************************)
(* The numbers transferOperations compares (_pending, _capacity and        *)
(* navailable) are natural.                                                *)
(***************************************************************************)
LEMMA RoomTypes ==
  ASSUME TypeOK
  PROVE  /\ Cardinality(inflight \cup batch) \in Nat
         /\ Cardinality(inflight) \in Nat
         /\ room \in Nat /\ capacity \in Nat /\ Len(tmp) \in Nat
<1>1. inflight \cup batch \in SUBSET Ops /\ inflight \in SUBSET Ops
  BY DEF TypeOK
<1>2. Cardinality(inflight \cup batch) \in Nat /\ Cardinality(inflight) \in Nat
  BY <1>1, CardinalitySubset
<1>3. QED
  BY <1>2, BoundsAssumption DEF TypeOK

-----------------------------------------------------------------------------
(***************************************************************************)
(* A task has finitely many open events.                                   *)
(***************************************************************************)
LEMMA OpenEventsFinite ==
  ASSUME TypeOK
  PROVE  \A t \in Tasks : IsFiniteSet(OpenEvents(t)) /\ Cardinality(OpenEvents(t)) \in Nat
<1> SUFFICES ASSUME NEW t \in Tasks
             PROVE  IsFiniteSet(OpenEvents(t)) /\ Cardinality(OpenEvents(t)) \in Nat
  OBVIOUS
<1>1. next[t] - 1 \in Int
  BY DEF TypeOK
<1>2. IsFiniteSet(1..(next[t] - 1))
  BY <1>1, FS_Interval
<1>3. OpenEvents(t) \in SUBSET (1..(next[t] - 1))
  BY DEF OpenEvents
<1>4. IsFiniteSet(OpenEvents(t))
  BY <1>2, <1>3, FS_Subset
<1>5. QED
  BY <1>4, FS_CardinalityType

(***************************************************************************)
(* A finished blocking operation that was not notified is the one its task *)
(* is waiting for, and no unblock is ahead.                                *)
(***************************************************************************)
LEMMA BlockingIsCurrent ==
  ASSUME TypeOK, Handshake, NEW t \in Tasks, NEW i \in 1..Len(Program[t]),
         Program[t][i] \in Blocking, Program[t][i] \notin notified, Pushed(t, i)
  PROVE  /\ i = next[t] - 1 /\ Current(t) = Program[t][i]
         /\ ~token[t]
         /\ call[t] = "wait" \/ (call[t] = "user" /\ task[t] = "blocked")
<1>1. ~Past(t, i)
  BY DEF Handshake, HandshakeOf
<1>2. i \in Nat /\ next[t] \in Nat /\ i < next[t]
  BY ProgramType DEF TypeOK, Pushed
<1>3. i = next[t] - 1 /\ call[t] \in {"user", "ready", "wait"}
  BY <1>1, <1>2 DEF Past, TypeOK
<1>4. QED
  BY <1>1, <1>3 DEF Past, Pushed, Current, Handshake, HandshakeOf

(***************************************************************************)
(* TaskContext::completeEvents for a blocking operation: the unblock       *)
(* reaches its task whether it comes before or after the block.            *)
(***************************************************************************)
LEMMA UnblockKeeps ==
  ASSUME TypeOK, Handshake, EventsMatch,
         NEW t \in Tasks, NEW i \in 1..Len(Program[t]), Pushed(t, i),
         Program[t][i] \in Blocking, Program[t][i] \notin notified,
         UnblockTask(t), notified' = notified \cup {Program[t][i]}, UNCHANGED <<next, call>>
  PROVE  ALPIType' /\ Handshake' /\ EventsMatch'
<1> DEFINE o == Program[t][i]
<1>1. /\ i = next[t] - 1 /\ Current(t) = o /\ ~token[t]
      /\ call[t] = "wait" \/ (call[t] = "user" /\ task[t] = "blocked")
  BY BlockingIsCurrent
<1>2. call[t] = "wait" => task[t] = "running"
  BY DEF Handshake, HandshakeOf
<1>3. ALPIType'
  BY DEF UnblockTask, TypeOK, ALPIType, TaskState
<1>4. ASSUME NEW u \in Tasks, u # t PROVE HandshakeOf(u)'
  <2>1. HandshakeOf(u)
    BY DEF Handshake
  <2>2. task'[u] = task[u] /\ token'[u] = token[u] /\ events'[u] = events[u]
        /\ next'[u] = next[u] /\ call'[u] = call[u]
    BY <1>4 DEF UnblockTask, TypeOK, ALPIType
  <2>3. ASSUME call[u] = "wait" \/ task[u] = "blocked" PROVE Current(u) # o
    <3>1. next[u] - 1 \in 1..Len(Program[u])
      BY <2>3, CurrentPlace
    <3>2. QED
      BY <1>4, <3>1, ProgramInjective DEF Current
  <2>4. QED
    BY <2>1, <2>2, <2>3 DEF HandshakeOf, Past, Current
<1>5. HandshakeOf(t)'
  <2>1. HandshakeOf(t)
    BY DEF Handshake
  <2>2. events' = events /\ next' = next /\ call' = call /\ o \in notified' /\ notified \subseteq notified'
    BY DEF UnblockTask
  <2>3. CASE call[t] = "wait"
    <3>1. task' = task /\ token'[t] = TRUE
      BY <1>2, <2>3 DEF UnblockTask, TypeOK, ALPIType
    <3>2. QED
      BY <1>1, <1>2, <2>1, <2>2, <2>3, <3>1 DEF HandshakeOf, Past, Current
  <2>4. CASE call[t] = "user" /\ task[t] = "blocked"
    <3>1. task'[t] = "running" /\ token' = token
      BY <2>4 DEF UnblockTask, TypeOK, ALPIType
    <3>2. \A j \in 1..Len(Program[t]) : Past(t, j)' => Past(t, j) \/ j = i
      BY <1>1, <2>2 DEF Past
    <3>3. QED
      BY <1>1, <2>1, <2>2, <2>4, <3>1, <3>2 DEF HandshakeOf, Current
  <2>5. QED
    BY <1>1, <2>3, <2>4
<1>6. EventsMatch'
  <2> SUFFICES ASSUME NEW u \in Tasks PROVE events'[u] = Cardinality(OpenEvents(u)')
    BY DEF EventsMatch
  <2>1. OpenEvents(u)' = OpenEvents(u)
    BY DEF OpenEvents
  <2>2. events'[u] = events[u]
    BY DEF UnblockTask
  <2>3. QED
    BY <2>1, <2>2, Zenon DEF EventsMatch
<1>7. QED
  BY <1>3, <1>4, <1>5, <1>6 DEF Handshake

(***************************************************************************)
(* TaskContext::completeEvents for a non-blocking operation: the event it  *)
(* fulfils is one that bindEvents registered.                              *)
(***************************************************************************)
LEMMA DecreaseKeeps ==
  ASSUME TypeOK, Handshake, EventsMatch,
         NEW t \in Tasks, NEW i \in 1..Len(Program[t]), Pushed(t, i),
         Program[t][i] \notin Blocking, Program[t][i] \notin notified,
         DecreaseEvents(t), notified' = notified \cup {Program[t][i]}, UNCHANGED <<next, call>>
  PROVE  ALPIType' /\ Handshake' /\ EventsMatch'
<1> DEFINE o == Program[t][i]
<1>1. \A u \in Tasks : IsFiniteSet(OpenEvents(u)) /\ Cardinality(OpenEvents(u)) \in Nat
  BY OpenEventsFinite
<1>2. i \in OpenEvents(t)
  <2>1. /\ next[t] \in Nat /\ Len(Program[t]) \in Nat /\ i \in 1..Len(Program[t]) /\ i < next[t]
        /\ Program[t][i] \notin Blocking /\ Program[t][i] \notin notified
    BY ProgramType, Zenon DEF Pushed, TypeOK
  <2>2. QED
    BY ONLY <2>1 DEF OpenEvents
<1>3. Cardinality(OpenEvents(t) \ {i}) = Cardinality(OpenEvents(t)) - 1 /\ Cardinality(OpenEvents(t) \ {i}) \in Nat
  <2>1. IsFiniteSet(OpenEvents(t) \ {i}) /\ Cardinality(OpenEvents(t) \ {i}) = Cardinality(OpenEvents(t)) - 1
    BY <1>1, <1>2, FS_RemoveElement
  <2>2. QED
    BY <2>1, FS_CardinalityType
<1>4. events[t] = Cardinality(OpenEvents(t)) /\ events[t] - 1 \in Nat /\ events[t] >= 1
  BY <1>3, <1>1 DEF EventsMatch
<1>5. events'[t] = events[t] - 1 /\ \A u \in Tasks : u # t => events'[u] = events[u]
  BY DEF DecreaseEvents, TypeOK, ALPIType
<1>6. ALPIType'
  BY <1>4 DEF DecreaseEvents, TypeOK, ALPIType, TaskState
<1>7. EventsMatch'
  <2> SUFFICES ASSUME NEW u \in Tasks PROVE events'[u] = Cardinality(OpenEvents(u)')
    BY DEF EventsMatch
  <2>1. CASE u = t
    <3>1. OpenEvents(u)' = OpenEvents(t) \ {i}
      <4>1. \A j \in 1..(next[t] - 1) : j \in 1..Len(Program[t])
        BY CalledPlaces
      <4>2. \A j \in 1..(next[t] - 1) : Program[t][j] = o => j = i
        BY <4>1, ProgramInjective
      <4>3. QED
        BY <2>1, <4>2 DEF OpenEvents
    <3>2. Cardinality(OpenEvents(u)') = Cardinality(OpenEvents(t) \ {i})
      BY <3>1, Zenon
    <3>3. QED
      BY <1>1, <1>3, <1>4, <1>5, <2>1, <3>2
  <2>2. CASE u # t
    <3>1. OpenEvents(u)' = OpenEvents(u)
      <4>1. \A j \in 1..(next[u] - 1) : j \in 1..Len(Program[u])
        BY CalledPlaces
      <4>2. \A j \in 1..(next[u] - 1) : Program[u][j] # o
        BY <2>2, <4>1, ProgramInjective
      <4>3. QED
        BY <4>2 DEF OpenEvents
    <3>2. Cardinality(OpenEvents(u)') = Cardinality(OpenEvents(u))
      BY <3>1, Zenon
    <3>3. QED
      BY <1>5, <2>2, <3>2 DEF EventsMatch
  <2>3. QED
    BY <2>1, <2>2
<1>8. Handshake'
  <2> SUFFICES ASSUME NEW u \in Tasks PROVE HandshakeOf(u)'
    BY DEF Handshake
  <2>1. HandshakeOf(u) /\ events[u] \in Nat
    BY DEF Handshake, TypeOK, ALPIType
  <2>2. /\ token' = token /\ next' = next /\ call' = call
        /\ task'[u] = IF u = t /\ task[u] = "finished" /\ events[u] = 1 THEN "completed" ELSE task[u]
        /\ events'[u] = IF u = t THEN events[u] - 1 ELSE events[u]
    BY DEF DecreaseEvents, TypeOK, ALPIType
  <2>3. u = t => events[u] >= 1
    BY <1>4
  <2>4. call[u] = "wait" \/ task[u] = "blocked" => Current(u) \in Blocking
    BY <2>1 DEF HandshakeOf
  <2>5. u = t => task[u] # "completed"
    BY <2>1, <2>3 DEF HandshakeOf
  <2>6. \A k \in 1..Len(Program[u]) : Past(u, k)' => Past(u, k)
    BY <2>2 DEF Past
  <2>7. /\ Current(u)' = Current(u)
        /\ Current(u) \in Blocking => (Current(u) \in notified' <=> Current(u) \in notified)
    BY <2>2 DEF Current
  <2>8. task'[u] = "completed" => events'[u] = 0
    <3>1. task[u] = "completed" => events[u] = 0
      BY <2>1 DEF HandshakeOf
    <3>2. CASE u # t
      BY <2>2, <3>1, <3>2, Zenon
    <3>3. CASE u = t
      <4>1. events'[u] = events[u] - 1
        BY <2>2, <3>3, Zenon
      <4>2. task'[u] = "completed" => events[u] = 1
        BY <2>2, <2>5, <3>3, Zenon
      <4>3. QED
        BY ONLY <4>1, <4>2, SMTT(20)
    <3>4. QED
      BY <3>2, <3>3, Zenon
  <2>9. QED
    BY <2>1, <2>2, <2>4, <2>6, <2>7, <2>8 DEF HandshakeOf
<1>9. QED
  BY <1>6, <1>7, <1>8

(***************************************************************************)
(* TaskContext::completeEvents, called by the polling task or by the       *)
(* completion task, keeps the handshake and the counts of events.          *)
(***************************************************************************)
LEMMA CompleteEventsStep ==
  ASSUME IInv, NEW o \in Ops, request[o] = "null", o \notin notified,
         CompleteEvents(o), UNCHANGED <<next, call>>
  PROVE  ALPIType' /\ Handshake' /\ EventsMatch'
<1>1. PICK i \in 1..Len(Program[Owner(o)]) : Program[Owner(o)][i] = o /\ WhereIs(Owner(o), i)
  BY PlaceInOwner DEF IInv
<1>2. Owner(o) \in Tasks /\ Pushed(Owner(o), i)
  BY <1>1, PlaceInOwner DEF IInv, WhereIs
<1>3. CASE o \in Blocking
  BY <1>1, <1>2, <1>3, UnblockKeeps DEF IInv, CompleteEvents
<1>4. CASE o \notin Blocking
  BY <1>1, <1>2, <1>4, DecreaseKeeps DEF IInv, CompleteEvents
<1>5. QED
  BY <1>3, <1>4

-----------------------------------------------------------------------------
(***************************************************************************)
(* ErrorHandler::fail ends the process and changes nothing else.           *)
(***************************************************************************)
LEMMA FailStep ==
  ASSUME IInv, Fail
  PROVE  IInv'
<1> USE DEF Fail, alpiVars, taskVars, complVars, pollVars, IInv
<1>1. aborted' \in BOOLEAN
  OBVIOUS
<1>2. TypeOK'
  BY <1>1 DEF TypeOK, ALPIType, MPIType
<1>3. LocalsInUse' /\ RoomLeft'
  BY DEF LocalsInUse, RoomLeft
<1>4. NoDuplicates' /\ WhereOperationsAre' /\ Handshake' /\ EventsMatch'
  BY NoDuplicatesFrame, WhereFrame, HandshakeFrame, EventsFrame
<1>5. QED
  BY <1>2, <1>3, <1>4

(***************************************************************************)
(* The state TicketManager, CapacityCtrl and CompletionManager are         *)
(* constructed in satisfies the invariant.                                 *)
(***************************************************************************)
LEMMA InitInvariant == Init => IInv
<1> SUFFICES ASSUME Init PROVE IInv
  OBVIOUS
<1> USE DEF Init, ALPIInit, MPIInit
<1>1. TypeOK
  <2>1. ALPIType /\ MPIType
    BY DEF ALPIType, MPIType, TaskState, RequestState
  <2>2. \A t \in Tasks : next[t] <= Len(Program[t]) + 1
    BY ProgramAssumption
  <2>3. capacity \in CapacityMin..CapacityMax
    BY BoundsAssumption
  <2>4. <<>> \in Seq(Ops)
    OBVIOUS
  <2>5. queue \in [Queues -> Seq(Ops)] /\ unissued \in [Queues -> Seq(Ops)]
    BY <2>4
  <2>6. moved \in BOOLEAN /\ again \in BOOLEAN /\ anyCompleted \in BOOLEAN /\ aborted \in BOOLEAN
    OBVIOUS
  <2>7. next \in [Tasks -> Nat \ {0}] /\ call \in [Tasks -> {"user", "ready", "wait"}]
    OBVIOUS
  <2>8. QED
    BY <2>1, <2>2, <2>3, <2>4, <2>5, <2>6, <2>7 DEF TypeOK
<1>2. LocalsInUse
  BY ElementsEmpty DEF LocalsInUse
<1>3. NoDuplicates
  BY ElementsEmpty DEF NoDuplicates, Distinct
<1>4. WhereOperationsAre
  <2> SUFFICES ASSUME NEW t \in Tasks, NEW i \in 1..Len(Program[t])
               PROVE  WhereIs(t, i)
    BY DEF WhereOperationsAre
  <2>1. QED
    BY ProgramType, ElementsEmpty DEF WhereIs, Waiting, Pushed
<1>5. Handshake
  BY DEF Handshake, HandshakeOf, Past
<1>6. EventsMatch
  <2> SUFFICES ASSUME NEW t \in Tasks PROVE events[t] = Cardinality(OpenEvents(t))
    BY DEF EventsMatch
  <2>1. OpenEvents(t) = {}
    BY DEF OpenEvents
  <2>2. QED
    BY <2>1, FS_EmptySet
<1>7. RoomLeft
  BY FS_EmptySet, BoundsAssumption DEF RoomLeft
<1>8. QED
  BY <1>1, <1>2, <1>3, <1>4, <1>5, <1>6, <1>7 DEF IInv

-----------------------------------------------------------------------------
(***************************************************************************)
(* process registers the event before the operation can be seen by any     *)
(* other task.                                                             *)
(***************************************************************************)
LEMMA CallStep ==
  ASSUME IInv, NEW t \in Tasks, Call(t)
  PROVE  IInv'
<1> DEFINE o == Program[t][next[t]]
<1> USE DEF alpiVars, complVars, pollVars, IInv
<1>1. /\ task[t] = "running" /\ call[t] = "user" /\ next[t] \in 1..Len(Program[t])
      /\ Len(Program[t]) \in Nat /\ o \in Ops
  <2>1. task[t] = "running" /\ call[t] = "user" /\ next[t] <= Len(Program[t]) /\ next[t] \in Nat \ {0}
    BY Zenon DEF Call, TypeOK
  <2>2. Len(Program[t]) \in Nat /\ \A i \in 1..Len(Program[t]) : Program[t][i] \in Ops
    BY ProgramType, Zenon
  <2>3. next[t] \in 1..Len(Program[t])
    BY ONLY <2>1, <2>2, SMTT(20)
  <2>4. QED
    BY <2>1, <2>2, <2>3, Zenon
<1>2. /\ next' \in [Tasks -> Nat \ {0}] /\ next'[t] = next[t] + 1
      /\ call' \in [Tasks -> {"user", "ready", "wait"}] /\ call'[t] = "ready"
      /\ \A u \in Tasks : u # t => next'[u] = next[u] /\ call'[u] = call[u]
  <2>1. /\ next \in [Tasks -> Nat \ {0}] /\ call \in [Tasks -> {"user", "ready", "wait"}]
        /\ next' = [next EXCEPT ![t] = @ + 1] /\ call' = [call EXCEPT ![t] = "ready"]
        /\ t \in Tasks
    BY Zenon DEF Call, TypeOK
  <2>2. QED
    BY ONLY <2>1
<1>3. UNCHANGED <<request, queue, ppc, stage, capacity, saturation, room, moved, again,
                  anyCompleted, tmp, batch, reqs, done, inflight, unchecked, finished,
                  cqueue, csnap, cheld, stored, notified, unissued, aborted>>
  BY DEF Call
<1>4. /\ task' = task /\ token' = token
      /\ events' = IF o \in Blocking THEN events ELSE [events EXCEPT ![t] = @ + 1]
  BY DEF Call, BindEvents, IncreaseEvents
<1>5. TypeOK'
  <2>1. ALPIType'
    <3>1. /\ task \in [Tasks -> TaskState] /\ events \in [Tasks -> Nat] /\ token \in [Tasks -> BOOLEAN]
          /\ task' = task /\ token' = token
      BY <1>4, Zenon DEF TypeOK, ALPIType
    <3>2. CASE o \in Blocking
      <4>1. events' = events
        BY <1>4, <3>2, Zenon
      <4>2. QED
        BY <3>1, <4>1, Zenon DEF ALPIType
    <3>3. CASE o \notin Blocking
      <4>1. events' = [events EXCEPT ![t] = @ + 1]
        BY <1>4, <3>3, Zenon
      <4>2. events' \in [Tasks -> Nat]
        BY ONLY <3>1, <4>1, SMTT(20)
      <4>3. QED
        BY <3>1, <4>2, Zenon DEF ALPIType
    <3>4. QED
      BY <3>2, <3>3, Zenon
  <2>2. \A u \in Tasks : next'[u] <= Len(Program[u]) + 1
    <3>1. \A u \in Tasks : next[u] <= Len(Program[u]) + 1
      BY DEF TypeOK
    <3>2. next'[t] <= Len(Program[t]) + 1
      <4>1. next[t] \in 1..Len(Program[t])
        BY <1>1
      <4>2. next'[t] = next[t] + 1
        BY <1>2
      <4>3. Len(Program[t]) \in Nat
        BY ProgramAssumption
      <4>4. QED
        BY ONLY <4>1, <4>2, <4>3, SMTT(20)
    <3>3. QED
      BY <1>2, <3>1, <3>2
  <2>3. allocated' \subseteq Ops
    BY <1>1 DEF Call, TypeOK
  <2>4. QED
    BY <1>2, <1>3, <2>1, <2>2, <2>3 DEF TypeOK, MPIType
<1>6. LocalsInUse' /\ RoomLeft'
  BY <1>3 DEF LocalsInUse, RoomLeft
<1>7. NoDuplicates'
  BY <1>3, NoDuplicatesFrame
<1>8. WhereOperationsAre'
  <2> SUFFICES ASSUME NEW u \in Tasks, NEW i \in 1..Len(Program[u]) PROVE WhereIs(u, i)'
    BY DEF WhereOperationsAre
  <2>1. WhereIs(u, i)
    BY DEF WhereOperationsAre
  <2>2. Waiting(Program[u][i])' <=> Waiting(Program[u][i])
    BY <1>3 DEF Waiting
  <2>3. Pushed(u, i)' <=> Pushed(u, i)
    <3>1. i \in Nat /\ next[u] \in Nat
      <4>1. next[u] \in Nat
        BY Zenon DEF TypeOK
      <4>2. Len(Program[u]) \in Nat /\ i \in 1..Len(Program[u])
        BY ProgramType, Zenon
      <4>3. QED
        BY ONLY <4>1, <4>2, SMTT(20)
    <3>2. CASE u = t
      <4>1. next'[u] = next[u] + 1 /\ call[u] = "user" /\ call'[u] = "ready"
        BY <1>1, <1>2, <3>2, Zenon
      <4>2. QED
        BY ONLY <3>1, <4>1, SMTT(20) DEF Pushed
    <3>3. CASE u # t
      BY <1>2, <3>3, Zenon DEF Pushed
    <3>4. QED
      BY <3>2, <3>3, Zenon
  <2>4. QED
    BY <1>3, <2>1, <2>2, <2>3 DEF WhereIs
<1>9. Handshake'
  <2> SUFFICES ASSUME NEW u \in Tasks PROVE HandshakeOf(u)'
    BY DEF Handshake
  <2>1. HandshakeOf(u)
    BY DEF Handshake
  <2>2. CASE u # t
    <3>1. events'[u] = events[u]
      BY <1>4, <2>2 DEF TypeOK, ALPIType
    <3>2. Current(u)' = Current(u) /\ \A i \in 1..Len(Program[u]) : Past(u, i)' <=> Past(u, i)
      BY <1>2, <1>4, <2>2 DEF Past, Current
    <3>3. QED
      BY <1>2, <1>3, <1>4, <2>1, <2>2, <3>1, <3>2 DEF HandshakeOf
  <2>3. CASE u = t
    <3>1. ~token[t]
      BY <1>1, <2>1, <2>3 DEF HandshakeOf
    <3>2. \A i \in 1..Len(Program[t]) : Past(t, i)' => Past(t, i)
      <4>1. /\ next[t] \in Nat /\ Len(Program[t]) \in Nat /\ next'[t] = next[t] + 1
            /\ call[t] = "user" /\ call'[t] = "ready" /\ task[t] # "blocked"
        BY <1>1, <1>2
      <4>2. ASSUME NEW i \in 1..Len(Program[t]), Past(t, i)'
            PROVE  i < next[t]
        BY <4>1, <4>2 DEF Past
      <4>3. ASSUME NEW i \in 1..Len(Program[t]), i < next[t]
            PROVE  Past(t, i)
        BY <4>1, <4>3 DEF Past
      <4>4. QED
        BY <4>2, <4>3
    <3>3. \A i \in 1..Len(Program[t]) :
            Program[t][i] \in Blocking /\ Past(t, i)' => Program[t][i] \in notified'
      BY <1>3, <2>1, <2>3, <3>2 DEF HandshakeOf
    <3>4. task'[t] = "running" /\ ~token'[t] /\ call'[t] = "ready" /\ next'[t] # 1
      <4>1. next'[t] # 1
        BY <1>1, <1>2
      <4>2. QED
        BY <1>1, <1>2, <1>4, <3>1, <4>1, Zenon
    <3>5. QED
      BY <2>3, <3>3, <3>4 DEF HandshakeOf
  <2>4. QED
    BY <2>2, <2>3
<1>10. o \notin notified
  <2>1. WhereIs(t, next[t])
    BY <1>1 DEF WhereOperationsAre
  <2>2. ~Pushed(t, next[t])
    BY <1>1 DEF Pushed
  <2>3. QED
    BY <2>1, <2>2 DEF WhereIs
<1>11. EventsMatch'
  <2> SUFFICES ASSUME NEW u \in Tasks PROVE events'[u] = Cardinality(OpenEvents(u)')
    BY DEF EventsMatch
  <2>1. events[u] = Cardinality(OpenEvents(u))
    BY DEF EventsMatch
  <2>2. CASE u = t /\ o \notin Blocking
    <3>1. OpenEvents(u)' = OpenEvents(t) \cup {next[t]} /\ next[t] \notin OpenEvents(t)
      <4>1. /\ u = t /\ next'[t] = next[t] + 1 /\ notified' = notified
            /\ next[t] \in 1..Len(Program[t]) /\ Len(Program[t]) \in Nat
            /\ Program[t][next[t]] \notin Blocking /\ Program[t][next[t]] \notin notified
        BY <1>1, <1>2, <1>3, <1>10, <2>2, Zenon
      <4>2. QED
        BY ONLY <4>1 DEF OpenEvents
    <3>2. Cardinality(OpenEvents(u)') = Cardinality(OpenEvents(t) \cup {next[t]})
      BY <3>1, Zenon
    <3>3. Cardinality(OpenEvents(t) \cup {next[t]}) = Cardinality(OpenEvents(t)) + 1
      BY <3>1, OpenEventsFinite, FS_AddElement
    <3>4. events'[t] = events[t] + 1
      BY <1>4, <2>2 DEF TypeOK, ALPIType
    <3>5. QED
      BY <2>1, <2>2, <3>2, <3>3, <3>4
  <2>3. CASE u # t \/ o \in Blocking
    <3>1. OpenEvents(u)' = OpenEvents(u)
      <4>1. notified' = notified /\ next[u] \in Nat /\ next[t] \in Nat
        BY <1>3 DEF TypeOK
      <4>2. CASE u # t
        <5>1. next'[u] = next[u]
          BY <1>2, <4>2 DEF TypeOK
        <5>2. QED
          BY <4>1, <5>1 DEF OpenEvents
      <4>3. CASE u = t
        <5>1. next'[t] = next[t] + 1 /\ Program[t][next[t]] \in Blocking
          BY <1>2, <2>3, <4>3 DEF TypeOK
        <5>2. 1..(next'[t] - 1) = 1..(next[t] - 1) \cup {next[t]} /\ next[t] \in 1..next[t]
          <6>1. next[t] \in 1..Len(Program[t]) /\ Len(Program[t]) \in Nat
            BY <1>1, Zenon
          <6>2. QED
            BY ONLY <5>1, <6>1, SMTT(20)
        <5>3. QED
          BY <4>1, <4>3, <5>1, <5>2 DEF OpenEvents
      <4>4. QED
        BY <4>2, <4>3
    <3>2. Cardinality(OpenEvents(u)') = Cardinality(OpenEvents(u))
      BY <3>1, Zenon
    <3>3. events'[u] = events[u]
      BY <1>4, <2>3 DEF TypeOK, ALPIType
    <3>4. QED
      BY <2>1, <3>2, <3>3
  <2>4. QED
    BY <2>2, <2>3
<1>12. QED
  BY <1>5, <1>6, <1>7, <1>8, <1>9, <1>11

(***************************************************************************)
(* addOperation puts the operation on one pre-queue, once.                 *)
(***************************************************************************)
LEMMA AddOperationStep ==
  ASSUME IInv, NEW t \in Tasks, NEW q \in Queues, AddOperation(t, q)
  PROVE  IInv'
<1> USE DEF alpiVars, complVars, pollVars, IInv
<1>0. call[t] = "ready" /\ next[t] - 1 \in 1..Len(Program[t]) /\ Current(t) \in Ops
  BY CurrentPlace DEF AddOperation
<1> PICK i \in 1..Len(Program[t]) : i = next[t] - 1
  BY <1>0
<1> DEFINE o == Program[t][i]
<1>1. call[t] = "ready" /\ o \in Ops /\ o = Current(t)
  BY <1>0 DEF Current
<1>2. ~Pushed(t, i)
  BY <1>1 DEF Pushed
<1>3. request[o] = "none" /\ ~Waiting(o) /\ o \notin notified
  <2>1. WhereIs(t, i)
    BY <1>1 DEF WhereOperationsAre
  <2>2. request[o] = "none"
    BY <1>1, <1>2, <2>1 DEF WhereIs
  <2>3. QED
    BY <1>1, <1>2, <2>1, <2>2 DEF WhereIs
<1>4. CASE Fail
  BY <1>4, FailStep
<1>5. CASE /\ queue' = [queue EXCEPT ![q] = Append(@, o)]
           /\ unissued' = [unissued EXCEPT ![q] = Append(@, o)]
           /\ call' = [call EXCEPT ![t] = AfterPush(o)]
           /\ UNCHANGED <<task, events, token, request, next, allocated, ppc, stage, capacity,
                          saturation, room, moved, again, anyCompleted, tmp, batch, reqs, done,
                          inflight, unchecked, finished, cqueue, csnap, cheld, stored, notified,
                          aborted>>
  <2>1. queue[q] \in Seq(Ops) /\ unissued[q] \in Seq(Ops)
    BY DEF TypeOK
  <2>2. /\ Append(queue[q], o) \in Seq(Ops) /\ Append(unissued[q], o) \in Seq(Ops)
        /\ Elements(Append(queue[q], o)) = Elements(queue[q]) \cup {o}
        /\ Distinct(Append(queue[q], o))
    <3>1. Distinct(queue[q]) /\ o \notin Elements(queue[q])
      BY <1>3 DEF NoDuplicates, Waiting
    <3>2. o \in Ops
      BY <1>1
    <3> HIDE DEF o, IInv
    <3>3. Append(unissued[q], o) \in Seq(Ops)
      BY <2>1, <3>2, ElementsAppend
    <3>4. QED
      BY <2>1, <3>1, <3>2, <3>3, ElementsAppend
  <2>3. /\ queue' \in [Queues -> Seq(Ops)] /\ queue'[q] = Append(queue[q], o)
        /\ \A r \in Queues : r # q => queue'[r] = queue[r]
        /\ unissued' \in [Queues -> Seq(Ops)]
    BY <1>1, <1>5, <2>2 DEF TypeOK
  <2>4. Elements(queue'[q]) = Elements(queue[q]) \cup {o} /\ Distinct(queue'[q])
    BY <2>2, <2>3
  <2>5. /\ call' \in [Tasks -> {"user", "ready", "wait"}]
        /\ call'[t] = IF o \in Blocking THEN "wait" ELSE "user"
        /\ \A u \in Tasks : u # t => call'[u] = call[u]
    BY <1>5 DEF AfterPush, TypeOK
  <2>6. TypeOK'
    <3>1. ALPIType' /\ MPIType'
      BY <1>5 DEF TypeOK, ALPIType, MPIType
    <3>2. queue' \in [Queues -> Seq(Ops)] /\ unissued' \in [Queues -> Seq(Ops)]
      BY <2>3, Zenon
    <3>3. call' \in [Tasks -> {"user", "ready", "wait"}]
      BY <2>5, Zenon
    <3> HIDE DEF o
    <3>4. QED
      BY <1>5, <3>1, <3>2, <3>3, ZenonT(30) DEF TypeOK
  <2>7. LocalsInUse' /\ RoomLeft'
    BY <1>5 DEF LocalsInUse, RoomLeft
  <2>8. NoDuplicates'
    <3>1. \A r \in Queues : Distinct(queue'[r])
      BY <2>3, <2>4 DEF NoDuplicates
    <3>2. \A r \in Queues : Elements(queue'[r]) \cap Elements(tmp) = {}
      <4>1. o \notin Elements(tmp) /\ \A r \in Queues : Elements(queue[r]) \cap Elements(tmp) = {}
        BY <1>3 DEF NoDuplicates, Waiting
      <4>2. QED
        BY <2>3, <2>4, <4>1
    <3>3. \A r, p \in Queues : r # p => Elements(queue'[r]) \cap Elements(queue'[p]) = {}
      <4>1. \A r \in Queues : r # q => Elements(queue'[r]) \cap Elements(queue'[q]) = {}
        BY <1>3, <2>3, <2>4 DEF NoDuplicates, Waiting
      <4>2. ASSUME NEW r \in Queues, NEW p \in Queues, r # p, r # q, p # q
            PROVE  Elements(queue'[r]) \cap Elements(queue'[p]) = {}
        BY <2>3, <4>2 DEF NoDuplicates
      <4>3. QED
        BY <4>1, <4>2
    <3>4. QED
      BY <1>5, <3>1, <3>2, <3>3 DEF NoDuplicates
  <2>9. WhereOperationsAre'
    <3> SUFFICES ASSUME NEW u \in Tasks, NEW j \in 1..Len(Program[u]) PROVE WhereIs(u, j)'
      BY DEF WhereOperationsAre
    <3>1. WhereIs(u, j)
      BY DEF WhereOperationsAre
    <3>2. CASE u = t /\ j = i
      <4>1. Pushed(u, j)' /\ Waiting(o)'
        <5>0. next[t] \in Nat
          BY DEF TypeOK
        <5>1. call'[t] # "ready" /\ next'[t] = next[t]
          BY <1>5, <2>5
        <5>2. Pushed(u, j)'
          <6>1. next[t] - 1 < next[t]
            BY ONLY <5>0
          <6>2. j < next'[u] /\ call'[u] # "ready"
            BY <3>2, <5>1, <6>1, Zenon
          <6>3. QED
            BY <6>2, Zenon DEF Pushed
        <5>3. o \in Elements(queue'[q])
          BY <2>4
        <5>4. QED
          BY <5>2, <5>3 DEF Waiting
      <4>2. QED
        BY <1>1, <1>3, <1>5, <3>1, <3>2, <4>1 DEF WhereIs
    <3>3. CASE ~(u = t /\ j = i)
      <4>1. Program[u][j] # o
        <5> SUFFICES ASSUME Program[t][i] = Program[u][j] PROVE FALSE
          OBVIOUS
        <5> HIDE DEF IInv
        <5>0. /\ t \in Tasks /\ i \in 1..Len(Program[t])
              /\ u \in Tasks /\ j \in 1..Len(Program[u])
              /\ Program[t][i] = Program[u][j]
          BY Zenon
        <5>1. t = u /\ i = j
          BY ONLY <5>0, ProgramInjective, SMTT(20)
        <5>2. QED
          BY <3>3, <5>1
      <4>2. Waiting(Program[u][j])' <=> Waiting(Program[u][j])
        BY <1>5, <2>3, <2>4, <4>1 DEF Waiting
      <4>3. Pushed(u, j)' <=> Pushed(u, j)
        BY <1>5, <2>5, <3>3 DEF Pushed
      <4>4. QED
        BY <1>5, <3>1, <4>2, <4>3 DEF WhereIs
    <3>4. QED
      BY <3>2, <3>3
  <2>10. Handshake'
    <3> SUFFICES ASSUME NEW u \in Tasks PROVE HandshakeOf(u)'
      BY DEF Handshake
    <3>1. HandshakeOf(u)
      BY DEF Handshake
    <3>2. CASE u # t
      BY <1>5, <2>5, <3>1, <3>2 DEF HandshakeOf, Past, Current
    <3>3. CASE u = t
      <4>1. task[t] = "running" /\ ~token[t] /\ next[t] # 1
        BY <1>1, <3>1, <3>3 DEF HandshakeOf, TypeOK, ALPIType, TaskState
      <4>2. \A j \in 1..Len(Program[t]) :
              Program[t][j] \in Blocking /\ Past(t, j)' => Past(t, j)
        BY <1>1, <1>5, <2>5 DEF Past, Current
      <4>3. Current(t)' = o
        BY <1>5 DEF Current
      <4>4. QED
        BY <1>3, <1>5, <2>5, <3>1, <3>3, <4>1, <4>2, <4>3 DEF HandshakeOf
    <3>4. QED
      BY <3>2, <3>3
  <2>11. EventsMatch'
    BY <1>5, EventsFrame
  <2>12. QED
    BY <2>6, <2>7, <2>8, <2>9, <2>10, <2>11
<1>6. QED
  BY <1>1, <1>4, <1>5 DEF AddOperation, taskVars

(***************************************************************************)
(* waitEventsCompletion blocks the task, or uses up the unblock that came  *)
(* first.                                                                  *)
(***************************************************************************)
LEMMA WaitEventsCompletionStep ==
  ASSUME IInv, NEW t \in Tasks, WaitEventsCompletion(t)
  PROVE  IInv'
<1> USE DEF alpiVars, complVars, pollVars, IInv
<1>1. /\ call[t] = "wait" /\ HandshakeOf(t) /\ task[t] = "running"
      /\ next[t] - 1 \in 1..Len(Program[t])
  BY CurrentPlace DEF WaitEventsCompletion, Handshake, HandshakeOf
<1>2. /\ UNCHANGED <<events, request, next, queue, allocated, ppc, stage, capacity, saturation,
                     room, moved, again, anyCompleted, tmp, batch, reqs, done, inflight, unchecked,
                     finished, cqueue, csnap, cheld, stored, notified, unissued, aborted>>
      /\ task' = [task EXCEPT ![t] = IF token[t] THEN @ ELSE "blocked"]
      /\ token' = [token EXCEPT ![t] = FALSE]
      /\ call' = [call EXCEPT ![t] = "user"]
  BY DEF WaitEventsCompletion, BlockTask
<1>3. /\ task' \in [Tasks -> TaskState] /\ call' \in [Tasks -> {"user", "ready", "wait"}]
      /\ \A u \in Tasks : u # t => task'[u] = task[u] /\ call'[u] = call[u] /\ token'[u] = token[u]
      /\ task'[t] = (IF token[t] THEN "running" ELSE "blocked") /\ call'[t] = "user"
  BY <1>1, <1>2 DEF TypeOK, ALPIType, TaskState
<1>4. token' \in [Tasks -> BOOLEAN]
  BY <1>2 DEF TypeOK, ALPIType
<1>5. ~token'[t]
  BY <1>2 DEF TypeOK, ALPIType
<1>6. TypeOK'
  <2>1. ALPIType'
    BY <1>2, <1>3, <1>4 DEF TypeOK, ALPIType
  <2>2. MPIType'
    BY <1>2 DEF TypeOK, MPIType
  <2>3. call' \in [Tasks -> {"user", "ready", "wait"}]
    BY <1>3, Zenon
  <2>4. QED
    BY <1>2, <2>1, <2>2, <2>3, ZenonT(30) DEF TypeOK
<1>7. LocalsInUse' /\ RoomLeft'
  BY <1>2 DEF LocalsInUse, RoomLeft
<1>8. NoDuplicates' /\ EventsMatch'
  BY <1>2, NoDuplicatesFrame, EventsFrame
<1>9. WhereOperationsAre'
  <2> SUFFICES ASSUME NEW u \in Tasks, NEW j \in 1..Len(Program[u]) PROVE WhereIs(u, j)'
    BY DEF WhereOperationsAre
  <2>1. WhereIs(u, j)
    BY DEF WhereOperationsAre
  <2>2. (Pushed(u, j)' <=> Pushed(u, j)) /\ (Waiting(Program[u][j])' <=> Waiting(Program[u][j]))
    BY <1>1, <1>2, <1>3 DEF Pushed, Waiting
  <2>3. UNCHANGED <<request, reqs, inflight, finished, done, cqueue, notified, stored>>
    BY <1>2
  <2>4. QED
    BY <2>1, <2>2, <2>3 DEF WhereIs
<1>10. Handshake'
  <2> SUFFICES ASSUME NEW u \in Tasks PROVE HandshakeOf(u)'
    BY DEF Handshake
  <2>1. HandshakeOf(u)
    BY DEF Handshake
  <2>2. CASE u # t
    <3>1. /\ UNCHANGED <<events, next, notified>>
          /\ task'[u] = task[u] /\ call'[u] = call[u] /\ token'[u] = token[u]
      BY <1>2, <1>3, <2>2, Zenon
    <3>2. QED
      BY ONLY <2>1, <3>1, SMTT(20) DEF HandshakeOf, Past, Current
  <2>3. CASE u = t
    <3>1. Current(t)' = Current(t) /\ Current(t) \in Blocking /\ (token[t] <=> Current(t) \in notified)
      BY <1>1, <1>2 DEF HandshakeOf, Current
    <3>2. \A j \in 1..Len(Program[t]) :
            Past(t, j)' => Past(t, j) \/ (Program[t][j] = Current(t) /\ token[t])
      BY <1>2, <1>3 DEF Past, Current
    <3>3. QED
      BY <1>1, <1>2, <1>3, <1>5, <2>1, <2>3, <3>1, <3>2 DEF HandshakeOf
  <2>4. QED
    BY <2>2, <2>3
<1>11. QED
  BY <1>6, <1>7, <1>8, <1>9, <1>10

(***************************************************************************)
(* A task body ends after its last call returned.                          *)
(***************************************************************************)
LEMMA FinishStep ==
  ASSUME IInv, NEW t \in Tasks, Finish(t)
  PROVE  IInv'
<1> USE DEF alpiVars, taskVars, complVars, pollVars, IInv
<1>1. /\ call[t] = "user" /\ next[t] = Len(Program[t]) + 1 /\ task[t] = "running"
      /\ task' = [task EXCEPT ![t] = IF events[t] = 0 THEN "completed" ELSE "finished"]
      /\ UNCHANGED <<events, token, request, next, call, queue, allocated, ppc, stage, capacity,
                     saturation, room, moved, again, anyCompleted, tmp, batch, reqs, done, inflight,
                     unchecked, finished, cqueue, csnap, cheld, stored, notified, unissued, aborted>>
  BY DEF Finish, FinishBody
<1>2. /\ task' \in [Tasks -> TaskState]
      /\ \A u \in Tasks : u # t => task'[u] = task[u]
      /\ task'[t] = IF events[t] = 0 THEN "completed" ELSE "finished"
  BY <1>1 DEF TypeOK, ALPIType, TaskState
<1>3. TypeOK'
  <2>1. ALPIType'
    BY <1>1, <1>2, Zenon DEF TypeOK, ALPIType
  <2>2. MPIType'
    BY <1>1, Zenon DEF TypeOK, MPIType
  <2>3. QED
    BY <1>1, <2>1, <2>2, ZenonT(30) DEF TypeOK
<1>4. LocalsInUse' /\ RoomLeft'
  BY <1>1 DEF LocalsInUse, RoomLeft
<1>5. NoDuplicates' /\ WhereOperationsAre' /\ EventsMatch'
  BY <1>1, NoDuplicatesFrame, WhereFrame, EventsFrame
<1>6. Handshake'
  <2> SUFFICES ASSUME NEW u \in Tasks PROVE HandshakeOf(u)'
    BY DEF Handshake
  <2>1. HandshakeOf(u)
    BY DEF Handshake
  <2>2. CASE u # t
    BY <1>1, <1>2, <2>1, <2>2 DEF HandshakeOf, Past, Current
  <2>3. CASE u = t
    BY <1>1, <1>2, <2>1, <2>3 DEF HandshakeOf, Past, Current
  <2>4. QED
    BY <2>2, <2>3
<1>7. QED
  BY <1>3, <1>4, <1>5, <1>6

-----------------------------------------------------------------------------
(***************************************************************************)
(* consume_all takes no more contexts than the completion queue holds.     *)
(***************************************************************************)
LEMMA ProcessBeginStep ==
  ASSUME IInv, ProcessBegin
  PROVE  IInv'
<1> USE DEF ProcessBegin, alpiVars, taskVars, pollVars, IInv
<1>1. csnap' = Len(cqueue) /\ csnap' \in Nat
  <2>1. csnap' = Len(cqueue)
    OBVIOUS
  <2> HIDE DEF ProcessBegin
  <2>2. cqueue \in Seq(Ops)
    BY DEF TypeOK
  <2>3. QED
    BY <2>1, <2>2
<1>2. TypeOK'
  BY <1>1 DEF TypeOK, ALPIType, MPIType
<1>3. LocalsInUse' /\ RoomLeft'
  BY <1>1 DEF LocalsInUse, RoomLeft
<1>4. NoDuplicates' /\ WhereOperationsAre' /\ Handshake' /\ EventsMatch'
  BY NoDuplicatesFrame, WhereFrame, HandshakeFrame, EventsFrame
<1>5. QED
  BY <1>2, <1>3, <1>4

(***************************************************************************)
(* CompletionManager::process completes a context and takes it from its    *)
(* queue.                                                                  *)
(***************************************************************************)
LEMMA ProcessContextStep ==
  ASSUME IInv, ProcessContext
  PROVE  IInv'
<1> DEFINE o == Head(cqueue)
<1> USE DEF alpiVars, taskVars, pollVars, IInv
<1>1. cqueue \in Seq(Ops) /\ cqueue # <<>> /\ csnap \in Nat \ {0} /\ csnap <= Len(cqueue)
  <2>1. csnap > 0
    BY DEF ProcessContext
  <2>2. cqueue \in Seq(Ops) /\ csnap \in Nat
    BY DEF TypeOK
  <2>3. csnap <= Len(cqueue)
    BY DEF LocalsInUse
  <2>4. QED
    BY <2>1, <2>2, <2>3
<1>2. /\ cqueue' \in Seq(Ops) /\ Len(cqueue') = Len(cqueue) - 1
      /\ o \in Ops /\ o \in Elements(cqueue)
      /\ Elements(cqueue) = Elements(cqueue') \cup {o}
      /\ Distinct(cqueue') /\ o \notin Elements(cqueue')
  BY <1>1, ElementsTail DEF ProcessContext, NoDuplicates
<1>3. request[o] = "null" /\ o \notin notified /\ o \notin done
  BY <1>2, WhereSummary DEF NoDuplicates
<1>4. UNCHANGED <<request, next, call, queue, allocated, ppc, stage, capacity, saturation, room,
                  moved, again, anyCompleted, tmp, batch, reqs, done, inflight, unchecked,
                  finished, stored, unissued, aborted>>
  BY DEF ProcessContext
<1>5. ALPIType' /\ Handshake' /\ EventsMatch'
  BY <1>2, <1>3, <1>4, CompleteEventsStep DEF ProcessContext
<1>6. notified' = notified \cup {o}
  BY DEF ProcessContext, CompleteEvents
<1>7. csnap' \in Nat /\ cheld' \in Nat /\ csnap' <= Len(cqueue')
  <2>1. csnap' = csnap - 1 /\ cheld' = IF csnap = 1 THEN 0 ELSE cheld + 1
    BY DEF ProcessContext
  <2>2. cheld \in Nat
    BY DEF TypeOK
  <2>3. Len(cqueue) \in Nat /\ Len(cqueue') = Len(cqueue) - 1
    BY <1>1, <1>2
  <2>4. QED
    BY <1>1, <2>1, <2>2, <2>3
<1>8. TypeOK'
  <2>1. MPIType'
    BY <1>4, Zenon DEF TypeOK, MPIType
  <2>2. cqueue' \in Seq(Ops) /\ notified' \subseteq Ops
    BY <1>2, <1>6 DEF TypeOK
  <2>3. QED
    BY <1>4, <1>5, <1>7, <2>1, <2>2, ZenonT(30) DEF TypeOK
<1>9. LocalsInUse' /\ RoomLeft'
  BY <1>4, <1>7 DEF LocalsInUse, RoomLeft
<1>10. NoDuplicates'
  <2>1. done \cap Elements(cqueue') = {}
    BY <1>2 DEF NoDuplicates
  <2>2. QED
    BY <1>2, <1>4, <2>1 DEF NoDuplicates
<1>11. WhereOperationsAre'
  <2> SUFFICES ASSUME NEW t \in Tasks, NEW i \in 1..Len(Program[t]) PROVE WhereIs(t, i)'
    BY DEF WhereOperationsAre
  <2>1. WhereIs(t, i)
    BY DEF WhereOperationsAre
  <2>2. Waiting(Program[t][i])' <=> Waiting(Program[t][i])
    BY <1>4 DEF Waiting
  <2>3. Pushed(t, i)' <=> Pushed(t, i)
    BY <1>4 DEF Pushed
  <2>4. CASE Program[t][i] = o
    BY <1>2, <1>3, <1>4, <1>6, <2>1, <2>2, <2>3, <2>4 DEF WhereIs
  <2>5. CASE Program[t][i] # o
    BY <1>2, <1>4, <1>6, <2>1, <2>2, <2>3, <2>5 DEF WhereIs
  <2>6. QED
    BY <2>4, <2>5
<1>12. QED
  BY <1>5, <1>8, <1>9, <1>10, <1>11

-----------------------------------------------------------------------------
(***************************************************************************)
(* MPI completing a request moves no operation.                            *)
(***************************************************************************)
LEMMA ProgressStep ==
  ASSUME IInv, NEW o \in Ops, Progress(o)
  PROVE  IInv'
<1> USE DEF alpiVars, taskVars, complVars, pollVars, IInv
<1>1. /\ request' \in [Ops -> RequestState] /\ request[o] = "active" /\ request'[o] = "complete"
      /\ \A p \in Ops : p # o => request'[p] = request[p]
  BY DEF Progress, MPIProgress, TypeOK, MPIType, RequestState
<1>2. UNCHANGED <<task, events, token, next, call, queue, allocated, ppc, stage, capacity,
                  saturation, room, moved, again, anyCompleted, tmp, batch, reqs, done, inflight,
                  unchecked, finished, cqueue, csnap, cheld, stored, notified, unissued, aborted>>
  BY DEF Progress
<1>3. TypeOK'
  BY <1>1, <1>2 DEF TypeOK, ALPIType, MPIType
<1>4. LocalsInUse' /\ RoomLeft'
  BY <1>2 DEF LocalsInUse, RoomLeft
<1>5. NoDuplicates' /\ Handshake' /\ EventsMatch'
  BY <1>2, NoDuplicatesFrame, HandshakeFrame, EventsFrame
<1>6. WhereOperationsAre'
  <2> SUFFICES ASSUME NEW t \in Tasks, NEW i \in 1..Len(Program[t]) PROVE WhereIs(t, i)'
    BY DEF WhereOperationsAre
  <2>1. Program[t][i] \in Ops /\ WhereIs(t, i)
    BY ProgramType DEF WhereOperationsAre
  <2>2. Waiting(Program[t][i])' <=> Waiting(Program[t][i])
    BY <1>2 DEF Waiting
  <2>3. QED
    BY <1>1, <1>2, <2>1, <2>2 DEF WhereIs, Pushed
<1>7. QED
  BY <1>3, <1>4, <1>5, <1>6

(***************************************************************************)
(* Time passing during saturation moves no operation.                      *)
(***************************************************************************)
LEMMA TimeoutElapsesStep ==
  ASSUME IInv, TimeoutElapses
  PROVE  IInv'
<1> USE DEF TimeoutElapses, alpiVars, taskVars, complVars, IInv
<1>1. TypeOK'
  BY DEF TypeOK, ALPIType, MPIType
<1>2. LocalsInUse' /\ RoomLeft'
  BY DEF LocalsInUse, RoomLeft
<1>3. NoDuplicates' /\ WhereOperationsAre' /\ Handshake' /\ EventsMatch'
  BY NoDuplicatesFrame, WhereFrame, HandshakeFrame, EventsFrame
<1>4. QED
  BY <1>1, <1>2, <1>3

=============================================================================
