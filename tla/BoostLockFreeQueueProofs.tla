---------------------- MODULE BoostLockFreeQueueProofs ----------------------
(***************************************************************************)
(* The pool of operations and the pre-queue of the collectives: the pool   *)
(* never hands an object out twice, never loses one and fails only when it *)
(* is exhausted, and the ring implements a FIFO, for any number of CPUs    *)
(* and objects and any batch and queue size.                               *)
(***************************************************************************)
EXTENDS BoostLockFreeQueue, FiniteSetTheorems, FunctionTheorems, SequenceTheorems, TLAPS

\* Zenon is tried first, briefly, and both provers get more time than by default.
USE ZenonT(4), SMTT(20), ZenonT(20)

(***************************************************************************)
(* The CPU between lock and unlock is the holder of _mutex.                *)
(***************************************************************************)
OneConsumer == \A c \in CPUs : pc[c] \in {"pop", "popped", "unlock"} => holder = c

(***************************************************************************)
(* What a CPU has copied out of _central is still there until it moves the *)
(* read index: nobody else takes objects, and free only adds some.         *)
(***************************************************************************)
CopiedStillThere == \A c \in CPUs : pc[c] = "popped" => got[c] \subseteq central

(***************************************************************************)
(* OneOwner, object by object.                                             *)
(***************************************************************************)
Everywhere ==
  \A o \in Objects : o \in central \/ o \in inUse \/ \E c \in CPUs : o \in Held(c)

Disjoint ==
  /\ \A o \in central : o \notin inUse
  /\ \A c \in CPUs : \A o \in Held(c) : o \notin central /\ o \notin inUse
  /\ \A c \in CPUs : \A o \in InHand(c) : o \notin cache[c]
  /\ \A c, d \in CPUs : \A o \in Held(c) : o \in Held(d) => c = d

PoolInv == TypeOK /\ OneConsumer /\ CopiedStillThere /\ Everywhere /\ Disjoint

(***************************************************************************)
(* The constructor, which pushes every object into _central, establishes   *)
(* the invariant.                                                          *)
(***************************************************************************)
LEMMA PoolInit == Init => PoolInv
BY AllocatorAssumption DEF Init, PoolInv, TypeOK, Steps, OneConsumer, CopiedStillThere,
   Everywhere, Disjoint, Held, InHand

(***************************************************************************)
(* alloc from the CPU's own cache moves one object from the cache to its   *)
(* user.                                                                   *)
(***************************************************************************)
LEMMA CachedStep ==
  ASSUME PoolInv, NEW c \in CPUs, AllocCached(c)
  PROVE  PoolInv'
<1> USE DEF PoolInv, TypeOK
<1>1. PICK o \in cache[c] : cache' = [cache EXCEPT ![c] = @ \ {o}] /\ inUse' = inUse \cup {o}
  BY DEF AllocCached
<1>2. o \in Objects
  BY <1>1
<1>3. TypeOK'
  BY <1>1, <1>2 DEF AllocCached
<1>4. OneConsumer' /\ CopiedStillThere'
  BY DEF AllocCached, OneConsumer, CopiedStillThere
<1>5. \A d \in CPUs : InHand(d)' = InHand(d)
  BY DEF AllocCached, InHand
<1>6. o \in Held(c) /\ o \notin InHand(c)
  BY <1>1 DEF Held, Disjoint
<1>7. \A d \in CPUs : Held(d)' = IF d = c THEN Held(c) \ {o} ELSE Held(d)
  BY <1>1, <1>5, <1>6 DEF Held
<1>8. central' = central
  BY DEF AllocCached
<1>9. Everywhere'
  BY <1>1, <1>7, <1>8 DEF Everywhere
<1>10. Disjoint'
  BY <1>1, <1>5, <1>6, <1>7, <1>8 DEF Disjoint
<1> QED
  BY <1>3, <1>4, <1>9, <1>10

(***************************************************************************)
(* alloc moving the read index takes the copied objects from _central into *)
(* the CPU's hands.                                                        *)
(***************************************************************************)
LEMMA PublishStep ==
  ASSUME PoolInv, NEW c \in CPUs, PopPublish(c)
  PROVE  PoolInv'
<1> USE DEF PoolInv, TypeOK
<1>1. pc[c] = "popped" /\ got[c] \subseteq central
  BY DEF PopPublish, CopiedStillThere
<1>2. TypeOK'
  BY DEF PopPublish, Goto, Steps
<1>3. OneConsumer'
  BY <1>1 DEF PopPublish, Goto, OneConsumer
<1>4. CopiedStillThere'
  BY <1>1 DEF PopPublish, Goto, OneConsumer, CopiedStillThere
<1>5. \A d \in CPUs : InHand(d)' = IF d = c THEN got[c] ELSE InHand(d)
  BY DEF PopPublish, Goto, InHand
<1>6. InHand(c) = {}
  BY <1>1 DEF InHand
<1>7. \A d \in CPUs : Held(d)' = IF d = c THEN Held(c) \cup got[c] ELSE Held(d)
  BY <1>5, <1>6 DEF Held, PopPublish
<1>8. central' = central \ got[c] /\ inUse' = inUse /\ cache' = cache
  BY DEF PopPublish
<1>9. Everywhere'
  BY <1>7, <1>8 DEF Everywhere
<1>10. \A d \in CPUs : \A o \in got[c] : o \notin Held(d) /\ o \notin inUse /\ o \notin cache[d]
  BY <1>1 DEF Disjoint, Held
<1>11. Disjoint'
  BY <1>5, <1>7, <1>8, <1>10 DEF Disjoint
<1> QED
  BY <1>2, <1>3, <1>4, <1>9, <1>11

(***************************************************************************)
(* alloc returns one object of the batch and keeps the rest in the cache;  *)
(* if the batch is empty it fails and moves nothing.                       *)
(***************************************************************************)
LEMMA FillStep ==
  ASSUME PoolInv, NEW c \in CPUs, Fill(c)
  PROVE  PoolInv'
<1> USE DEF PoolInv, TypeOK
<1>1. pc[c] = "fill" /\ InHand(c) = got[c]
  BY DEF Fill, InHand
<1>2. OneConsumer' /\ CopiedStillThere'
  BY DEF Fill, Goto, OneConsumer, CopiedStillThere
<1>3. \A d \in CPUs : InHand(d)' = IF d = c THEN {} ELSE InHand(d)
  BY DEF Fill, Goto, InHand
<1>4. CASE got[c] = {}
  <2>1. cache' = cache /\ inUse' = inUse /\ central' = central
    BY <1>4 DEF Fill
  <2>2. TypeOK'
    BY <1>4 DEF Fill, Goto, Steps
  <2>3. \A d \in CPUs : Held(d)' = Held(d)
    BY <1>1, <1>3, <1>4, <2>1 DEF Held
  <2>4. Everywhere'
    BY <2>1, <2>3 DEF Everywhere
  <2>5. Disjoint'
    BY <1>3, <2>1, <2>3 DEF Disjoint
  <2> QED
    BY <1>2, <2>2, <2>4, <2>5
<1>5. CASE got[c] # {}
  <2>1. PICK o \in got[c] : /\ inUse' = inUse \cup {o}
                            /\ cache' = [cache EXCEPT ![c] = @ \cup (got[c] \ {o})]
    BY <1>5 DEF Fill
  <2>2. o \in Objects /\ central' = central
    BY <2>1 DEF Fill
  <2>3. TypeOK'
    BY <1>5, <2>1, <2>2 DEF Fill, Goto, Steps
  <2>4. o \in Held(c) /\ o \notin cache[c]
    BY <1>1, <2>1 DEF Held, Disjoint
  <2>5. \A d \in CPUs : Held(d)' = IF d = c THEN Held(c) \ {o} ELSE Held(d)
    BY <1>1, <1>3, <2>1, <2>4 DEF Held
  <2>6. Everywhere'
    BY <2>1, <2>2, <2>5 DEF Everywhere
  <2>7. \A d \in CPUs : d # c => cache'[d] = cache[d]
    BY <2>1
  <2>8. Disjoint'
    BY <1>3, <2>1, <2>2, <2>4, <2>5, <2>7 DEF Disjoint
  <2> QED
    BY <1>2, <2>3, <2>6, <2>8
<1> QED
  BY <1>4, <1>5

(***************************************************************************)
(* free moves objects from their users to _central.                        *)
(***************************************************************************)
LEMMA FreeStep ==
  ASSUME PoolInv, Free
  PROVE  PoolInv'
<1> USE DEF PoolInv, TypeOK
<1>1. PICK objs \in SUBSET inUse : central' = central \cup objs /\ inUse' = inUse \ objs
  BY DEF Free
<1>2. TypeOK' /\ OneConsumer' /\ CopiedStillThere'
  BY <1>1 DEF Free, OneConsumer, CopiedStillThere
<1>3. \A d \in CPUs : InHand(d)' = InHand(d) /\ Held(d)' = Held(d)
  BY DEF Free, InHand, Held
<1>4. Everywhere'
  BY <1>1, <1>3 DEF Everywhere
<1>5. Disjoint'
  BY <1>1, <1>3 DEF Disjoint, Free
<1> QED
  BY <1>2, <1>4, <1>5

(***************************************************************************)
(* The other steps of alloc (the miss, lock, the copy of a batch, unlock)  *)
(* move no object.                                                         *)
(***************************************************************************)
LEMMA QuietStep ==
  ASSUME PoolInv, NEW c \in CPUs, AllocMiss(c) \/ Lock(c) \/ PopCopy(c) \/ Unlock(c)
  PROVE  PoolInv'
<1> USE DEF PoolInv, TypeOK
<1>1. central' = central /\ cache' = cache /\ inUse' = inUse /\ failed' = failed
  BY DEF AllocMiss, Lock, PopCopy, Unlock
<1>2. \A b \in Batch(central) : b \subseteq central
  BY DEF Batch
<1>3. TypeOK'
  <2>1. CASE PopCopy(c)
    BY <1>1, <1>2, <2>1 DEF PopCopy, Goto, Steps
  <2>2. CASE AllocMiss(c) \/ Lock(c) \/ Unlock(c)
    BY <1>1, <2>2 DEF AllocMiss, Lock, Unlock, Goto, Steps
  <2> QED
    BY <2>1, <2>2
<1>4. OneConsumer'
  BY AllocatorAssumption DEF AllocMiss, Lock, PopCopy, Unlock, Goto, OneConsumer
<1>5. CopiedStillThere'
  BY <1>1, <1>2 DEF AllocMiss, Lock, PopCopy, Unlock, Goto, CopiedStillThere
<1>6. \A d \in CPUs : InHand(d)' = InHand(d)
  BY DEF AllocMiss, Lock, PopCopy, Unlock, Goto, InHand
<1>7. \A d \in CPUs : Held(d)' = Held(d)
  BY <1>1, <1>6 DEF Held
<1>8. Everywhere' /\ Disjoint'
  BY <1>1, <1>6, <1>7 DEF Everywhere, Disjoint
<1> QED
  BY <1>3, <1>4, <1>5, <1>8

(***************************************************************************)
(* Object by object or as sets, one owner is the same.                     *)
(***************************************************************************)
LEMMA PoolImpliesOneOwner == PoolInv => OneOwner
<1> SUFFICES ASSUME PoolInv PROVE OneOwner
  OBVIOUS
<1> USE DEF PoolInv, TypeOK
<1>1. \A c \in CPUs : Held(c) \subseteq Objects
  BY DEF Held, InHand
<1>2. Objects = central \cup inUse \cup UNION {Held(c) : c \in CPUs}
  BY <1>1 DEF Everywhere
<1>3. central \cap inUse = {}
  BY DEF Disjoint
<1>4. ASSUME NEW c \in CPUs
      PROVE  /\ Held(c) \cap (central \cup inUse) = {}
             /\ cache[c] \cap InHand(c) = {}
             /\ \A d \in CPUs \ {c} : Held(c) \cap Held(d) = {}
  BY DEF Disjoint
<1> QED
  BY <1>2, <1>3, <1>4 DEF OneOwner

(***************************************************************************)
(* Every step of alloc and free keeps the invariant.                       *)
(***************************************************************************)
LEMMA PoolStep ==
  ASSUME PoolInv, [Next]_vars
  PROVE  PoolInv'
<1>1. CASE UNCHANGED vars
  BY <1>1 DEF vars, PoolInv, TypeOK, OneConsumer, CopiedStillThere, Everywhere, Disjoint,
     Held, InHand
<1>2. CASE \E c \in CPUs : Alloc(c)
  BY <1>2, CachedStep, QuietStep, PublishStep, FillStep DEF Alloc
<1>3. CASE Free
  BY <1>3, FreeStep
<1> QED
  BY <1>1, <1>2, <1>3 DEF Next

-----------------------------------------------------------------------------
(***************************************************************************)
(* How many objects a CPU has: a cache is filled only when it is empty,    *)
(* with one less than a batch.                                             *)
(***************************************************************************)
CachesBounded ==
  \A c \in CPUs :
    /\ pc[c] # "out" => cache[c] = {}
    /\ Cardinality(cache[c]) <= BatchSize - 1
    /\ Cardinality(got[c]) <= BatchSize

(***************************************************************************)
(* Any objects are finitely many.                                          *)
(***************************************************************************)
LEMMA FiniteObjects ==
  ASSUME NEW S \in SUBSET Objects
  PROVE  IsFiniteSet(S) /\ Cardinality(S) \in Nat
BY AllocatorAssumption, FS_Subset, FS_CardinalityType

(***************************************************************************)
(* The caches are empty at first.                                          *)
(***************************************************************************)
LEMMA CachesInit == Init => CachesBounded
<1> SUFFICES ASSUME Init PROVE CachesBounded
  OBVIOUS
<1>1. \A c \in CPUs : cache[c] = {} /\ got[c] = {}
  BY DEF Init
<1>2. 0 <= BatchSize - 1 /\ 0 <= BatchSize
  BY AllocatorAssumption
<1> QED
  BY <1>1, <1>2, FS_EmptySet DEF CachesBounded

(***************************************************************************)
(* Every step of alloc and free keeps them bounded.                        *)
(***************************************************************************)
LEMMA CachesStep ==
  ASSUME TypeOK, CachesBounded, [Next]_vars
  PROVE  CachesBounded'
<1> USE AllocatorAssumption DEF CachesBounded
<1>1. CASE UNCHANGED <<cache, pc, got>>
  BY <1>1
<1>2. ASSUME NEW c \in CPUs, AllocCached(c) PROVE CachesBounded'
  <2>1. PICK o \in cache[c] : cache' = [cache EXCEPT ![c] = @ \ {o}]
    BY <1>2 DEF AllocCached
  <2>2. UNCHANGED <<pc, got>>
    BY <1>2 DEF AllocCached
  <2>3. Cardinality(cache[c] \ {o}) <= BatchSize - 1
    <3>1. IsFiniteSet(cache[c]) /\ Cardinality(cache[c]) \in Nat
      BY FiniteObjects DEF TypeOK
    <3>2. Cardinality(cache[c] \ {o}) <= Cardinality(cache[c]) /\ Cardinality(cache[c] \ {o}) \in Nat
      BY <3>1, FS_Subset, FS_CardinalityType
    <3> QED
      BY <3>1, <3>2
  <2>4. \A d \in CPUs : cache'[d] = IF d = c THEN cache[c] \ {o} ELSE cache[d]
    BY <2>1 DEF TypeOK
  <2> QED
    BY <2>2, <2>3, <2>4
<1>3. ASSUME NEW c \in CPUs, AllocMiss(c) \/ Lock(c) \/ PopPublish(c) \/ Unlock(c) PROVE CachesBounded'
  <2>1. UNCHANGED <<cache, got>> /\ (cache[c] = {} \/ pc[c] # "out") /\ \A d \in CPUs \ {c} : pc'[d] = pc[d]
    BY <1>3 DEF AllocMiss, Lock, PopPublish, Unlock, Goto, TypeOK
  <2> QED
    BY <2>1
<1>4. ASSUME NEW c \in CPUs, PopCopy(c) PROVE CachesBounded'
  <2>1. PICK b \in Batch(central) : got' = [got EXCEPT ![c] = b]
    BY <1>4 DEF PopCopy
  <2>2. UNCHANGED cache /\ pc[c] # "out" /\ \A d \in CPUs \ {c} : pc'[d] = pc[d]
    BY <1>4 DEF PopCopy, Goto, TypeOK
  <2>3. Cardinality(b) <= BatchSize
    <3>1. Cardinality(central) \in Nat
      BY FiniteObjects DEF TypeOK
    <3> QED
      BY <2>1, <3>1 DEF Batch
  <2>4. \A d \in CPUs : got'[d] = IF d = c THEN b ELSE got[d]
    BY <2>1 DEF TypeOK
  <2> QED
    BY <2>2, <2>3, <2>4
<1>5. ASSUME NEW c \in CPUs, Fill(c) PROVE CachesBounded'
  <2>1. /\ pc[c] = "fill" /\ cache[c] = {} /\ \A d \in CPUs : pc'[d] = IF d = c THEN "out" ELSE pc[d]
        /\ \A d \in CPUs : got'[d] = IF d = c THEN {} ELSE got[d]
    BY <1>5 DEF Fill, Goto, TypeOK
  <2>2. Cardinality({}) <= BatchSize
    BY FS_EmptySet
  <2>3. CASE got[c] = {}
    <3>1. cache' = cache
      BY <1>5, <2>3 DEF Fill
    <3> QED
      BY <2>1, <2>2, <3>1
  <2>4. CASE got[c] # {}
    <3>1. PICK o \in got[c] : cache' = [cache EXCEPT ![c] = @ \cup (got[c] \ {o})]
      BY <1>5, <2>4 DEF Fill
    <3>2. \A d \in CPUs : cache'[d] = IF d = c THEN got[c] \ {o} ELSE cache[d]
      BY <2>1, <3>1 DEF TypeOK
    <3>3. IsFiniteSet(got[c]) /\ Cardinality(got[c]) \in Nat
      BY FiniteObjects DEF TypeOK
    <3>4. Cardinality(got[c] \ {o}) = Cardinality(got[c]) - 1
      BY <3>1, <3>3, FS_RemoveElement
    <3>5. Cardinality(got[c] \ {o}) <= BatchSize - 1
      BY <3>3, <3>4
    <3> QED
      BY <2>1, <2>2, <3>2, <3>5
  <2> QED
    BY <2>3, <2>4
<1>6. CASE Free
  BY <1>1, <1>6 DEF Free
<1> QED
  BY <1>1, <1>2, <1>3, <1>4, <1>5, <1>6 DEF Next, Alloc, vars

(***************************************************************************)
(* Two sets have at most as many elements together as both.                *)
(***************************************************************************)
LEMMA UnionAtMost ==
  ASSUME NEW S, IsFiniteSet(S), NEW T, IsFiniteSet(T)
  PROVE  IsFiniteSet(S \cup T) /\ Cardinality(S \cup T) <= Cardinality(S) + Cardinality(T)
<1>1. /\ IsFiniteSet(S \cup T)
      /\ Cardinality(S \cup T) = Cardinality(S) + Cardinality(T) - Cardinality(S \cap T)
  BY FS_Union
<1>2. Cardinality(S) \in Nat /\ Cardinality(T) \in Nat
  BY FS_CardinalityType
<1>3. Cardinality(S \cap T) \in Nat
  BY FS_Intersection, FS_CardinalityType
<1> DEFINE a == Cardinality(S)
           b == Cardinality(T)
           c == Cardinality(S \cap T)
<1>4. a + b - c <= a + b
  <2>1. a \in Nat /\ b \in Nat /\ c \in Nat
    BY <1>2, <1>3
  <2> HIDE DEF a, b, c
  <2> QED
    BY <2>1
<1> QED
  BY <1>1, <1>4

(***************************************************************************)
(* Sets of at most k elements, one for each element of D, have at most     *)
(* |D| * k elements together: number the elements of each set, and map     *)
(* each element to its set and its number.                                 *)
(***************************************************************************)
LEMMA TogetherAtMost ==
  ASSUME NEW D, IsFiniteSet(D), NEW k \in Nat, NEW part,
         \A d \in D : IsFiniteSet(part[d]) /\ Cardinality(part[d]) <= k
  PROVE  LET U == UNION {part[d] : d \in D}
         IN  IsFiniteSet(U) /\ Cardinality(U) <= Cardinality(D) * k
<1> DEFINE U == UNION {part[d] : d \in D}
           owner == [o \in U |-> CHOOSE d \in D : o \in part[d]]
           number == [d \in D |-> CHOOSE f : f \in Injection(part[d], 1..k)]
           F == [o \in U |-> <<owner[o], number[owner[o]][o]>>]
<1>1. \A o \in U : owner[o] \in D /\ o \in part[owner[o]]
  OBVIOUS
<1>2. ASSUME NEW d \in D PROVE number[d] \in Injection(part[d], 1..k)
  <2> DEFINE m == Cardinality(part[d])
  <2>1. m \in Nat /\ m <= k /\ ExistsBijection(1..m, part[d])
    BY FS_CardinalityType
  <2>2. ExistsBijection(part[d], 1..m)
    BY <2>1, Fun_ExistsBijSymmetric
  <2>3. PICK f \in Bijection(part[d], 1..m) : TRUE
    BY <2>2, Fun_ExistsBij
  <2>4. f \in [part[d] -> 1..m] /\ \A a, b \in part[d] : f[a] = f[b] => a = b
    <3> DEFINE S == part[d]
               T == 1..m
    <3> HIDE DEF S, T
    <3>1. f \in Bijection(S, T)
      BY <2>3 DEF S, T
    <3>2. f \in [S -> T] /\ \A a, b \in S : f[a] = f[b] => a = b
      BY <3>1, Fun_BijectionProperties
    <3> QED
      BY <3>2 DEF S, T
  <2>5. f \in [part[d] -> 1..k]
    BY <2>1, <2>4
  <2>6. f \in Injection(part[d], 1..k)
    BY <2>4, <2>5, Fun_IsInj
  <2> QED
    BY <2>6
<1>3. ASSUME NEW d \in D
      PROVE  /\ \A o \in part[d] : number[d][o] \in 1..k
             /\ \A a, b \in part[d] : number[d][a] = number[d][b] => a = b
  BY <1>2, Fun_InjectionProperties
<1> HIDE DEF owner, number
<1>4. F \in [U -> D \X (1..k)]
  BY <1>1, <1>3
<1>5. \A a, b \in U : F[a] = F[b] => a = b
  BY <1>1, <1>3
<1> HIDE DEF U, F
<1>6. F \in Injection(U, D \X (1..k))
  BY <1>4, <1>5, Fun_IsInj
<1>7. IsFiniteSet(1..k) /\ Cardinality(1..k) = k
  BY FS_Interval
<1>8. IsFiniteSet(D \X (1..k)) /\ Cardinality(D \X (1..k)) = Cardinality(D) * k
  BY <1>7, FS_Product
<1>9. IsFiniteSet(U) /\ Cardinality(U) <= Cardinality(D) * k
  BY <1>6, <1>8, FS_Injection
<1> QED
  BY <1>9 DEF U

(***************************************************************************)
(* Both bounds of FailsOnlyWhenExhausted.  A CPU that has taken the lock   *)
(* has nothing; every other one has at most BatchSize - 1 objects, not     *)
(* counting one of the batch in its hands.                                 *)
(***************************************************************************)
LEMMA BoundedImpliesExhausted == PoolInv /\ CachesBounded => FailsOnlyWhenExhausted
<1> SUFFICES ASSUME PoolInv, CachesBounded PROVE FailsOnlyWhenExhausted
  OBVIOUS
<1> USE AllocatorAssumption
<1>1. \A c \in CPUs : Held(c) \subseteq Objects /\ InHand(c) \subseteq Objects /\ cache[c] \subseteq Objects
  BY DEF Held, InHand, PoolInv, TypeOK
<1>2. ASSUME NEW c \in CPUs
      PROVE  /\ Cardinality(Held(c)) <= BatchSize
             /\ InHand(c) = {} => Cardinality(Held(c)) <= BatchSize - 1
  <2>1. CASE InHand(c) = {}
    <3>1. Held(c) = cache[c]
      BY <2>1 DEF Held
    <3> QED
      BY <1>1, <3>1, FiniteObjects DEF CachesBounded
  <2>2. CASE InHand(c) # {}
    <3>1. Held(c) = got[c]
      BY <2>2 DEF Held, InHand, CachesBounded
    <3> QED
      BY <2>2, <3>1 DEF CachesBounded
  <2> QED
    BY <2>1, <2>2
<1>3. ASSUME NEW c \in CPUs, pc[c] = "pop", central = {}
      PROVE  Cardinality(inUse) + Cardinality({d \in CPUs : InHand(d) # {}})
               >= Cardinality(Objects) - (Cardinality(CPUs) - 1) * (BatchSize - 1)
  <2> DEFINE Busy == {d \in CPUs : InHand(d) # {}}
             one  == [d \in Busy |-> CHOOSE o \in InHand(d) : TRUE]
             Ones == {one[d] : d \in Busy}
             D    == CPUs \ {c}
             part == [d \in D |-> IF d \in Busy THEN Held(d) \ {one[d]} ELSE Held(d)]
             Rest == UNION {part[d] : d \in D}
  <2>1. Held(c) = {} /\ c \notin Busy
    BY <1>3 DEF Held, InHand, CachesBounded
  <2>2. \A d \in Busy : one[d] \in InHand(d) /\ one[d] \in Held(d) /\ one[d] \in Objects
    BY <1>1 DEF Held
  <2>3. ASSUME NEW d \in D PROVE IsFiniteSet(part[d]) /\ Cardinality(part[d]) <= BatchSize - 1
    <3>1. IsFiniteSet(Held(d)) /\ Cardinality(Held(d)) \in Nat
      BY <1>1, FiniteObjects
    <3>2. CASE d \in Busy
      <4>1. part[d] = Held(d) \ {one[d]}
        BY <3>2
      <4>2. one[d] \in Held(d)
        BY <2>2, <3>2
      <4> HIDE DEF part, one
      <4>3. IsFiniteSet(part[d]) /\ Cardinality(part[d]) = Cardinality(Held(d)) - 1
        <5>1. /\ IsFiniteSet(Held(d) \ {one[d]})
              /\ Cardinality(Held(d) \ {one[d]}) = Cardinality(Held(d)) - 1
          BY <3>1, <4>2, FS_RemoveElement, Zenon
        <5> QED
          BY <4>1, <5>1, Zenon
      <4> QED
        BY <1>2, <3>1, <4>3
    <3>3. CASE d \notin Busy
      BY <1>2, <3>1, <3>3
    <3> QED
      BY <3>2, <3>3
  <2>4. IsFiniteSet(CPUs) /\ Cardinality(CPUs) \in Nat
    BY FS_CardinalityType
  <2>5. IsFiniteSet(D) /\ Cardinality(D) = Cardinality(CPUs) - 1
    BY <2>4, FS_RemoveElement
  <2>6. IsFiniteSet(Busy) /\ Cardinality(Busy) \in Nat
    BY <2>4, FS_Subset, FS_CardinalityType
  <2>7. IsFiniteSet(Ones) /\ Cardinality(Ones) <= Cardinality(Busy) /\ Cardinality(Ones) \in Nat
    <3>1. one \in [Busy -> Ones] /\ \A o \in Ones : \E d \in Busy : one[d] = o
      OBVIOUS
    <3> HIDE DEF one, Ones, Busy
    <3>2. one \in Surjection(Busy, Ones)
      BY <3>1, Fun_IsSurj
    <3> QED
      BY <2>6, <3>2, FS_Surjection, FS_CardinalityType
  <2>8. Objects = (inUse \cup Ones) \cup Rest
    <3>1. inUse \subseteq Objects /\ Ones \subseteq Objects
      BY <2>2 DEF PoolInv, TypeOK
    <3>2. Rest \subseteq Objects
      BY <1>1
    <3>3. \A o \in Objects : o \in inUse \/ o \in Ones \/ o \in Rest
      <4> SUFFICES ASSUME NEW o \in Objects, o \notin inUse, o \notin Ones PROVE o \in Rest
        OBVIOUS
      <4>1. PICK d \in CPUs : o \in Held(d)
        BY <1>3 DEF PoolInv, Everywhere
      <4>2. d \in D
        BY <2>1, <4>1
      <4>3. o \in part[d]
        BY <4>1, <4>2
      <4> QED
        BY <4>2, <4>3
    <3> QED
      BY <3>1, <3>2, <3>3
  <2>9. IsFiniteSet(Rest) /\ Cardinality(Rest) <= Cardinality(D) * (BatchSize - 1)
    <3>1. BatchSize - 1 \in Nat
      OBVIOUS
    <3> HIDE DEF D, part
    <3> QED
      BY <2>3, <2>5, <3>1, TogetherAtMost
  <2>10. IsFiniteSet(inUse) /\ Cardinality(inUse) \in Nat
    BY FiniteObjects DEF PoolInv, TypeOK
  <2> HIDE DEF Ones, Rest, D, Busy
  <2>11. /\ IsFiniteSet(inUse \cup Ones)
         /\ Cardinality(inUse \cup Ones) <= Cardinality(inUse) + Cardinality(Ones)
    BY <2>7, <2>10, UnionAtMost
  <2>12. Cardinality(Objects) <= Cardinality(inUse \cup Ones) + Cardinality(Rest)
    BY <2>8, <2>9, <2>11, UnionAtMost
  <2>13. Cardinality(D) * (BatchSize - 1) = (Cardinality(CPUs) - 1) * (BatchSize - 1)
    BY <2>5
  <2> DEFINE R == (Cardinality(CPUs) - 1) * (BatchSize - 1)
  <2>14. /\ R \in Int /\ Cardinality(Rest) <= R /\ Cardinality(Rest) \in Nat
         /\ Cardinality(inUse \cup Ones) \in Nat /\ Cardinality(Objects) \in Nat
    BY <2>4, <2>9, <2>11, <2>13, FS_CardinalityType
  <2> HIDE DEF R
  <2>15. Cardinality(inUse) + Cardinality(Busy) >= Cardinality(Objects) - R
    BY <2>6, <2>7, <2>10, <2>11, <2>12, <2>14
  <2> QED
    BY <2>15 DEF R, Busy
<1> QED
  BY <1>2, <1>3 DEF FailsOnlyWhenExhausted

-----------------------------------------------------------------------------
(***************************************************************************)
(* The ring.  An index that is moved by less than a round wraps at most    *)
(* once.                                                                   *)
(***************************************************************************)
LEMMA Wraps ==
  ASSUME NEW x \in Int, 0 - Cells <= x, x < 2 * Cells
  PROVE  x % Cells = IF x < 0 THEN x + Cells ELSE IF x < Cells THEN x ELSE x - Cells
<1> USE QueueAssumption
<1>1. Cells \in Nat \ {0}
  BY DEF Cells
<1> DEFINE y == x % Cells
           k == x \div Cells
<1>2. y \in 0..(Cells - 1) /\ k \in Int /\ x = Cells * k + y
  BY <1>1
<1> HIDE DEF y, k
<1>3. ASSUME k >= 2 PROVE y = IF x < 0 THEN x + Cells ELSE IF x < Cells THEN x ELSE x - Cells
  <2>1. Cells * k >= Cells * 2
    BY <1>1, <1>2, <1>3
  <2> QED
    BY <1>1, <1>2, <2>1
<1>4. ASSUME k <= -2 PROVE y = IF x < 0 THEN x + Cells ELSE IF x < Cells THEN x ELSE x - Cells
  <2>1. Cells * k <= Cells * (-2)
    BY <1>1, <1>2, <1>4
  <2> QED
    BY <1>1, <1>2, <2>1
<1>5. ASSUME k \in {-1, 0, 1} PROVE y = IF x < 0 THEN x + Cells ELSE IF x < Cells THEN x ELSE x - Cells
  BY <1>1, <1>2, <1>5
<1>6. k >= 2 \/ k <= -2 \/ k \in {-1, 0, 1}
  BY <1>2
<1>7. y = IF x < 0 THEN x + Cells ELSE IF x < Cells THEN x ELSE x - Cells
  BY <1>3, <1>4, <1>5, <1>6
<1> QED
  BY <1>7 DEF y

(***************************************************************************)
(* Positions of the ring relative to an index.                             *)
(***************************************************************************)
LEMMA Positions ==
  ASSUME NEW r \in 0..Size
  PROVE  /\ \A j \in 0..Cells : (r + j) % Cells \in 0..Size
         /\ \A j \in 0..Size : (((r + j) % Cells) - r) % Cells = j
         /\ \A w \in 0..Size : (w - r) % Cells \in 0..Size /\ (r + ((w - r) % Cells)) % Cells = w
         /\ \A j, k \in 0..Size : (r + j) % Cells = (r + k) % Cells => j = k
         /\ \A j, k \in 0..Size : (((r + j) % Cells) + k) % Cells = (r + (j + k)) % Cells
<1> USE QueueAssumption
<1>1. Cells \in Nat \ {0} /\ Cells = Size + 1 /\ r \in Nat /\ r <= Size
  BY DEF Cells
<1> DEFINE At1(j) == (r + j) % Cells
<1>2. ASSUME NEW j \in 0..Cells
      PROVE  At1(j) = IF r + j < Cells THEN r + j ELSE (r + j) - Cells
  <2> DEFINE x == r + j
  <2>1. x \in Int /\ 0 - Cells <= x /\ x < 2 * Cells /\ ~(x < 0)
    BY <1>1
  <2> HIDE DEF x
  <2>2. x % Cells = IF x < Cells THEN x ELSE x - Cells
    BY <2>1, Wraps
  <2> QED
    BY <2>2 DEF x
<1>3. \A j \in 0..Cells : At1(j) \in 0..Size
  BY <1>1, <1>2
<1>4. ASSUME NEW j \in 0..Size PROVE (At1(j) - r) % Cells = j
  <2>1. At1(j) = r + j \/ At1(j) = r + j - Cells
    BY <1>1, <1>2
  <2> HIDE DEF At1
  <2>2. At1(j) - r = j \/ At1(j) - r = j - Cells
    BY <1>1, <2>1
  <2>3. j % Cells = j
    BY <1>1, Wraps
  <2>4. (j - Cells) % Cells = j
    BY <1>1, Wraps
  <2> QED
    BY <2>2, <2>3, <2>4
<1>5. ASSUME NEW w \in 0..Size PROVE (w - r) % Cells \in 0..Size /\ At1((w - r) % Cells) = w
  <2>0. /\ w - r \in Int /\ 0 - Cells <= w - r /\ w - r < 2 * Cells
        /\ w - r < Cells /\ (w - r < 0 <=> w < r)
    BY <1>1
  <2>1. (w - r) % Cells = IF w < r THEN w - r + Cells ELSE w - r
    BY <2>0, Wraps
  <2>2. (w - r) % Cells \in 0..Size
    BY <1>1, <2>1
  <2> QED
    BY <1>1, <1>2, <2>1, <2>2
<1>6. ASSUME NEW j \in 0..Size, NEW k \in 0..Size, At1(j) = At1(k) PROVE j = k
  BY <1>1, <1>2, <1>6
<1>7. ASSUME NEW j \in 0..Size, NEW k \in 0..Size PROVE (At1(j) + k) % Cells = At1(j + k)
  <2>1. At1(j) = IF r + j < Cells THEN r + j ELSE r + j - Cells
    BY <1>1, <1>2
  <2>2. CASE r + j < Cells
    <3>1. At1(j) + k = r + (j + k)
      BY <1>1, <2>1, <2>2
    <3> QED
      BY <3>1
  <2>3. CASE r + j >= Cells
    <3>1. At1(j) = r + j - Cells /\ At1(j) + k = r + j + k - Cells
      BY <1>1, <2>1, <2>3
    <3> DEFINE a == r + j + k - Cells
    <3>2. a \in Int /\ 0 <= a /\ a < 2 * Cells /\ r + (j + k) = a + Cells
      BY <1>1, <2>3
    <3>3. (a + Cells) % Cells = a % Cells
      <4> HIDE DEF a
      <4>1. CASE a < Cells
        <5>1. /\ a + Cells \in Int /\ 0 - Cells <= a + Cells /\ a + Cells < 2 * Cells
              /\ ~(a + Cells < 0) /\ ~(a + Cells < Cells) /\ (a + Cells) - Cells = a
              /\ 0 - Cells <= a /\ ~(a < 0)
          BY <1>1, <3>2, <4>1
        <5>2. (a + Cells) % Cells = a
          BY <5>1, Wraps
        <5>3. a % Cells = a
          BY <3>2, <4>1, <5>1, Wraps
        <5> QED
          BY <5>2, <5>3
      <4>2. CASE a >= Cells
        BY <1>1, <2>3, <3>2, <4>2 DEF a
      <4> QED
        BY <1>1, <3>2, <4>1, <4>2
    <3> QED
      BY <3>1, <3>2, <3>3
  <2> QED
    BY <1>1, <2>2, <2>3
<1> QED
  BY <1>3, <1>4, <1>5, <1>6, <1>7

(***************************************************************************)
(* RingInv: a CPU in the critical section of push holds _adderMutex, what  *)
(* it has written is in the cell the write index will move over, which is  *)
(* free, and what the polling task has copied is still the oldest part of  *)
(* the queue.                                                              *)
(***************************************************************************)
Count == (writeIdx - readIdx) % Cells

RingType ==
  /\ ring \in [0..Size -> Objects \cup {None}]
  /\ readIdx \in 0..Size /\ writeIdx \in 0..Size
  /\ step \in [CPUs -> {"out", "lock", "write", "publish", "unlock"}]
  /\ op \in [CPUs -> Objects \cup {None}]

AdderHeld == \A c \in CPUs : step[c] \in {"write", "publish", "unlock"} => adder = c

PushUnderWay ==
  \A c \in CPUs :
    /\ step[c] \in {"lock", "write", "publish"} => op[c] \in Objects
    /\ step[c] = "publish" => ring[writeIdx] = op[c] /\ Count < Size

CopiedOldest ==
  polling = "popped" =>
    \E n \in 1..Count : popped = [i \in 1..n |-> ring[(readIdx + i - 1) % Cells]]

RingInv == RingType /\ AdderHeld /\ PushUnderWay /\ CopiedOldest

(***************************************************************************)
(* The empty queue satisfies the invariant of the ring.                    *)
(***************************************************************************)
LEMMA RingInit == QueueInit => RingInv
<1> SUFFICES ASSUME QueueInit PROVE RingInv
  OBVIOUS
<1>1. RingType
  BY QueueAssumption DEF QueueInit, RingType
<1>2. AdderHeld /\ PushUnderWay /\ CopiedOldest
  BY DEF QueueInit, AdderHeld, PushUnderWay, CopiedOldest
<1> QED
  BY <1>1, <1>2 DEF RingInv

(***************************************************************************)
(* The ring holds Count elements, from the read index on; it is full when  *)
(* Size of them are there.                                                 *)
(***************************************************************************)
LEMMA RingFacts ==
  ASSUME RingType
  PROVE  /\ Count \in 0..Size
         /\ (readIdx + Count) % Cells = writeIdx
         /\ Full <=> Count = Size
         /\ \A i \in 1..Count : (readIdx + i - 1) % Cells \in 0..Size \ {writeIdx}
<1> USE QueueAssumption
<1>1. readIdx \in 0..Size /\ writeIdx \in 0..Size /\ Size \in Nat /\ Cells = Size + 1
  BY DEF RingType, Cells
<1>0. /\ \A w \in 0..Size : (w - readIdx) % Cells \in 0..Size
                             /\ (readIdx + ((w - readIdx) % Cells)) % Cells = w
      /\ \A j \in 0..Cells : (readIdx + j) % Cells \in 0..Size
      /\ \A j, k \in 0..Size : (readIdx + j) % Cells = (readIdx + k) % Cells => j = k
  BY <1>1, Positions
<1>2. Count \in 0..Size /\ (readIdx + Count) % Cells = writeIdx
  <2>1. /\ (writeIdx - readIdx) % Cells \in 0..Size
        /\ (readIdx + ((writeIdx - readIdx) % Cells)) % Cells = writeIdx
    BY ONLY <1>0, <1>1, Zenon
  <2> QED
    BY <2>1, Zenon DEF Count
<1>3. Full <=> Count = Size
  <2>1. Count = IF writeIdx < readIdx THEN (writeIdx - readIdx) + Cells ELSE writeIdx - readIdx
    <3> DEFINE x == writeIdx - readIdx
    <3>1. /\ x \in Int /\ 0 - Cells <= x /\ x < 2 * Cells
          /\ x < Cells /\ (x < 0 <=> writeIdx < readIdx)
      BY <1>1
    <3> HIDE DEF x
    <3>2. x % Cells = IF writeIdx < readIdx THEN x + Cells ELSE x
      BY <3>1, Wraps
    <3> QED
      BY <3>2 DEF x, Count
  <2>2. (writeIdx + 1) % Cells = IF writeIdx = Size THEN 0 ELSE writeIdx + 1
    <3> DEFINE x == writeIdx + 1
    <3>1. /\ x \in Int /\ 0 - Cells <= x /\ x < 2 * Cells
          /\ ~(x < 0) /\ (x < Cells <=> writeIdx # Size)
          /\ (writeIdx = Size => x - Cells = 0)
      BY <1>1
    <3> HIDE DEF x
    <3>2. x % Cells = IF writeIdx = Size THEN 0 ELSE x
      BY <3>1, Wraps
    <3> QED
      BY <3>2 DEF x
  <2> QED
    BY <1>1, <2>1, <2>2 DEF Full
<1>4. ASSUME NEW i \in 1..Count PROVE (readIdx + i - 1) % Cells \in 0..Size \ {writeIdx}
  <2>1. i - 1 \in 0..Size /\ i - 1 # Count /\ readIdx + i - 1 = readIdx + (i - 1)
        /\ i - 1 \in 0..Cells
    BY <1>1, <1>2
  <2>2. (readIdx + (i - 1)) % Cells \in 0..Size
    BY <1>0, <2>1
  <2>3. (readIdx + (i - 1)) % Cells # (readIdx + Count) % Cells
    <3> DEFINE j == i - 1
    <3>1. j \in 0..Size /\ Count \in 0..Size /\ j # Count
      BY <1>2, <2>1
    <3> HIDE DEF j
    <3>2. (readIdx + j) % Cells # (readIdx + Count) % Cells
      BY <1>0, <3>1
    <3> QED
      BY <3>2 DEF j
  <2> QED
    BY <1>2, <2>1, <2>2, <2>3
<1> QED
  BY <1>2, <1>3, <1>4

(***************************************************************************)
(* alloc and free do not touch the ring; what alloc hands to push is an    *)
(* object of the pool.                                                     *)
(***************************************************************************)
LEMMA AllocForPushRing ==
  ASSUME PoolInv, RingInv, NEW c \in CPUs, AllocForPush(c)
  PROVE  RingInv'
<1>1. Alloc(c) /\ inUse' \subseteq Objects /\ inUse \subseteq inUse'
  <2>1. Alloc(c) /\ [Next]_vars
    BY DEF AllocForPush, Next
  <2>2. PoolInv'
    BY <2>1, PoolStep
  <2>3. inUse \subseteq inUse'
    BY <2>1 DEF Alloc, AllocCached, AllocMiss, Lock, PopCopy, PopPublish, Unlock, Fill
  <2> QED
    BY <2>1, <2>2, <2>3 DEF PoolInv, TypeOK
<1>2. UNCHANGED <<ring, readIdx, writeIdx, adder, polling, popped>>
  BY DEF AllocForPush, popVars
<1>3. CASE inUse' = inUse
  <2>1. UNCHANGED <<op, step>>
    BY <1>3 DEF AllocForPush
  <2> QED
    BY <1>2, <2>1 DEF RingInv, RingType, AdderHeld, PushUnderWay, CopiedOldest, Count
<1>4. CASE inUse' # inUse
  <2>1. PICK o \in Objects : op' = [op EXCEPT ![c] = o] /\ step' = [step EXCEPT ![c] = "lock"]
    <3> DEFINE new == CHOOSE o \in inUse' \ inUse : TRUE
    <3>1. new \in inUse' \ inUse
      BY <1>1, <1>4
    <3>2. op' = [op EXCEPT ![c] = new] /\ step' = [step EXCEPT ![c] = "lock"]
      BY <1>4 DEF AllocForPush, StepTo
    <3> HIDE DEF new
    <3> QED
      BY <1>1, <3>1, <3>2
  <2>2. step'[c] = "lock" /\ op'[c] = o
        /\ \A d \in CPUs \ {c} : step'[d] = step[d] /\ op'[d] = op[d]
    BY <2>1 DEF RingInv, RingType
  <2>3. RingType'
    BY <1>2, <2>1 DEF RingInv, RingType
  <2>4. AdderHeld'
    BY <1>2, <2>2 DEF RingInv, AdderHeld
  <2>5. PushUnderWay' /\ CopiedOldest'
    BY <1>2, <2>2 DEF RingInv, PushUnderWay, CopiedOldest, Count
  <2> QED
    BY <2>3, <2>4, <2>5 DEF RingInv
<1> QED
  BY <1>3, <1>4

(***************************************************************************)
(* What the queue holds, the contents of the FIFO it implements.           *)
(***************************************************************************)
Contents == Segment(readIdx, writeIdx)

(***************************************************************************)
(* The contents read from the ring as a sequence: one element per cell     *)
(* between the two indices.                                                *)
(***************************************************************************)
LEMMA ContentsAre ==
  ASSUME RingType
  PROVE  /\ Contents = [i \in 1..Count |-> ring[(readIdx + i - 1) % Cells]]
         /\ Contents \in Seq(Objects \cup {None}) /\ Len(Contents) = Count
<1>1. Contents = [i \in 1..Count |-> ring[(readIdx + i - 1) % Cells]]
  BY DEF Contents, Segment, Count
<1>2. Count \in Nat /\ \A i \in 1..Count : ring[(readIdx + i - 1) % Cells] \in Objects \cup {None}
  BY RingFacts, QueueAssumption DEF RingType
<1> QED
  BY <1>1, <1>2

(***************************************************************************)
(* A step that leaves the ring and its indices alone keeps the contents.   *)
(***************************************************************************)
LEMMA SameContents ==
  ASSUME UNCHANGED <<ring, readIdx, writeIdx>>
  PROVE  Contents' = Contents /\ Count' = Count
BY DEF Contents, Segment, Count

(***************************************************************************)
(* The adder lock is free when a pusher takes it, so one pusher at a time  *)
(* is between the lock and the unlock.                                     *)
(***************************************************************************)
LEMMA LockAdderRing ==
  ASSUME RingInv, NEW c \in CPUs, LockAdder(c)
  PROVE  RingInv'
<1>1. /\ step[c] = "lock" /\ step' = [step EXCEPT ![c] = "write"]
      /\ adder = NoCPU /\ adder' = c
      /\ UNCHANGED <<ring, readIdx, writeIdx, op, polling, popped>>
  BY DEF LockAdder, At, StepTo, popVars
<1>2. step'[c] = "write" /\ \A d \in CPUs \ {c} : step'[d] = step[d]
  BY <1>1 DEF RingInv, RingType
<1>3. RingType'
  BY <1>1 DEF RingInv, RingType
<1>4. AdderHeld'
  BY <1>1, <1>2, AllocatorAssumption DEF RingInv, AdderHeld
<1>5. PushUnderWay' /\ CopiedOldest'
  BY <1>1, <1>2 DEF RingInv, PushUnderWay, CopiedOldest, Count
<1> QED
  BY <1>3, <1>4, <1>5 DEF RingInv

(***************************************************************************)
(* A pusher that releases the adder lock has published its element and     *)
(* leaves the ring alone.                                                  *)
(***************************************************************************)
LEMMA UnlockAdderRing ==
  ASSUME RingInv, NEW c \in CPUs, UnlockAdder(c)
  PROVE  RingInv'
<1>1. /\ step[c] = "unlock" /\ step' = [step EXCEPT ![c] = "out"]
      /\ op' = [op EXCEPT ![c] = None] /\ adder' = NoCPU
      /\ UNCHANGED <<ring, readIdx, writeIdx, polling, popped>>
  BY DEF UnlockAdder, At, StepTo, popVars
<1>2. /\ step'[c] = "out" /\ op'[c] = None
      /\ \A d \in CPUs \ {c} : step'[d] = step[d] /\ op'[d] = op[d]
  BY <1>1 DEF RingInv, RingType
<1>3. RingType'
  BY <1>1 DEF RingInv, RingType
<1>4. AdderHeld'
  BY <1>1, <1>2 DEF RingInv, AdderHeld
<1>5. PushUnderWay' /\ CopiedOldest'
  BY <1>1, <1>2 DEF RingInv, PushUnderWay, CopiedOldest, Count
<1> QED
  BY <1>3, <1>4, <1>5 DEF RingInv

(***************************************************************************)
(* The cell push writes is not one of those in the queue, and not one of   *)
(* those a pop is copying.                                                 *)
(***************************************************************************)
LEMMA PushWriteRing ==
  ASSUME RingInv, NEW c \in CPUs, PushWrite(c)
  PROVE  RingInv' /\ Contents' = Contents
<1>1. /\ step[c] = "write" /\ adder = c
      /\ UNCHANGED <<readIdx, writeIdx, adder, op, polling, popped>>
  BY DEF PushWrite, At, popVars, RingInv, AdderHeld
<1>2. CASE Full
  <2>1. UNCHANGED <<ring, step>>
    BY <1>2 DEF PushWrite
  <2> QED
    BY <1>1, <2>1, SameContents DEF RingInv, RingType, AdderHeld, PushUnderWay, CopiedOldest, Count
<1>3. CASE ~Full
  <2>1. ring' = [ring EXCEPT ![writeIdx] = op[c]] /\ step' = [step EXCEPT ![c] = "publish"]
    BY <1>3 DEF PushWrite, StepTo
  <2>2. /\ step'[c] = "publish" /\ \A d \in CPUs \ {c} : step'[d] = step[d]
        /\ ring'[writeIdx] = op[c] /\ \A x \in 0..Size \ {writeIdx} : ring'[x] = ring[x]
    BY <2>1 DEF RingInv, RingType
  <2>3. RingType'
    BY <1>1, <2>1 DEF RingInv, RingType
  <2>4. AdderHeld'
    BY <1>1, <2>2 DEF RingInv, AdderHeld
  <2>5. Count' = Count /\ Count \in 0..Size /\ Count < Size
    BY <1>1, <1>3, RingFacts, QueueAssumption DEF RingInv, Count
  <2>6. PushUnderWay'
    <3> SUFFICES ASSUME NEW d \in CPUs
                 PROVE  /\ step'[d] \in {"lock", "write", "publish"} => op[d] \in Objects
                        /\ step'[d] = "publish" => ring'[writeIdx] = op[d] /\ Count < Size
      BY <1>1, <2>5 DEF PushUnderWay
    <3>1. CASE d = c
      BY <1>1, <2>2, <2>5, <3>1 DEF RingInv, PushUnderWay
    <3>2. CASE d # c
      BY <1>1, <2>2, <3>2 DEF RingInv, PushUnderWay, AdderHeld
    <3> QED
      BY <3>1, <3>2
  <2>7. \A i \in 1..Count : ring'[(readIdx + i - 1) % Cells] = ring[(readIdx + i - 1) % Cells]
    BY <2>2, RingFacts DEF RingInv
  <2>8. ASSUME NEW n \in 0..Count
        PROVE  [i \in 1..n |-> ring'[(readIdx + i - 1) % Cells]]
                 = [i \in 1..n |-> ring[(readIdx + i - 1) % Cells]]
    <3>1. \A i \in 1..n : i \in 1..Count
      BY <2>5
    <3> QED
      BY <2>7, <3>1
  <2>9. CopiedOldest'
    <3> SUFFICES ASSUME polling = "popped"
                 PROVE  \E n \in 1..Count :
                          popped = [i \in 1..n |-> ring'[(readIdx + i - 1) % Cells]]
      BY <1>1, <2>5 DEF CopiedOldest
    <3>1. PICK n \in 1..Count : popped = [i \in 1..n |-> ring[(readIdx + i - 1) % Cells]]
      BY DEF RingInv, CopiedOldest
    <3>2. n \in 0..Count
      BY <2>5
    <3> QED
      BY <2>8, <3>1, <3>2
  <2>10. Contents' = Contents
    <3>1. Contents' = [i \in 1..Count |-> ring'[(readIdx + i - 1) % Cells]]
      BY <1>1, <2>5 DEF Contents, Segment, Count
    <3>2. Count \in 0..Count
      BY <2>5
    <3> QED
      BY <2>8, <3>1, <3>2 DEF Contents, Segment, Count
  <2> QED
    BY <2>3, <2>4, <2>6, <2>9, <2>10 DEF RingInv
<1> QED
  BY <1>2, <1>3

(***************************************************************************)
(* Moving the write index puts the object that was written at the end of   *)
(* the queue, which had room for it.                                       *)
(***************************************************************************)
LEMMA PushPublishRing ==
  ASSUME RingInv, NEW c \in CPUs, PushPublish(c)
  PROVE  /\ RingInv' /\ op[c] \in Objects /\ Len(Contents) < Size
         /\ Contents' = Append(Contents, op[c])
<1> USE QueueAssumption
<1>1. /\ step[c] = "publish" /\ step' = [step EXCEPT ![c] = "unlock"]
      /\ writeIdx' = (writeIdx + 1) % Cells
      /\ UNCHANGED <<ring, readIdx, adder, op, polling, popped>>
  BY DEF PushPublish, At, StepTo, popVars
<1>2. /\ op[c] \in Objects /\ ring[writeIdx] = op[c] /\ adder = c
      /\ Count \in 0..Size /\ Count < Size /\ (readIdx + Count) % Cells = writeIdx
      /\ readIdx \in 0..Size /\ Size \in Nat /\ Cells = Size + 1
  BY <1>1, RingFacts DEF RingInv, RingType, PushUnderWay, AdderHeld, Cells
<1>3. step'[c] = "unlock" /\ \A d \in CPUs \ {c} : step'[d] = step[d]
  BY <1>1 DEF RingInv, RingType
<1>4. writeIdx' = (readIdx + (Count + 1)) % Cells /\ Count' = Count + 1 /\ writeIdx' \in 0..Size
  <2>1. /\ \A j, k \in 0..Size :
             (((readIdx + j) % Cells) + k) % Cells = (readIdx + (j + k)) % Cells
        /\ \A j \in 0..Size : (((readIdx + j) % Cells) - readIdx) % Cells = j
        /\ \A j \in 0..Cells : (readIdx + j) % Cells \in 0..Size
    BY <1>2, Positions
  <2> DEFINE n == Count + 1
  <2>2. 1 \in 0..Size /\ n \in 0..Size /\ n \in 0..Cells
    BY <1>2
  <2>3. writeIdx' = (readIdx + n) % Cells
    BY <1>1, <1>2, <2>1, <2>2
  <2> HIDE DEF n
  <2>4. writeIdx' \in 0..Size /\ (writeIdx' - readIdx) % Cells = n
    BY <2>1, <2>2, <2>3
  <2> QED
    BY <1>1, <2>3, <2>4 DEF n, Count
<1>5. RingType'
  BY <1>1, <1>4 DEF RingInv, RingType
<1>6. AdderHeld'
  BY <1>1, <1>2, <1>3 DEF RingInv, AdderHeld
<1>7. PushUnderWay'
  BY <1>1, <1>2, <1>3 DEF RingInv, PushUnderWay, AdderHeld
<1>8. CopiedOldest'
  <2> SUFFICES ASSUME polling = "popped"
               PROVE  \E n \in 1..Count' :
                        popped = [i \in 1..n |-> ring[(readIdx + i - 1) % Cells]]
    BY <1>1 DEF CopiedOldest
  <2>1. PICK n \in 1..Count : popped = [i \in 1..n |-> ring[(readIdx + i - 1) % Cells]]
    BY DEF RingInv, CopiedOldest
  <2>2. n \in 1..Count'
    BY <1>2, <1>4
  <2> QED
    BY <2>1, <2>2
<1>9. Len(Contents) < Size /\ Contents' = Append(Contents, op[c])
  <2>1. /\ Contents = [i \in 1..Count |-> ring[(readIdx + i - 1) % Cells]]
        /\ Contents \in Seq(Objects \cup {None}) /\ Len(Contents) = Count
    BY ContentsAre DEF RingInv
  <2>2. Contents' = [i \in 1..(Count + 1) |-> ring[(readIdx + i - 1) % Cells]]
    BY <1>1, <1>4 DEF Contents, Segment, Count
  <2>3. ring[(readIdx + (Count + 1) - 1) % Cells] = op[c]
    BY <1>2
  <2>4. Append(Contents, op[c]) = [i \in 1..(Count + 1) |->
                                     IF i \in 1..Count THEN Contents[i] ELSE op[c]]
    BY <1>2, <2>1
  <2>5. ASSUME NEW i \in 1..(Count + 1)
        PROVE  ring[(readIdx + i - 1) % Cells] = IF i \in 1..Count THEN Contents[i] ELSE op[c]
    <3>1. i \in 1..Count \/ i = Count + 1
      BY <1>2
    <3> QED
      BY <1>2, <2>1, <2>3, <3>1
  <2> QED
    BY <1>2, <2>1, <2>2, <2>4, <2>5
<1> QED
  BY <1>2, <1>5, <1>6, <1>7, <1>8, <1>9 DEF RingInv

(***************************************************************************)
(* The consumer's copy is made of the oldest elements, which stay in the   *)
(* ring until the read index is published.                                 *)
(***************************************************************************)
LEMMA TakeCopyRing ==
  ASSUME RingInv, TakeCopy
  PROVE  RingInv'
<1> USE QueueAssumption
<1>1. UNCHANGED <<ring, readIdx, writeIdx, adder, step, op>>
  BY DEF TakeCopy, pushVars
<1>2. PICK n \in 1..Count : popped' = Segment(readIdx, (readIdx + n) % Cells)
  BY DEF TakeCopy, Count
<1>3. Count \in 0..Size /\ n \in 0..Size /\ readIdx \in 0..Size
  BY RingFacts DEF RingInv, RingType
<1>4. (((readIdx + n) % Cells) - readIdx) % Cells = n
  BY <1>3, Positions
<1>5. popped' = [i \in 1..n |-> ring[(readIdx + i - 1) % Cells]]
  BY <1>2, <1>4 DEF Segment
<1>6. CopiedOldest'
  BY <1>1, <1>5 DEF CopiedOldest, Count
<1> QED
  BY <1>1, <1>6 DEF RingInv, RingType, AdderHeld, PushUnderWay, Count

(***************************************************************************)
(* Moving the read index removes from the front exactly the operations     *)
(* that were copied.                                                       *)
(***************************************************************************)
LEMMA TakePublishRing ==
  ASSUME RingInv, TakePublish
  PROVE  /\ RingInv'
         /\ \E n \in 1..Len(Contents) :
              /\ Contents' = SubSeq(Contents, n + 1, Len(Contents))
              /\ taken' = taken \o SubSeq(Contents, 1, n)
<1> USE QueueAssumption
<1>1. /\ polling = "popped" /\ polling' = "issue"
      /\ readIdx' = (readIdx + Len(popped)) % Cells /\ taken' = taken \o popped
      /\ UNCHANGED <<ring, writeIdx, adder, step, op>>
  BY DEF TakePublish, pushVars
<1>2. PICK k \in 1..Count : popped = [i \in 1..k |-> ring[(readIdx + i - 1) % Cells]]
  BY <1>1 DEF RingInv, CopiedOldest
<1>3. /\ Count \in 0..Size /\ k \in 0..Size /\ k \in 0..Cells /\ (readIdx + Count) % Cells = writeIdx
      /\ readIdx \in 0..Size /\ Size \in Nat /\ Cells = Size + 1
  BY RingFacts DEF RingInv, RingType, Cells
<1>4. Len(popped) = k
  <2>1. k \in Nat /\ DOMAIN popped = 1..k
    BY <1>2
  <2> QED
    BY <1>2, <2>1
<1>5. readIdx' = (readIdx + k) % Cells
  BY <1>1, <1>4
<1>6. readIdx' \in 0..Size /\ \A j \in 0..Size : (readIdx' + j) % Cells = (readIdx + (k + j)) % Cells
  <2>1. /\ \A j \in 0..Cells : (readIdx + j) % Cells \in 0..Size
        /\ \A j, m \in 0..Size :
             (((readIdx + j) % Cells) + m) % Cells = (readIdx + (j + m)) % Cells
    BY <1>3, Positions
  <2> QED
    BY <1>3, <1>5, <2>1
<1>7. Count' = Count - k
  <2> DEFINE m == Count - k
  <2>1. m \in 0..Size /\ k + m = Count
    BY <1>3
  <2> HIDE DEF m
  <2>2. writeIdx = (readIdx' + m) % Cells
    BY <1>3, <1>6, <2>1
  <2>3. (((readIdx' + m) % Cells) - readIdx') % Cells = m
    BY <1>6, <2>1, Positions
  <2> QED
    BY <1>1, <2>2, <2>3 DEF m, Count
<1>8. RingType'
  BY <1>1, <1>6 DEF RingInv, RingType
<1>9. AdderHeld' /\ PushUnderWay' /\ CopiedOldest'
  <2>1. Count' <= Count
    BY <1>3, <1>7
  <2>2. Count' \in Int /\ Count \in Int
    BY <1>3, <1>7
  <2>3. Count < Size => Count' < Size
    BY <1>3, <2>1, <2>2
  <2>4. AdderHeld'
    BY <1>1 DEF RingInv, AdderHeld
  <2>5. PushUnderWay'
    BY <1>1, <2>3 DEF RingInv, PushUnderWay
  <2>6. CopiedOldest'
    BY <1>1 DEF CopiedOldest
  <2> QED
    BY <2>4, <2>5, <2>6
<1>10. /\ Contents = [i \in 1..Count |-> ring[(readIdx + i - 1) % Cells]]
       /\ Contents \in Seq(Objects \cup {None}) /\ Len(Contents) = Count
  BY ContentsAre DEF RingInv
<1>11. Contents' = SubSeq(Contents, k + 1, Len(Contents))
  <2>1. Contents' = [i \in 1..(Count - k) |-> ring[(readIdx' + i - 1) % Cells]]
    BY <1>1, <1>7 DEF Contents, Segment, Count
  <2>2. SubSeq(Contents, k + 1, Len(Contents)) = [i \in 1..(Count - k) |-> Contents[k + i]]
    BY <1>3, <1>10
  <2>3. ASSUME NEW i \in 1..(Count - k)
        PROVE  ring[(readIdx' + i - 1) % Cells] = Contents[k + i]
    <3> DEFINE j == i - 1
    <3>1. /\ j \in 0..Size /\ k + i \in 1..Count
          /\ readIdx' + i - 1 = readIdx' + j /\ readIdx + (k + i) - 1 = readIdx + (k + j)
      BY <1>3, <1>6
    <3>2. Contents[k + i] = ring[(readIdx + (k + i) - 1) % Cells]
      BY <1>10, <3>1
    <3> HIDE DEF j
    <3> QED
      BY <1>6, <3>1, <3>2
  <2> QED
    BY <2>1, <2>2, <2>3
<1>12. popped = SubSeq(Contents, 1, k)
  <2>1. SubSeq(Contents, 1, k) = [i \in 1..k |-> Contents[i]]
    BY <1>3, <1>10
  <2>2. \A i \in 1..k : i \in 1..Count
    BY <1>3
  <2> QED
    BY <1>2, <1>10, <2>1, <2>2
<1>13. k \in 1..Len(Contents)
  BY <1>10
<1> QED
  BY <1>1, <1>8, <1>9, <1>11, <1>12, <1>13 DEF RingInv

(***************************************************************************)
(* The pool in the queue's specification: a step of the queue is a step of *)
(* the pool, or leaves it alone, or makes the program abort.               *)
(***************************************************************************)
QueuePoolInv == PoolInv /\ CachesBounded

(***************************************************************************)
(* Writing an element, or ending the program because the ring is full,     *)
(* takes no object from anyone.                                            *)
(***************************************************************************)
LEMMA AbortKeepsPool ==
  ASSUME QueuePoolInv, NEW c \in CPUs, PushWrite(c)
  PROVE  QueuePoolInv'
<1>1. UNCHANGED <<central, cache, holder, pc, got, inUse>> /\ failed' \in BOOLEAN
  BY DEF PushWrite, QueuePoolInv, PoolInv, TypeOK
<1> QED
  BY <1>1 DEF QueuePoolInv, PoolInv, TypeOK, OneConsumer, CopiedStillThere, Everywhere, Disjoint,
     Held, InHand, CachesBounded

(***************************************************************************)
(* The allocator's own steps keep the invariant of the pool.               *)
(***************************************************************************)
LEMMA PoolKept ==
  ASSUME QueuePoolInv, [Next]_vars
  PROVE  QueuePoolInv'
BY PoolStep, CachesStep DEF QueuePoolInv, PoolInv

(***************************************************************************)
(* Every step of queue and allocator together keeps each object in one     *)
(* place.                                                                  *)
(***************************************************************************)
LEMMA QueuePoolStep ==
  ASSUME QueuePoolInv, [QueueNext]_allVars
  PROVE  QueuePoolInv'
<1>1. CASE UNCHANGED allVars
  BY <1>1, PoolKept DEF allVars
<1>2. ASSUME NEW c \in CPUs, Begin(c) \/ GoOn(c) PROVE QueuePoolInv'
  BY <1>2, PoolKept DEF Begin, GoOn, AllocForPush, Next
<1>3. ASSUME NEW c \in CPUs, LockAdder(c) \/ PushPublish(c) \/ UnlockAdder(c) PROVE QueuePoolInv'
  BY <1>3, PoolKept DEF LockAdder, PushPublish, UnlockAdder
<1>4. ASSUME NEW c \in CPUs, PushWrite(c) PROVE QueuePoolInv'
  BY <1>4, AbortKeepsPool
<1>5. CASE TakeCopy \/ TakePublish
  BY <1>5, PoolKept DEF TakeCopy, TakePublish
<1>6. CASE IssueAndFree
  BY <1>6, PoolKept DEF IssueAndFree, Next
<1> QED
  BY <1>1, <1>2, <1>3, <1>4, <1>5, <1>6 DEF QueueNext, Run, Push, Polling

(***************************************************************************)
(* Every step of queue and allocator together keeps the invariant of the   *)
(* ring.                                                                   *)
(***************************************************************************)
LEMMA RingStep ==
  ASSUME QueuePoolInv, RingInv, [QueueNext]_allVars
  PROVE  RingInv'
<1>1. CASE UNCHANGED allVars
  BY <1>1 DEF allVars, pushVars, popVars, RingInv, RingType, AdderHeld, PushUnderWay,
     CopiedOldest, Count
<1>2. ASSUME NEW c \in CPUs, Begin(c) \/ GoOn(c) PROVE RingInv'
  BY <1>2, AllocForPushRing DEF Begin, GoOn, QueuePoolInv
<1>3. ASSUME NEW c \in CPUs, Push(c) PROVE RingInv'
  BY <1>3, LockAdderRing, PushWriteRing, PushPublishRing, UnlockAdderRing DEF Push
<1>4. CASE TakeCopy \/ TakePublish
  BY <1>4, TakeCopyRing, TakePublishRing
<1>5. CASE IssueAndFree
  BY <1>5 DEF IssueAndFree, pushVars, RingInv, RingType, AdderHeld, PushUnderWay,
     CopiedOldest, Count
<1> QED
  BY <1>1, <1>2, <1>3, <1>4, <1>5 DEF QueueNext, Run, Polling

(***************************************************************************)
(* Every object of the pool is at all times in use by one task, in the     *)
(* central queue, or with one CPU (ObjAllocator::alloc and free), for the  *)
(* pool on its own and for the pool the queue of the collectives uses.     *)
(***************************************************************************)
THEOREM PoolHasOneOwner == (Spec => []OneOwner) /\ (QueueSpec => []OneOwner)
<1>1. PoolInv => OneOwner
  BY PoolImpliesOneOwner
<1>2. Spec => []PoolInv
  <2>1. PoolInv /\ [Next]_vars => PoolInv'
    BY PoolStep
  <2> QED
    BY <2>1, PoolInit, PTL DEF Spec
<1>3. QueueSpec => []QueuePoolInv
  <2>1. QueueInit => QueuePoolInv
    BY PoolInit, CachesInit DEF QueueInit, QueuePoolInv
  <2>2. QueuePoolInv /\ [QueueNext]_allVars => QueuePoolInv'
    BY QueuePoolStep
  <2> QED
    BY <2>1, <2>2, PTL DEF QueueSpec
<1>4. QueuePoolInv => PoolInv
  BY DEF QueuePoolInv
<1> QED
  BY <1>1, <1>2, <1>3, <1>4, PTL

(***************************************************************************)
(* alloc comes to an empty central queue, and aborts the program, only     *)
(* when all but (CPUs - 1) * (BatchSize - 1) objects are in use or in the  *)
(* hand of a CPU that is about to use them: a CPU keeps at most BatchSize  *)
(* objects, and the one that fails keeps none.                             *)
(***************************************************************************)
THEOREM AbortsOnlyWhenExhausted ==
  (Spec => []FailsOnlyWhenExhausted) /\ (QueueSpec => []FailsOnlyWhenExhausted)
<1>1. QueuePoolInv => FailsOnlyWhenExhausted
  BY BoundedImpliesExhausted DEF QueuePoolInv
<1>2. Spec => []QueuePoolInv
  <2>1. Init => QueuePoolInv
    BY PoolInit, CachesInit DEF QueuePoolInv
  <2>2. QueuePoolInv /\ [Next]_vars => QueuePoolInv'
    BY PoolKept
  <2> QED
    BY <2>1, <2>2, PTL DEF Spec
<1>3. QueueSpec => []QueuePoolInv
  <2>1. QueueInit => QueuePoolInv
    BY PoolInit, CachesInit DEF QueueInit, QueuePoolInv
  <2>2. QueuePoolInv /\ [QueueNext]_allVars => QueuePoolInv'
    BY QueuePoolStep
  <2> QED
    BY <2>1, <2>2, PTL DEF QueueSpec
<1> QED
  BY <1>1, <1>2, <1>3, PTL

(***************************************************************************)
(* Each step of the queue is a step of the FIFO or leaves it alone: moving *)
(* the write index is its Put, moving the read index its Take.             *)
(***************************************************************************)
LEMMA FifoStep ==
  ASSUME QueuePoolInv, RingInv, [QueueNext]_allVars
  PROVE  [Fifo!FifoNext]_(Fifo!fifoVars)
<1>0. ASSUME Contents' = Contents, taken' = taken PROVE UNCHANGED Fifo!fifoVars
  BY <1>0 DEF Fifo!fifoVars, Contents
<1>1. CASE UNCHANGED allVars
  BY <1>0, <1>1, SameContents DEF allVars, popVars
<1>2. ASSUME NEW c \in CPUs, Begin(c) \/ GoOn(c) PROVE UNCHANGED Fifo!fifoVars
  BY <1>0, <1>2, SameContents DEF Begin, GoOn, AllocForPush, popVars
<1>3. ASSUME NEW c \in CPUs, LockAdder(c) \/ UnlockAdder(c) PROVE UNCHANGED Fifo!fifoVars
  BY <1>0, <1>3, SameContents DEF LockAdder, UnlockAdder, popVars
<1>4. ASSUME NEW c \in CPUs, PushWrite(c) PROVE UNCHANGED Fifo!fifoVars
  BY <1>0, <1>4, PushWriteRing DEF PushWrite, popVars
<1>5. ASSUME NEW c \in CPUs, PushPublish(c) PROVE Fifo!FifoNext
  <2>1. /\ op[c] \in Objects /\ Len(Contents) < Size
        /\ Contents' = Append(Contents, op[c]) /\ taken' = taken
    BY <1>5, PushPublishRing DEF PushPublish, popVars
  <2>2. Fifo!Put("coll", op[c])
    BY <2>1 DEF Fifo!Put, Contents
  <2> QED
    BY <2>1, <2>2 DEF Fifo!FifoNext
<1>6. CASE TakePublish
  <2>1. PICK n \in 1..Len(Contents) : /\ Contents' = SubSeq(Contents, n + 1, Len(Contents))
                                      /\ taken' = taken \o SubSeq(Contents, 1, n)
    BY <1>6, TakePublishRing
  <2>2. Fifo!Take("coll", n)
    BY <2>1 DEF Fifo!Take, Contents
  <2> QED
    BY <2>1, <2>2 DEF Fifo!FifoNext, Contents
<1>7. CASE TakeCopy \/ IssueAndFree
  BY <1>0, <1>7, SameContents DEF TakeCopy, IssueAndFree
<1> QED
  BY <1>1, <1>2, <1>3, <1>4, <1>5, <1>6, <1>7 DEF QueueNext, Run, Push, Polling

(***************************************************************************)
(* The ring with its two indices, written by many tasks under _adderMutex  *)
(* and read by the polling task without it, is a FIFO of at most Size      *)
(* operations: none is lost, duplicated or reordered, for any number of    *)
(* CPUs and any size.                                                      *)
(***************************************************************************)
THEOREM QueueImplementsFifo == QueueSpec => ImplementsFifo
<1>1. QueueInit => QueuePoolInv /\ RingInv
  BY PoolInit, CachesInit, RingInit DEF QueueInit, QueuePoolInv
<1>2. QueuePoolInv /\ RingInv /\ [QueueNext]_allVars => QueuePoolInv' /\ RingInv'
  BY QueuePoolStep, RingStep
<1>3. QueueInit => Fifo!FifoInit
  <2> SUFFICES ASSUME QueueInit PROVE Fifo!FifoInit
    OBVIOUS
  <2>1. Contents = <<>>
    <3>1. Cells \in Nat \ {0} /\ readIdx = 0 /\ writeIdx = 0
      BY QueueAssumption DEF QueueInit, Cells
    <3>2. (writeIdx - readIdx) % Cells = 0
      BY <3>1
    <3> QED
      BY <3>2 DEF Contents, Segment
  <2> QED
    BY <2>1 DEF QueueInit, Fifo!FifoInit, Contents
<1>4. QueuePoolInv /\ RingInv /\ [QueueNext]_allVars => [Fifo!FifoNext]_(Fifo!fifoVars)
  BY FifoStep
<1> QED
  BY <1>1, <1>2, <1>3, <1>4, PTL DEF QueueSpec, ImplementsFifo, Fifo!FifoSpec

=============================================================================
