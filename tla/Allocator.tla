----------------------------- MODULE Allocator ------------------------------
(***************************************************************************)
(* ObjAllocator, the pool the operations are built in.  All objects start  *)
(* in _central, a single-producer single-consumer queue.  A CPU takes an   *)
(* object from its own cache, and refills an empty cache with a batch from *)
(* _central; _mutex makes the CPUs a single consumer.  The polling task    *)
(* is the single producer: it gives objects back to _central.  A CPU runs  *)
(* one task at a time and alloc has no point where a task can be switched, *)
(* so the CPUs are the processes.  Which object of a container is taken    *)
(* makes no difference to the properties: containers are sets.             *)
(***************************************************************************)
EXTENDS Integers, FiniteSets

CONSTANTS
  CPUs, NoCPU,
  Objects,     \* _data: Capacity objects
  BatchSize,
  MaxFree      \* objects the polling task frees at once at most

ASSUME AllocatorAssumption ==
  /\ IsFiniteSet(CPUs) /\ NoCPU \notin CPUs
  /\ IsFiniteSet(Objects)
  /\ BatchSize \in Nat \ {0}
  /\ MaxFree \in Nat \ {0}

VARIABLES
  central,   \* _central
  cache,     \* _caches: the objects in each CPU's cache
  holder,    \* who holds _mutex
  pc,        \* where each CPU is in alloc
  got,       \* the local array objects of each CPU
  inUse,     \* the objects handed out and not yet freed
  failed     \* "Unavailable allocator objects": the program was aborted

vars == <<central, cache, holder, pc, got, inUse, failed>>

Steps == {"out", "lock", "pop", "popped", "unlock", "fill"}

\* The constructor.
Init ==
  /\ central = Objects
  /\ cache = [c \in CPUs |-> {}]
  /\ holder = NoCPU
  /\ pc = [c \in CPUs |-> "out"]
  /\ got = [c \in CPUs |-> {}]
  /\ inUse = {}
  /\ failed = FALSE

Goto(c, there) == pc' = [pc EXCEPT ![c] = there]

\* alloc, when the CPU's cache holds an object.
AllocCached(c) ==
  /\ ~ failed /\ pc[c] = "out"
  /\ \E o \in cache[c] :
       /\ cache' = [cache EXCEPT ![c] = @ \ {o}]
       /\ inUse' = inUse \cup {o}
  /\ UNCHANGED <<central, holder, pc, got, failed>>

AllocMiss(c) ==
  /\ ~ failed /\ pc[c] = "out"
  /\ cache[c] = {}
  /\ Goto(c, "lock")
  /\ UNCHANGED <<central, cache, holder, got, inUse, failed>>

LockAnyway(c) ==   \* mutant
  /\ ~ failed /\ pc[c] = "lock"
  /\ holder' = c
  /\ Goto(c, "pop")
  /\ UNCHANGED <<central, cache, got, inUse, failed>>

Lock(c) ==
  /\ ~ failed /\ pc[c] = "lock"
  /\ holder = NoCPU
  /\ holder' = c
  /\ Goto(c, "pop")
  /\ UNCHANGED <<central, cache, got, inUse, failed>>

BatchOneMore(objs) ==   \* mutant
  {b \in SUBSET objs : Cardinality(b) = IF Cardinality(objs) <= BatchSize
                                        THEN Cardinality(objs) ELSE BatchSize + 1}

\* What _central.pop(objects, BatchSize) may return: as many as there are, up
\* to a batch.
Batch(objs) ==
  {b \in SUBSET objs : Cardinality(b) = IF Cardinality(objs) < BatchSize
                                        THEN Cardinality(objs) ELSE BatchSize}

\* The pop copies the objects out and then moves the read index.
PopCopy(c) ==
  /\ ~ failed /\ pc[c] = "pop"
  /\ \E b \in Batch(central) : got' = [got EXCEPT ![c] = b]
  /\ Goto(c, "popped")
  /\ UNCHANGED <<central, cache, holder, inUse, failed>>

PopPublish(c) ==
  /\ ~ failed /\ pc[c] = "popped"
  /\ central' = central \ got[c]
  /\ Goto(c, "unlock")
  /\ UNCHANGED <<cache, holder, got, inUse, failed>>

Unlock(c) ==
  /\ ~ failed /\ pc[c] = "unlock"
  /\ holder' = NoCPU
  /\ Goto(c, "fill")
  /\ UNCHANGED <<central, cache, got, inUse, failed>>

\* Abort if the batch is empty; otherwise one object is returned and the rest
\* go to the cache.
Fill(c) ==
  /\ ~ failed /\ pc[c] = "fill"
  /\ IF got[c] = {}
     THEN failed' = TRUE /\ UNCHANGED <<cache, inUse>>
     ELSE /\ \E o \in got[c] :
               /\ inUse' = inUse \cup {o}
               /\ cache' = [cache EXCEPT ![c] = @ \cup (got[c] \ {o})]
          /\ UNCHANGED failed
  /\ got' = [got EXCEPT ![c] = {}]
  /\ Goto(c, "out")
  /\ UNCHANGED <<central, holder>>

\* free, by the polling task, of the operations it has transferred.
Free ==
  /\ ~ failed
  /\ \E objs \in SUBSET inUse \ {{}} :
       /\ Cardinality(objs) <= MaxFree
       /\ central' = central \cup objs
       /\ inUse' = inUse \ objs
  /\ UNCHANGED <<cache, holder, pc, got, failed>>

Alloc(c) ==
  \/ AllocCached(c) \/ AllocMiss(c) \/ Lock(c)
  \/ PopCopy(c) \/ PopPublish(c) \/ Unlock(c) \/ Fill(c)

Next == (\E c \in CPUs : Alloc(c)) \/ Free

Spec == Init /\ [][Next]_vars

(***************************************************************************)
(* Properties.                                                             *)
(***************************************************************************)
TypeOK ==
  /\ central \subseteq Objects
  /\ cache \in [CPUs -> SUBSET Objects]
  /\ holder \in CPUs \cup {NoCPU}
  /\ pc \in [CPUs -> Steps]
  /\ got \in [CPUs -> SUBSET Objects]
  /\ inUse \subseteq Objects
  /\ failed \in BOOLEAN

\* The objects a CPU holds: those in its cache and those it has removed from
\* the central queue and not put anywhere yet.
InHand(c) == IF pc[c] \in {"unlock", "fill"} THEN got[c] ELSE {}

Held(c) == cache[c] \cup InHand(c)

(***************************************************************************)
(* OneOwner: alloc never hands an operation object to two tasks, and no    *)
(* object is lost: every object is in use, in the central queue or with    *)
(* exactly one CPU, although the central queue is read by many CPUs and    *)
(* written by the polling task at the same time.                           *)
(***************************************************************************)
OneOwner ==
  /\ Objects = central \cup inUse \cup UNION {Held(c) : c \in CPUs}
  /\ central \cap inUse = {}
  /\ \A c \in CPUs :
       /\ Held(c) \cap (central \cup inUse) = {}
       /\ cache[c] \cap InHand(c) = {}
       /\ \A d \in CPUs \ {c} : Held(c) \cap Held(d) = {}

(***************************************************************************)
(* FailsOnlyWhenExhausted: alloc fails with "Unavailable allocator objects"*)
(* when the central queue is empty.  The caches of the other CPUs may keep *)
(* objects then, but never more than BatchSize - 1 each: all the others    *)
(* are in use, or about to be (one for each CPU with a batch in hand).     *)
(* The push into a cache never exceeds its BatchSize entries.              *)
(***************************************************************************)
FailsOnlyWhenExhausted ==
  /\ \A c \in CPUs : Cardinality(Held(c)) <= BatchSize
  /\ \A c \in CPUs :
       pc[c] = "pop" /\ central = {} =>
         Cardinality(inUse) + Cardinality({d \in CPUs : InHand(d) # {}})
           >= Cardinality(Objects) - (Cardinality(CPUs) - 1) * (BatchSize - 1)

=============================================================================
