------------------------ MODULE TicketManagerProofs -------------------------
(***************************************************************************)
(* The steps of the polling task keep the inductive invariant, which hence *)
(* holds in every reachable state and implies the safety properties and    *)
(* the promise TaskAware, for every program and every choice of the        *)
(* bounds.                                                                 *)
(***************************************************************************)
EXTENDS UserTaskProofs

\* Zenon is tried first, briefly, and both provers get more time than by default.
USE ZenonT(4), SMTT(20), ZenonT(20)

(***************************************************************************)
(* checkRequests starts with no more room than the arrays have.            *)
(***************************************************************************)
LEMMA PollBeginStep ==
  ASSUME IInv, PollBegin
  PROVE  IInv'
<1> USE DEF PollBegin, LoopHead, alpiVars, taskVars, complVars, IInv
<1>1. /\ Available \in Nat \/ Cardinality(inflight) >= capacity
      /\ Available + Cardinality(inflight) <= capacity
      /\ tmp = <<>> /\ batch = {} /\ room = 0
  BY RoomTypes, BoundsAssumption DEF LocalsInUse, TypeOK, Available, Lesser
<1>2. again' \in BOOLEAN
  OBVIOUS
<1>3. room' \in Nat /\ ppc' \in {"pop", "check"}
  BY RoomTypes, <1>1 DEF TypeOK
<1>4. TypeOK'
  BY <1>2, <1>3 DEF TypeOK, ALPIType, MPIType
<1>5. LocalsInUse'
  BY <1>1, <1>3, ElementsEmpty DEF LocalsInUse
<1>6. NoDuplicates' /\ WhereOperationsAre' /\ Handshake' /\ EventsMatch'
  BY NoDuplicatesFrame, WhereFrame, HandshakeFrame, EventsFrame
<1>7. RoomLeft'
  BY <1>1, RoomTypes DEF RoomLeft, TypeOK
<1>8. QED
  BY <1>4, <1>5, <1>6, <1>7

(***************************************************************************)
(* Popping an operation moves it from its pre-queue to tmp.                *)
(***************************************************************************)
LEMMA PopStep ==
  ASSUME IInv, NEW q \in Queues, Pop(q)
  PROVE  IInv'
<1> DEFINE h == Head(queue[q])
<1> USE DEF alpiVars, taskVars, complVars, IInv
<1>1. queue[q] \in Seq(Ops) /\ queue[q] # <<>> /\ tmp \in Seq(Ops)
  BY DEF Pop, TypeOK
<1>2. /\ Tail(queue[q]) \in Seq(Ops) /\ h \in Ops /\ h \in Elements(queue[q])
      /\ Elements(queue[q]) = Elements(Tail(queue[q])) \cup {h}
      /\ Distinct(Tail(queue[q])) /\ h \notin Elements(Tail(queue[q]))
  BY <1>1, ElementsTail DEF NoDuplicates
<1>3. /\ queue' \in [Queues -> Seq(Ops)]
      /\ queue'[q] = Tail(queue[q])
      /\ \A r \in Queues : r # q => queue'[r] = queue[r]
  BY <1>2 DEF Pop, TypeOK
<1>4. /\ tmp' \in Seq(Ops) /\ Len(tmp') = Len(tmp) + 1
      /\ Elements(tmp') = Elements(tmp) \cup {h}
      /\ Distinct(tmp')
  <2>1. h \notin Elements(tmp) /\ Distinct(tmp)
    BY <1>2 DEF NoDuplicates
  <2>2. QED
    BY <1>1, <1>2, <2>1, ElementsAppend DEF Pop
<1>5. ppc = "pop" /\ ppc' = "pop" /\ stage # "check" /\ batch' = batch \cup {h}
  BY DEF Pop, LocalsInUse
<1>6. TypeOK'
  BY <1>2, <1>3, <1>4, <1>5 DEF Pop, TypeOK, ALPIType, MPIType
<1>7. LocalsInUse'
  <2>1. Len(tmp') <= room
    <3>1. /\ Len(tmp) < Lesser(room, BatchSize) /\ room \in Nat /\ BatchSize \in Nat
          /\ tmp \in Seq(Ops) /\ Len(tmp') = Len(tmp) + 1
      BY <1>1, <1>4, BoundsAssumption DEF Pop, TypeOK
    <3>2. QED
      BY ONLY <3>1, SMTT(20) DEF Lesser
  <2>2. Elements(tmp') \cup reqs \subseteq batch' /\ batch' = Elements(tmp')
    BY <1>4, <1>5 DEF LocalsInUse
  <2>3. UNCHANGED <<reqs, done, stage, finished, unchecked, room, csnap, cqueue>>
    BY DEF Pop
  <2>4. QED
    BY <1>5, <2>1, <2>2, <2>3 DEF LocalsInUse
<1>8. NoDuplicates'
  BY <1>2, <1>3, <1>4 DEF Pop, NoDuplicates
<1>9. WhereOperationsAre'
  <2>1. \A o : Waiting(o)' <=> Waiting(o)
    BY <1>2, <1>3, <1>4 DEF Waiting
  <2>2. QED
    BY <2>1, WhereKept DEF Pop
<1>10. Handshake' /\ EventsMatch'
  BY HandshakeFrame, EventsFrame DEF Pop
<1>11. RoomLeft'
  <2>1. Cardinality(inflight \cup batch) \in Nat /\ Cardinality((inflight \cup batch) \cup {h}) \in Nat
        /\ Cardinality((inflight \cup batch) \cup {h}) <= Cardinality(inflight \cup batch) + 1
    BY <1>2, CardinalityAdd DEF TypeOK
  <2>2. (inflight \cup batch)' = (inflight \cup batch) \cup {h}
    BY <1>5 DEF Pop
  <2>3. room' = room /\ capacity' = capacity /\ room \in Nat /\ capacity \in Nat /\ Len(tmp) \in Nat
    BY <1>1, BoundsAssumption DEF Pop, TypeOK
  <2>4. Cardinality(inflight \cup batch) + room <= capacity + Len(tmp)
    BY <1>5 DEF RoomLeft
  <2>5. Cardinality((inflight \cup batch)') = Cardinality((inflight \cup batch) \cup {h})
    BY <2>2, Zenon
  <2>6. Cardinality((inflight \cup batch)') + room' <= capacity' + Len(tmp')
    BY <1>4, <2>1, <2>3, <2>4, <2>5
  <2>7. QED
    BY <1>5, <2>6 DEF RoomLeft
<1>12. QED
  BY <1>6, <1>7, <1>8, <1>9, <1>10, <1>11

(***************************************************************************)
(* The popped operations are all that the room in the arrays allows at     *)
(* most.                                                                   *)
(***************************************************************************)
LEMMA PopEndStep ==
  ASSUME IInv, PopEnd
  PROVE  IInv'
<1> USE DEF PopEnd, NextStage, alpiVars, taskVars, complVars, IInv
<1>1. Len(tmp) \in Nat /\ (tmp = <<>> <=> Len(tmp) = 0) /\ Len(tmp) <= room /\ stage # "check"
      /\ batch = Elements(tmp) /\ reqs = {} /\ done = {} /\ finished = {} /\ unchecked = {}
  BY DEF LocalsInUse, TypeOK
<1>2. moved' \in BOOLEAN /\ again' \in BOOLEAN
  BY DEF TypeOK
<1>3. room' \in Nat /\ ppc' \in {"issue", "pop", "check"} /\ stage' \in {"p2p", "coll"}
  BY <1>1 DEF TypeOK
<1>4. TypeOK'
  BY <1>2, <1>3 DEF TypeOK, ALPIType, MPIType
<1>5. LocalsInUse'
  <2>1. CASE tmp # <<>>
    BY <1>1, <1>3, <2>1 DEF LocalsInUse, TypeOK
  <2>2. CASE tmp = <<>>
    <3>1. Elements(tmp) = {} /\ batch = {} /\ Len(tmp) = 0
      BY <1>1, <2>2, ElementsEmpty
    <3>2. ppc' = "check" => room' = 0
      BY <2>2
    <3>3. QED
      BY <1>1, <1>3, <2>2, <3>1, <3>2 DEF LocalsInUse, TypeOK
  <2>3. QED
    BY <2>1, <2>2
<1>6. NoDuplicates' /\ WhereOperationsAre' /\ Handshake' /\ EventsMatch'
  BY NoDuplicatesFrame, WhereFrame, HandshakeFrame, EventsFrame
<1>7. RoomLeft'
  <2>1. Cardinality(inflight \cup batch) \in Nat /\ room \in Nat /\ capacity \in Nat
    BY RoomTypes
  <2>2. Cardinality(inflight \cup batch) + room <= capacity + Len(tmp)
    BY DEF RoomLeft
  <2>3. (inflight \cup batch)' = inflight \cup batch /\ tmp' = tmp /\ capacity' = capacity
    OBVIOUS
  <2>4. room' + Len(tmp) <= room \/ (tmp = <<>> /\ room' <= room)
    BY <1>1, <2>1
  <2>5. QED
    BY <1>1, <1>3, <2>1, <2>2, <2>3, <2>4 DEF RoomLeft
<1>8. QED
  BY <1>4, <1>5, <1>6, <1>7

-----------------------------------------------------------------------------
(***************************************************************************)
(* Issuing an operation gives it a request, or completes it at once.       *)
(***************************************************************************)
LEMMA IssueStep ==
  ASSUME IInv, Issue
  PROVE  IInv'
<1> DEFINE h == Head(tmp)
<1> USE DEF alpiVars, taskVars, complVars, IInv
<1>1. tmp \in Seq(Ops) /\ tmp # <<>> /\ ppc = "issue" /\ stage # "check"
      /\ finished = {} /\ unchecked = {}
  BY DEF Issue, TypeOK, LocalsInUse
<1>2. /\ tmp' \in Seq(Ops) /\ h \in Ops /\ h \in Elements(tmp)
      /\ Elements(tmp) = Elements(tmp') \cup {h}
      /\ Distinct(tmp') /\ h \notin Elements(tmp')
  BY <1>1, ElementsTail DEF Issue, NoDuplicates
<1>3. request[h] = "none" /\ h \in batch
  BY <1>2, WhereSummary DEF Waiting, LocalsInUse
<1>4. h \notin reqs \cup inflight \cup done \cup Elements(cqueue) \cup notified
  BY <1>1, <1>2, <1>3, WhereSummary
<1>5. \/ request' = [request EXCEPT ![h] = "active"] /\ reqs' = reqs \cup {h} /\ done' = done
      \/ NullRequests /\ request' = [request EXCEPT ![h] = "null"] /\ reqs' = reqs /\ done' = done \cup {h}
  BY DEF Issue, IssueRequest, IssueNull
<1>6. TypeOK'
  <2>1. request' \in [Ops -> RequestState] /\ reqs' \subseteq Ops /\ done' \subseteq Ops
    BY <1>2, <1>5 DEF TypeOK, MPIType, RequestState
  <2>2. unissued' \in [Queues -> Seq(Ops)]
    BY DEF Issue, TypeOK
  <2>3. QED
    BY <1>2, <2>1, <2>2 DEF Issue, TypeOK, ALPIType, MPIType
<1>7. LocalsInUse'
  BY <1>1, <1>2, <1>3, <1>5 DEF Issue, LocalsInUse
<1>8. NoDuplicates'
  <2>1. UNCHANGED <<queue, cqueue, inflight, finished, unchecked>>
    BY DEF Issue
  <2>2. reqs' \cap inflight = {} /\ done' \cap Elements(cqueue) = {}
    BY <1>4, <1>5 DEF NoDuplicates
  <2>3. \A q \in Queues : Elements(queue[q]) \cap Elements(tmp') = {}
    BY <1>2 DEF NoDuplicates
  <2>4. QED
    BY <1>2, <2>1, <2>2, <2>3 DEF NoDuplicates
<1>9. WhereOperationsAre'
  <2> SUFFICES ASSUME NEW t \in Tasks, NEW i \in 1..Len(Program[t]) PROVE WhereIs(t, i)'
    BY DEF WhereOperationsAre
  <2> DEFINE o == Program[t][i]
  <2>1. o \in Ops /\ WhereIs(t, i)
    BY ProgramType DEF WhereOperationsAre
  <2>2. CASE o # h
    <3>1. request'[o] = request[o] /\ (Waiting(o)' <=> Waiting(o))
      BY <1>2, <1>5, <2>1, <2>2 DEF Issue, Waiting, TypeOK, MPIType
    <3>2. (o \in reqs' <=> o \in reqs) /\ (o \in done' <=> o \in done)
      BY <1>5, <2>2
    <3>3. Pushed(t, i)' <=> Pushed(t, i)
      BY DEF Issue, Pushed
    <3>4. QED
      BY <2>1, <3>1, <3>2, <3>3 DEF Issue, WhereIs
  <2>3. CASE o = h
    <3>1. Pushed(t, i)
      BY <1>2, <2>1, <2>3 DEF WhereIs, Waiting
    <3>2. ~Waiting(o)'
      BY <1>2, <2>3 DEF Issue, Waiting, NoDuplicates
    <3>3. \/ request'[o] = "active" /\ o \in reqs' /\ done' = done
          \/ NullRequests /\ request'[o] = "null" /\ o \in done' /\ reqs' = reqs
      BY <1>5, <2>1, <2>3 DEF TypeOK, MPIType
    <3>4. Pushed(t, i)'
      BY <3>1 DEF Issue, Pushed
    <3>5. QED
      BY <1>1, <1>4, <2>3, <3>2, <3>3, <3>4 DEF Issue, WhereIs
  <2>4. QED
    BY <2>2, <2>3
<1>10. Handshake' /\ EventsMatch'
  BY HandshakeFrame, EventsFrame DEF Issue
<1>11. RoomLeft'
  BY <1>1 DEF Issue, RoomLeft
<1>12. QED
  BY <1>6, <1>7, <1>8, <1>9, <1>10, <1>11

(***************************************************************************)
(* internalTestRequests only reports requests that MPI has completed.      *)
(***************************************************************************)
LEMMA TestRequestsSound ==
  ASSUME NEW approach, NEW S, NEW R \in TestRequests(approach, S)
  PROVE  R \subseteq S /\ \A o \in R : request[o] = "complete"
BY DEF TestRequests

(***************************************************************************)
(* The immediate test moves the operations it finds complete to the ones   *)
(* to be handed over, status stored.                                       *)
(***************************************************************************)
LEMMA ImmediateTestStep ==
  ASSUME IInv, ImmediateTest
  PROVE  IInv'
<1> USE DEF alpiVars, taskVars, complVars, IInv
<1>1. PICK R : /\ R \subseteq reqs /\ \A o \in R : request[o] = "complete"
               /\ ReleaseRequests(R)
               /\ reqs' = reqs \ R
               /\ done' = done \cup R
               /\ stored' = stored \cup (R \cap WithStatus)
  BY TestRequestsSound DEF ImmediateTest, StoreStatus
<1>2. R \subseteq Ops /\ ppc = "itest" /\ ppc' = "deliver" /\ stage # "check"
      /\ tmp = <<>> /\ finished = {} /\ unchecked = {}
  BY <1>1 DEF ImmediateTest, TypeOK, LocalsInUse
<1>3. \A o \in R : o \notin done \cup Elements(cqueue) \cup notified \cup inflight
  BY <1>1, <1>2, WhereSummary DEF NoDuplicates
<1>4. /\ request' \in [Ops -> RequestState]
      /\ \A o \in Ops : request'[o] = IF o \in R THEN "null" ELSE request[o]
  BY <1>1 DEF ReleaseRequests, TypeOK, MPIType, RequestState
<1>5. TypeOK'
  BY <1>1, <1>2, <1>4 DEF ImmediateTest, TypeOK, ALPIType, MPIType
<1>6. LocalsInUse'
  BY <1>1, <1>2 DEF ImmediateTest, LocalsInUse
<1>7. NoDuplicates'
  BY <1>1, <1>3 DEF ImmediateTest, NoDuplicates
<1>8. WhereOperationsAre'
  <2> SUFFICES ASSUME NEW t \in Tasks, NEW i \in 1..Len(Program[t]) PROVE WhereIs(t, i)'
    BY DEF WhereOperationsAre
  <2>1. Program[t][i] \in Ops /\ WhereIs(t, i)
    BY ProgramType DEF WhereOperationsAre
  <2>2. (Waiting(Program[t][i])' <=> Waiting(Program[t][i])) /\ (Pushed(t, i)' <=> Pushed(t, i))
    BY DEF ImmediateTest, Waiting, Pushed
  <2>3. CASE Program[t][i] \notin R
    BY <1>1, <1>4, <2>1, <2>2, <2>3 DEF ImmediateTest, WhereIs
  <2>4. CASE Program[t][i] \in R
    BY <1>1, <1>2, <1>3, <1>4, <2>1, <2>2, <2>4 DEF ImmediateTest, WhereIs
  <2>5. QED
    BY <2>3, <2>4
<1>9. Handshake' /\ EventsMatch'
  BY HandshakeFrame, EventsFrame DEF ImmediateTest
<1>10. RoomLeft'
  BY <1>2 DEF ImmediateTest, RoomLeft
<1>11. QED
  BY <1>5, <1>6, <1>7, <1>8, <1>9, <1>10

(***************************************************************************)
(* A completed ticket is handed over once: to the completion queue or to   *)
(* its task.                                                               *)
(***************************************************************************)
LEMMA DeliverStep ==
  ASSUME IInv, NEW o \in Ops, Deliver(o)
  PROVE  IInv'
<1> USE DEF alpiVars, taskVars, complVars, IInv
<1>1. o \in done /\ o \notin Elements(cqueue) /\ request[o] = "null" /\ o \notin notified
  BY WhereSummary DEF Deliver, NoDuplicates
<1>2. CASE UseCompletionManager /\ Len(cqueue) + cheld >= CompletionSize
  BY <1>2, FailStep DEF Deliver
<1>3. CASE ~(UseCompletionManager /\ Len(cqueue) + cheld >= CompletionSize)
  <2>1. /\ done' = done \ {o}
        /\ UNCHANGED <<request, next, call, queue, allocated, ppc, stage, capacity,
                       saturation, room, moved, again, anyCompleted, tmp, batch, reqs,
                       inflight, unchecked, finished, csnap, cheld, stored, unissued, aborted>>
    BY <1>3 DEF Deliver
  <2>2. \/ cqueue' = Append(cqueue, o) /\ UNCHANGED <<task, events, token, notified>>
        \/ CompleteEvents(o) /\ UNCHANGED cqueue
    BY <1>3 DEF Deliver
  <2>3. RoomLeft'
    BY <2>1 DEF RoomLeft
  <2>4. CASE cqueue' = Append(cqueue, o) /\ UNCHANGED <<task, events, token, notified>>
    <3>1. /\ cqueue' \in Seq(Ops) /\ Elements(cqueue') = Elements(cqueue) \cup {o}
          /\ Distinct(cqueue') /\ Len(cqueue') = Len(cqueue) + 1 /\ Len(cqueue) \in Nat
      <4>1. cqueue \in Seq(Ops)
        BY DEF TypeOK
      <4>2. Distinct(cqueue) /\ o \notin Elements(cqueue)
        BY <1>1 DEF NoDuplicates
      <4>3. /\ Append(cqueue, o) \in Seq(Ops) /\ Distinct(Append(cqueue, o))
            /\ Elements(Append(cqueue, o)) = Elements(cqueue) \cup {o}
        BY <1>1, <4>1, <4>2, ElementsAppend
      <4>4. Len(Append(cqueue, o)) = Len(cqueue) + 1 /\ Len(cqueue) \in Nat
        BY <4>1
      <4>5. QED
        BY <2>4, <4>3, <4>4
    <3>2. TypeOK'
      BY <2>1, <2>4, <3>1 DEF TypeOK, ALPIType, MPIType
    <3>3. LocalsInUse'
      <4>1. csnap \in Nat /\ csnap' = csnap
        BY <2>1 DEF TypeOK
      <4>2. csnap <= Len(cqueue) => csnap' <= Len(cqueue')
        BY <3>1, <4>1
      <4>3. QED
        BY <2>1, <4>2 DEF LocalsInUse
    <3>4. NoDuplicates'
      BY <2>1, <3>1 DEF NoDuplicates
    <3>5. WhereOperationsAre'
      <4>1. (done \cup Elements(cqueue))' = done \cup Elements(cqueue)
        BY <1>1, <2>1, <3>1
      <4>2. QED
        BY <2>1, <2>4, <4>1, WhereSummary, WhereMoved
    <3>6. Handshake' /\ EventsMatch'
      BY <2>1, <2>4, HandshakeFrame, EventsFrame
    <3>7. QED
      BY <2>3, <3>2, <3>3, <3>4, <3>5, <3>6
  <2>5. CASE CompleteEvents(o) /\ UNCHANGED cqueue
    <3>1. ALPIType' /\ Handshake' /\ EventsMatch'
      BY <1>1, <2>1, <2>5, CompleteEventsStep
    <3>2. notified' = notified \cup {o}
      BY <2>5 DEF CompleteEvents
    <3>3. TypeOK'
      BY <2>1, <2>5, <3>1, <3>2 DEF TypeOK, MPIType
    <3>4. LocalsInUse' /\ NoDuplicates'
      BY <2>1, <2>5 DEF LocalsInUse, NoDuplicates
    <3>5. WhereOperationsAre'
      <4>1. (done \cup Elements(cqueue))' = (done \cup Elements(cqueue)) \ {o}
        BY <1>1, <2>1, <2>5
      <4>2. \A p \in Ops : p \in (done \cup Elements(cqueue))' <=>
                            request[p] = "null" /\ p \notin notified'
        BY <3>2, <4>1, WhereSummary
      <4>3. \A p \in Ops : p \in (finished \cup notified)' => request[p] = "null"
        BY <1>1, <2>1, <3>2, WhereSummary
      <4>4. QED
        BY <2>1, <4>2, <4>3, WhereMoved
    <3>6. QED
      BY <2>3, <3>1, <3>3, <3>4, <3>5
  <2>6. QED
    BY <2>2, <2>4, <2>5
<1>4. QED
  BY <1>2, <1>3

(***************************************************************************)
(* transferOperations leaves its pending requests in the arrays and frees  *)
(* the operations.                                                         *)
(***************************************************************************)
LEMMA TransferEndStep ==
  ASSUME IInv, TransferEnd
  PROVE  IInv'
<1> USE DEF TransferEnd, FreeOperations, NextStage, alpiVars, taskVars, complVars, IInv
<1>1. tmp = <<>> /\ done = {} /\ finished = {} /\ unchecked = {} /\ reqs \subseteq batch
      /\ ppc = "deliver" /\ stage # "check"
  BY DEF LocalsInUse
<1>2. moved' \in BOOLEAN
  BY DEF TypeOK
<1>3. /\ room' \in Nat /\ room' <= room
      /\ ppc' \in {"pop", "check"} /\ stage' \in {"p2p", "coll"}
      /\ ppc' = "check" => room' = 0
  BY DEF TypeOK
<1>4. TypeOK'
  BY <1>2, <1>3 DEF TypeOK, ALPIType, MPIType
<1>5. LocalsInUse'
  <2>1. Elements(tmp) = {} /\ Len(tmp) = 0
    BY <1>1, ElementsEmpty
  <2>2. QED
    BY <1>1, <1>3, <2>1 DEF LocalsInUse
<1>6. NoDuplicates'
  BY <1>1 DEF NoDuplicates
<1>7. WhereOperationsAre'
  <2>1. (reqs \cup (inflight \ finished))' = reqs \cup (inflight \ finished)
    BY <1>1
  <2>2. UNCHANGED <<next, call, queue, request, stored, cqueue, notified>>
    OBVIOUS
  <2>3. tmp' = tmp /\ done' = done /\ finished' \subseteq finished
    BY <1>1
  <2>4. QED
    BY <2>1, <2>2, <2>3, WhereSummary, WhereMoved
<1>8. Handshake' /\ EventsMatch'
  BY HandshakeFrame, EventsFrame
<1>9. RoomLeft'
  <2>1. inflight \cup batch \in SUBSET Ops /\ (inflight \cup batch)' \in SUBSET (inflight \cup batch)
    BY <1>1 DEF TypeOK
  <2>2. Cardinality((inflight \cup batch)') \in Nat
        /\ Cardinality((inflight \cup batch)') <= Cardinality(inflight \cup batch)
    BY <2>1, CardinalitySubset
  <2>3. Cardinality(inflight \cup batch) + room <= capacity
    BY <1>1, RoomTypes DEF RoomLeft
  <2>4. Len(tmp') = 0 /\ capacity' = capacity
    BY <1>1
  <2> HIDE DEF TransferEnd, FreeOperations, NextStage
  <2>5. Cardinality(inflight \cup batch) \in Nat /\ room \in Nat /\ capacity \in Nat
    BY RoomTypes
  <2>6. Cardinality((inflight \cup batch)') + room' <= capacity'
    BY <1>3, <2>2, <2>3, <2>4, <2>5
  <2>7. QED
    BY <2>4, <2>5, <2>6 DEF RoomLeft
<1>10. QED
  BY <1>4, <1>5, <1>6, <1>7, <1>8, <1>9

-----------------------------------------------------------------------------
(***************************************************************************)
(* internalCheckRequests starts a pass over all the requests in flight.    *)
(***************************************************************************)
LEMMA CheckBeginStep ==
  ASSUME IInv, CheckBegin
  PROVE  IInv'
<1> USE DEF CheckBegin, alpiVars, taskVars, complVars, IInv
<1>1. /\ tmp = <<>> /\ done = {} /\ reqs = {} /\ batch = {} /\ finished = {} /\ unchecked = {}
      /\ ppc = "check" /\ stage # "check" /\ room <= 0
  <2>1. ppc = "check"
    OBVIOUS
  <2> HIDE DEF CheckBegin
  <2>2. /\ tmp = <<>> /\ done = {} /\ reqs = {} /\ batch = {} /\ finished = {} /\ unchecked = {}
        /\ stage # "check" /\ ~(room > 0)
    BY <2>1 DEF LocalsInUse
  <2>3. room \in Int
    BY DEF TypeOK
  <2>4. QED
    BY <2>1, <2>2, <2>3
<1>2. TypeOK'
  BY DEF TypeOK, ALPIType, MPIType
<1>3. LocalsInUse'
  BY <1>1 DEF LocalsInUse
<1>4. NoDuplicates'
  BY <1>1 DEF NoDuplicates
<1>5. WhereOperationsAre' /\ Handshake' /\ EventsMatch'
  BY WhereFrame, HandshakeFrame, EventsFrame
<1>6. RoomLeft'
  BY <1>1 DEF RoomLeft
<1>7. QED
  BY <1>2, <1>3, <1>4, <1>5, <1>6

(***************************************************************************)
(* Testing a batch marks the requests it releases, status stored, as       *)
(* completed by this pass.                                                 *)
(***************************************************************************)
LEMMA TestBatchStep ==
  ASSUME IInv, TestBatch
  PROVE  IInv'
<1> USE DEF alpiVars, taskVars, complVars, IInv
<1>1. PICK B \in SUBSET unchecked, R \in SUBSET unchecked :
               /\ unchecked' = unchecked \ B
               /\ R \subseteq B /\ \A o \in R : request[o] = "complete"
               /\ ReleaseRequests(R)
               /\ done' = R
               /\ finished' = finished \cup R
               /\ stored' = stored \cup (R \cap WithStatus)
  BY TestRequestsSound DEF TestBatch, StoreStatus
<1>2. /\ R \subseteq Ops /\ R \subseteq inflight \ finished
      /\ ppc = "batch" /\ ppc' = "deliver" /\ stage = "check" /\ done = {}
      /\ tmp = <<>> /\ reqs = {} /\ batch = {} /\ room <= 0
  <2>1. ppc = "batch" /\ ppc' = "deliver"
    BY DEF TestBatch
  <2>2. stage = "check" /\ done = {} /\ tmp = <<>> /\ reqs = {} /\ batch = {}
    BY <2>1 DEF LocalsInUse
  <2>3. room <= 0
    <3>1. ~(room > 0)
      BY <2>1 DEF LocalsInUse
    <3>2. room \in Int
      BY DEF TypeOK
    <3>3. QED
      BY <3>1, <3>2
  <2>4. unchecked \subseteq inflight \ finished /\ inflight \subseteq Ops
    BY DEF NoDuplicates, TypeOK
  <2>5. QED
    BY <1>1, <2>1, <2>2, <2>3, <2>4
<1>3. \A o \in R : o \notin Elements(cqueue) \cup notified
  BY <1>1, <1>2, WhereSummary
<1>4. /\ request' \in [Ops -> RequestState]
      /\ \A o \in Ops : request'[o] = IF o \in R THEN "null" ELSE request[o]
  BY <1>1 DEF ReleaseRequests, TypeOK, MPIType, RequestState
<1>5. TypeOK'
  BY <1>1, <1>2, <1>4 DEF TestBatch, TypeOK, ALPIType, MPIType
<1>6. LocalsInUse'
  BY <1>1, <1>2 DEF TestBatch, LocalsInUse
<1>7. NoDuplicates'
  BY <1>1, <1>2, <1>3 DEF TestBatch, NoDuplicates
<1>8. WhereOperationsAre'
  <2> SUFFICES ASSUME NEW t \in Tasks, NEW i \in 1..Len(Program[t]) PROVE WhereIs(t, i)'
    BY DEF WhereOperationsAre
  <2>1. Program[t][i] \in Ops /\ WhereIs(t, i)
    BY ProgramType DEF WhereOperationsAre
  <2>2. (Waiting(Program[t][i])' <=> Waiting(Program[t][i])) /\ (Pushed(t, i)' <=> Pushed(t, i))
    BY DEF TestBatch, Waiting, Pushed
  <2>3. CASE Program[t][i] \notin R
    BY <1>1, <1>2, <1>4, <2>1, <2>2, <2>3 DEF TestBatch, WhereIs
  <2>4. CASE Program[t][i] \in R
    BY <1>1, <1>2, <1>3, <1>4, <2>1, <2>2, <2>4 DEF TestBatch, WhereIs
  <2>5. QED
    BY <2>3, <2>4
<1>9. Handshake' /\ EventsMatch'
  BY HandshakeFrame, EventsFrame DEF TestBatch
<1>10. RoomLeft'
  BY <1>2 DEF TestBatch, RoomLeft
<1>11. QED
  BY <1>5, <1>6, <1>7, <1>8, <1>9, <1>10

(***************************************************************************)
(* At the end of a pass the completed requests leave the arrays.           *)
(***************************************************************************)
LEMMA BatchEndStep ==
  ASSUME IInv, BatchEnd
  PROVE  IInv'
<1> USE DEF BatchEnd, Compact, alpiVars, taskVars, complVars, IInv
<1>1. /\ tmp = <<>> /\ done = {} /\ reqs = {} /\ batch = {} /\ room <= 0
      /\ ppc = "deliver" /\ stage = "check"
  <2>1. ppc = "deliver" /\ stage = "check" /\ done = {}
    OBVIOUS
  <2> HIDE DEF BatchEnd, Compact
  <2>2. ~(room > 0) /\ tmp = <<>> /\ batch = {} /\ reqs = {}
    BY <2>1 DEF LocalsInUse
  <2>3. room \in Int
    BY DEF TypeOK
  <2>4. QED
    BY <2>1, <2>2, <2>3
<1>2. again' \in BOOLEAN /\ anyCompleted' \in BOOLEAN
  BY DEF TypeOK
<1>3. TypeOK'
  BY <1>2 DEF TypeOK, ALPIType, MPIType
<1>4. LocalsInUse'
  BY <1>1 DEF LocalsInUse
<1>5. NoDuplicates'
  BY <1>1 DEF NoDuplicates
<1>6. WhereOperationsAre'
  <2>1. (reqs \cup (inflight \ finished))' = reqs \cup (inflight \ finished)
    BY <1>1
  <2>2. UNCHANGED <<next, call, queue, request, stored, cqueue, notified>>
    OBVIOUS
  <2>3. tmp' = tmp /\ done' = done /\ finished' \subseteq finished
    BY <1>1
  <2>4. QED
    BY <2>1, <2>2, <2>3, WhereSummary, WhereMoved
<1>7. Handshake' /\ EventsMatch'
  BY HandshakeFrame, EventsFrame
<1>8. RoomLeft'
  <2>1. inflight \cup batch \in SUBSET Ops /\ (inflight \cup batch)' \in SUBSET (inflight \cup batch)
    BY DEF TypeOK
  <2>2. Cardinality((inflight \cup batch)') \in Nat
        /\ Cardinality((inflight \cup batch)') <= Cardinality(inflight \cup batch)
    BY <2>1, CardinalitySubset
  <2>3. Cardinality(inflight \cup batch) + room <= capacity
    BY <1>1, RoomTypes DEF RoomLeft
  <2>4. room' = room /\ capacity' = capacity /\ ppc' # "pop"
    OBVIOUS
  <2> HIDE DEF BatchEnd, Compact
  <2>5. Cardinality(inflight \cup batch) \in Nat /\ room \in Nat /\ capacity \in Nat
    BY RoomTypes
  <2>6. Cardinality((inflight \cup batch)') + room' <= capacity'
    BY <2>2, <2>3, <2>4, <2>5
  <2>7. QED
    BY <2>4, <2>5, <2>6 DEF RoomLeft
<1>9. QED
  BY <1>3, <1>4, <1>5, <1>6, <1>7, <1>8

(***************************************************************************)
(* The loop of checkRequests starts over or ends, and                      *)
(* CapacityCtrl::evaluate only ever grows the capacity.                    *)
(***************************************************************************)
LEMMA LoopEndStep ==
  ASSUME IInv, LoopEnd
  PROVE  IInv'
<1> USE DEF alpiVars, taskVars, complVars, IInv
<1>1. /\ tmp = <<>> /\ done = {} /\ reqs = {} /\ batch = {} /\ room = 0
      /\ ppc = "again" /\ stage # "check" /\ finished = {} /\ unchecked = {}
  BY DEF LoopEnd, LocalsInUse, TypeOK
<1>2. UNCHANGED <<task, events, token, request, next, call, queue, allocated, stage, moved, tmp,
                  batch, reqs, done, inflight, unchecked, finished, cqueue, csnap, cheld,
                  stored, notified, unissued, aborted>>
  BY DEF LoopEnd
<1>3. NoDuplicates' /\ WhereOperationsAre' /\ Handshake' /\ EventsMatch'
  BY <1>2, NoDuplicatesFrame, WhereFrame, HandshakeFrame, EventsFrame
<1>4. CASE again
  <2>1. LoopHead /\ UNCHANGED <<capacity, saturation, anyCompleted>>
    BY <1>4 DEF LoopEnd
  <2>2. again' \in BOOLEAN
    BY <2>1 DEF LoopHead
  <2>3. /\ room' \in Nat /\ ppc' \in {"pop", "check"}
        /\ Cardinality(inflight) + room' <= capacity
    <3>1. Cardinality(inflight) <= capacity
      <4>1. inflight \cup batch = inflight
        BY <1>1
      <4>2. Cardinality(inflight \cup batch) = Cardinality(inflight)
        BY <4>1, Zenon
      <4>3. QED
        BY <1>1, <4>2, RoomTypes DEF RoomLeft
    <3>2. QED
      BY <1>1, <2>1, <3>1, RoomTypes, BoundsAssumption DEF LoopHead, Available, Lesser
  <2>4. TypeOK'
    BY <1>2, <2>1, <2>2, <2>3 DEF TypeOK, ALPIType, MPIType
  <2>5. LocalsInUse'
    <3>1. Elements(tmp) = {} /\ Len(tmp) = 0
      BY <1>1, ElementsEmpty
    <3>2. ppc' = "check" => room' = 0
      BY <1>1, <2>1 DEF LoopHead
    <3>3. QED
      BY <1>1, <1>2, <2>3, <3>1, <3>2 DEF LocalsInUse
  <2>6. RoomLeft'
    <3>1. (inflight \cup batch)' = inflight
      BY <1>1, <1>2
    <3>2. Cardinality((inflight \cup batch)') = Cardinality(inflight)
      BY <3>1, Zenon
    <3>3. Len(tmp') = 0
      BY <1>1, <1>2
    <3>4. QED
      BY <2>1, <2>3, <3>2, <3>3, RoomTypes DEF RoomLeft
  <2>7. QED
    BY <1>3, <2>4, <2>5, <2>6
<1>5. CASE ~again
  <2>1. ppc' = "sleep" /\ Evaluate /\ anyCompleted' = FALSE /\ UNCHANGED <<room, again>>
    BY <1>5 DEF LoopEnd
  <2>2. anyCompleted' \in BOOLEAN
    BY <2>1
  <2>3. /\ capacity' \in CapacityMin..CapacityMax /\ capacity' >= capacity
        /\ saturation' \in {"off", "on", "elapsed"}
    <3>1. /\ capacity \in Nat /\ capacity \in CapacityMin..CapacityMax
          /\ CapacityMin \in Nat /\ CapacityMax \in Nat
          /\ saturation \in {"off", "on", "elapsed"}
      BY BoundsAssumption, RoomTypes DEF TypeOK
    <3>2. capacity' = capacity \/ capacity' = Lesser(capacity * 2, CapacityMax)
      BY <2>1, <3>1 DEF Evaluate
    <3>3. saturation' \in {"off", "on", "elapsed"}
      BY <2>1, <3>1 DEF Evaluate
    <3>4. QED
      BY <3>1, <3>2, <3>3 DEF Lesser
  <2>4. TypeOK'
    BY <1>2, <2>1, <2>2, <2>3 DEF TypeOK, ALPIType, MPIType
  <2>5. LocalsInUse'
    BY <1>1, <1>2, <2>1 DEF LocalsInUse
  <2>6. RoomLeft'
    <3>1. Cardinality((inflight \cup batch)') = Cardinality(inflight \cup batch)
      BY <1>2
    <3>2. capacity' \in Nat
      BY <2>3, BoundsAssumption
    <3>3. Cardinality(inflight \cup batch) \in Nat /\ room \in Nat /\ capacity \in Nat
      BY RoomTypes
    <3>4. Cardinality(inflight \cup batch) + room <= capacity
      BY <1>1, <3>3 DEF RoomLeft
    <3>5. room' = room /\ ppc' = "sleep" /\ capacity' >= capacity
      BY <2>1, <2>3
    <3>6. Cardinality((inflight \cup batch)') + room' <= capacity'
      BY <3>1, <3>2, <3>3, <3>4, <3>5
    <3>7. QED
      BY <3>2, <3>5, <3>6 DEF RoomLeft
  <2>7. QED
    BY <1>3, <2>4, <2>5, <2>6
<1>6. QED
  BY <1>4, <1>5

-----------------------------------------------------------------------------
(***************************************************************************)
(* A step that changes nothing keeps the invariant.                        *)
(***************************************************************************)
LEMMA StutterStep ==
  ASSUME IInv, UNCHANGED vars
  PROVE  IInv'
<1> USE DEF vars, IInv
<1>1. TypeOK'
  BY DEF TypeOK, ALPIType, MPIType
<1>2. LocalsInUse' /\ RoomLeft'
  BY DEF LocalsInUse, RoomLeft
<1>3. NoDuplicates' /\ WhereOperationsAre' /\ Handshake' /\ EventsMatch'
  BY NoDuplicatesFrame, WhereFrame, HandshakeFrame, EventsFrame
<1>4. QED
  BY <1>1, <1>2, <1>3

(***************************************************************************)
(* Every step of the user tasks, the polling task, the completion task,    *)
(* MPI and the clock keeps the invariant.                                  *)
(***************************************************************************)
LEMMA NextStep ==
  ASSUME IInv, [Next]_vars
  PROVE  IInv'
<1>1. ASSUME NEW t \in Tasks, TaskStep(t) PROVE IInv'
  BY <1>1, CallStep, AddOperationStep, WaitEventsCompletionStep, FinishStep DEF TaskStep
<1>2. CASE PollStep
  BY <1>2, PollBeginStep, PopStep, PopEndStep, IssueStep, ImmediateTestStep, DeliverStep,
     TransferEndStep, CheckBeginStep, TestBatchStep, BatchEndStep, LoopEndStep DEF PollStep
<1>3. CASE CompletionStep
  BY <1>3, ProcessBeginStep, ProcessContextStep DEF CompletionStep
<1>4. ASSUME NEW o \in Ops, Progress(o) PROVE IInv'
  BY <1>4, ProgressStep
<1>5. CASE TimeoutElapses
  BY <1>5, TimeoutElapsesStep
<1>6. CASE UNCHANGED vars
  BY <1>6, StutterStep
<1>7. QED
  BY <1>1, <1>2, <1>3, <1>4, <1>5, <1>6 DEF Next

(***************************************************************************)
(* The inductive invariant, TypeOK and EventsMatch among its conjuncts: the *)
(* counter of events that TaskContext::bindEvents and completeEvents keep  *)
(* for a task is exactly the number of its open operations.                *)
(***************************************************************************)
THEOREM Invariant == Spec => []IInv
<1>1. Init => IInv
  BY InitInvariant
<1>2. IInv /\ [Next]_vars => IInv'
  BY NextStep
<1>3. QED
  BY <1>1, <1>2, PTL DEF Spec

(***************************************************************************)
(* Every variable keeps its type; in particular the event counts of        *)
(* TaskContext never go below zero.                                        *)
(***************************************************************************)
THEOREM TypeCorrect == Spec => []TypeOK
BY Invariant, PTL DEF IInv

(***************************************************************************)
(* The counter that bindEvents and completeEvents keep for a task is       *)
(* exactly the number of its open operations, so the runtime neither       *)
(* completes it early nor leaves it waiting.                               *)
(***************************************************************************)
THEOREM EventsCounted == Spec => []EventsMatch
BY Invariant, PTL DEF IInv

-----------------------------------------------------------------------------
(***************************************************************************)
(* A completed task has no open event, so all its operations are notified. *)
(***************************************************************************)
LEMMA CompletedMeansNotified ==
  ASSUME IInv, NEW t \in Tasks, task[t] = "completed", NEW i \in 1..Len(Program[t])
  PROVE  Program[t][i] \in notified
<1>1. HandshakeOf(t) /\ events[t] = Cardinality(OpenEvents(t)) /\ IsFiniteSet(OpenEvents(t))
  BY OpenEventsFinite DEF IInv, Handshake, EventsMatch
<1>2. next[t] = Len(Program[t]) + 1 /\ call[t] = "user" /\ Cardinality(OpenEvents(t)) = 0
  BY <1>1 DEF HandshakeOf
<1>3. OpenEvents(t) = {}
  BY <1>1, <1>2, FS_EmptySet
<1>4. i \in 1..(next[t] - 1) /\ Past(t, i)
  BY <1>2, ProgramType DEF Past
<1>5. CASE Program[t][i] \in Blocking
  BY <1>1, <1>4, <1>5 DEF HandshakeOf
<1>6. CASE Program[t][i] \notin Blocking
  BY <1>3, <1>4, <1>6 DEF OpenEvents
<1>7. QED
  BY <1>5, <1>6

(***************************************************************************)
(* An operation is released (the user task goes on after the blocking      *)
(* call, or completes) only when it has been notified.                     *)
(***************************************************************************)
LEMMA ReleasedMeansNotified ==
  ASSUME IInv, NEW t \in Tasks, NEW i \in 1..Len(Program[t]),
         (Program[t][i] \in Blocking /\ Past(t, i)) \/ task[t] = "completed"
  PROVE  Program[t][i] \in notified
BY CompletedMeansNotified DEF IInv, Handshake, HandshakeOf

(***************************************************************************)
(* Buffers are not released early: OperationManager::process returns from  *)
(* a blocking operation, and a task completes, only when MPI has finished. *)
(***************************************************************************)
THEOREM NotReleasedEarly == Spec => []ReleasedOnlyWhenFinished
<1>1. IInv => ReleasedOnlyWhenFinished
  <2> SUFFICES ASSUME IInv, NEW t \in Tasks, NEW i \in 1..Len(Program[t]),
                      (Program[t][i] \in Blocking /\ Past(t, i)) \/ task[t] = "completed"
               PROVE  request[Program[t][i]] = "null"
    BY DEF ReleasedOnlyWhenFinished
  <2>1. Program[t][i] \in notified /\ WhereIs(t, i)
    BY ReleasedMeansNotified DEF IInv, WhereOperationsAre
  <2>2. QED
    BY <2>1 DEF WhereIs
<1>2. QED
  BY <1>1, Invariant, PTL

(***************************************************************************)
(* With an MPI library that never returns a null request, transferOperations *)
(* and internalCheckRequests store every status before the release.        *)
(***************************************************************************)
THEOREM StatusSaved == ~NullRequests => (Spec => []StatusSavedOnRelease)
<1> SUFFICES ASSUME ~NullRequests PROVE Spec => []StatusSavedOnRelease
  OBVIOUS
<1>1. IInv => StatusSavedOnRelease
  <2> SUFFICES ASSUME IInv, NEW t \in Tasks, NEW i \in 1..Len(Program[t]),
                      Program[t][i] \in WithStatus,
                      (Program[t][i] \in Blocking /\ Past(t, i)) \/ task[t] = "completed"
               PROVE  Program[t][i] \in stored
    BY DEF StatusSavedOnRelease
  <2>1. Program[t][i] \in notified /\ WhereIs(t, i)
    BY ReleasedMeansNotified DEF IInv, WhereOperationsAre
  <2>2. QED
    BY <2>1 DEF WhereIs
<1>2. QED
  BY <1>1, Invariant, PTL

(***************************************************************************)
(* What travels is pushed and not notified.                                *)
(***************************************************************************)
LEMMA TravellingMeans ==
  ASSUME IInv, NEW o \in Ops, NEW t \in Tasks, NEW i \in 1..Len(Program[t]), Program[t][i] = o
  PROVE  o \in Travelling <=> Pushed(t, i) /\ o \notin notified
<1>1. WhereIs(t, i)
  BY DEF IInv, WhereOperationsAre
<1>2. o \in Travelling <=> Waiting(o) \/ o \in reqs \cup (inflight \ finished) \/ o \in done \cup Elements(cqueue)
  <2>1. o \in InQueues <=> \E q \in Queues : o \in Elements(queue[q])
    BY Zenon DEF InQueues
  <2>2. QED
    BY <2>1, SMTT(20) DEF Travelling, Waiting
<1>3. request[o] \in RequestState
  BY DEF IInv, TypeOK, MPIType
<1>4. QED
  BY <1>1, <1>2, <1>3 DEF WhereIs, RequestState

(***************************************************************************)
(* What is on its way are operations.                                      *)
(***************************************************************************)
LEMMA TravellingInOps ==
  ASSUME TypeOK
  PROVE  Travelling \subseteq Ops
<1>1. \A q \in Queues : Elements(queue[q]) \subseteq Ops
  BY ElementsSubset DEF TypeOK
<1>2. Elements(tmp) \subseteq Ops /\ Elements(cqueue) \subseteq Ops
  BY ElementsSubset DEF TypeOK
<1>3. InQueues \subseteq Ops
  BY <1>1, Zenon DEF InQueues
<1>4. reqs \subseteq Ops /\ inflight \subseteq Ops /\ done \subseteq Ops
  BY DEF TypeOK
<1>5. QED
  BY <1>2, <1>3, <1>4, SMTT(20) DEF Travelling

(***************************************************************************)
(* No task handle in a ticket or context dangles: its task is not complete *)
(* when TaskContext::completeEvents uses it.                               *)
(***************************************************************************)
THEOREM NoDanglingHandle == Spec => []HandlesAlive
<1>1. IInv => HandlesAlive
  <2> SUFFICES ASSUME IInv, NEW o \in Travelling PROVE task[Owner(o)] # "completed"
    BY DEF HandlesAlive
  <2>1. o \in Ops
    BY TravellingInOps DEF IInv
  <2>2. Owner(o) \in Tasks
    BY <2>1, InProgram
  <2>3. PICK i \in 1..Len(Program[Owner(o)]) : Program[Owner(o)][i] = o
    BY <2>1, InProgram
  <2>4. o \notin notified
    BY <2>1, <2>2, <2>3, TravellingMeans
  <2>5. QED
    BY <2>2, <2>3, <2>4, CompletedMeansNotified
<1>2. QED
  BY <1>1, Invariant, PTL

(***************************************************************************)
(* No operation is lost between addOperation and completeEvents, and none  *)
(* is completed twice.                                                     *)
(***************************************************************************)
THEOREM NoneLostNoneTwice == Spec => []ExactlyOnce
<1>1. IInv => ExactlyOnce
  <2> SUFFICES ASSUME IInv, NEW t \in Tasks, NEW i \in 1..(next[t] - 1),
                      i = next[t] - 1 => call[t] # "ready"
               PROVE  Program[t][i] \in Travelling <=> Program[t][i] \notin notified
    BY DEF ExactlyOnce
  <2>1. i \in 1..Len(Program[t]) /\ Pushed(t, i)
    BY ProgramType DEF IInv, TypeOK, Pushed
  <2>2. Program[t][i] \in Ops
    BY <2>1, ProgramType
  <2>3. QED
    BY <2>1, <2>2, TravellingMeans
<1>2. QED
  BY <1>1, Invariant, PTL

(***************************************************************************)
(* TaskingModel::unblockTask is never called for a task whose previous     *)
(* unblock has not been consumed by its block.                             *)
(***************************************************************************)
THEOREM UnblocksDoNotPileUp == Spec => []OneUnblockAhead
<1>1. IInv => OneUnblockAhead
  <2> SUFFICES ASSUME IInv, NEW o \in Travelling \cap Blocking PROVE ~token[Owner(o)]
    BY DEF OneUnblockAhead
  <2>1. o \in Ops
    BY TravellingInOps DEF IInv
  <2>2. Owner(o) \in Tasks
    BY <2>1, InProgram
  <2>3. PICK i \in 1..Len(Program[Owner(o)]) : Program[Owner(o)][i] = o
    BY <2>1, InProgram
  <2>4. Pushed(Owner(o), i) /\ o \notin notified
    BY <2>1, <2>2, <2>3, TravellingMeans
  <2>5. QED
    BY <2>2, <2>3, <2>4, BlockingIsCurrent DEF IInv
<1>2. QED
  BY <1>1, Invariant, PTL

(***************************************************************************)
(* The assertion of transferOperations: what is in flight, with the batch  *)
(* under way, never exceeds the capacity.                                  *)
(***************************************************************************)
THEOREM ArraysNeverOverflow == Spec => []CapacityRespected
<1>1. IInv => CapacityRespected
  <2> SUFFICES ASSUME IInv PROVE Cardinality(inflight \cup batch) <= capacity
    BY DEF CapacityRespected
  <2>1. ppc = "pop" => Len(tmp) <= room
    BY DEF IInv, LocalsInUse
  <2>2. QED
    BY <2>1, RoomTypes DEF IInv, RoomLeft
<1>2. QED
  BY <1>1, Invariant, PTL

(***************************************************************************)
(* Operation o has been allocated by its caller and not pushed yet.        *)
(***************************************************************************)
Ready(o) == \E t \in Tasks : call[t] = "ready" /\ Current(t) = o

Queued(o) == \E q \in Queues : o \in Elements(queue[q])

(***************************************************************************)
(* AllocatedWhileInUse operation by operation; and what the transfer under *)
(* way has taken from tmp is issued, so that it is nowhere else when the   *)
(* transfer frees it.                                                      *)
(***************************************************************************)
AllocInv ==
  /\ \A o \in Ops : o \in allocated <=> Ready(o) \/ Queued(o) \/ o \in batch
  /\ \A o \in batch : o \in Elements(tmp) \/ request[o] # "none"

(***************************************************************************)
(* A step that neither allocates, moves nor frees operations keeps it.     *)
(***************************************************************************)
LEMMA AllocFrame ==
  ASSUME IInv, AllocInv, UNCHANGED <<taskVars, queue, allocated, tmp, batch>>,
         \A o \in Ops : request[o] # "none" => request'[o] # "none"
  PROVE  AllocInv'
<1>1. \A o : (Ready(o)' <=> Ready(o)) /\ (Queued(o)' <=> Queued(o))
  BY DEF Ready, Queued, Current, taskVars
<1>2. batch \subseteq Ops
  BY DEF IInv, TypeOK
<1>3. QED
  BY <1>1, <1>2 DEF AllocInv

(***************************************************************************)
(* process allocates an operation, and addOperation pushes it.             *)
(***************************************************************************)
LEMMA AllocTaskStep ==
  ASSUME IInv, AllocInv, NEW t \in Tasks, TaskStep(t)
  PROVE  AllocInv'
<1>1. CASE Call(t)
  <2>1. UNCHANGED <<queue, tmp, batch, request>>
    BY <1>1 DEF Call, pollVars
  <2>2. \A o : Queued(o)' <=> Queued(o)
    BY <2>1 DEF Queued
  <2>3. \A o : Ready(o)' <=> Ready(o) \/ o = Program[t][next[t]]
    <3>1. /\ call[t] = "user" /\ call' = [call EXCEPT ![t] = "ready"]
          /\ next' = [next EXCEPT ![t] = @ + 1]
      BY <1>1 DEF Call
    <3>2. call'[t] = "ready" /\ next'[t] - 1 = next[t]
      <4>1. call \in [Tasks -> {"user", "ready", "wait"}] /\ next \in [Tasks -> Nat \ {0}]
        BY DEF IInv, TypeOK
      <4>2. QED
        BY <3>1, <4>1
    <3>3. \A u \in Tasks : u # t => call'[u] = call[u] /\ next'[u] = next[u]
      BY <3>1 DEF IInv, TypeOK
    <3>4. QED
      BY <3>1, <3>2, <3>3 DEF Ready, Current
  <2>4. allocated' = allocated \cup {Program[t][next[t]]}
    BY <1>1 DEF Call
  <2>5. QED
    BY <2>1, <2>2, <2>3, <2>4 DEF AllocInv
<1>2. ASSUME NEW q \in Queues, AddOperation(t, q) PROVE AllocInv'
  <2>1. CASE ~ Fail
    <3>1. /\ call[t] = "ready"
          /\ queue' = [queue EXCEPT ![q] = Append(@, Current(t))]
          /\ call' = [call EXCEPT ![t] = AfterPush(Current(t))]
          /\ UNCHANGED <<request, next, allocated, tmp, batch>>
      BY <1>2, <2>1 DEF AddOperation, pollVars
    <3>2. Current(t) \in Ops
      BY <3>1, CurrentPlace DEF IInv
    <3>3. Elements(queue'[q]) = Elements(queue[q]) \cup {Current(t)}
      <4>1. queue \in [Queues -> Seq(Ops)]
        BY DEF IInv, TypeOK
      <4>2. queue[q] \in Seq(Ops) /\ queue'[q] = Append(queue[q], Current(t))
        BY <3>1, <4>1
      <4>3. QED
        BY <3>2, <4>2, ElementsAppend
    <3>4. \A r \in Queues : r # q => queue'[r] = queue[r]
      BY <3>1 DEF IInv, TypeOK
    <3>5. \A o : Queued(o)' <=> Queued(o) \/ o = Current(t)
      BY <3>3, <3>4 DEF Queued
    <3>6. call'[t] # "ready" /\ \A u \in Tasks : u # t => call'[u] = call[u]
      BY <3>1 DEF AfterPush, IInv, TypeOK
    <3>7. \A u \in Tasks : Current(u)' = Current(u)
      BY <3>1 DEF Current
    <3>8. \A o : Ready(o)' \/ o = Current(t) <=> Ready(o)
      BY <3>1, <3>6, <3>7 DEF Ready
    <3>9. QED
      BY <3>1, <3>5, <3>8 DEF AllocInv
  <2>2. CASE Fail
    BY <2>2, AllocFrame DEF Fail, pollVars
  <2>3. QED
    BY <2>1, <2>2
<1>3. CASE WaitEventsCompletion(t)
  <2>1. UNCHANGED <<next, queue, allocated, tmp, batch, request>>
    BY <1>3 DEF WaitEventsCompletion, pollVars
  <2>2. \A u \in Tasks : call'[u] = "ready" <=> call[u] = "ready"
    BY <1>3 DEF WaitEventsCompletion, IInv, TypeOK
  <2>3. \A o : (Ready(o)' <=> Ready(o)) /\ (Queued(o)' <=> Queued(o))
    BY <2>1, <2>2 DEF Ready, Queued, Current
  <2>4. QED
    BY <2>1, <2>3 DEF AllocInv
<1>4. CASE Finish(t)
  BY <1>4, AllocFrame DEF Finish, pollVars
<1>5. QED
  BY <1>1, <1>2, <1>3, <1>4 DEF TaskStep

(***************************************************************************)
(* The polling task takes operations from the pre-queues into a batch.     *)
(***************************************************************************)
LEMMA AllocPopStep ==
  ASSUME IInv, AllocInv, NEW q \in Queues, Pop(q)
  PROVE  AllocInv'
<1>1. /\ queue[q] # <<>>
      /\ tmp' = Append(tmp, Head(queue[q]))
      /\ batch' = batch \cup {Head(queue[q])}
      /\ queue' = [queue EXCEPT ![q] = Tail(@)]
      /\ UNCHANGED <<taskVars, allocated, request>>
  BY DEF Pop
<1>2. queue[q] \in Seq(Ops) /\ tmp \in Seq(Ops) /\ queue \in [Queues -> Seq(Ops)]
  BY DEF IInv, TypeOK
<1>3. Head(queue[q]) \in Ops /\ Elements(queue[q]) = Elements(Tail(queue[q])) \cup {Head(queue[q])}
  BY <1>1, <1>2, ElementsTail
<1>4. Elements(tmp') = Elements(tmp) \cup {Head(queue[q])}
  BY <1>1, <1>2, <1>3, ElementsAppend
<1>5. queue'[q] = Tail(queue[q]) /\ \A r \in Queues : r # q => queue'[r] = queue[r]
  BY <1>1, <1>2
<1>6. \A o : Queued(o)' \/ o = Head(queue[q]) <=> Queued(o)
  BY <1>3, <1>5 DEF Queued
<1>7. \A o : Ready(o)' <=> Ready(o)
  BY <1>1 DEF Ready, Current, taskVars
<1>8. QED
  BY <1>1, <1>4, <1>6, <1>7 DEF AllocInv

(***************************************************************************)
(* It issues the operations of the batch one by one.                       *)
(***************************************************************************)
LEMMA AllocIssueStep ==
  ASSUME IInv, AllocInv, Issue
  PROVE  AllocInv'
<1>1. tmp # <<>> /\ tmp \in Seq(Ops) /\ request \in [Ops -> RequestState] /\ batch \subseteq Ops
  BY DEF Issue, IInv, LocalsInUse, TypeOK, MPIType
<1>2. Head(tmp) \in Ops /\ Elements(tmp) = Elements(Tail(tmp)) \cup {Head(tmp)}
  BY <1>1, ElementsTail
<1>3. tmp' = Tail(tmp) /\ UNCHANGED <<taskVars, queue, allocated, batch>>
  BY DEF Issue
<1>4. request'[Head(tmp)] # "none" /\ \A o \in Ops : o # Head(tmp) => request'[o] = request[o]
  BY <1>1, <1>2 DEF Issue, IssueRequest, IssueNull
<1>5. \A o : (Ready(o)' <=> Ready(o)) /\ (Queued(o)' <=> Queued(o))
  BY <1>3 DEF Ready, Queued, Current, taskVars
<1>6. \A o \in batch : o \in Elements(Tail(tmp)) \/ request'[o] # "none"
  BY <1>1, <1>2, <1>4 DEF AllocInv
<1>7. QED
  BY <1>3, <1>5, <1>6 DEF AllocInv

(***************************************************************************)
(* It frees the batch when all of it is issued: what is issued is neither  *)
(* in a pre-queue nor waiting for its push.                                *)
(***************************************************************************)
LEMMA AllocTransferEndStep ==
  ASSUME IInv, AllocInv, TransferEnd
  PROVE  AllocInv'
<1>1. /\ allocated' = allocated \ batch /\ batch' = {}
      /\ UNCHANGED <<taskVars, queue, tmp, request>>
  BY DEF TransferEnd, FreeOperations
<1>2. tmp = <<>> /\ batch \subseteq Ops
  BY DEF TransferEnd, IInv, LocalsInUse, TypeOK
<1>3. \A o \in batch : request[o] # "none"
  BY <1>2, ElementsEmpty DEF AllocInv
<1>4. \A o \in batch : ~ Queued(o)
  BY <1>2, <1>3, WhereSummary DEF IInv, Waiting, Queued
<1>5. ASSUME NEW o \in batch PROVE ~ Ready(o)
  <2> SUFFICES ASSUME NEW t \in Tasks, call[t] = "ready", Current(t) = o PROVE FALSE
    BY DEF Ready
  <2>1. next[t] - 1 \in 1..Len(Program[t])
    BY CurrentPlace DEF IInv
  <2>2. WhereIs(t, next[t] - 1)
    BY <2>1 DEF IInv, WhereOperationsAre
  <2>3. ~ Pushed(t, next[t] - 1)
    BY DEF Pushed
  <2>4. QED
    BY <1>3, <2>2, <2>3 DEF WhereIs, Current
<1>6. \A o : (Ready(o)' <=> Ready(o)) /\ (Queued(o)' <=> Queued(o))
  BY <1>1 DEF Ready, Queued, Current, taskVars
<1>7. QED
  BY <1>1, <1>4, <1>5, <1>6 DEF AllocInv

(***************************************************************************)
(* The rest of checkRequests moves requests, not operations.               *)
(***************************************************************************)
LEMMA AllocPollStep ==
  ASSUME IInv, AllocInv, PollStep
  PROVE  AllocInv'
<1>1. CASE PollBegin \/ PopEnd \/ CheckBegin \/ BatchEnd \/ LoopEnd
  BY <1>1, AllocFrame DEF PollBegin, PopEnd, CheckBegin, BatchEnd, LoopEnd
<1>2. ASSUME NEW o \in Ops, Deliver(o) PROVE AllocInv'
  BY <1>2, AllocFrame DEF Deliver, Fail, pollVars
<1>3. ASSUME NEW R, ReleaseRequests(R)
      PROVE  \A o \in Ops : request[o] # "none" => request'[o] # "none"
  BY <1>3 DEF ReleaseRequests
<1>4. CASE ImmediateTest
  BY <1>3, <1>4, AllocFrame DEF ImmediateTest
<1>5. CASE TestBatch
  BY <1>3, <1>5, AllocFrame DEF TestBatch
<1>6. QED
  BY <1>1, <1>2, <1>4, <1>5, AllocPopStep, AllocIssueStep, AllocTransferEndStep DEF PollStep

(***************************************************************************)
(* Neither do the completion task, MPI and the clock.                      *)
(***************************************************************************)
LEMMA AllocStep ==
  ASSUME IInv, AllocInv, [Next]_vars
  PROVE  AllocInv'
<1>1. CASE CompletionStep
  BY <1>1, AllocFrame DEF CompletionStep, ProcessBegin, ProcessContext, pollVars
<1>2. ASSUME NEW o \in Ops, Progress(o) PROVE AllocInv'
  BY <1>2, AllocFrame DEF Progress, MPIProgress, pollVars, IInv, TypeOK, MPIType
<1>3. CASE TimeoutElapses
  BY <1>3, AllocFrame DEF TimeoutElapses
<1>4. CASE UNCHANGED vars
  BY <1>4, AllocFrame DEF vars, taskVars
<1>5. QED
  BY <1>1, <1>2, <1>3, <1>4, AllocTaskStep, AllocPollStep DEF Next

(***************************************************************************)
(* Allocator::free, called by transferOperations, frees an operation when  *)
(* nobody can read it any more, and every operation is freed by then.      *)
(***************************************************************************)
THEOREM FreedWhenUnused == Spec => []AllocatedWhileInUse
<1>1. Init => AllocInv
  BY ElementsEmpty DEF Init, AllocInv, Ready, Queued
<1>2. IInv /\ AllocInv => AllocatedWhileInUse
  <2> SUFFICES ASSUME IInv, AllocInv PROVE AllocatedWhileInUse
    OBVIOUS
  <2>1. allocated \subseteq Ops /\ batch \subseteq Ops
    BY DEF IInv, TypeOK
  <2>2. \A o : Queued(o) <=> o \in InQueues
    BY Zenon DEF Queued, InQueues
  <2>3. \A q \in Queues : Elements(queue[q]) \subseteq Ops
    BY ElementsSubset DEF IInv, TypeOK
  <2>4. \A o : Queued(o) => o \in Ops
    BY <2>3 DEF Queued
  <2>5. \A o : Ready(o) <=> o \in {Current(t) : t \in {u \in Tasks : call[u] = "ready"}}
    BY Zenon DEF Ready
  <2>6. \A o : Ready(o) => o \in Ops
    BY CurrentPlace DEF Ready, IInv
  <2>7. \A o : o \in allocated <=> Ready(o) \/ Queued(o) \/ o \in batch
    BY <2>1, <2>4, <2>6 DEF AllocInv
  <2>8. QED
    BY <2>2, <2>5, <2>7 DEF AllocatedWhileInUse
<1>3. IInv /\ AllocInv /\ [Next]_vars => AllocInv'
  BY AllocStep
<1>4. QED
  BY <1>1, <1>2, <1>3, Invariant, PTL DEF Spec

-----------------------------------------------------------------------------
(***************************************************************************)
(* What was pushed on q and not issued is in tmp and then in q, in order.  *)
(***************************************************************************)
OrderOf(q) ==
  /\ Elements(queue[q]) \subseteq Elements(unissued[q])
  /\ Elements(unissued[q]) \subseteq Elements(tmp) \cup Elements(queue[q])
  /\ Ordered(unissued[q], tmp)
  /\ Ordered(unissued[q], queue[q])
  /\ Ahead(unissued[q], tmp, queue[q])

OrderInv ==
  /\ \A q \in Queues : OrderOf(q)
  /\ \A q, r \in Queues : q # r => Elements(unissued[q]) \cap Elements(unissued[r]) = {}

(***************************************************************************)
(* The new operation of an addOperation was never pushed: it is neither in *)
(* a queue, nor in tmp, nor awaiting its issue.                            *)
(***************************************************************************)
LEMMA OrderAddStep ==
  ASSUME IInv, OrderInv, NEW t \in Tasks, NEW q \in Queues, AddOperation(t, q)
  PROVE  OrderInv'
<1>0. CASE Fail
  BY <1>0 DEF Fail, pollVars, OrderInv, OrderOf
<1>1. CASE ~ Fail
  <2> PICK i \in 1..Len(Program[t]) : i = next[t] - 1
    BY CurrentPlace DEF AddOperation, IInv
  <2> PICK o \in Ops : o = Current(t) /\ o = Program[t][i]
    BY CurrentPlace DEF AddOperation, IInv, Current
  <2>1. /\ queue' = [queue EXCEPT ![q] = Append(@, o)]
        /\ unissued' = [unissued EXCEPT ![q] = Append(@, o)]
        /\ tmp' = tmp
    BY <1>1 DEF AddOperation, pollVars
  <2>2. /\ queue \in [Queues -> Seq(Ops)] /\ unissued \in [Queues -> Seq(Ops)]
        /\ tmp \in Seq(Ops)
    BY DEF IInv, TypeOK
  <2>3. ~ Waiting(o)
    <3>1. WhereIs(t, i) /\ ~ Pushed(t, i)
      BY DEF AddOperation, IInv, WhereOperationsAre, Pushed
    <3>2. QED
      BY <3>1 DEF WhereIs
  <2>4. o \notin Elements(tmp) /\ \A r \in Queues : o \notin Elements(queue[r])
    BY <2>3 DEF Waiting
  <2>5. \A r \in Queues : o \notin Elements(unissued[r])
    BY <2>4 DEF OrderInv, OrderOf
  <2>6. /\ queue'[q] = Append(queue[q], o) /\ unissued'[q] = Append(unissued[q], o)
        /\ \A r \in Queues \ {q} : queue'[r] = queue[r] /\ unissued'[r] = unissued[r]
    BY <2>1, <2>2
  <2>7. queue[q] \in Seq(Ops) /\ unissued[q] \in Seq(Ops)
    BY <2>2
  <2>8. /\ Elements(queue'[q]) = Elements(queue[q]) \cup {o}
        /\ Elements(unissued'[q]) = Elements(unissued[q]) \cup {o}
    <3>1. /\ Elements(Append(queue[q], o)) = Elements(queue[q]) \cup {o}
          /\ Elements(Append(unissued[q], o)) = Elements(unissued[q]) \cup {o}
      BY ONLY <2>7, ElementsAppend, o \in Ops, SMTT(20)
    <3>2. QED
      BY <2>6, <3>1, Zenon
  <2>9. OrderOf(q)
    BY DEF OrderInv
  <2>10. /\ Ordered(unissued'[q], tmp) /\ Ordered(unissued'[q], queue'[q])
         /\ Ahead(unissued'[q], tmp, queue'[q])
    <3>1. /\ unissued[q] \in Seq(Ops) /\ tmp \in Seq(Ops) /\ queue[q] \in Seq(Ops) /\ o \in Ops
          /\ o \notin Elements(unissued[q]) /\ o \notin Elements(tmp) /\ o \notin Elements(queue[q])
          /\ Ordered(unissued[q], tmp) /\ Ordered(unissued[q], queue[q])
          /\ Ahead(unissued[q], tmp, queue[q])
      BY <2>2, <2>4, <2>5, <2>7, <2>9, Zenon DEF OrderOf
    <3>2. /\ Ordered(Append(unissued[q], o), tmp)
          /\ Ordered(Append(unissued[q], o), Append(queue[q], o))
          /\ Ahead(Append(unissued[q], o), tmp, Append(queue[q], o))
      BY ONLY <3>1, OrderedBoth, Zenon
    <3>3. QED
      BY <2>6, <3>2, Zenon
  <2>11. OrderOf(q)'
    BY <2>1, <2>8, <2>9, <2>10 DEF OrderOf
  <2>12. ASSUME NEW r \in Queues \ {q} PROVE OrderOf(r)'
    <3>1. OrderOf(r) /\ queue'[r] = queue[r] /\ unissued'[r] = unissued[r] /\ tmp' = tmp
      BY <2>1, <2>6 DEF OrderInv
    <3>2. QED
      BY <3>1, Zenon DEF OrderOf
  <2>13. ASSUME NEW x \in Queues, NEW y \in Queues, x # y
         PROVE  Elements(unissued'[x]) \cap Elements(unissued'[y]) = {}
    <3>1. /\ Elements(unissued[x]) \cap Elements(unissued[y]) = {}
          /\ o \notin Elements(unissued[x]) /\ o \notin Elements(unissued[y])
      BY <2>5, <2>13 DEF OrderInv
    <3>2. /\ Elements(unissued'[x]) = Elements(unissued[x]) \cup (IF x = q THEN {o} ELSE {})
          /\ Elements(unissued'[y]) = Elements(unissued[y]) \cup (IF y = q THEN {o} ELSE {})
      BY <2>6, <2>8
    <3>3. QED
      BY ONLY <2>13, <3>1, <3>2, SMTT(20)
  <2>14. QED
    BY <2>11, <2>12, <2>13 DEF OrderInv
<1>2. QED
  BY <1>0, <1>1

(***************************************************************************)
(* A pop moves the head of a queue to the end of tmp.                      *)
(***************************************************************************)
LEMMA OrderPopStep ==
  ASSUME IInv, OrderInv, NEW q \in Queues, Pop(q)
  PROVE  OrderInv'
<1>1. /\ queue[q] # <<>> /\ queue' = [queue EXCEPT ![q] = Tail(@)]
      /\ tmp' = Append(tmp, Head(queue[q])) /\ unissued' = unissued
  BY DEF Pop
<1>2. /\ queue \in [Queues -> Seq(Ops)] /\ unissued \in [Queues -> Seq(Ops)]
      /\ tmp \in Seq(Ops) /\ Distinct(queue[q])
  BY DEF IInv, TypeOK, NoDuplicates
<1>3. queue[q] \in Seq(Ops) /\ unissued[q] \in Seq(Ops)
  BY <1>2
<1> PICK o \in Ops : o = Head(queue[q]) /\ o \in Elements(queue[q])
  BY <1>1, <1>3, ElementsTail
<1>4. queue'[q] = Tail(queue[q]) /\ \A r \in Queues \ {q} : queue'[r] = queue[r]
  BY <1>1, <1>2
<1>5. /\ Elements(queue[q]) = Elements(queue'[q]) \cup {o}
      /\ Elements(tmp') = Elements(tmp) \cup {o}
  BY <1>1, <1>2, <1>3, <1>4, ElementsTail, ElementsAppend
<1>6. OrderOf(q)
  BY DEF OrderInv
<1>7. /\ Ordered(unissued[q], tmp') /\ Ordered(unissued[q], queue'[q])
      /\ Ahead(unissued[q], tmp', queue'[q])
  BY <1>1, <1>2, <1>3, <1>4, <1>6, OrderedMove DEF OrderOf
<1>8. OrderOf(q)'
  BY <1>1, <1>5, <1>6, <1>7 DEF OrderOf
<1>9. ASSUME NEW r \in Queues \ {q} PROVE OrderOf(r)'
  <2>1. OrderOf(r) /\ o \notin Elements(unissued[r])
    BY <1>6 DEF OrderInv, OrderOf
  <2>2. queue[r] \in Seq(Ops) /\ unissued[r] \in Seq(Ops) /\ tmp' = Append(tmp, o)
    BY <1>1, <1>2
  <2>3. Ordered(unissued[r], tmp') /\ Ahead(unissued[r], tmp', queue[r])
    BY <1>2, <2>1, <2>2, OrderedOther DEF OrderOf
  <2>4. QED
    BY <1>1, <1>4, <1>5, <2>1, <2>3 DEF OrderOf
<1>10. QED
  BY <1>1, <1>8, <1>9 DEF OrderInv

(***************************************************************************)
(* The operation issued is the oldest that awaits its issue in its queue.  *)
(***************************************************************************)
LEMMA OrderIssueStep ==
  ASSUME IInv, OrderInv, Issue
  PROVE  OrderInv'
<1>1. /\ tmp # <<>> /\ tmp \in Seq(Ops) /\ tmp' = Tail(tmp) /\ queue' = queue
      /\ queue \in [Queues -> Seq(Ops)] /\ unissued \in [Queues -> Seq(Ops)]
  BY DEF Issue, IInv, LocalsInUse, TypeOK
<1>2. ASSUME NEW q \in Queues
      PROVE  OrderOf(q)' /\ Elements(unissued'[q]) \subseteq Elements(unissued[q])
  <2>1. queue[q] \in Seq(Ops) /\ unissued[q] \in Seq(Ops) /\ OrderOf(q)
    BY <1>1 DEF OrderInv
  <2>2. Elements(tmp) \cap Elements(queue[q]) = {}
    BY DEF IInv, NoDuplicates
  <2>3. unissued'[q] = IF unissued[q] # <<>> /\ Head(unissued[q]) = Head(tmp)
                         THEN Tail(unissued[q]) ELSE unissued[q]
    BY DEF Issue
  <2>4. /\ Elements(unissued'[q]) \subseteq Elements(unissued[q])
        /\ Elements(queue[q]) \subseteq Elements(unissued'[q])
        /\ Elements(unissued'[q]) \subseteq Elements(Tail(tmp)) \cup Elements(queue[q])
        /\ Ordered(unissued'[q], Tail(tmp)) /\ Ordered(unissued'[q], queue[q])
        /\ Ahead(unissued'[q], Tail(tmp), queue[q])
    BY <1>1, <2>1, <2>2, <2>3, OrderedTake DEF OrderOf
  <2>5. QED
    BY <1>1, <2>4 DEF OrderOf
<1>3. QED
  BY <1>2 DEF OrderInv

(***************************************************************************)
(* Nothing else touches the pre-queues and tmp.                            *)
(***************************************************************************)
LEMMA OrderStep ==
  ASSUME IInv, OrderInv, [Next]_vars
  PROVE  OrderInv'
<1>1. ASSUME UNCHANGED <<tmp, queue, unissued>> PROVE OrderInv'
  BY <1>1 DEF OrderInv, OrderOf
<1>2. ASSUME NEW t \in Tasks, TaskStep(t) PROVE OrderInv'
  <2>1. CASE Call(t) \/ WaitEventsCompletion(t) \/ Finish(t)
    BY <1>1, <2>1 DEF Call, WaitEventsCompletion, Finish, pollVars
  <2>2. QED
    BY <1>2, <2>1, OrderAddStep DEF TaskStep
<1>3. CASE PollStep
  <2>1. CASE PollBegin \/ PopEnd \/ ImmediateTest \/ TransferEnd \/ CheckBegin \/ TestBatch
               \/ BatchEnd \/ LoopEnd
    BY <1>1, <2>1 DEF PollBegin, PopEnd, ImmediateTest, TransferEnd, CheckBegin, TestBatch,
                      BatchEnd, LoopEnd
  <2>2. ASSUME NEW o \in Ops, Deliver(o) PROVE OrderInv'
    BY <1>1, <2>2 DEF Deliver, Fail, pollVars
  <2>3. QED
    BY <1>3, <2>1, <2>2, OrderPopStep, OrderIssueStep DEF PollStep
<1>4. CASE CompletionStep
  BY <1>1, <1>4 DEF CompletionStep, ProcessBegin, ProcessContext, pollVars
<1>5. ASSUME NEW o \in Ops, Progress(o) PROVE OrderInv'
  BY <1>1, <1>5 DEF Progress, pollVars
<1>6. CASE TimeoutElapses
  BY <1>1, <1>6 DEF TimeoutElapses
<1>7. CASE UNCHANGED vars
  BY <1>1, <1>7 DEF vars
<1>8. QED
  BY <1>2, <1>3, <1>4, <1>5, <1>6, <1>7 DEF Next

(***************************************************************************)
(* Operations pushed on the same pre-queue are issued in the order of the  *)
(* pushes: checkRequests never lets one overtake another, so that MPI      *)
(* matches the messages of a CPU, and the collectives, in call order.      *)
(***************************************************************************)
THEOREM IssuedInPushOrder == Spec => []IssueOrder
<1>1. Init => OrderInv
  <2> SUFFICES ASSUME Init PROVE OrderInv
    OBVIOUS
  <2>1. tmp = <<>> /\ \A q \in Queues : queue[q] = <<>> /\ unissued[q] = <<>>
    BY DEF Init
  <2>2. Ordered(<<>>, <<>>) /\ Ahead(<<>>, <<>>, <<>>)
    BY DEF Ordered, Ahead
  <2>3. QED
    BY <2>1, <2>2, ElementsEmpty DEF OrderInv, OrderOf
<1>2. IInv /\ OrderInv => IssueOrder
  <2> SUFFICES ASSUME IInv, OrderInv, NEW q \in Queues
               PROVE  LET due == tmp \o queue[q]
                      IN  /\ Elements(queue[q]) \subseteq Elements(unissued[q])
                          /\ Elements(unissued[q]) \subseteq Elements(due)
                          /\ \A x, y \in Elements(unissued[q]) :
                               Precedes(unissued[q], x, y) => Precedes(due, x, y)
    BY DEF IssueOrder
  <2>1. tmp \in Seq(Ops) /\ queue[q] \in Seq(Ops) /\ unissued[q] \in Seq(Ops) /\ OrderOf(q)
    BY DEF IInv, TypeOK, OrderInv
  <2>2. tmp \o queue[q] \in Seq(Ops)
    BY <2>1
  <2> PICK due \in Seq(Ops) : due = tmp \o queue[q]
    BY <2>2, Zenon
  <2> PICK u \in Seq(Ops) : u = unissued[q]
    BY <2>1, Zenon
  <2> PICK r \in Seq(Ops) : r = queue[q]
    BY <2>1, Zenon
  <2>3. /\ \A a \in 1..Len(tmp) : a \in 1..Len(due) /\ due[a] = tmp[a]
        /\ \A b \in 1..Len(r) : Len(tmp) + b \in 1..Len(due) /\ due[Len(tmp) + b] = r[b]
    BY <2>1
  <2>4. Elements(tmp) \subseteq Elements(due) /\ Elements(r) \subseteq Elements(due)
    BY <2>3 DEF Elements
  <2>5. ASSUME NEW i \in 1..Len(u), NEW j \in 1..Len(u), i < j
        PROVE  Precedes(due, u[i], u[j])
    <3>1. u[i] \in Elements(tmp) \cup Elements(r) /\ u[j] \in Elements(tmp) \cup Elements(r)
      BY <2>1 DEF OrderOf, Elements
    <3>2. ASSUME NEW a \in 1..Len(tmp), NEW b \in 1..Len(tmp), tmp[a] = u[i], tmp[b] = u[j]
          PROVE  Precedes(due, u[i], u[j])
      <4>1. a < b
        BY <2>1, <2>5, <3>2 DEF OrderOf, Ordered
      <4>2. QED
        BY <2>3, <3>2, <4>1 DEF Precedes
    <3>3. ASSUME NEW a \in 1..Len(tmp), NEW b \in 1..Len(r), tmp[a] = u[i], r[b] = u[j]
          PROVE  Precedes(due, u[i], u[j])
      <4>1. a < Len(tmp) + b
        BY <2>1
      <4>2. QED
        BY <2>3, <3>3, <4>1 DEF Precedes
    <3>4. ASSUME NEW a \in 1..Len(r), NEW b \in 1..Len(tmp), r[a] = u[i], tmp[b] = u[j]
          PROVE  FALSE
      <4>1. j < i
        BY <2>1, <3>4 DEF OrderOf, Ahead
      <4>2. QED
        BY <2>5, <4>1
    <3>5. ASSUME NEW a \in 1..Len(r), NEW b \in 1..Len(r), r[a] = u[i], r[b] = u[j]
          PROVE  Precedes(due, u[i], u[j])
      <4>1. a < b
        BY <2>1, <2>5, <3>5 DEF OrderOf, Ordered
      <4>2. Len(tmp) + a < Len(tmp) + b
        BY <2>1, <4>1
      <4>3. /\ Len(tmp) + a \in 1..Len(due) /\ due[Len(tmp) + a] = u[i]
            /\ Len(tmp) + b \in 1..Len(due) /\ due[Len(tmp) + b] = u[j]
        BY <2>3, <3>5
      <4>4. QED
        BY ONLY <4>2, <4>3, SMTT(20) DEF Precedes
    <3>6. QED
      BY <3>1, <3>2, <3>3, <3>4, <3>5 DEF Elements
  <2>6. ASSUME NEW x, NEW y, Precedes(u, x, y) PROVE Precedes(due, x, y)
    <3>1. PICK i \in 1..Len(u), j \in 1..Len(u) : i < j /\ u[i] = x /\ u[j] = y
      BY <2>6 DEF Precedes
    <3>2. QED
      BY <2>5, <3>1
  <2>7. Elements(r) \subseteq Elements(u) /\ Elements(u) \subseteq Elements(due)
    BY <2>1, <2>4 DEF OrderOf
  <2>8. QED
    BY <2>6, <2>7, Zenon
<1>3. IInv /\ OrderInv /\ [Next]_vars => OrderInv'
  BY OrderStep
<1>4. QED
  BY <1>1, <1>2, <1>3, Invariant, PTL DEF Spec

-----------------------------------------------------------------------------
(***************************************************************************)
(* CompletedMeansNotified for all the tasks.                               *)
(***************************************************************************)
CompletedNotified ==
  \A t \in Tasks : task[t] = "completed" =>
    \A i \in 1..Len(Program[t]) : Program[t][i] \in notified

(***************************************************************************)
(* An operation is called exactly when its task is past its place.         *)
(***************************************************************************)
LEMMA CalledInProgram ==
  ASSUME TypeOK, NEW t \in Tasks, NEW i \in 1..Len(Program[t])
  PROVE  Called(Program[t][i]) <=> i < next[t]
<1>1. /\ Len(Program[t]) \in Nat
      /\ \A u \in Tasks : next[u] \in Nat \ {0} /\ next[u] <= Len(Program[u]) + 1
  BY ProgramType DEF TypeOK
<1>2. ASSUME i < next[t] PROVE Called(Program[t][i])
  <2>1. i \in 1..(next[t] - 1)
    BY <1>1, <1>2
  <2>2. QED
    BY <2>1 DEF Called
<1>3. ASSUME NEW u \in Tasks, NEW j \in 1..(next[u] - 1), Program[u][j] = Program[t][i]
      PROVE  i < next[t]
  <2>1. j \in 1..Len(Program[u])
    BY CalledPlaces
  <2>2. u = t /\ j = i
    BY <1>3, <2>1, ProgramInjective
  <2>3. QED
    BY <1>1, <2>2
<1>4. QED
  BY <1>2, <1>3 DEF Called

(***************************************************************************)
(* The phase of an operation, case by case: the cases exclude each other,  *)
(* since what is notified has a null request and what is issued is called. *)
(***************************************************************************)
LEMMA PhaseIs ==
  ASSUME IInv, NEW o \in Ops
  PROVE  /\ Phase(o) \in {"idle", "started", "finished", "released"}
         /\ Phase(o) = "released" <=> o \in notified
         /\ Phase(o) = "finished" <=> request[o] \in {"complete", "null"} /\ o \notin notified
         /\ Phase(o) = "started" <=> request[o] \in {"none", "active"} /\ Called(o)
         /\ Phase(o) = "idle" <=> ~ Called(o)
         /\ Phase(o) = "idle" => request[o] = "none"
<1>0. PICK t \in Tasks : t = Owner(o)
  BY InProgram
<1>1. PICK i \in 1..Len(Program[t]) : Program[t][i] = o /\ WhereIs(t, i)
  BY <1>0, PlaceInOwner DEF IInv
<1>2. (request[o] # "none" => Called(o)) /\ (o \in notified => request[o] = "null")
  <2>1. request[o] # "none" => Pushed(t, i)
    BY <1>1 DEF WhereIs
  <2>2. o \in notified => request[o] = "null"
    BY <1>1 DEF WhereIs
  <2>3. QED
    BY <1>1, <2>1, <2>2, CalledInProgram DEF Pushed, IInv
<1>3. request[o] \in {"none", "active", "complete", "null"}
  BY DEF IInv, TypeOK, MPIType, RequestState
<1>4. CASE o \in notified
  BY <1>2, <1>4 DEF Phase
<1>5. CASE o \notin notified /\ request[o] \in {"complete", "null"}
  BY <1>2, <1>5 DEF Phase
<1>6. CASE o \notin notified /\ request[o] \in {"none", "active"} /\ Called(o)
  BY <1>2, <1>6 DEF Phase
<1>7. CASE o \notin notified /\ request[o] = "none" /\ ~ Called(o)
  BY <1>2, <1>7 DEF Phase
<1>8. QED
  BY <1>2, <1>3, <1>4, <1>5, <1>6, <1>7

(***************************************************************************)
(* A step that calls, issues, finishes and notifies nothing, and completes *)
(* no task, is a stuttering step of the promise.                           *)
(***************************************************************************)
LEMMA PromiseFrame ==
  ASSUME UNCHANGED <<request, next, notified>>,
         \A t \in Tasks : task'[t] = "completed" <=> task[t] = "completed"
  PROVE  UNCHANGED Promise!taskAwareVars
<1>1. \A o : Phase(o)' = Phase(o)
  BY DEF Phase, Called
<1>2. QED
  BY <1>1 DEF Promise!taskAwareVars

(***************************************************************************)
(* Testing takes finished operations from complete to null.                *)
(***************************************************************************)
LEMMA PromiseTest ==
  ASSUME IInv, IInv', NEW R, ReleaseRequests(R), \A o \in R : request[o] = "complete",
         UNCHANGED <<next, notified, task>>
  PROVE  UNCHANGED Promise!taskAwareVars
<1>1. \A o \in Ops : request'[o] = IF o \in R THEN "null" ELSE request[o]
  BY DEF ReleaseRequests
<1>2. \A o : Called(o)' <=> Called(o)
  BY DEF Called
<1>3. ASSUME NEW o \in Ops PROVE Phase(o)' = Phase(o)
  <2>1. request'[o] = request[o] \/ (request[o] = "complete" /\ request'[o] = "null")
    BY <1>1
  <2>2. o \in notified => request[o] = "null"
    BY WhereSummary DEF IInv
  <2>3. QED
    BY <1>2, <2>1, <2>2, Zenon DEF Phase
<1>4. QED
  BY <1>3 DEF Promise!taskAwareVars

(***************************************************************************)
(* process starts the next operation of its task: the operation was not    *)
(* called before, the earlier ones were, and the earlier blocking ones are *)
(* notified.                                                               *)
(***************************************************************************)
LEMMA PromiseCall ==
  ASSUME IInv, NEW t \in Tasks, Call(t)
  PROVE  Promise!TaskAwareNext
<1>0. next[t] \in 1..Len(Program[t]) /\ Program[t][next[t]] \in Ops
  BY ProgramType DEF Call, IInv, TypeOK
<1> PICK k \in 1..Len(Program[t]) : k = next[t]
  BY <1>0
<1> PICK o \in Ops : o = Program[t][k]
  BY <1>0
<1>1. /\ task[t] = "running" /\ call[t] = "user"
      /\ next' = [next EXCEPT ![t] = @ + 1] /\ UNCHANGED <<request, notified>>
  BY DEF Call
<1>2. task' = task
  BY DEF Call, BindEvents, IncreaseEvents, alpiVars
<1>3. \A x \in Ops : Called(x)' <=> Called(x) \/ x = o
  <2>1. \A u \in Tasks : next[u] \in Nat \ {0} /\ next'[u] = IF u = t THEN next[t] + 1 ELSE next[u]
    BY <1>1 DEF IInv, TypeOK
  <2>2. \A u \in Tasks \ {t} : next'[u] = next[u]
    BY <2>1
  <2>3. \A i : i \in 1..(next'[t] - 1) <=> i \in 1..(next[t] - 1) \/ i = next[t]
    BY <2>1
  <2>4. QED
    BY <2>2, <2>3 DEF Called
<1>4. ~ Called(o) /\ request[o] = "none" /\ o \notin notified
  <2>1. ~ Called(o)
    <3>1. Called(Program[t][k]) <=> k < next[t]
      BY CalledInProgram DEF IInv
    <3>2. QED
      BY <3>1
  <2>2. Phase(o) = "idle"
    BY <1>1, <2>1, PhaseIs
  <2>3. QED
    BY <1>1, <2>1, <2>2, PhaseIs
<1>5. \A x \in Ops : Phase(x)' = IF x = o THEN "started" ELSE Phase(x)
  <2>1. Phase(o)' = "started"
    BY <1>1, <1>3, <1>4 DEF Phase
  <2>2. ASSUME NEW x \in Ops \ {o} PROVE Phase(x)' = Phase(x)
    BY <1>1, <1>3, <2>2 DEF Phase
  <2>3. QED
    BY <2>1, <2>2
<1>6. Phase(o) = "idle"
  BY <1>1, <1>4, PhaseIs
<1>7. ASSUME NEW j \in 1..(next[t] - 1)
      PROVE  /\ Program[t][j] \in Ops
             /\ Phase(Program[t][j]) # "idle"
             /\ Program[t][j] \in Blocking => Phase(Program[t][j]) = "released"
  <2>1. j \in 1..Len(Program[t]) /\ j < next[t] /\ Program[t][j] \in Ops
    <3>1. j \in 1..Len(Program[t]) /\ \A m \in 1..Len(Program[t]) : Program[t][m] \in Ops
      BY CalledPlaces, ProgramType, Zenon DEF IInv
    <3>2. next[t] \in Nat
      BY Zenon DEF IInv, TypeOK
    <3>3. j < next[t]
      BY ONLY <3>2, j \in 1..(next[t] - 1), SMTT(20)
    <3>4. QED
      BY <3>1, <3>3, Zenon
  <2>2. Called(Program[t][j])
    BY <2>1, CalledInProgram DEF IInv
  <2>3. Past(t, j)
    <3>1. next[t] \in Nat
      BY DEF IInv, TypeOK
    <3>2. j < next[t] - 1 \/ j = next[t] - 1
      BY <2>1, <3>1
    <3>3. QED
      BY <1>1, <3>2 DEF Past
  <2>4. Program[t][j] \in Blocking => Program[t][j] \in notified
    BY <2>1, <2>3 DEF IInv, Handshake, HandshakeOf
  <2>5. QED
    BY <2>1, <2>2, <2>4, PhaseIs
<1>8. Promise!Start(t, k)
  BY <1>1, <1>2, <1>5, <1>6, <1>7 DEF Promise!Start
<1>9. QED
  BY <1>1, <1>8 DEF Promise!TaskAwareNext

(***************************************************************************)
(* MPI finishes an operation, on the spot when it is issued or later: the  *)
(* operations it needs have been issued, so they have been called.         *)
(***************************************************************************)
LEMMA PromiseFinish ==
  ASSUME IInv, NEW o \in Ops, request[o] \in {"none", "active"}, Called(o), Matched(o),
         request'[o] \in {"complete", "null"},
         \A x \in Ops \ {o} : request'[x] = request[x],
         UNCHANGED <<next, notified, task>>
  PROVE  Promise!TaskAwareNext
<1>1. \A x : Called(x)' <=> Called(x)
  BY DEF Called
<1>2. Phase(o) = "started" /\ o \notin notified
  BY PhaseIs
<1>3. \A x \in Ops : Phase(x)' = IF x = o THEN "finished" ELSE Phase(x)
  <2>1. Phase(o)' = "finished"
    BY <1>2, Zenon DEF Phase
  <2>2. ASSUME NEW x \in Ops \ {o} PROVE Phase(x)' = Phase(x)
    BY <1>1, <2>2 DEF Phase
  <2>3. QED
    BY <2>1, <2>2
<1>4. ASSUME NEW n \in Needs[o] PROVE n \in Ops /\ Phase(n) # "idle"
  <2>1. n \in Ops /\ request[n] # "none"
    BY ProgramAssumption DEF Matched
  <2>2. QED
    BY <2>1, PhaseIs
<1>5. Promise!FinishOperation(o)
  BY <1>2, <1>3, <1>4 DEF Promise!FinishOperation
<1>6. QED
  BY <1>5 DEF Promise!TaskAwareNext

(***************************************************************************)
(* completeEvents releases an operation that has finished; when it         *)
(* completes the task, all the operations of the task are released.        *)
(***************************************************************************)
LEMMA PromiseRelease ==
  ASSUME IInv, IInv', CompletedNotified', NEW o \in Ops, request[o] = "null", o \notin notified,
         CompleteEvents(o), UNCHANGED <<request, next>>
  PROVE  Promise!TaskAwareNext
<1>0. PICK t \in Tasks : t = Owner(o)
  BY InProgram
<1>1. notified' = notified \cup {o} /\ \A x : Called(x)' <=> Called(x)
  BY DEF CompleteEvents, Called
<1>2. Phase(o) = "finished"
  BY PhaseIs
<1>3. \A x \in Ops : Phase(x)' = IF x = o THEN "released" ELSE Phase(x)
  <2>1. Phase(o)' = "released"
    BY <1>1 DEF Phase
  <2>2. ASSUME NEW x \in Ops \ {o} PROVE Phase(x)' = Phase(x)
    BY <1>1, <2>2 DEF Phase
  <2>3. QED
    BY <2>1, <2>2
<1>4. \A u \in Tasks \ {t} : task'[u] = task[u]
  BY <1>0 DEF CompleteEvents, UnblockTask, DecreaseEvents, IInv, TypeOK, ALPIType
<1>5. task[t] = "completed" => task'[t] = "completed"
  BY <1>0 DEF CompleteEvents, UnblockTask, DecreaseEvents, IInv, TypeOK, ALPIType
<1>6. CASE task'[t] = "completed" <=> task[t] = "completed"
  <2>1. \A u \in Tasks : task'[u] = "completed" <=> task[u] = "completed"
    BY <1>4, <1>6
  <2>2. Promise!Release(o)
    BY <1>2, <1>3, <2>1 DEF Promise!Release
  <2>3. QED
    BY <2>2 DEF Promise!TaskAwareNext
<1>7. CASE task'[t] = "completed" /\ task[t] # "completed"
  <2>1. {u \in Tasks : task'[u] = "completed"} = {u \in Tasks : task[u] = "completed"} \cup {t}
    BY <1>4, <1>7
  <2>2. \A i \in 1..Len(Program[t]) : Program[t][i] \in Ops /\ Program[t][i] \in notified'
    BY <1>7, ProgramType DEF CompletedNotified
  <2>3. \A i \in 1..Len(Program[t]) : Phase(Program[t][i])' = "released"
    <3>1. \A x \in Ops : x \in notified' => Phase(x)' = "released"
      BY <1>1, <1>3, PhaseIs
    <3>2. QED
      BY <2>2, <3>1
  <2>4. Promise!ReleaseLast(t, o)
    BY <1>2, <1>3, <1>7, <2>1, <2>2, <2>3 DEF Promise!ReleaseLast
  <2>5. QED
    BY <2>4 DEF Promise!TaskAwareNext
<1>8. QED
  BY <1>5, <1>6, <1>7

(***************************************************************************)
(* The end of a body completes the task when no event of it is open: its   *)
(* blocking operations have returned and the others have been fulfilled.   *)
(***************************************************************************)
LEMMA PromiseComplete ==
  ASSUME IInv, CompletedNotified', NEW t \in Tasks, Finish(t)
  PROVE  [Promise!TaskAwareNext]_(Promise!taskAwareVars)
<1>1. /\ task[t] = "running" /\ UNCHANGED <<request, next, notified>>
      /\ task' = [task EXCEPT ![t] = IF events[t] = 0 THEN "completed" ELSE "finished"]
  BY DEF Finish, FinishBody, taskVars
<1>2. task \in [Tasks -> TaskState]
  BY DEF IInv, TypeOK, ALPIType
<1>3. CASE events[t] # 0
  <2>1. \A u \in Tasks : task'[u] = "completed" <=> task[u] = "completed"
    BY <1>1, <1>2, <1>3
  <2>2. QED
    BY <1>1, <2>1, PromiseFrame
<1>4. CASE events[t] = 0
  <2>1. /\ task'[t] = "completed"
        /\ {u \in Tasks : task'[u] = "completed"} = {u \in Tasks : task[u] = "completed"} \cup {t}
    BY <1>1, <1>2, <1>4
  <2>2. \A i \in 1..Len(Program[t]) : Program[t][i] \in Ops /\ Program[t][i] \in notified
    BY <1>1, <2>1, ProgramType DEF CompletedNotified
  <2>3. \A i \in 1..Len(Program[t]) : Phase(Program[t][i]) = "released"
    BY <2>2, PhaseIs
  <2>4. \A o : Phase(o)' = Phase(o)
    BY <1>1 DEF Phase, Called
  <2>5. Promise!Complete(t)
    BY <1>1, <2>1, <2>2, <2>3, <2>4 DEF Promise!Complete
  <2>6. QED
    BY <2>5 DEF Promise!TaskAwareNext
<1>5. QED
  BY <1>3, <1>4

(***************************************************************************)
(* Issuing an operation starts nothing new; it may finish it on the spot.  *)
(***************************************************************************)
LEMMA PromiseIssue ==
  ASSUME IInv, Issue
  PROVE  [Promise!TaskAwareNext]_(Promise!taskAwareVars)
<1>1. tmp # <<>> /\ tmp \in Seq(Ops) /\ request \in [Ops -> RequestState]
  BY DEF Issue, IInv, LocalsInUse, TypeOK, MPIType
<1> PICK o \in Ops : o = Head(tmp) /\ o \in Elements(tmp)
  BY <1>1, ElementsTail
<1>2. UNCHANGED <<next, notified, task>>
  BY DEF Issue, taskVars, alpiVars
<1>3. request[o] = "none" /\ Called(o)
  <2>1. PICK t \in Tasks : t = Owner(o)
    BY InProgram
  <2>2. PICK i \in 1..Len(Program[t]) : Program[t][i] = o /\ WhereIs(t, i)
    BY <2>1, PlaceInOwner DEF IInv
  <2>3. Waiting(o)
    BY DEF Waiting
  <2>4. request[o] = "none" /\ i < next[t]
    BY <2>2, <2>3 DEF WhereIs, Pushed
  <2>5. QED
    BY <2>2, <2>4, CalledInProgram DEF IInv
<1>4. CASE IssueRequest(o)
  <2>1. request'[o] = "active" /\ \A x \in Ops \ {o} : request'[x] = request[x]
    BY <1>1, <1>4 DEF IssueRequest
  <2>2. o \notin notified /\ \A x : Called(x)' <=> Called(x)
    BY <1>2, <1>3, PhaseIs DEF Called
  <2>3. Phase(o)' = Phase(o)
    BY <1>2, <1>3, <2>1, <2>2, Zenon DEF Phase
  <2>4. ASSUME NEW x \in Ops \ {o} PROVE Phase(x)' = Phase(x)
    BY <1>2, <2>1, <2>2, <2>4 DEF Phase
  <2>5. QED
    BY <1>2, <2>3, <2>4 DEF Promise!taskAwareVars
<1>5. CASE IssueNull(o)
  <2>1. Matched(o) /\ request'[o] = "null" /\ \A x \in Ops \ {o} : request'[x] = request[x]
    BY <1>1, <1>5 DEF IssueNull
  <2>2. QED
    BY <1>2, <1>3, <2>1, PromiseFinish
<1>6. QED
  BY <1>4, <1>5 DEF Issue

(***************************************************************************)
(* Handing over a completed ticket releases its operation, unless it goes  *)
(* to the completion task first.                                           *)
(***************************************************************************)
LEMMA PromiseDeliver ==
  ASSUME IInv, IInv', CompletedNotified', NEW o \in Ops, Deliver(o)
  PROVE  [Promise!TaskAwareNext]_(Promise!taskAwareVars)
<1>1. o \in done /\ request[o] = "null" /\ o \notin notified
  BY WhereSummary DEF Deliver, IInv
<1>2. CASE Fail
  BY <1>2, PromiseFrame DEF Fail, alpiVars, taskVars
<1>3. CASE ~ Fail /\ UseCompletionManager
  BY <1>3, PromiseFrame DEF Deliver, alpiVars, taskVars
<1>4. CASE ~ Fail /\ ~ UseCompletionManager
  BY <1>1, <1>4, PromiseRelease DEF Deliver, taskVars
<1>5. QED
  BY <1>2, <1>3, <1>4

(***************************************************************************)
(* Every step of the library is a step of the promise, or changes nothing  *)
(* it speaks of.                                                           *)
(***************************************************************************)
LEMMA PromiseStep ==
  ASSUME IInv, IInv', CompletedNotified', [Next]_vars
  PROVE  [Promise!TaskAwareNext]_(Promise!taskAwareVars)
<1>1. ASSUME NEW t \in Tasks, NEW q \in Queues, AddOperation(t, q)
      PROVE  UNCHANGED Promise!taskAwareVars
  BY <1>1, PromiseFrame DEF AddOperation, Fail, alpiVars, taskVars
<1>2. ASSUME NEW t \in Tasks, WaitEventsCompletion(t) PROVE UNCHANGED Promise!taskAwareVars
  <2>1. task[t] = "running" /\ task \in [Tasks -> TaskState]
    BY <1>2 DEF WaitEventsCompletion, IInv, TypeOK, ALPIType, Handshake, HandshakeOf
  <2>2. \A u \in Tasks : task'[u] = "completed" <=> task[u] = "completed"
    BY <1>2, <2>1 DEF WaitEventsCompletion, BlockTask
  <2>3. QED
    BY <1>2, <2>2, PromiseFrame DEF WaitEventsCompletion
<1>3. ASSUME NEW t \in Tasks, TaskStep(t)
      PROVE  [Promise!TaskAwareNext]_(Promise!taskAwareVars)
  BY <1>1, <1>2, <1>3, PromiseCall, PromiseComplete DEF TaskStep
<1>4. CASE PollBegin \/ PopEnd \/ TransferEnd \/ CheckBegin \/ BatchEnd \/ LoopEnd
  BY <1>4, PromiseFrame DEF PollBegin, PopEnd, TransferEnd, CheckBegin, BatchEnd, LoopEnd,
                            alpiVars, taskVars
<1>5. ASSUME NEW q \in Queues, Pop(q) PROVE UNCHANGED Promise!taskAwareVars
  BY <1>5, PromiseFrame DEF Pop, alpiVars, taskVars
<1>6. CASE ImmediateTest
  <2>1. PICK R \in TestRequests(ImmediateTesting, reqs) : ReleaseRequests(R)
    BY <1>6 DEF ImmediateTest
  <2>2. \A o \in R : request[o] = "complete"
    BY <2>1, TestRequestsSound
  <2>3. QED
    BY <1>6, <2>1, <2>2, PromiseTest DEF ImmediateTest, alpiVars, taskVars
<1>7. CASE TestBatch
  <2>1. PICK B \in SUBSET unchecked : \E R \in TestRequests(GeneralTesting, B) : ReleaseRequests(R)
    BY <1>7 DEF TestBatch
  <2>2. PICK R \in TestRequests(GeneralTesting, B) : ReleaseRequests(R)
    BY <2>1
  <2>3. \A o \in R : request[o] = "complete"
    BY <2>2, TestRequestsSound
  <2>4. QED
    BY <1>7, <2>2, <2>3, PromiseTest DEF TestBatch, alpiVars, taskVars
<1>8. CASE PollStep
  BY <1>4, <1>5, <1>6, <1>7, <1>8, PromiseIssue, PromiseDeliver DEF PollStep
<1>9. CASE ProcessBegin
  BY <1>9, PromiseFrame DEF ProcessBegin, alpiVars, taskVars
<1>10. CASE ProcessContext
  <2>1. cqueue # <<>> /\ cqueue \in Seq(Ops)
    <3>1. csnap > 0 /\ csnap <= Len(cqueue) /\ cqueue \in Seq(Ops) /\ csnap \in Nat
      BY <1>10 DEF ProcessContext, IInv, LocalsInUse, TypeOK
    <3>2. QED
      BY <3>1
  <2> PICK o \in Ops : o = Head(cqueue) /\ o \in Elements(cqueue)
    BY <2>1, ElementsTail
  <2>2. request[o] = "null" /\ o \notin notified
    BY WhereSummary DEF IInv
  <2>3. QED
    BY <1>10, <2>2, PromiseRelease DEF ProcessContext, taskVars
<1>11. ASSUME NEW o \in Ops, Progress(o) PROVE Promise!TaskAwareNext
  <2>1. /\ request[o] = "active" /\ Matched(o) /\ request'[o] = "complete"
        /\ \A x \in Ops \ {o} : request'[x] = request[x]
        /\ UNCHANGED <<next, notified, task>>
    BY <1>11 DEF Progress, MPIProgress, IInv, TypeOK, MPIType, alpiVars, taskVars
  <2>2. Called(o)
    BY <2>1, PhaseIs
  <2>3. QED
    BY <2>1, <2>2, PromiseFinish
<1>12. CASE TimeoutElapses
  BY <1>12, PromiseFrame DEF TimeoutElapses, alpiVars, taskVars
<1>13. CASE UNCHANGED vars
  BY <1>13, PromiseFrame DEF vars
<1>14. QED
  BY <1>3, <1>8, <1>9, <1>10, <1>11, <1>12, <1>13 DEF Next, CompletionStep

(***************************************************************************)
(* The library keeps the promise of TaskAware for every program, number of *)
(* CPUs, capacity and testing approach: it calls operations in order,      *)
(* releases each once, after MPI has finished it, and completes a task     *)
(* only when all its operations are released.                              *)
(***************************************************************************)
THEOREM PromiseKept == Spec => KeepsPromise
<1>1. Init => Promise!TaskAwareInit
  <2> SUFFICES ASSUME Init PROVE Promise!TaskAwareInit
    OBVIOUS
  <2>1. \A o : ~ Called(o)
    BY DEF Called, Init
  <2>2. \A o \in Ops : Phase(o) = "idle"
    BY <2>1 DEF Init, MPIInit, Phase
  <2>3. QED
    BY <2>2 DEF Init, ALPIInit, Promise!TaskAwareInit
<1>2. IInv => CompletedNotified
  BY CompletedMeansNotified DEF CompletedNotified
<1>3. IInv /\ IInv' /\ CompletedNotified' /\ [Next]_vars
        => [Promise!TaskAwareNext]_(Promise!taskAwareVars)
  BY PromiseStep
<1>4. QED
  BY <1>1, <1>2, <1>3, Invariant, PTL DEF Spec, KeepsPromise, Promise!TaskAwareSpec

=============================================================================
