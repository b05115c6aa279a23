----------------------------- MODULE Operations -----------------------------
(***************************************************************************)
(* What happens to the arguments of an MPI call between the task that      *)
(* makes it and the MPI library.  The C wrappers hand a call over as an    *)
(* Operation or a CollOperation, built in an object of the allocator's     *)
(* pool that may still hold the previous operation; the polling task later *)
(* builds the ticket from the object, issues the non-blocking counterpart  *)
(* with the object's fields, and gives the object back.  Queues, tickets   *)
(* and completions in full are the subject of TicketManager, the pool of   *)
(* Allocator.                                                              *)
(***************************************************************************)
EXTENDS Integers, Sequences, FiniteSets, Bags, TLC

CONSTANTS
  Tasks,
  P2PObjects, CollObjects,   \* the two pools
  MaxEvents,                 \* bound on the unfulfilled events of a task
  Capacity,                  \* operations in flight at most
  NoTask                     \* owner of literals and of uninitialised memory

ASSUME ObjectsAssumption ==
  /\ P2PObjects \cap CollObjects = {}
  /\ MaxEvents \in Nat /\ Capacity \in Nat \ {0}
  /\ NoTask \notin Tasks

(***************************************************************************)
(* The wrappers of src/c, one per file: the parameters of MPI_X (TAMPI_IX  *)
(* declares the same ones), the arguments both pass to process, and        *)
(* whether MPI_X passes its parameters on to the native MPI_X when the     *)
(* blocking mode is not enabled.                                           *)
(***************************************************************************)
Wrapper(formal, passed) ==
  [formal |-> formal, passed |-> passed, native |-> TRUE]

Envelope(rank) == <<"buf", "count", "datatype", rank, "tag", "comm">>

Send  == Wrapper(Envelope("dest"), Envelope("dest"))
Bsend == Wrapper(Envelope("dest"), Envelope("dest"))
Rsend == Wrapper(Envelope("dest"), Envelope("dest"))
Ssend == Wrapper(Envelope("dest"), Envelope("dest"))

Recv ==
  Wrapper(<<"buf", "count", "datatype", "source", "tag", "comm", "status">>,
          <<"buf", "count", "datatype", "source", "tag", "comm", "status">>)

Allgather ==
  Wrapper(<<"sendbuf", "sendcount", "sendtype", "recvbuf", "recvcount", "recvtype", "comm">>,
          <<"comm", "sendbuf", "sendcount", "sendtype", "recvbuf", "recvcount", "recvtype">>)

Allgatherv ==
  Wrapper(<<"sendbuf", "sendcount", "sendtype",
            "recvbuf", "recvcounts", "displs", "recvtype", "comm">>,
          <<"comm", "sendbuf", "sendcount", "sendtype",
            "recvbuf", "recvcounts", "displs", "recvtype">>)

Allreduce ==
  Wrapper(<<"sendbuf", "recvbuf", "count", "datatype", "op", "comm">>,
          <<"comm", "sendbuf", "count", "datatype", "recvbuf", "count", "datatype", "op">>)

Alltoall ==
  Wrapper(<<"sendbuf", "sendcount", "sendtype", "recvbuf", "recvcount", "recvtype", "comm">>,
          <<"comm", "sendbuf", "sendcount", "sendtype", "recvbuf", "recvcount", "recvtype">>)

Alltoallv ==
  Wrapper(<<"sendbuf", "sendcounts", "sdispls", "sendtype",
            "recvbuf", "recvcounts", "rdispls", "recvtype", "comm">>,
          <<"comm", "sendbuf", "sendcounts", "sdispls", "sendtype",
            "recvbuf", "recvcounts", "rdispls", "recvtype">>)

Alltoallw ==   \* the one wrapper that fails instead of calling the native one
  [formal |-> <<"sendbuf", "sendcounts", "sdispls", "sendtypes",
                "recvbuf", "recvcounts", "rdispls", "recvtypes", "comm">>,
   passed |-> <<"comm", "sendbuf", "sendcounts", "sdispls", "sendtypes",
                "recvbuf", "recvcounts", "rdispls", "recvtypes">>,
   native |-> FALSE]

Barrier ==
  Wrapper(<<"comm">>,
          <<"comm", "nullptr", "0", "MPI_DATATYPE_NULL", "nullptr", "0", "MPI_DATATYPE_NULL">>)

Bcast ==
  Wrapper(<<"buffer", "count", "datatype", "root", "comm">>,
          <<"comm", "nullptr", "0", "MPI_DATATYPE_NULL",
            "buffer", "count", "datatype", "MPI_OP_NULL", "root">>)

Exscan ==
  Wrapper(<<"sendbuf", "recvbuf", "count", "datatype", "op", "comm">>,
          <<"comm", "sendbuf", "count", "datatype", "recvbuf", "0", "MPI_DATATYPE_NULL", "op">>)

Gather ==
  Wrapper(<<"sendbuf", "sendcount", "sendtype",
            "recvbuf", "recvcount", "recvtype", "root", "comm">>,
          <<"comm", "sendbuf", "sendcount", "sendtype",
            "recvbuf", "recvcount", "recvtype", "MPI_OP_NULL", "root">>)

Gatherv ==
  Wrapper(<<"sendbuf", "sendcount", "sendtype",
            "recvbuf", "recvcounts", "displs", "recvtype", "root", "comm">>,
          <<"comm", "sendbuf", "sendcount", "sendtype",
            "recvbuf", "recvcounts", "displs", "recvtype", "MPI_OP_NULL", "root">>)

Reduce ==
  Wrapper(<<"sendbuf", "recvbuf", "count", "datatype", "op", "root", "comm">>,
          <<"comm", "sendbuf", "count", "datatype",
            "recvbuf", "count", "datatype", "op", "root">>)

Reducescatter ==
  Wrapper(<<"sendbuf", "recvbuf", "recvcounts", "datatype", "op", "comm">>,
          <<"comm", "sendbuf", "0", "datatype",
            "recvbuf", "recvcounts", "nullptr", "MPI_DATATYPE_NULL", "op">>)

Reducescatterblock ==
  Wrapper(<<"sendbuf", "recvbuf", "recvcount", "datatype", "op", "comm">>,
          <<"comm", "sendbuf", "0", "datatype",
            "recvbuf", "recvcount", "MPI_DATATYPE_NULL", "op">>)

Scan ==
  Wrapper(<<"sendbuf", "recvbuf", "count", "datatype", "op", "comm">>,
          <<"comm", "sendbuf", "count", "datatype", "recvbuf", "0", "MPI_DATATYPE_NULL", "op">>)

Scatter ==
  Wrapper(<<"sendbuf", "sendcount", "sendtype",
            "recvbuf", "recvcount", "recvtype", "root", "comm">>,
          <<"comm", "sendbuf", "sendcount", "sendtype",
            "recvbuf", "recvcount", "recvtype", "MPI_OP_NULL", "root">>)

Scatterv ==
  Wrapper(<<"sendbuf", "sendcounts", "displs", "sendtype",
            "recvbuf", "recvcount", "recvtype", "root", "comm">>,
          <<"comm", "sendbuf", "sendcounts", "displs", "sendtype",
            "recvbuf", "recvcount", "recvtype", "MPI_OP_NULL", "root">>)

P2PCodes == {"BSEND", "RECV", "RSEND", "SEND", "SSEND"}

CollCodes ==
  {"ALLGATHER", "ALLGATHERV", "ALLREDUCE", "ALLTOALL", "ALLTOALLV", "ALLTOALLW", "BARRIER",
   "BCAST", "EXSCAN", "GATHER", "GATHERV", "REDUCE", "REDUCESCATTER", "REDUCESCATTERBLOCK",
   "SCAN", "SCATTER", "SCATTERV"}

OpCode == P2PCodes \cup CollCodes

WrapperOf ==
  [BSEND |-> Bsend, RECV |-> Recv, RSEND |-> Rsend, SEND |-> Send, SSEND |-> Ssend,
   ALLGATHER |-> Allgather, ALLGATHERV |-> Allgatherv, ALLREDUCE |-> Allreduce,
   ALLTOALL |-> Alltoall, ALLTOALLV |-> Alltoallv, ALLTOALLW |-> Alltoallw,
   BARRIER |-> Barrier, BCAST |-> Bcast, EXSCAN |-> Exscan, GATHER |-> Gather,
   GATHERV |-> Gatherv, REDUCE |-> Reduce, REDUCESCATTER |-> Reducescatter,
   REDUCESCATTERBLOCK |-> Reducescatterblock, SCAN |-> Scan,
   SCATTER |-> Scatter, SCATTERV |-> Scatterv]

(***************************************************************************)
(* The fields of the two kinds of objects.  Members of a union share a     *)
(* slot, which remembers the member written last.  A value is tagged with  *)
(* the task whose argument it is.                                          *)
(***************************************************************************)
Union ==
  [sendcounts |-> "sendcount", recvcounts |-> "recvcount",
   sendtypes |-> "sendtype", recvtypes |-> "recvtype"]

Slot(field) == IF field \in DOMAIN Union THEN Union[field] ELSE field

OperationParams ==
  <<"buffer", "count", "datatype", "rank", "tag", "comm", "status">>

ScalarScalar ==
  <<"comm", "sendbuf", "sendcount", "sendtype",
    "recvbuf", "recvcount", "recvtype", "op", "rank">>
VectorScalar ==
  <<"comm", "sendbuf", "sendcounts", "senddispls", "sendtype",
    "recvbuf", "recvcount", "recvtype", "op", "rank">>
ScalarVectorSwapped ==   \* mutant
  <<"comm", "sendbuf", "sendcount", "sendtype",
    "recvbuf", "recvdispls", "recvcounts", "recvtype", "op", "rank">>
ScalarVector ==
  <<"comm", "sendbuf", "sendcount", "sendtype",
    "recvbuf", "recvcounts", "recvdispls", "recvtype", "op", "rank">>
VectorVector ==
  <<"comm", "sendbuf", "sendcounts", "senddispls", "sendtype",
    "recvbuf", "recvcounts", "recvdispls", "recvtype", "op", "rank">>
TypesVector ==
  <<"comm", "sendbuf", "sendcounts", "senddispls", "sendtypes",
    "recvbuf", "recvcounts", "recvdispls", "recvtypes", "op", "rank">>

Constructors ==
  {ScalarScalar, VectorScalar, ScalarVector, VectorVector, TypesVector}

\* The parameters with default values.
Defaults == [status |-> "STATUS_IGNORE", op |-> "MPI_OP_NULL", rank |-> "0"]

Pointers ==
  {"sendbuf", "recvbuf", "buffer", "sendcounts", "recvcounts", "senddispls",
   "recvdispls", "sdispls", "rdispls", "displs", "sendtypes", "recvtypes",
   "nullptr"}

\* Overload resolution.  Handles may be plain integers (they are in MPICH), so
\* only pointers and non-pointers are told apart.
Viable(passed) ==
  {c \in Constructors :
     /\ Len(passed) \in (Len(c) - 2)..Len(c)   \* op and rank may be left out
     /\ \A i \in DOMAIN passed : (passed[i] \in Pointers) = (c[i] \in Pointers)}

\* Every call of process for a collective has exactly one viable constructor.
ASSUME OverloadAssumption ==
  \A code \in CollCodes : Cardinality(Viable(WrapperOf[code].passed)) = 1

ParamsOf ==
  [code \in OpCode |->
     IF code \in P2PCodes THEN OperationParams
     ELSE CHOOSE c \in Viable(WrapperOf[code].passed) : TRUE]

\* The arguments of the constructor, the missing trailing ones defaulted.
Arguments ==
  [code \in OpCode |->
     LET passed == WrapperOf[code].passed
         params == ParamsOf[code]
     IN  [i \in DOMAIN params |->
            IF i \in DOMAIN passed THEN passed[i] ELSE Defaults[params[i]]]]

Literals ==
  {"nullptr", "0", "MPI_DATATYPE_NULL", "MPI_OP_NULL", "STATUS_IGNORE"}

Value(t, name) == IF name \in Literals THEN <<NoTask, name>> ELSE <<t, name>>

Garbage == <<NoTask, "garbage">>

P2PSlots  == {Slot(OperationParams[i]) : i \in DOMAIN OperationParams}
CollSlots == UNION {{Slot(c[i]) : i \in DOMAIN c} : c \in Constructors}

SlotsOf(o) == IF o \in P2PObjects THEN P2PSlots ELSE CollSlots

\* Memory after the constructor ran in an object with memory old: it writes
\* its own parameters, and leaves whatever else the object held.
Constructed(old, t, code) ==
  LET params == ParamsOf[code]
      args   == Arguments[code]
  IN  [s \in DOMAIN old |->
         IF \E i \in DOMAIN params : Slot(params[i]) = s
         THEN LET i == CHOOSE j \in DOMAIN params : Slot(params[j]) = s
              IN  [as |-> params[i], is |-> Value(t, args[i])]
         ELSE old[s]]

ReadField(memory, field) ==
  LET slot == memory[Slot(field)]
  IN  IF slot.as = field THEN slot.is ELSE Garbage

(***************************************************************************)
(* issue: the function called for each code and the fields it is given.    *)
(***************************************************************************)
P2PFields == <<"buffer", "count", "datatype", "rank", "tag", "comm">>

Reducing(count) == <<"sendbuf", "recvbuf", count, "sendtype", "op", "comm">>

IssueOf ==
  [SEND |-> <<"mpi_isend", P2PFields>>, BSEND |-> <<"mpi_ibsend", P2PFields>>,
   RSEND |-> <<"mpi_irsend", P2PFields>>, SSEND |-> <<"mpi_issend", P2PFields>>,
   RECV |-> <<"mpi_irecv", P2PFields>>,
   ALLGATHER |-> <<"mpi_iallgather", <<"sendbuf", "sendcount", "sendtype",
                                       "recvbuf", "recvcount", "recvtype", "comm">>>>,
   ALLGATHERV |-> <<"mpi_iallgatherv", <<"sendbuf", "sendcount", "sendtype",
                      "recvbuf", "recvcounts", "recvdispls", "recvtype", "comm">>>>,
   ALLREDUCE |-> <<"mpi_iallreduce", Reducing("sendcount")>>,
   ALLTOALL |-> <<"mpi_ialltoall", <<"sendbuf", "sendcount", "sendtype",
                                     "recvbuf", "recvcount", "recvtype", "comm">>>>,
   ALLTOALLV |-> <<"mpi_ialltoallv", <<"sendbuf", "sendcounts", "senddispls", "sendtype",
                      "recvbuf", "recvcounts", "recvdispls", "recvtype", "comm">>>>,
   ALLTOALLW |-> <<"mpi_ialltoallw", <<"sendbuf", "sendcounts", "senddispls", "sendtypes",
                      "recvbuf", "recvcounts", "recvdispls", "recvtypes", "comm">>>>,
   BARRIER |-> <<"mpi_ibarrier", <<"comm">>>>,
   BCAST |-> <<"mpi_ibcast", <<"recvbuf", "recvcount", "recvtype", "rank", "comm">>>>,
   EXSCAN |-> <<"mpi_iexscan", Reducing("sendcount")>>,
   GATHER |-> <<"mpi_igather", <<"sendbuf", "sendcount", "sendtype",
                                 "recvbuf", "recvcount", "recvtype", "rank", "comm">>>>,
   GATHERV |-> <<"mpi_igatherv", <<"sendbuf", "sendcount", "sendtype",
                   "recvbuf", "recvcounts", "recvdispls", "recvtype", "rank", "comm">>>>,
   REDUCE |-> <<"mpi_ireduce", <<"sendbuf", "recvbuf", "sendcount", "sendtype", "op",
                                 "rank", "comm">>>>,
   REDUCESCATTER |-> <<"mpi_ireduce_scatter", Reducing("recvcounts")>>,
   REDUCESCATTERBLOCK |-> <<"mpi_ireduce_scatter_block", Reducing("recvcount")>>,
   SCAN |-> <<"mpi_iscan", Reducing("sendcount")>>,
   SCATTER |-> <<"mpi_iscatter", <<"sendbuf", "sendcount", "sendtype",
                                   "recvbuf", "recvcount", "recvtype", "rank", "comm">>>>,
   SCATTERV |-> <<"mpi_iscatterv", <<"sendbuf", "sendcounts", "senddispls", "sendtype",
                    "recvbuf", "recvcount", "recvtype", "rank", "comm">>>>]

\* The functions Interface::initialize loads, all of them mandatory.
Symbols ==
  {"mpi_test", "mpi_testall", "mpi_testany", "mpi_testsome", "mpi_comm_rank",
   "mpi_comm_size",
   "mpi_ibsend", "mpi_irecv", "mpi_irsend", "mpi_isend", "mpi_issend",
   "mpi_iallgather", "mpi_iallgatherv", "mpi_iallreduce", "mpi_ialltoall",
   "mpi_ialltoallv", "mpi_ialltoallw", "mpi_ibarrier", "mpi_ibcast",
   "mpi_igather", "mpi_igatherv", "mpi_ireduce", "mpi_ireduce_scatter",
   "mpi_ireduce_scatter_block", "mpi_iscatter", "mpi_iscatterv", "mpi_iscan",
   "mpi_iexscan"}

VARIABLES
  blockingMode, nonBlockingMode,   \* the modes TAMPI was initialised with
  threadTaskAwareness,             \* of the thread that runs each task
  codes,       \* the procedures the program calls
  aborted,     \* ErrorHandler::fail was called: the name of the caller
  memory,      \* the constructor-written part of each object, by slot
  queued,      \* _task, _code and _nature of each object in a pre-queue
  blocked,     \* the tasks blocked in waitEventsCompletion
  events,      \* unfulfilled external events of each task
  tickets      \* the bag of tickets of the operations issued and not completed

vars == <<blockingMode, nonBlockingMode, threadTaskAwareness, codes, aborted, memory,
          queued, blocked, events, tickets>>

modes == <<blockingMode, nonBlockingMode, threadTaskAwareness, codes>>

Objects == P2PObjects \cup CollObjects

ObjectsFor(code) == IF code \in P2PCodes THEN P2PObjects ELSE CollObjects

\* The library is initialised; the pools are fresh and hold nothing.  The two
\* kinds of operations share no object, so a program of one kind is enough.
Init ==
  /\ blockingMode \in BOOLEAN
  /\ nonBlockingMode \in BOOLEAN
  /\ threadTaskAwareness \in [Tasks -> BOOLEAN]
  /\ codes \in {P2PCodes, CollCodes}
  /\ aborted = "no"
  /\ memory = [o \in Objects |->
                 [s \in SlotsOf(o) |-> [as |-> "none", is |-> Garbage]]]
  /\ queued = <<>>
  /\ blocked = {}
  /\ events = [t \in Tasks |-> 0]
  /\ tickets = EmptyBag

Running(t) == aborted = "no" /\ t \notin blocked

isBlockingEnabledForCurrentThread(t) == threadTaskAwareness[t] /\ blockingMode

Fail(name) ==
  /\ aborted' = name
  /\ UNCHANGED <<modes, memory, queued, blocked, events, tickets>>

\* OperationManager::process: bind the event, build the operation, push it,
\* and block if the call is a blocking one.
process(t, code, nature) ==
  /\ \E o \in ObjectsFor(code) \ DOMAIN queued :
       /\ memory' = [memory EXCEPT ![o] = Constructed(memory[o], t, code)]
       /\ queued' = [p \in DOMAIN queued \cup {o} |->
                       IF p = o THEN [task |-> t, code |-> code, nature |-> nature]
                       ELSE queued[p]]
  /\ IF nature = "BLK"
     THEN blocked' = blocked \cup {t} /\ UNCHANGED events
     ELSE /\ events[t] < MaxEvents
          /\ events' = [events EXCEPT ![t] = @ + 1]
          /\ UNCHANGED blocked
  /\ UNCHANGED <<modes, aborted, tickets>>

(***************************************************************************)
(* The calls of a task.                                                    *)
(***************************************************************************)
MPI_Call(t, code) ==
  /\ Running(t)
  /\ isBlockingEnabledForCurrentThread(t)
  /\ process(t, code, "BLK")

\* With the mode disabled MPI_X is the native MPI_X, except for Alltoallw.
MPI_CallNative(t, code) ==
  /\ Running(t)
  /\ ~ isBlockingEnabledForCurrentThread(t)
  /\ IF WrapperOf[code].native THEN UNCHANGED vars ELSE Fail("MPI")

TAMPI_ICall(t, code) ==
  /\ Running(t)
  /\ IF nonBlockingMode THEN process(t, code, "NONBLK") ELSE Fail("TAMPI")

\* MPI_Wait and MPI_Waitall fail in the blocking mode and are native otherwise;
\* TAMPI_Iwait and TAMPI_Iwaitall always fail.
MPI_Wait(t) ==
  /\ Running(t)
  /\ IF isBlockingEnabledForCurrentThread(t) THEN Fail("Wait") ELSE UNCHANGED vars

TAMPI_Iwait(t) == Running(t) /\ Fail("Iwait")

(***************************************************************************)
(* The polling task: transferOperations on one operation, and the          *)
(* completion of an operation.                                             *)
(***************************************************************************)
\* The call issue makes for an object.
IssuedCall(o) ==
  LET issue == IssueOf[queued[o].code]
  IN  [fn   |-> issue[1],
       args |-> [i \in DOMAIN issue[2] |-> ReadField(memory[o], issue[2][i])]]

\* The ticket built from an object; a collective's status is ignored.
TicketOf(o) ==
  [task     |-> queued[o].task,
   blocking |-> queued[o].nature = "BLK",
   status   |-> IF o \in P2PObjects
                THEN ReadField(memory[o], "status")
                ELSE <<NoTask, "STATUS_IGNORE">>]

Issue(o) ==
  /\ aborted = "no"
  /\ BagCardinality(tickets) < Capacity
  /\ queued' = [p \in DOMAIN queued \ {o} |-> queued[p]]
  /\ tickets' = tickets (+) SetToBag({TicketOf(o)})
  /\ UNCHANGED <<modes, aborted, memory, blocked, events>>

Complete(tk) ==
  /\ aborted = "no"
  /\ BagIn(tk, tickets)
  /\ tickets' = tickets (-) SetToBag({tk})
  /\ IF tk.blocking
     THEN blocked' = blocked \ {tk.task} /\ UNCHANGED events
     ELSE events' = [events EXCEPT ![tk.task] = @ - 1] /\ UNCHANGED blocked
  /\ UNCHANGED <<modes, aborted, memory, queued>>

Next ==
  \/ \E t \in Tasks, code \in codes :
       MPI_Call(t, code) \/ MPI_CallNative(t, code) \/ TAMPI_ICall(t, code)
  \/ \E t \in Tasks : MPI_Wait(t) \/ TAMPI_Iwait(t)
  \/ \E o \in DOMAIN queued : Issue(o)
  \/ \E tk \in BagToSet(tickets) : Complete(tk)

Spec == Init /\ [][Next]_vars

Symmetry == Permutations(Tasks)

(***************************************************************************)
(* Properties.                                                             *)
(***************************************************************************)
\* The non-blocking counterpart the MPI standard gives to each procedure.
Counterpart ==
  [BSEND |-> "mpi_ibsend", RECV |-> "mpi_irecv", RSEND |-> "mpi_irsend",
   SEND |-> "mpi_isend", SSEND |-> "mpi_issend",
   ALLGATHER |-> "mpi_iallgather", ALLGATHERV |-> "mpi_iallgatherv",
   ALLREDUCE |-> "mpi_iallreduce", ALLTOALL |-> "mpi_ialltoall",
   ALLTOALLV |-> "mpi_ialltoallv", ALLTOALLW |-> "mpi_ialltoallw",
   BARRIER |-> "mpi_ibarrier", BCAST |-> "mpi_ibcast", EXSCAN |-> "mpi_iexscan",
   GATHER |-> "mpi_igather", GATHERV |-> "mpi_igatherv", REDUCE |-> "mpi_ireduce",
   REDUCESCATTER |-> "mpi_ireduce_scatter",
   REDUCESCATTERBLOCK |-> "mpi_ireduce_scatter_block", SCAN |-> "mpi_iscan",
   SCATTER |-> "mpi_iscatter", SCATTERV |-> "mpi_iscatterv"]

\* What the MPI library is to be given for a call of task t: its own arguments
\* in the order of the signature (a non-blocking receive takes no status).
ExpectedArgs(t, code) ==
  LET sig == WrapperOf[code].formal
      len == IF sig[Len(sig)] = "status" THEN Len(sig) - 1 ELSE Len(sig)
  IN  [i \in 1..len |-> Value(t, sig[i])]

(***************************************************************************)
(* IssuedAsCalled: whatever the object held before, the call issue will    *)
(* make for a queued operation is the non-blocking counterpart of the      *)
(* procedure its task called, through a symbol that was loaded, with       *)
(* exactly the task's own arguments in the order of the signature: wrapper,*)
(* constructor and issue agree, and no field left over from the object's   *)
(* previous operation or from the other member of a union is ever used.    *)
(* The ticket saves the status where the task asked for it.                *)
(***************************************************************************)
IssuedAsCalled ==
  \A o \in DOMAIN queued :
    LET h == queued[o]
        c == IssuedCall(o)
    IN  /\ c.fn = Counterpart[h.code] /\ c.fn \in Symbols
        /\ c.args = ExpectedArgs(h.task, h.code)
        /\ TicketOf(o).status = IF h.code = "RECV"
                                THEN <<h.task, "status">>
                                ELSE <<NoTask, "STATUS_IGNORE">>

=============================================================================
