-------------------------- MODULE OperationsProofs --------------------------
(***************************************************************************)
(* That wrapper, constructor and issue agree on every argument of every    *)
(* procedure, for any number of tasks, objects and operations in flight.   *)
(***************************************************************************)
EXTENDS Operations, FiniteSetTheorems, TLAPS

\* Zenon is tried first, briefly, and both provers get more time than by default.
USE ZenonT(4), SMTT(20), ZenonT(20)

(***************************************************************************)
(* The tables.                                                             *)
(***************************************************************************)
\* The call made with fields has one argument for each parameter of wrapper w
\* that a non-blocking procedure takes.  Its i-th argument is the field that the
\* constructor with parameters params sets from its parameter at[i], for which
\* the wrapper passed its own i-th parameter.
Fits(w, params, fields, at) ==
  LET sig == w.formal
  IN  /\ DOMAIN fields =
           1..(IF sig[Len(sig)] = "status" THEN Len(sig) - 1 ELSE Len(sig))
      /\ \A i \in DOMAIN fields :
           /\ at[i] \in DOMAIN params /\ at[i] \in DOMAIN w.passed
           /\ params[at[i]] = fields[i]
           /\ w.passed[at[i]] = sig[i]

\* issue calls the counterpart of the procedure, with the fields that fit.
Agrees(code, params) ==
  /\ IssueOf[code][1] = Counterpart[code]
  /\ Counterpart[code] \in Symbols
  /\ \E at : Fits(WrapperOf[code], params, IssueOf[code][2], at)

\* Bsend: the fields given to mpi_ibsend are the arguments of the call.
LEMMA BsendAgrees ==
  Agrees("BSEND", OperationParams)
  <1> DEFINE fields == <<"buffer", "count", "datatype", "rank", "tag", "comm">>
  <1>1. WrapperOf["BSEND"] = Bsend
    BY DEF WrapperOf
  <1>2. IssueOf["BSEND"] = <<"mpi_ibsend", fields>>
    BY DEF IssueOf, P2PFields
  <1>3. Counterpart["BSEND"] = "mpi_ibsend"
    BY DEF Counterpart
  <1>4. "mpi_ibsend" \in Symbols
    BY DEF Symbols
  <1>5. Fits(Bsend, OperationParams, fields, <<1, 2, 3, 4, 5, 6>>)
    BY DEF Fits, OperationParams, Bsend, Wrapper, Envelope
  <1> HIDE DEF fields
  <1>6. /\ IssueOf["BSEND"][1] = "mpi_ibsend"
        /\ IssueOf["BSEND"][2] = fields
    BY <1>2
  <1> QED
    BY <1>1, <1>3, <1>4, <1>5, <1>6 DEF Agrees

\* Recv: the fields given to mpi_irecv are the arguments of the call.
LEMMA RecvAgrees ==
  Agrees("RECV", OperationParams)
  <1> DEFINE fields == <<"buffer", "count", "datatype", "rank", "tag", "comm">>
  <1>1. WrapperOf["RECV"] = Recv
    BY DEF WrapperOf
  <1>2. IssueOf["RECV"] = <<"mpi_irecv", fields>>
    BY DEF IssueOf, P2PFields
  <1>3. Counterpart["RECV"] = "mpi_irecv"
    BY DEF Counterpart
  <1>4. "mpi_irecv" \in Symbols
    BY DEF Symbols
  <1>5. Fits(Recv, OperationParams, fields, <<1, 2, 3, 4, 5, 6>>)
    BY DEF Fits, OperationParams, Recv, Wrapper
  <1> HIDE DEF fields
  <1>6. /\ IssueOf["RECV"][1] = "mpi_irecv"
        /\ IssueOf["RECV"][2] = fields
    BY <1>2
  <1> QED
    BY <1>1, <1>3, <1>4, <1>5, <1>6 DEF Agrees

\* Rsend: the fields given to mpi_irsend are the arguments of the call.
LEMMA RsendAgrees ==
  Agrees("RSEND", OperationParams)
  <1> DEFINE fields == <<"buffer", "count", "datatype", "rank", "tag", "comm">>
  <1>1. WrapperOf["RSEND"] = Rsend
    BY DEF WrapperOf
  <1>2. IssueOf["RSEND"] = <<"mpi_irsend", fields>>
    BY DEF IssueOf, P2PFields
  <1>3. Counterpart["RSEND"] = "mpi_irsend"
    BY DEF Counterpart
  <1>4. "mpi_irsend" \in Symbols
    BY DEF Symbols
  <1>5. Fits(Rsend, OperationParams, fields, <<1, 2, 3, 4, 5, 6>>)
    BY DEF Fits, OperationParams, Rsend, Wrapper, Envelope
  <1> HIDE DEF fields
  <1>6. /\ IssueOf["RSEND"][1] = "mpi_irsend"
        /\ IssueOf["RSEND"][2] = fields
    BY <1>2
  <1> QED
    BY <1>1, <1>3, <1>4, <1>5, <1>6 DEF Agrees

\* Send: the fields given to mpi_isend are the arguments of the call.
LEMMA SendAgrees ==
  Agrees("SEND", OperationParams)
  <1> DEFINE fields == <<"buffer", "count", "datatype", "rank", "tag", "comm">>
  <1>1. WrapperOf["SEND"] = Send
    BY DEF WrapperOf
  <1>2. IssueOf["SEND"] = <<"mpi_isend", fields>>
    BY DEF IssueOf, P2PFields
  <1>3. Counterpart["SEND"] = "mpi_isend"
    BY DEF Counterpart
  <1>4. "mpi_isend" \in Symbols
    BY DEF Symbols
  <1>5. Fits(Send, OperationParams, fields, <<1, 2, 3, 4, 5, 6>>)
    BY DEF Fits, OperationParams, Send, Wrapper, Envelope
  <1> HIDE DEF fields
  <1>6. /\ IssueOf["SEND"][1] = "mpi_isend"
        /\ IssueOf["SEND"][2] = fields
    BY <1>2
  <1> QED
    BY <1>1, <1>3, <1>4, <1>5, <1>6 DEF Agrees

\* Ssend: the fields given to mpi_issend are the arguments of the call.
LEMMA SsendAgrees ==
  Agrees("SSEND", OperationParams)
  <1> DEFINE fields == <<"buffer", "count", "datatype", "rank", "tag", "comm">>
  <1>1. WrapperOf["SSEND"] = Ssend
    BY DEF WrapperOf
  <1>2. IssueOf["SSEND"] = <<"mpi_issend", fields>>
    BY DEF IssueOf, P2PFields
  <1>3. Counterpart["SSEND"] = "mpi_issend"
    BY DEF Counterpart
  <1>4. "mpi_issend" \in Symbols
    BY DEF Symbols
  <1>5. Fits(Ssend, OperationParams, fields, <<1, 2, 3, 4, 5, 6>>)
    BY DEF Fits, OperationParams, Ssend, Wrapper, Envelope
  <1> HIDE DEF fields
  <1>6. /\ IssueOf["SSEND"][1] = "mpi_issend"
        /\ IssueOf["SSEND"][2] = fields
    BY <1>2
  <1> QED
    BY <1>1, <1>3, <1>4, <1>5, <1>6 DEF Agrees

\* Allgather: process builds the operation with the constructor ScalarScalar,
\* and the fields given to mpi_iallgather are the arguments of the call.
LEMMA AllgatherAgrees ==
  /\ ScalarScalar \in Viable(WrapperOf["ALLGATHER"].passed)
  /\ Agrees("ALLGATHER", ScalarScalar)
  <1> DEFINE fields == <<"sendbuf", "sendcount", "sendtype", "recvbuf", "recvcount",
                       "recvtype", "comm">>
  <1>1. WrapperOf["ALLGATHER"] = Allgather
    BY DEF WrapperOf
  <1>2. IssueOf["ALLGATHER"] = <<"mpi_iallgather", fields>>
    BY DEF IssueOf
  <1>3. Counterpart["ALLGATHER"] = "mpi_iallgather"
    BY DEF Counterpart
  <1>4. "mpi_iallgather" \in Symbols
    BY DEF Symbols
  <1>5. Fits(Allgather, ScalarScalar, fields, <<2, 3, 4, 5, 6, 7, 1>>)
    BY DEF Fits, ScalarScalar, Allgather, Wrapper
  <1>6. ScalarScalar \in Viable(Allgather.passed)
    BY DEF Viable, Constructors, Pointers, ScalarScalar, Allgather, Wrapper
  <1> HIDE DEF fields
  <1>7. /\ IssueOf["ALLGATHER"][1] = "mpi_iallgather"
        /\ IssueOf["ALLGATHER"][2] = fields
    BY <1>2
  <1> QED
    BY <1>1, <1>3, <1>4, <1>5, <1>6, <1>7 DEF Agrees

\* Allgatherv: process builds the operation with the constructor ScalarVector,
\* and the fields given to mpi_iallgatherv are the arguments of the call.
LEMMA AllgathervAgrees ==
  /\ ScalarVector \in Viable(WrapperOf["ALLGATHERV"].passed)
  /\ Agrees("ALLGATHERV", ScalarVector)
  <1> DEFINE fields == <<"sendbuf", "sendcount", "sendtype", "recvbuf", "recvcounts",
                       "recvdispls", "recvtype", "comm">>
  <1>1. WrapperOf["ALLGATHERV"] = Allgatherv
    BY DEF WrapperOf
  <1>2. IssueOf["ALLGATHERV"] = <<"mpi_iallgatherv", fields>>
    BY DEF IssueOf
  <1>3. Counterpart["ALLGATHERV"] = "mpi_iallgatherv"
    BY DEF Counterpart
  <1>4. "mpi_iallgatherv" \in Symbols
    BY DEF Symbols
  <1>5. Fits(Allgatherv, ScalarVector, fields, <<2, 3, 4, 5, 6, 7, 8, 1>>)
    BY DEF Fits, ScalarVector, Allgatherv, Wrapper
  <1>6. ScalarVector \in Viable(Allgatherv.passed)
    BY DEF Viable, Constructors, Pointers, ScalarVector, Allgatherv, Wrapper
  <1> HIDE DEF fields
  <1>7. /\ IssueOf["ALLGATHERV"][1] = "mpi_iallgatherv"
        /\ IssueOf["ALLGATHERV"][2] = fields
    BY <1>2
  <1> QED
    BY <1>1, <1>3, <1>4, <1>5, <1>6, <1>7 DEF Agrees

\* Allreduce: process builds the operation with the constructor ScalarScalar,
\* and the fields given to mpi_iallreduce are the arguments of the call.
LEMMA AllreduceAgrees ==
  /\ ScalarScalar \in Viable(WrapperOf["ALLREDUCE"].passed)
  /\ Agrees("ALLREDUCE", ScalarScalar)
  <1> DEFINE fields == <<"sendbuf", "recvbuf", "sendcount", "sendtype", "op", "comm">>
  <1>1. WrapperOf["ALLREDUCE"] = Allreduce
    BY DEF WrapperOf
  <1>2. IssueOf["ALLREDUCE"] = <<"mpi_iallreduce", fields>>
    BY DEF IssueOf, Reducing
  <1>3. Counterpart["ALLREDUCE"] = "mpi_iallreduce"
    BY DEF Counterpart
  <1>4. "mpi_iallreduce" \in Symbols
    BY DEF Symbols
  <1>5. Fits(Allreduce, ScalarScalar, fields, <<2, 5, 3, 4, 8, 1>>)
    BY DEF Fits, ScalarScalar, Allreduce, Wrapper
  <1>6. ScalarScalar \in Viable(Allreduce.passed)
    BY DEF Viable, Constructors, Pointers, ScalarScalar, Allreduce, Wrapper
  <1> HIDE DEF fields
  <1>7. /\ IssueOf["ALLREDUCE"][1] = "mpi_iallreduce"
        /\ IssueOf["ALLREDUCE"][2] = fields
    BY <1>2
  <1> QED
    BY <1>1, <1>3, <1>4, <1>5, <1>6, <1>7 DEF Agrees

\* Alltoall: process builds the operation with the constructor ScalarScalar,
\* and the fields given to mpi_ialltoall are the arguments of the call.
LEMMA AlltoallAgrees ==
  /\ ScalarScalar \in Viable(WrapperOf["ALLTOALL"].passed)
  /\ Agrees("ALLTOALL", ScalarScalar)
  <1> DEFINE fields == <<"sendbuf", "sendcount", "sendtype", "recvbuf", "recvcount",
                       "recvtype", "comm">>
  <1>1. WrapperOf["ALLTOALL"] = Alltoall
    BY DEF WrapperOf
  <1>2. IssueOf["ALLTOALL"] = <<"mpi_ialltoall", fields>>
    BY DEF IssueOf
  <1>3. Counterpart["ALLTOALL"] = "mpi_ialltoall"
    BY DEF Counterpart
  <1>4. "mpi_ialltoall" \in Symbols
    BY DEF Symbols
  <1>5. Fits(Alltoall, ScalarScalar, fields, <<2, 3, 4, 5, 6, 7, 1>>)
    BY DEF Fits, ScalarScalar, Alltoall, Wrapper
  <1>6. ScalarScalar \in Viable(Alltoall.passed)
    BY DEF Viable, Constructors, Pointers, ScalarScalar, Alltoall, Wrapper
  <1> HIDE DEF fields
  <1>7. /\ IssueOf["ALLTOALL"][1] = "mpi_ialltoall"
        /\ IssueOf["ALLTOALL"][2] = fields
    BY <1>2
  <1> QED
    BY <1>1, <1>3, <1>4, <1>5, <1>6, <1>7 DEF Agrees

\* Alltoallv: process builds the operation with the constructor VectorVector,
\* and the fields given to mpi_ialltoallv are the arguments of the call.
LEMMA AlltoallvAgrees ==
  /\ VectorVector \in Viable(WrapperOf["ALLTOALLV"].passed)
  /\ Agrees("ALLTOALLV", VectorVector)
  <1> DEFINE fields == <<"sendbuf", "sendcounts", "senddispls", "sendtype", "recvbuf",
                       "recvcounts", "recvdispls", "recvtype", "comm">>
  <1>1. WrapperOf["ALLTOALLV"] = Alltoallv
    BY DEF WrapperOf
  <1>2. IssueOf["ALLTOALLV"] = <<"mpi_ialltoallv", fields>>
    BY DEF IssueOf
  <1>3. Counterpart["ALLTOALLV"] = "mpi_ialltoallv"
    BY DEF Counterpart
  <1>4. "mpi_ialltoallv" \in Symbols
    BY DEF Symbols
  <1>5. Fits(Alltoallv, VectorVector, fields, <<2, 3, 4, 5, 6, 7, 8, 9, 1>>)
    BY DEF Fits, VectorVector, Alltoallv, Wrapper
  <1>6. VectorVector \in Viable(Alltoallv.passed)
    BY DEF Viable, Constructors, Pointers, VectorVector, Alltoallv, Wrapper
  <1> HIDE DEF fields
  <1>7. /\ IssueOf["ALLTOALLV"][1] = "mpi_ialltoallv"
        /\ IssueOf["ALLTOALLV"][2] = fields
    BY <1>2
  <1> QED
    BY <1>1, <1>3, <1>4, <1>5, <1>6, <1>7 DEF Agrees

\* Alltoallw: process builds the operation with the constructor TypesVector,
\* and the fields given to mpi_ialltoallw are the arguments of the call.
LEMMA AlltoallwAgrees ==
  /\ TypesVector \in Viable(WrapperOf["ALLTOALLW"].passed)
  /\ Agrees("ALLTOALLW", TypesVector)
  <1> DEFINE fields == <<"sendbuf", "sendcounts", "senddispls", "sendtypes", "recvbuf",
                       "recvcounts", "recvdispls", "recvtypes", "comm">>
  <1>1. WrapperOf["ALLTOALLW"] = Alltoallw
    BY DEF WrapperOf
  <1>2. IssueOf["ALLTOALLW"] = <<"mpi_ialltoallw", fields>>
    BY DEF IssueOf
  <1>3. Counterpart["ALLTOALLW"] = "mpi_ialltoallw"
    BY DEF Counterpart
  <1>4. "mpi_ialltoallw" \in Symbols
    BY DEF Symbols
  <1>5. Fits(Alltoallw, TypesVector, fields, <<2, 3, 4, 5, 6, 7, 8, 9, 1>>)
    BY DEF Fits, TypesVector, Alltoallw
  <1>6. TypesVector \in Viable(Alltoallw.passed)
    BY DEF Viable, Constructors, Pointers, TypesVector, Alltoallw
  <1> HIDE DEF fields
  <1>7. /\ IssueOf["ALLTOALLW"][1] = "mpi_ialltoallw"
        /\ IssueOf["ALLTOALLW"][2] = fields
    BY <1>2
  <1> QED
    BY <1>1, <1>3, <1>4, <1>5, <1>6, <1>7 DEF Agrees

\* Barrier: process builds the operation with the constructor ScalarScalar,
\* and the fields given to mpi_ibarrier are the arguments of the call.
LEMMA BarrierAgrees ==
  /\ ScalarScalar \in Viable(WrapperOf["BARRIER"].passed)
  /\ Agrees("BARRIER", ScalarScalar)
  <1> DEFINE fields == <<"comm">>
  <1>1. WrapperOf["BARRIER"] = Barrier
    BY DEF WrapperOf
  <1>2. IssueOf["BARRIER"] = <<"mpi_ibarrier", fields>>
    BY DEF IssueOf
  <1>3. Counterpart["BARRIER"] = "mpi_ibarrier"
    BY DEF Counterpart
  <1>4. "mpi_ibarrier" \in Symbols
    BY DEF Symbols
  <1>5. Fits(Barrier, ScalarScalar, fields, <<1>>)
    BY DEF Fits, ScalarScalar, Barrier, Wrapper
  <1>6. ScalarScalar \in Viable(Barrier.passed)
    BY DEF Viable, Constructors, Pointers, ScalarScalar, Barrier, Wrapper
  <1> HIDE DEF fields
  <1>7. /\ IssueOf["BARRIER"][1] = "mpi_ibarrier"
        /\ IssueOf["BARRIER"][2] = fields
    BY <1>2
  <1> QED
    BY <1>1, <1>3, <1>4, <1>5, <1>6, <1>7 DEF Agrees

\* Bcast: process builds the operation with the constructor ScalarScalar,
\* and the fields given to mpi_ibcast are the arguments of the call.
LEMMA BcastAgrees ==
  /\ ScalarScalar \in Viable(WrapperOf["BCAST"].passed)
  /\ Agrees("BCAST", ScalarScalar)
  <1> DEFINE fields == <<"recvbuf", "recvcount", "recvtype", "rank", "comm">>
  <1>1. WrapperOf["BCAST"] = Bcast
    BY DEF WrapperOf
  <1>2. IssueOf["BCAST"] = <<"mpi_ibcast", fields>>
    BY DEF IssueOf
  <1>3. Counterpart["BCAST"] = "mpi_ibcast"
    BY DEF Counterpart
  <1>4. "mpi_ibcast" \in Symbols
    BY DEF Symbols
  <1>5. Fits(Bcast, ScalarScalar, fields, <<5, 6, 7, 9, 1>>)
    BY DEF Fits, ScalarScalar, Bcast, Wrapper
  <1>6. ScalarScalar \in Viable(Bcast.passed)
    BY DEF Viable, Constructors, Pointers, ScalarScalar, Bcast, Wrapper
  <1> HIDE DEF fields
  <1>7. /\ IssueOf["BCAST"][1] = "mpi_ibcast"
        /\ IssueOf["BCAST"][2] = fields
    BY <1>2
  <1> QED
    BY <1>1, <1>3, <1>4, <1>5, <1>6, <1>7 DEF Agrees

\* Exscan: process builds the operation with the constructor ScalarScalar,
\* and the fields given to mpi_iexscan are the arguments of the call.
LEMMA ExscanAgrees ==
  /\ ScalarScalar \in Viable(WrapperOf["EXSCAN"].passed)
  /\ Agrees("EXSCAN", ScalarScalar)
  <1> DEFINE fields == <<"sendbuf", "recvbuf", "sendcount", "sendtype", "op", "comm">>
  <1>1. WrapperOf["EXSCAN"] = Exscan
    BY DEF WrapperOf
  <1>2. IssueOf["EXSCAN"] = <<"mpi_iexscan", fields>>
    BY DEF IssueOf, Reducing
  <1>3. Counterpart["EXSCAN"] = "mpi_iexscan"
    BY DEF Counterpart
  <1>4. "mpi_iexscan" \in Symbols
    BY DEF Symbols
  <1>5. Fits(Exscan, ScalarScalar, fields, <<2, 5, 3, 4, 8, 1>>)
    BY DEF Fits, ScalarScalar, Exscan, Wrapper
  <1>6. ScalarScalar \in Viable(Exscan.passed)
    BY DEF Viable, Constructors, Pointers, ScalarScalar, Exscan, Wrapper
  <1> HIDE DEF fields
  <1>7. /\ IssueOf["EXSCAN"][1] = "mpi_iexscan"
        /\ IssueOf["EXSCAN"][2] = fields
    BY <1>2
  <1> QED
    BY <1>1, <1>3, <1>4, <1>5, <1>6, <1>7 DEF Agrees

\* Gather: process builds the operation with the constructor ScalarScalar,
\* and the fields given to mpi_igather are the arguments of the call.
LEMMA GatherAgrees ==
  /\ ScalarScalar \in Viable(WrapperOf["GATHER"].passed)
  /\ Agrees("GATHER", ScalarScalar)
  <1> DEFINE fields == <<"sendbuf", "sendcount", "sendtype", "recvbuf", "recvcount",
                       "recvtype", "rank", "comm">>
  <1>1. WrapperOf["GATHER"] = Gather
    BY DEF WrapperOf
  <1>2. IssueOf["GATHER"] = <<"mpi_igather", fields>>
    BY DEF IssueOf
  <1>3. Counterpart["GATHER"] = "mpi_igather"
    BY DEF Counterpart
  <1>4. "mpi_igather" \in Symbols
    BY DEF Symbols
  <1>5. Fits(Gather, ScalarScalar, fields, <<2, 3, 4, 5, 6, 7, 9, 1>>)
    BY DEF Fits, ScalarScalar, Gather, Wrapper
  <1>6. ScalarScalar \in Viable(Gather.passed)
    BY DEF Viable, Constructors, Pointers, ScalarScalar, Gather, Wrapper
  <1> HIDE DEF fields
  <1>7. /\ IssueOf["GATHER"][1] = "mpi_igather"
        /\ IssueOf["GATHER"][2] = fields
    BY <1>2
  <1> QED
    BY <1>1, <1>3, <1>4, <1>5, <1>6, <1>7 DEF Agrees

\* Gatherv: process builds the operation with the constructor ScalarVector,
\* and the fields given to mpi_igatherv are the arguments of the call.
LEMMA GathervAgrees ==
  /\ ScalarVector \in Viable(WrapperOf["GATHERV"].passed)
  /\ Agrees("GATHERV", ScalarVector)
  <1> DEFINE fields == <<"sendbuf", "sendcount", "sendtype", "recvbuf", "recvcounts",
                       "recvdispls", "recvtype", "rank", "comm">>
  <1>1. WrapperOf["GATHERV"] = Gatherv
    BY DEF WrapperOf
  <1>2. IssueOf["GATHERV"] = <<"mpi_igatherv", fields>>
    BY DEF IssueOf
  <1>3. Counterpart["GATHERV"] = "mpi_igatherv"
    BY DEF Counterpart
  <1>4. "mpi_igatherv" \in Symbols
    BY DEF Symbols
  <1>5. Fits(Gatherv, ScalarVector, fields, <<2, 3, 4, 5, 6, 7, 8, 10, 1>>)
    BY DEF Fits, ScalarVector, Gatherv, Wrapper
  <1>6. ScalarVector \in Viable(Gatherv.passed)
    BY DEF Viable, Constructors, Pointers, ScalarVector, Gatherv, Wrapper
  <1> HIDE DEF fields
  <1>7. /\ IssueOf["GATHERV"][1] = "mpi_igatherv"
        /\ IssueOf["GATHERV"][2] = fields
    BY <1>2
  <1> QED
    BY <1>1, <1>3, <1>4, <1>5, <1>6, <1>7 DEF Agrees

\* Reduce: process builds the operation with the constructor ScalarScalar,
\* and the fields given to mpi_ireduce are the arguments of the call.
LEMMA ReduceAgrees ==
  /\ ScalarScalar \in Viable(WrapperOf["REDUCE"].passed)
  /\ Agrees("REDUCE", ScalarScalar)
  <1> DEFINE fields == <<"sendbuf", "recvbuf", "sendcount", "sendtype", "op", "rank",
                       "comm">>
  <1>1. WrapperOf["REDUCE"] = Reduce
    BY DEF WrapperOf
  <1>2. IssueOf["REDUCE"] = <<"mpi_ireduce", fields>>
    BY DEF IssueOf
  <1>3. Counterpart["REDUCE"] = "mpi_ireduce"
    BY DEF Counterpart
  <1>4. "mpi_ireduce" \in Symbols
    BY DEF Symbols
  <1>5. Fits(Reduce, ScalarScalar, fields, <<2, 5, 3, 4, 8, 9, 1>>)
    BY DEF Fits, ScalarScalar, Reduce, Wrapper
  <1>6. ScalarScalar \in Viable(Reduce.passed)
    BY DEF Viable, Constructors, Pointers, ScalarScalar, Reduce, Wrapper
  <1> HIDE DEF fields
  <1>7. /\ IssueOf["REDUCE"][1] = "mpi_ireduce"
        /\ IssueOf["REDUCE"][2] = fields
    BY <1>2
  <1> QED
    BY <1>1, <1>3, <1>4, <1>5, <1>6, <1>7 DEF Agrees

\* Reducescatter: process builds the operation with the constructor ScalarVector,
\* and the fields given to mpi_ireduce_scatter are the arguments of the call.
LEMMA ReducescatterAgrees ==
  /\ ScalarVector \in Viable(WrapperOf["REDUCESCATTER"].passed)
  /\ Agrees("REDUCESCATTER", ScalarVector)
  <1> DEFINE fields == <<"sendbuf", "recvbuf", "recvcounts", "sendtype", "op", "comm">>
  <1>1. WrapperOf["REDUCESCATTER"] = Reducescatter
    BY DEF WrapperOf
  <1>2. IssueOf["REDUCESCATTER"] = <<"mpi_ireduce_scatter", fields>>
    BY DEF IssueOf, Reducing
  <1>3. Counterpart["REDUCESCATTER"] = "mpi_ireduce_scatter"
    BY DEF Counterpart
  <1>4. "mpi_ireduce_scatter" \in Symbols
    BY DEF Symbols
  <1>5. Fits(Reducescatter, ScalarVector, fields, <<2, 5, 6, 4, 9, 1>>)
    BY DEF Fits, ScalarVector, Reducescatter, Wrapper
  <1>6. ScalarVector \in Viable(Reducescatter.passed)
    BY DEF Viable, Constructors, Pointers, ScalarVector, Reducescatter, Wrapper
  <1> HIDE DEF fields
  <1>7. /\ IssueOf["REDUCESCATTER"][1] = "mpi_ireduce_scatter"
        /\ IssueOf["REDUCESCATTER"][2] = fields
    BY <1>2
  <1> QED
    BY <1>1, <1>3, <1>4, <1>5, <1>6, <1>7 DEF Agrees

\* Reducescatterblock: process builds the operation with the constructor ScalarScalar,
\* and the fields given to mpi_ireduce_scatter_block are the arguments of the call.
LEMMA ReducescatterblockAgrees ==
  /\ ScalarScalar \in Viable(WrapperOf["REDUCESCATTERBLOCK"].passed)
  /\ Agrees("REDUCESCATTERBLOCK", ScalarScalar)
  <1> DEFINE fields == <<"sendbuf", "recvbuf", "recvcount", "sendtype", "op", "comm">>
  <1>1. WrapperOf["REDUCESCATTERBLOCK"] = Reducescatterblock
    BY DEF WrapperOf
  <1>2. IssueOf["REDUCESCATTERBLOCK"] = <<"mpi_ireduce_scatter_block", fields>>
    BY DEF IssueOf, Reducing
  <1>3. Counterpart["REDUCESCATTERBLOCK"] = "mpi_ireduce_scatter_block"
    BY DEF Counterpart
  <1>4. "mpi_ireduce_scatter_block" \in Symbols
    BY DEF Symbols
  <1>5. Fits(Reducescatterblock, ScalarScalar, fields, <<2, 5, 6, 4, 8, 1>>)
    BY DEF Fits, ScalarScalar, Reducescatterblock, Wrapper
  <1>6. ScalarScalar \in Viable(Reducescatterblock.passed)
    BY DEF Viable, Constructors, Pointers, ScalarScalar, Reducescatterblock, Wrapper
  <1> HIDE DEF fields
  <1>7. /\ IssueOf["REDUCESCATTERBLOCK"][1] = "mpi_ireduce_scatter_block"
        /\ IssueOf["REDUCESCATTERBLOCK"][2] = fields
    BY <1>2
  <1> QED
    BY <1>1, <1>3, <1>4, <1>5, <1>6, <1>7 DEF Agrees

\* Scan: process builds the operation with the constructor ScalarScalar,
\* and the fields given to mpi_iscan are the arguments of the call.
LEMMA ScanAgrees ==
  /\ ScalarScalar \in Viable(WrapperOf["SCAN"].passed)
  /\ Agrees("SCAN", ScalarScalar)
  <1> DEFINE fields == <<"sendbuf", "recvbuf", "sendcount", "sendtype", "op", "comm">>
  <1>1. WrapperOf["SCAN"] = Scan
    BY DEF WrapperOf
  <1>2. IssueOf["SCAN"] = <<"mpi_iscan", fields>>
    BY DEF IssueOf, Reducing
  <1>3. Counterpart["SCAN"] = "mpi_iscan"
    BY DEF Counterpart
  <1>4. "mpi_iscan" \in Symbols
    BY DEF Symbols
  <1>5. Fits(Scan, ScalarScalar, fields, <<2, 5, 3, 4, 8, 1>>)
    BY DEF Fits, ScalarScalar, Scan, Wrapper
  <1>6. ScalarScalar \in Viable(Scan.passed)
    BY DEF Viable, Constructors, Pointers, ScalarScalar, Scan, Wrapper
  <1> HIDE DEF fields
  <1>7. /\ IssueOf["SCAN"][1] = "mpi_iscan"
        /\ IssueOf["SCAN"][2] = fields
    BY <1>2
  <1> QED
    BY <1>1, <1>3, <1>4, <1>5, <1>6, <1>7 DEF Agrees

\* Scatter: process builds the operation with the constructor ScalarScalar,
\* and the fields given to mpi_iscatter are the arguments of the call.
LEMMA ScatterAgrees ==
  /\ ScalarScalar \in Viable(WrapperOf["SCATTER"].passed)
  /\ Agrees("SCATTER", ScalarScalar)
  <1> DEFINE fields == <<"sendbuf", "sendcount", "sendtype", "recvbuf", "recvcount",
                       "recvtype", "rank", "comm">>
  <1>1. WrapperOf["SCATTER"] = Scatter
    BY DEF WrapperOf
  <1>2. IssueOf["SCATTER"] = <<"mpi_iscatter", fields>>
    BY DEF IssueOf
  <1>3. Counterpart["SCATTER"] = "mpi_iscatter"
    BY DEF Counterpart
  <1>4. "mpi_iscatter" \in Symbols
    BY DEF Symbols
  <1>5. Fits(Scatter, ScalarScalar, fields, <<2, 3, 4, 5, 6, 7, 9, 1>>)
    BY DEF Fits, ScalarScalar, Scatter, Wrapper
  <1>6. ScalarScalar \in Viable(Scatter.passed)
    BY DEF Viable, Constructors, Pointers, ScalarScalar, Scatter, Wrapper
  <1> HIDE DEF fields
  <1>7. /\ IssueOf["SCATTER"][1] = "mpi_iscatter"
        /\ IssueOf["SCATTER"][2] = fields
    BY <1>2
  <1> QED
    BY <1>1, <1>3, <1>4, <1>5, <1>6, <1>7 DEF Agrees

\* Scatterv: process builds the operation with the constructor VectorScalar,
\* and the fields given to mpi_iscatterv are the arguments of the call.
LEMMA ScattervAgrees ==
  /\ VectorScalar \in Viable(WrapperOf["SCATTERV"].passed)
  /\ Agrees("SCATTERV", VectorScalar)
  <1> DEFINE fields == <<"sendbuf", "sendcounts", "senddispls", "sendtype", "recvbuf",
                       "recvcount", "recvtype", "rank", "comm">>
  <1>1. WrapperOf["SCATTERV"] = Scatterv
    BY DEF WrapperOf
  <1>2. IssueOf["SCATTERV"] = <<"mpi_iscatterv", fields>>
    BY DEF IssueOf
  <1>3. Counterpart["SCATTERV"] = "mpi_iscatterv"
    BY DEF Counterpart
  <1>4. "mpi_iscatterv" \in Symbols
    BY DEF Symbols
  <1>5. Fits(Scatterv, VectorScalar, fields, <<2, 3, 4, 5, 6, 7, 8, 10, 1>>)
    BY DEF Fits, VectorScalar, Scatterv, Wrapper
  <1>6. VectorScalar \in Viable(Scatterv.passed)
    BY DEF Viable, Constructors, Pointers, VectorScalar, Scatterv, Wrapper
  <1> HIDE DEF fields
  <1>7. /\ IssueOf["SCATTERV"][1] = "mpi_iscatterv"
        /\ IssueOf["SCATTERV"][2] = fields
    BY <1>2
  <1> QED
    BY <1>1, <1>3, <1>4, <1>5, <1>6, <1>7 DEF Agrees

(***************************************************************************)
(* The constructor of each operation.                                      *)
(***************************************************************************)
\* A viable constructor of a call is the one the call uses.
LEMMA ConstructorUsed ==
  ASSUME NEW code \in CollCodes, NEW c \in Viable(WrapperOf[code].passed)
  PROVE  ParamsOf[code] = c
  <1> DEFINE V == Viable(WrapperOf[code].passed)
  <1>1. IsFiniteSet(Constructors)
    <2>1. /\ IsFiniteSet({ScalarScalar}) /\ IsFiniteSet({VectorScalar})
          /\ IsFiniteSet({ScalarVector}) /\ IsFiniteSet({VectorVector})
          /\ IsFiniteSet({TypesVector})
      BY FS_Singleton
    <2>2. /\ IsFiniteSet({ScalarScalar} \cup {VectorScalar})
          /\ IsFiniteSet({ScalarVector} \cup {VectorVector})
      BY <2>1, FS_Union
    <2>3. IsFiniteSet(({ScalarVector} \cup {VectorVector}) \cup {TypesVector})
      BY <2>1, <2>2, FS_Union
    <2>4. IsFiniteSet(({ScalarScalar} \cup {VectorScalar})
                      \cup (({ScalarVector} \cup {VectorVector}) \cup {TypesVector}))
      BY <2>2, <2>3, FS_Union
    <2>5. Constructors = ({ScalarScalar} \cup {VectorScalar})
                         \cup (({ScalarVector} \cup {VectorVector}) \cup {TypesVector})
      BY DEF Constructors
    <2> QED
      BY <2>4, <2>5
  <1>2. V \subseteq Constructors
    BY DEF Viable
  <1>3. IsFiniteSet(V)
    BY <1>1, <1>2, FS_Subset
  <1>4. Cardinality(V) = 1
    BY OverloadAssumption
  <1>5. PICK x : V = {x}
    BY <1>3, <1>4, FS_Singleton
  <1>6. (CHOOSE d \in V : TRUE) \in V
    <2>1. \E d \in V : TRUE
      OBVIOUS
    <2> QED
      BY ONLY <2>1
  <1>7. (CHOOSE d \in V : TRUE) = c
    BY <1>5, <1>6
  <1>8. code \notin P2PCodes /\ code \in OpCode
    BY DEF P2PCodes, CollCodes, OpCode
  <1>9. ParamsOf[code] = CHOOSE d \in V : TRUE
    BY <1>8 DEF ParamsOf
  <1> QED
    BY <1>7, <1>9

\* A point-to-point call uses the constructor of Operation.
LEMMA P2PConstructor ==
  ASSUME NEW code \in P2PCodes
  PROVE  ParamsOf[code] = OperationParams
  BY DEF ParamsOf, OpCode

\* A call of a collective has a viable constructor with which wrapper and issue
\* agree.
LEMMA CollectiveAgrees ==
  ASSUME NEW code \in CollCodes
  PROVE  \E c \in Viable(WrapperOf[code].passed) : Agrees(code, c)
  BY AllgatherAgrees, AllgathervAgrees, AllreduceAgrees, AlltoallAgrees,
     AlltoallvAgrees, AlltoallwAgrees, BarrierAgrees, BcastAgrees, ExscanAgrees,
     GatherAgrees, GathervAgrees, ReduceAgrees, ReducescatterAgrees,
     ReducescatterblockAgrees, ScanAgrees, ScatterAgrees, ScattervAgrees, ZenonT(30)
     DEF CollCodes

\* It is the one the call uses, one of the constructors of CollOperation.
LEMMA CollConstructor ==
  ASSUME NEW code \in CollCodes
  PROVE  ParamsOf[code] \in Constructors /\ Agrees(code, ParamsOf[code])
  <1>1. PICK c \in Viable(WrapperOf[code].passed) : Agrees(code, c)
    BY CollectiveAgrees
  <1>2. ParamsOf[code] = c
    BY <1>1, ConstructorUsed
  <1> QED
    BY <1>1, <1>2 DEF Viable

\* Wrapper, constructor and issue agree for every procedure.
LEMMA AllAgree ==
  ASSUME NEW code \in OpCode
  PROVE  Agrees(code, ParamsOf[code])
  <1>1. CASE code \in P2PCodes
    <2>1. Agrees(code, OperationParams)
      BY <1>1, BsendAgrees, RecvAgrees, RsendAgrees, SendAgrees, SsendAgrees DEF P2PCodes
    <2> QED
      BY <1>1, <2>1, P2PConstructor
  <1>2. CASE code \in CollCodes
    BY <1>2, CollConstructor
  <1> QED
    BY <1>1, <1>2 DEF OpCode

\* No constructor writes a slot twice: its parameters are fields of different
\* unions.
LEMMA SlotsDiffer ==
  ASSUME NEW code \in OpCode,
         NEW i \in DOMAIN ParamsOf[code], NEW j \in DOMAIN ParamsOf[code],
         Slot(ParamsOf[code][i]) = Slot(ParamsOf[code][j])
  PROVE  i = j
  <1> DEFINE Differ(c) == \A k, l \in DOMAIN c : Slot(c[k]) = Slot(c[l]) => k = l
  <1>1. Differ(OperationParams)
    BY DEF OperationParams, Slot, Union
  <1>2. Differ(ScalarScalar)
    BY DEF ScalarScalar, Slot, Union
  <1>3. Differ(VectorScalar)
    BY DEF VectorScalar, Slot, Union
  <1>4. Differ(ScalarVector)
    BY DEF ScalarVector, Slot, Union
  <1>5. Differ(VectorVector)
    BY DEF VectorVector, Slot, Union
  <1>6. Differ(TypesVector)
    BY DEF TypesVector, Slot, Union
  <1>7. Differ(ParamsOf[code])
    <2> HIDE DEF Differ
    <2>1. CASE code \in P2PCodes
      BY <1>1, <2>1, P2PConstructor
    <2>2. CASE code \in CollCodes
      <3>1. ParamsOf[code] \in Constructors
        BY <2>2, CollConstructor
      <3> QED
        BY <3>1, <1>2, <1>3, <1>4, <1>5, <1>6 DEF Constructors
    <2> QED
      BY <2>1, <2>2 DEF OpCode
  <1> QED
    BY <1>7

(***************************************************************************)
(* The objects.                                                            *)
(***************************************************************************)
\* The object with memory m holds the operation code of task t: each slot that
\* its constructor writes has the member written and the task's value.
Holds(m, t, code) ==
  \A i \in DOMAIN ParamsOf[code] :
    m[Slot(ParamsOf[code][i])] =
      [as |-> ParamsOf[code][i], is |-> Value(t, Arguments[code][i])]

\* An object in a pre-queue belongs to the pool of its kind of operation and
\* holds the operation it was built for.
OperationsInv ==
  /\ codes \in {P2PCodes, CollCodes}
  /\ DOMAIN memory = Objects
  /\ \A o \in Objects : DOMAIN memory[o] = SlotsOf(o)
  /\ DOMAIN queued \subseteq Objects
  /\ \A o \in DOMAIN queued :
       /\ queued[o].code \in OpCode
       /\ o \in ObjectsFor(queued[o].code)
       /\ Holds(memory[o], queued[o].task, queued[o].code)

\* Whatever the object held before, it holds the operation once it is built.
LEMMA ConstructedHolds ==
  ASSUME NEW code \in OpCode, NEW t, NEW old,
         NEW o \in ObjectsFor(code), DOMAIN old = SlotsOf(o)
  PROVE  /\ DOMAIN Constructed(old, t, code) = SlotsOf(o)
         /\ Holds(Constructed(old, t, code), t, code)
  <1> DEFINE params == ParamsOf[code]
             new    == Constructed(old, t, code)
  <1>1. DOMAIN new = SlotsOf(o)
    BY DEF Constructed
  <1>2. ASSUME NEW i \in DOMAIN params
        PROVE  Slot(params[i]) \in SlotsOf(o)
    <2>1. CASE code \in P2PCodes
      <3>1. params = OperationParams /\ o \in P2PObjects
        BY <2>1, P2PConstructor DEF ObjectsFor
      <3> QED
        BY <3>1 DEF SlotsOf, P2PSlots
    <2>2. CASE code \in CollCodes
      <3>1. code \notin P2PCodes
        BY <2>2 DEF P2PCodes, CollCodes
      <3>2. params \in Constructors /\ o \notin P2PObjects
        BY <2>2, <3>1, CollConstructor, ObjectsAssumption DEF ObjectsFor
      <3> QED
        BY <3>2 DEF SlotsOf, CollSlots
    <2> QED
      BY <2>1, <2>2 DEF OpCode
  <1>3. ASSUME NEW i \in DOMAIN params
        PROVE  new[Slot(params[i])] = [as |-> params[i], is |-> Value(t, Arguments[code][i])]
    <2> DEFINE k == CHOOSE j \in DOMAIN params : Slot(params[j]) = Slot(params[i])
    <2>1. k \in DOMAIN params /\ Slot(params[k]) = Slot(params[i])
      <3>1. \E j \in DOMAIN params : Slot(params[j]) = Slot(params[i])
        OBVIOUS
      <3> QED
        BY ONLY <3>1
    <2>2. k = i
      BY <2>1, SlotsDiffer
    <2>3. Slot(params[i]) \in DOMAIN old
      BY <1>2
    <2>4. new[Slot(params[i])] = [as |-> params[k], is |-> Value(t, Arguments[code][k])]
      BY <2>3 DEF Constructed
    <2> QED
      BY <2>2, <2>4
  <1> QED
    BY <1>1, <1>3 DEF Holds

\* The pools start out empty.
LEMMA OperationsInit == Init => OperationsInv
  BY DEF Init, OperationsInv

\* process builds the operation in an object that is in no pre-queue, so it
\* changes no operation that waits to be issued.
LEMMA ProcessInv ==
  ASSUME OperationsInv, NEW t, NEW code \in codes, NEW nature,
         process(t, code, nature)
  PROVE  OperationsInv'
  <1>1. code \in OpCode
    BY DEF OperationsInv, OpCode
  <1>2. PICK o \in ObjectsFor(code) \ DOMAIN queued :
          /\ memory' = [memory EXCEPT ![o] = Constructed(memory[o], t, code)]
          /\ queued' = [p \in DOMAIN queued \cup {o} |->
                          IF p = o THEN [task |-> t, code |-> code, nature |-> nature]
                          ELSE queued[p]]
    BY DEF process
  <1>3. o \in Objects
    BY <1>2 DEF ObjectsFor, Objects
  <1>4. DOMAIN memory = Objects /\ DOMAIN memory[o] = SlotsOf(o)
    BY <1>3 DEF OperationsInv
  <1>5. /\ memory'[o] = Constructed(memory[o], t, code)
        /\ \A p \in Objects \ {o} : memory'[p] = memory[p]
        /\ DOMAIN memory' = Objects
    BY <1>2, <1>3, <1>4
  <1>6. /\ DOMAIN queued' = DOMAIN queued \cup {o}
        /\ queued'[o] = [task |-> t, code |-> code, nature |-> nature]
        /\ \A p \in DOMAIN queued : queued'[p] = queued[p]
    BY <1>2
  <1>7. DOMAIN Constructed(memory[o], t, code) = SlotsOf(o)
        /\ Holds(Constructed(memory[o], t, code), t, code)
    BY <1>1, <1>2, <1>4, ConstructedHolds
  <1>8. codes' \in {P2PCodes, CollCodes}
    BY DEF process, modes, OperationsInv
  <1>9. \A p \in Objects : DOMAIN memory'[p] = SlotsOf(p)
    BY <1>5, <1>7 DEF OperationsInv
  <1>10. DOMAIN queued' \subseteq Objects
    BY <1>3, <1>6 DEF OperationsInv
  <1>11. ASSUME NEW p \in DOMAIN queued'
         PROVE  /\ queued'[p].code \in OpCode
                /\ p \in ObjectsFor(queued'[p].code)
                /\ Holds(memory'[p], queued'[p].task, queued'[p].code)
    <2>1. CASE p = o
      <3>1. queued'[p].code = code /\ queued'[p].task = t
        BY <1>6, <2>1
      <3> QED
        BY <1>1, <1>2, <1>5, <1>7, <2>1, <3>1
    <2>2. CASE p \in DOMAIN queued
      <3>1. p \in Objects \ {o}
        BY <1>2, <2>2 DEF OperationsInv
      <3>2. queued'[p] = queued[p] /\ memory'[p] = memory[p]
        BY <1>5, <1>6, <2>2, <3>1
      <3> QED
        BY <2>2, <3>2 DEF OperationsInv
    <2> QED
      BY <1>6, <2>1, <2>2
  <1> QED
    BY <1>5, <1>8, <1>9, <1>10, <1>11 DEF OperationsInv

\* A step that leaves the objects and the program alone preserves the invariant.
LEMMA ObjectsUnchanged ==
  ASSUME OperationsInv, codes' = codes, memory' = memory, queued' = queued
  PROVE  OperationsInv'
  BY DEF OperationsInv

\* Every step preserves the invariant.
LEMMA OperationsNext == OperationsInv /\ [Next]_vars => OperationsInv'
  <1> SUFFICES ASSUME OperationsInv, [Next]_vars
               PROVE  OperationsInv'
    OBVIOUS
  <1>1. ASSUME NEW t \in Tasks, NEW code \in codes, MPI_Call(t, code)
        PROVE  OperationsInv'
    BY <1>1, ProcessInv DEF MPI_Call
  <1>2. ASSUME NEW t \in Tasks, NEW code \in codes, MPI_CallNative(t, code)
        PROVE  OperationsInv'
    BY <1>2, ObjectsUnchanged DEF MPI_CallNative, Fail, vars, modes
  <1>3. ASSUME NEW t \in Tasks, NEW code \in codes, TAMPI_ICall(t, code)
        PROVE  OperationsInv'
    <2>1. CASE nonBlockingMode
      BY <1>3, <2>1, ProcessInv DEF TAMPI_ICall
    <2>2. CASE ~ nonBlockingMode
      BY <1>3, <2>2, ObjectsUnchanged DEF TAMPI_ICall, Fail, modes
    <2> QED
      BY <2>1, <2>2
  <1>4. ASSUME NEW t \in Tasks, MPI_Wait(t) \/ TAMPI_Iwait(t)
        PROVE  OperationsInv'
    BY <1>4, ObjectsUnchanged DEF MPI_Wait, TAMPI_Iwait, Fail, vars, modes
  <1>5. ASSUME NEW o \in DOMAIN queued, Issue(o)
        PROVE  OperationsInv'
    <2>1. /\ queued' = [p \in DOMAIN queued \ {o} |-> queued[p]]
          /\ memory' = memory /\ codes' = codes
      BY <1>5 DEF Issue, modes
    <2> QED
      BY <2>1 DEF OperationsInv
  <1>6. ASSUME NEW tk, Complete(tk)
        PROVE  OperationsInv'
    BY <1>6, ObjectsUnchanged DEF Complete, modes
  <1>7. CASE UNCHANGED vars
    BY <1>7, ObjectsUnchanged DEF vars
  <1> QED
    BY <1>1, <1>2, <1>3, <1>4, <1>5, <1>6, <1>7 DEF Next

(***************************************************************************)
(* What is issued.                                                         *)
(***************************************************************************)
\* The value a field of a built operation is read with is the argument of the
\* parameter of that name: the slot holds the member that is read.
LEMMA ReadBack ==
  ASSUME NEW m, NEW t, NEW code, Holds(m, t, code), NEW j \in DOMAIN ParamsOf[code]
  PROVE  ReadField(m, ParamsOf[code][j]) = Value(t, Arguments[code][j])
  <1>1. m[Slot(ParamsOf[code][j])] =
          [as |-> ParamsOf[code][j], is |-> Value(t, Arguments[code][j])]
    BY DEF Holds
  <1> QED
    BY <1>1 DEF ReadField

\* A parameter is set from the argument passed for it, if one was passed, and
\* from its default value otherwise.
LEMMA ArgumentOf ==
  ASSUME NEW code \in OpCode, NEW j \in DOMAIN ParamsOf[code]
  PROVE  Arguments[code][j] = IF j \in DOMAIN WrapperOf[code].passed
                              THEN WrapperOf[code].passed[j]
                              ELSE Defaults[ParamsOf[code][j]]
  BY DEF Arguments

\* The arguments of the call issued for an operation are those of its task.
LEMMA ArgsAsCalled ==
  ASSUME NEW m, NEW t, NEW code \in OpCode, Holds(m, t, code)
  PROVE  [i \in DOMAIN IssueOf[code][2] |-> ReadField(m, IssueOf[code][2][i])]
           = ExpectedArgs(t, code)
  <1> DEFINE fields == IssueOf[code][2]
             w      == WrapperOf[code]
             params == ParamsOf[code]
  <1>1. PICK at : Fits(w, params, fields, at)
    BY AllAgree DEF Agrees
  <1>2. ASSUME NEW i \in DOMAIN fields
        PROVE  ReadField(m, fields[i]) = Value(t, w.formal[i])
    <2>1. /\ at[i] \in DOMAIN params /\ at[i] \in DOMAIN w.passed
          /\ params[at[i]] = fields[i] /\ w.passed[at[i]] = w.formal[i]
      BY <1>1 DEF Fits
    <2>2. Arguments[code][at[i]] = w.passed[at[i]]
      BY <2>1, ArgumentOf
    <2>3. ReadField(m, params[at[i]]) = Value(t, Arguments[code][at[i]])
      BY <2>1, ReadBack
    <2> QED
      BY <2>1, <2>2, <2>3
  <1>3. DOMAIN fields = 1..(IF w.formal[Len(w.formal)] = "status"
                            THEN Len(w.formal) - 1 ELSE Len(w.formal))
    BY <1>1 DEF Fits
  <1>4. ExpectedArgs(t, code) = [i \in DOMAIN fields |-> Value(t, w.formal[i])]
    BY <1>3 DEF ExpectedArgs
  <1> HIDE DEF fields, w
  <1>5. [i \in DOMAIN fields |-> ReadField(m, fields[i])]
          = [i \in DOMAIN fields |-> Value(t, w.formal[i])]
    BY <1>2
  <1> QED
    BY <1>4, <1>5 DEF fields

\* The status parameter of a point-to-point operation: a receive's own, and the
\* default for a send.
LEMMA StatusAsCalled ==
  ASSUME NEW m, NEW t, NEW code \in P2PCodes, Holds(m, t, code)
  PROVE  ReadField(m, "status") = IF code = "RECV" THEN <<t, "status">>
                                  ELSE <<NoTask, "STATUS_IGNORE">>
  <1>1. code \in OpCode /\ ParamsOf[code] = OperationParams
    BY P2PConstructor DEF OpCode
  <1>2. 7 \in DOMAIN ParamsOf[code] /\ ParamsOf[code][7] = "status"
    BY <1>1 DEF OperationParams
  <1>3. ReadField(m, "status") = Value(t, Arguments[code][7])
    BY <1>2, ReadBack
  <1>4. CASE code = "RECV"
    <2>1. WrapperOf[code] = Recv
      BY <1>4 DEF WrapperOf
    <2>2. 7 \in DOMAIN Recv.passed /\ Recv.passed[7] = "status"
      BY DEF Recv, Wrapper
    <2>3. Arguments[code][7] = "status"
      BY <1>1, <1>2, <2>1, <2>2, ArgumentOf
    <2>4. Value(t, "status") = <<t, "status">>
      BY DEF Value, Literals
    <2> QED
      BY <1>3, <1>4, <2>3, <2>4
  <1>5. CASE code # "RECV"
    <2>1. WrapperOf[code].passed = Envelope("dest")
      <3>1. WrapperOf[code] \in {Send, Bsend, Rsend, Ssend}
        BY <1>5 DEF P2PCodes, WrapperOf
      <3> QED
        BY <3>1 DEF Send, Bsend, Rsend, Ssend, Wrapper
    <2>2. 7 \notin DOMAIN Envelope("dest")
      BY DEF Envelope
    <2>3. Arguments[code][7] = Defaults["status"]
      BY <1>1, <1>2, <2>1, <2>2, ArgumentOf
    <2>4. Value(t, Defaults["status"]) = <<NoTask, "STATUS_IGNORE">>
      BY DEF Value, Literals, Defaults
    <2> QED
      BY <1>3, <1>5, <2>3, <2>4
  <1> QED
    BY <1>4, <1>5

\* The invariant implies the property.
LEMMA OperationsInvImplies == OperationsInv => IssuedAsCalled
  <1> SUFFICES ASSUME OperationsInv, NEW o \in DOMAIN queued
               PROVE  /\ IssuedCall(o).fn = Counterpart[queued[o].code]
                      /\ IssuedCall(o).fn \in Symbols
                      /\ IssuedCall(o).args = ExpectedArgs(queued[o].task, queued[o].code)
                      /\ TicketOf(o).status = IF queued[o].code = "RECV"
                                              THEN <<queued[o].task, "status">>
                                              ELSE <<NoTask, "STATUS_IGNORE">>
    BY DEF IssuedAsCalled
  <1> DEFINE code == queued[o].code
             t    == queued[o].task
  <1>1. code \in OpCode /\ o \in ObjectsFor(code) /\ Holds(memory[o], t, code)
    BY DEF OperationsInv
  <1>2. IssuedCall(o).fn = IssueOf[code][1]
    BY DEF IssuedCall
  <1>3. IssueOf[code][1] = Counterpart[code] /\ Counterpart[code] \in Symbols
    BY <1>1, AllAgree DEF Agrees
  <1>4. IssuedCall(o).args =
          [i \in DOMAIN IssueOf[code][2] |-> ReadField(memory[o], IssueOf[code][2][i])]
    BY DEF IssuedCall
  <1>5. IssuedCall(o).args = ExpectedArgs(t, code)
    BY <1>1, <1>4, ArgsAsCalled
  <1>6. TicketOf(o).status = IF code = "RECV" THEN <<t, "status">>
                             ELSE <<NoTask, "STATUS_IGNORE">>
    <2>1. CASE code \in P2PCodes
      <3>1. TicketOf(o).status = ReadField(memory[o], "status")
        BY <1>1, <2>1 DEF TicketOf, ObjectsFor
      <3> QED
        BY <1>1, <2>1, <3>1, StatusAsCalled
    <2>2. CASE code \notin P2PCodes
      <3>1. o \notin P2PObjects
        BY <1>1, <2>2, ObjectsAssumption DEF ObjectsFor
      <3>2. TicketOf(o).status = <<NoTask, "STATUS_IGNORE">>
        BY <3>1 DEF TicketOf
      <3>3. code # "RECV"
        BY <2>2 DEF P2PCodes
      <3> QED
        BY <3>2, <3>3
    <2> QED
      BY <2>1, <2>2
  <1> QED
    BY <1>2, <1>3, <1>5, <1>6

\* Whatever a recycled object held before, the call issued for a queued
\* operation is the non-blocking counterpart of the procedure its task called,
\* with the task's own arguments in order: the tables of the 22 wrappers, of the
\* constructors process chooses between and of issue agree, for any number of
\* tasks, of objects and of operations in flight.
THEOREM OperationsIssuedAsCalled == Spec => []IssuedAsCalled
  <1>1. Init => OperationsInv
    BY OperationsInit
  <1>2. OperationsInv /\ [Next]_vars => OperationsInv'
    BY OperationsNext
  <1>3. OperationsInv => IssuedAsCalled
    BY OperationsInvImplies
  <1> QED
    BY <1>1, <1>2, <1>3, PTL DEF Spec

=============================================================================
