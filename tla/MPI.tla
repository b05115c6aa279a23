-------------------------------- MODULE MPI ---------------------------------
(***************************************************************************)
(* The MPI library, as far as TAMPI uses it: non-blocking operations are   *)
(* issued, make progress on their own, and are tested.  The library is     *)
(* external.  An operation may need others of this process to have been    *)
(* issued before it can finish (the receive of an answer needs the send of *)
(* its question, a receive from oneself needs the matching send).          *)
(***************************************************************************)
CONSTANTS
  Ops,            \* the communication operations of the program
  Needs,          \* Needs[o]: the operations that must be issued for o to finish
  NullRequests    \* whether issuing may return MPI_REQUEST_NULL

VARIABLE request   \* the state of the request of each operation

RequestState == {"none", "active", "complete", "null"}

MPIType == request \in [Ops -> RequestState]

MPIInit == request = [o \in Ops |-> "none"]

(***************************************************************************)
(* Every operation that o needs has been issued.                           *)
(***************************************************************************)
Matched(o) == \A n \in Needs[o] : request[n] # "none"

(***************************************************************************)
(* The call of the MPI_I* function of an operation.  The library may       *)
(* finish the operation on the spot and return MPI_REQUEST_NULL.           *)
(***************************************************************************)
IssueRequest(o) == request' = [request EXCEPT ![o] = "active"]

IssueNull(o) ==
  /\ NullRequests
  /\ Matched(o)
  /\ request' = [request EXCEPT ![o] = "null"]

(***************************************************************************)
(* MPI finishes an operation: the next test of its request reports it.     *)
(***************************************************************************)
MPIProgress(o) ==
  /\ request[o] = "active"
  /\ Matched(o)
  /\ request' = [request EXCEPT ![o] = "complete"]

(***************************************************************************)
(* Testing releases the requests R that are found complete.                *)
(***************************************************************************)
ReleaseRequests(R) ==
  request' = [o \in Ops |-> IF o \in R THEN "null" ELSE request[o]]

=============================================================================
