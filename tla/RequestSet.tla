----------------------------- MODULE RequestSet -----------------------------
(***************************************************************************)
(* What module TicketManager takes the arrays of requests in flight for: a *)
(* set that operations enter, and leave once MPI has completed them.       *)
(***************************************************************************)
CONSTANT Requests

VARIABLES inflight, complete, delivered

setVars == <<inflight, complete, delivered>>

SetInit == inflight = {} /\ complete = {} /\ delivered = {}

Enter(r) ==
  /\ r \notin inflight \cup delivered
  /\ inflight' = inflight \cup {r}
  /\ UNCHANGED <<complete, delivered>>

MPICompletes(r) ==
  /\ r \in inflight \ complete
  /\ complete' = complete \cup {r}
  /\ UNCHANGED <<inflight, delivered>>

Leave(R) ==
  /\ R \subseteq inflight \cap complete
  /\ inflight' = inflight \ R
  /\ delivered' = delivered \cup R
  /\ UNCHANGED complete

SetNext ==
  \/ \E r \in Requests : Enter(r) \/ MPICompletes(r)
  \/ \E R \in SUBSET Requests : Leave(R)

SetSpec == SetInit /\ [][SetNext]_setVars
=============================================================================
