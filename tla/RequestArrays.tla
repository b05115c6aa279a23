---------------------------- MODULE RequestArrays ---------------------------
(***************************************************************************)
(* The arrays of TicketManagerInternals and how TicketManager uses them:   *)
(* transferOperations appends the pending requests with their tickets,     *)
(* internalCheckRequests tests them batch by batch and fills the holes     *)
(* that the completed ones leave with requests from the end ("smart        *)
(* replacement").  A request is named by its operation, and a ticket by    *)
(* the operation whose task and status it holds.                           *)
(***************************************************************************)
EXTENDS Integers, Sequences, FiniteSets

CONSTANTS
  Requests,     \* the operations
  NullRequest,  \* MPI_REQUEST_NULL
  Capacity,     \* positions of the arrays
  BatchSize,    \* TicketManager::BatchSize
  Testing       \* TAMPI_REQUESTS_TESTING

ASSUME ArraysAssumption ==
  /\ NullRequest \notin Requests
  /\ Capacity \in Nat
  /\ BatchSize \in Nat \ {0}
  /\ Testing \in {"testsome", "testany", "test"}

VARIABLES
  requests,     \* _requests
  tickets,      \* _tickets
  mappings,     \* _mappings: the position in _tickets a request points to
  pending,      \* _pending
  complete,     \* the operations MPI has completed
  delivered,    \* the operations whose ticket was completed
  pc,           \* "idle", or the loop of internalCheckRequests under way
  checked,      \* the locals of internalCheckRequests
  indices,
  c,
  replacement,
  reverse

vars == <<requests, tickets, mappings, pending, complete, delivered,
          pc, checked, indices, c, replacement, reverse>>
arrayVars == <<requests, tickets, mappings>>
loopVars == <<c, replacement, reverse>>

Positions == 0..(Capacity - 1)
Slot == Requests \cup {NullRequest}
Index(k) == indices[k + 1]

TypeOK ==
  /\ requests \in [Positions -> Slot]
  /\ tickets \in [Positions -> Slot]
  /\ mappings \in [Positions -> Positions]
  /\ pending \in 0..Capacity
  /\ complete \subseteq Requests
  /\ delivered \subseteq Requests
  /\ pc \in {"idle", "test", "replace"}
  /\ checked \in 0..Capacity
  /\ indices \in Seq(Positions)
  /\ c \in Nat
  /\ replacement \in Int
  /\ reverse \in Int

Init ==
  /\ requests = [p \in Positions |-> NullRequest]
  /\ tickets = [p \in Positions |-> NullRequest]
  /\ mappings = [p \in Positions |-> p]
  /\ pending = 0
  /\ complete = {} /\ delivered = {}
  /\ pc = "idle" /\ checked = 0 /\ indices = <<>>
  /\ c = 0 /\ replacement = 0 /\ reverse = 0

(***************************************************************************)
(* The positions whose request is in flight: while holes are being filled, *)
(* what lies behind replacement was moved or is complete.                  *)
(***************************************************************************)
Top == IF pc = "replace" THEN replacement ELSE pending - 1

Live == {p \in 0..Top : requests[p] # NullRequest}

Inflight == {requests[p] : p \in Live}

-----------------------------------------------------------------------------
HasRoom == pending < Capacity

(***************************************************************************)
(* The end of transferOperations: allocateTicket and associateRequest at   *)
(* position _pending.                                                      *)
(***************************************************************************)
AssociateRequest(r) ==
  /\ pc = "idle"
  /\ HasRoom
  /\ r \notin Inflight \cup delivered
  /\ tickets' = [tickets EXCEPT ![pending] = r]
  /\ requests' = [requests EXCEPT ![pending] = r]
  /\ mappings' = [mappings EXCEPT ![pending] = pending]
  /\ pending' = pending + 1
  /\ UNCHANGED <<complete, delivered, pc, checked, indices, loopVars>>

Complete(r) ==
  /\ r \in Inflight \ complete
  /\ complete' = complete \cup {r}
  /\ UNCHANGED <<arrayVars, pending, delivered, pc, checked, indices, loopVars>>

CheckRequests ==
  /\ pc = "idle" /\ pending > 0
  /\ pc' = "test"
  /\ checked' = 0
  /\ indices' = <<>>
  /\ UNCHANGED <<arrayVars, pending, complete, delivered, loopVars>>

(***************************************************************************)
(* The positions internalTestRequests may report of those in B: all that   *)
(* are complete, or, with MPI_Testany, those MPI picks.                    *)
(***************************************************************************)
Reported(B) ==
  LET all == {p \in B : requests[p] \in complete}
  IN  IF Testing = "testany" THEN {R \in SUBSET all : all # {} => R # {}} ELSE {all}

Ascending(s) == \A i, j \in 1..Len(s) : i < j => s[i] < s[j]

(***************************************************************************)
(* MPI reports the positions in ascending order.                           *)
(***************************************************************************)
Lists(s, R) == Ascending(s) /\ \A p \in R : \E i \in 1..Len(s) : s[i] = p

Lesser(a, b) == IF a <= b THEN a ELSE b

Batch == checked..(checked + Lesser(pending - checked, BatchSize) - 1)

(***************************************************************************)
(* The ticket through which a reported position is completed.              *)
(***************************************************************************)
AssociatedTicket(p) == tickets[mappings[p]]

LastHoleBeyond(s) == Len(s)   \* mutant

LastHole(s) == Len(s) - 1

(***************************************************************************)
(* One iteration of the do-while loop: MPI sets the reported requests to   *)
(* null, and their tickets are completed.  After the last batch the        *)
(* replacement starts from both ends.                                      *)
(***************************************************************************)
TestBatch ==
  /\ pc = "test"
  /\ checked' = checked + Lesser(pending - checked, BatchSize)
  /\ \E R \in Reported(Batch) : \E s \in [1..Cardinality(R) -> R] :
       /\ Lists(s, R)
       /\ indices' = indices \o s
       /\ requests' = [p \in Positions |-> IF p \in R THEN NullRequest ELSE requests[p]]
       /\ delivered' = delivered \cup {AssociatedTicket(p) : p \in R}
  /\ IF checked' < pending
       THEN UNCHANGED <<pc, loopVars>>
       ELSE /\ pc' = "replace"
            /\ c' = 0
            /\ replacement' = pending - 1
            /\ reverse' = LastHole(indices')
  /\ UNCHANGED <<tickets, mappings, pending, complete>>

-----------------------------------------------------------------------------
(***************************************************************************)
(* The smart replacement: a for loop over the holes (c), and inside it a   *)
(* while loop that skips the holes at the end (reverse).                   *)
(***************************************************************************)
Replacing == pc = "replace" /\ c < Len(indices)

IsHoleNever == FALSE   \* mutant

IsHole == replacement = Index(reverse)

SkipHole ==
  /\ Replacing
  /\ replacement > Index(c) /\ IsHole
  /\ replacement' = replacement - 1
  /\ reverse' = reverse - 1
  /\ UNCHANGED <<arrayVars, pending, complete, delivered, pc, checked, indices, c>>

(***************************************************************************)
(* moveRequest copies the request, and the ticket when it has the same     *)
(* position.                                                               *)
(***************************************************************************)
MoveTicketNever(source, destination) ==   \* mutant
  /\ mappings' = [mappings EXCEPT ![destination] = destination]
  /\ UNCHANGED tickets

MoveTicket(source, destination) ==
  IF mappings[source] = source
    THEN /\ tickets' = [tickets EXCEPT ![destination] = tickets[source]]
         /\ mappings' = [mappings EXCEPT ![destination] = destination]
    ELSE /\ mappings' = [mappings EXCEPT ![destination] = mappings[source]]
         /\ UNCHANGED tickets

MoveRequest(source, destination) ==
  /\ requests' = [requests EXCEPT ![destination] = requests[source]]
  /\ MoveTicket(source, destination)

FillHole ==
  /\ Replacing
  /\ replacement > Index(c) /\ ~IsHole
  /\ MoveRequest(replacement, Index(c))
  /\ replacement' = replacement - 1
  /\ c' = c + 1
  /\ UNCHANGED <<pending, complete, delivered, pc, checked, indices, reverse>>

LeaveHole ==
  /\ Replacing
  /\ replacement <= Index(c)
  /\ c' = c + 1
  /\ UNCHANGED <<arrayVars, pending, complete, delivered, pc, checked, indices, replacement, reverse>>

CheckEnd ==
  /\ pc = "replace" /\ c = Len(indices)
  /\ pending' = pending - Len(indices)
  /\ pc' = "idle"
  /\ checked' = 0 /\ indices' = <<>>
  /\ c' = 0 /\ replacement' = 0 /\ reverse' = 0
  /\ UNCHANGED <<arrayVars, complete, delivered>>

Next ==
  \/ \E r \in Requests : AssociateRequest(r) \/ Complete(r)
  \/ CheckRequests \/ TestBatch
  \/ SkipHole \/ FillHole \/ LeaveHole
  \/ CheckEnd

Spec == Init /\ [][Next]_vars

-----------------------------------------------------------------------------
(***************************************************************************)
(* Between two passes positions 0 .. _pending-1 hold no null request and   *)
(* no request twice: a hole would make MPI_Testsome report that all        *)
(* requests are inactive, which the code takes for a fatal error, and a    *)
(* copy would complete a task twice.                                       *)
(***************************************************************************)
ArraysCompact ==
  pc = "idle" =>
    /\ \A p \in 0..(pending - 1) : requests[p] # NullRequest
    /\ \A p, q \in 0..(pending - 1) : requests[p] = requests[q] => p = q

(***************************************************************************)
(* The ticket a request in flight leads to is its own, wherever the        *)
(* request was moved: the status and the completion reach the right task.  *)
(***************************************************************************)
TicketFollowsRequest == \A p \in Live : AssociatedTicket(p) = requests[p]

(***************************************************************************)
(* The replacement reads indices within its bounds, and never moves a      *)
(* request onto itself (the assertion in moveRequest).                     *)
(***************************************************************************)
ReplacementInBounds ==
  Replacing /\ replacement > Index(c) => reverse \in c..(Len(indices) - 1)

(***************************************************************************)
(* Every request enters once and leaves once, when MPI has completed it,   *)
(* and moving requests around loses none: the arrays implement the set     *)
(* that module TicketManager works with.                                   *)
(***************************************************************************)
AsSet == INSTANCE RequestSet WITH inflight <- Inflight

ImplementsSet == AsSet!SetSpec
=============================================================================
