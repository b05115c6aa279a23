-------------------------- MODULE TicketManagerInv --------------------------
(***************************************************************************)
(* The inductive invariant.  The request state of an operation tells the   *)
(* places where it can be: not issued in the pre-queues and tmp, pending   *)
(* in reqs and the arrays, released in done and the completion queue.      *)
(***************************************************************************)
EXTENDS TicketManager

Distinct(s) == \A i, j \in 1..Len(s) : s[i] = s[j] => i = j

(***************************************************************************)
(* The operation is with the polling task: its caller pushed it.           *)
(***************************************************************************)
Pushed(t, i) == i < next[t] /\ (i = next[t] - 1 => call[t] # "ready")

(***************************************************************************)
(* Where the polling task's local arrays are in use.                       *)
(***************************************************************************)
LocalsInUse ==
  /\ tmp # <<>> => ppc \in {"pop", "issue"} /\ stage # "check"
  /\ ppc = "issue" => tmp # <<>>
  /\ reqs # {} => ppc \in {"issue", "itest", "deliver"} /\ stage # "check"
  /\ done # {} => ppc \in {"issue", "itest", "deliver"}
  /\ stage = "check" => ppc \in {"batch", "deliver"}
  /\ ppc = "batch" => stage = "check"
  /\ stage # "check" => finished = {} /\ unchecked = {}
  /\ batch # {} => ppc \in {"pop", "issue", "itest", "deliver"} /\ stage # "check"
  /\ Elements(tmp) \cup reqs \subseteq batch
  /\ room > 0 => ppc \in {"pop", "issue", "itest", "deliver"} /\ stage # "check"
  /\ ppc = "pop" => batch = Elements(tmp) /\ Len(tmp) <= room
  /\ csnap <= Len(cqueue)

NoDuplicates ==
  /\ \A q \in Queues : Distinct(queue[q])
  /\ Distinct(tmp)
  /\ Distinct(cqueue)
  /\ \A q, r \in Queues : q # r => Elements(queue[q]) \cap Elements(queue[r]) = {}
  /\ \A q \in Queues : Elements(queue[q]) \cap Elements(tmp) = {}
  /\ reqs \cap inflight = {}
  /\ finished \subseteq inflight
  /\ unchecked \subseteq inflight \ finished
  /\ done \cap Elements(cqueue) = {}

Waiting(o) == (\E q \in Queues : o \in Elements(queue[q])) \/ o \in Elements(tmp)

WhereIs(t, i) ==
  LET o == Program[t][i]
  IN  /\ Waiting(o) <=> Pushed(t, i) /\ request[o] = "none"
      /\ o \in reqs \cup (inflight \ finished) <=> request[o] \in {"active", "complete"}
      /\ o \in done \cup Elements(cqueue) <=> request[o] = "null" /\ o \notin notified
      /\ o \in finished \cup notified => request[o] = "null"
      /\ request[o] # "none" => Pushed(t, i)
      /\ ~NullRequests /\ request[o] = "null" /\ o \in WithStatus => o \in stored

WhereOperationsAre ==
  \A t \in Tasks : \A i \in 1..Len(Program[t]) : WhereIs(t, i)

(***************************************************************************)
(* How the blocking mode's handshake stands for each task.                 *)
(***************************************************************************)
HandshakeOf(t) ==
  /\ task[t] \in {"finished", "completed"} => next[t] = Len(Program[t]) + 1
  /\ task[t] # "running" => call[t] = "user"
  /\ next[t] = 1 => call[t] = "user" /\ task[t] # "blocked"
  /\ token[t] => call[t] = "wait"
  /\ call[t] = "wait" \/ task[t] = "blocked" => Current(t) \in Blocking
  /\ call[t] = "wait" => (token[t] <=> Current(t) \in notified)
  /\ task[t] = "blocked" => Current(t) \notin notified
  /\ \A i \in 1..Len(Program[t]) :
       Program[t][i] \in Blocking /\ Past(t, i) => Program[t][i] \in notified
  /\ task[t] = "completed" => events[t] = 0

Handshake == \A t \in Tasks : HandshakeOf(t)

RoomLeft ==
  Cardinality(inflight \cup batch) + room <= capacity + (IF ppc = "pop" THEN Len(tmp) ELSE 0)

IInv ==
  /\ TypeOK
  /\ LocalsInUse
  /\ NoDuplicates
  /\ WhereOperationsAre
  /\ Handshake
  /\ EventsMatch
  /\ RoomLeft

=============================================================================
