--------------------------- MODULE MCTicketManager --------------------------
(***************************************************************************)
(* Small programs for TicketManager.                                       *)
(***************************************************************************)
EXTENDS TicketManagerInv

CONSTANTS t1, t2, s1, r1, r2, c1, q1, q2, coll

MCTasks == {t1, t2}
MCCPUs == {q1, q2}
MCFailure == [q \in {q1, q2, coll} |-> q # coll]
MCSpin == [q \in {q1, q2, coll} |-> FALSE]

(***************************************************************************)
(* Task t1 sends, then receives an answer, in the blocking mode; t2 posts  *)
(* a receive and enters a collective, both non-blocking.  The answer needs *)
(* the question, and t2's receive needs t1's send.                         *)
(***************************************************************************)
MCOps == {s1, r1, r2, c1}
MCProgram == [t \in MCTasks |-> IF t = t1 THEN <<s1, r1>> ELSE <<r2, c1>>]
MCBlocking == {s1, r1}
MCCollective == {c1}
MCWithStatus == {r1, r2}
MCNeeds == [o \in MCOps |-> IF o \in {r1, r2} THEN {s1} ELSE {}]

(***************************************************************************)
(* Three operations: t1 receives in the blocking mode what t2 sends, t2    *)
(* enters a collective afterwards.                                         *)
(***************************************************************************)
SmallOps == {s1, r1, c1}
SmallProgram == [t \in MCTasks |-> IF t = t1 THEN <<r1>> ELSE <<s1, c1>>]
SmallBlocking == {r1}
SmallWithStatus == {r1}
SmallNeeds == [o \in SmallOps |-> IF o = r1 THEN {s1, c1} ELSE {}]
=============================================================================
