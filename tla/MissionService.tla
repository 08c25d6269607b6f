--------------------------- MODULE MissionService ---------------------------
(***************************************************************************)
(* What the command server of the vehicle promises the ESP gateway, without *)
(* threads, sockets or queues.  A cleaning order is accepted only when      *)
(* nothing is owed for the previous one; its final report is handed to the  *)
(* network exactly once, either directly at the end of the mission or later *)
(* from the single "pending report" slot.                                   *)
(***************************************************************************)
EXTENDS Naturals

CONSTANT MaxMissions    \* bound on the orders accepted in one behaviour

VARIABLES
  phase,      \* "idle", "working" on the last order, or "owing" its report
  orders,     \* number of orders accepted so far
  answered    \* for each order, how often its final report was sent

Orders == 1 .. MaxMissions

vars == <<phase, orders, answered>>

Init ==
  /\ phase = "idle"
  /\ orders = 0
  /\ answered = [o \in Orders |-> 0]

\* A fault command is accepted.
Accept ==
  /\ phase = "idle"
  /\ orders < MaxMissions
  /\ phase' = "working"
  /\ orders' = orders + 1
  /\ UNCHANGED answered

\* The mission ends and its report leaves at once.
Answer ==
  /\ phase = "working"
  /\ phase' = "idle"
  /\ answered' = [answered EXCEPT ![orders] = @ + 1]
  /\ UNCHANGED orders

\* The mission ends but the report cannot be sent now: it is kept.
Keep ==
  /\ phase = "working"
  /\ phase' = "owing"
  /\ UNCHANGED <<orders, answered>>

\* The kept report leaves.
Settle ==
  /\ phase = "owing"
  /\ phase' = "idle"
  /\ answered' = [answered EXCEPT ![orders] = @ + 1]
  /\ UNCHANGED orders

Next == Accept \/ Answer \/ Keep \/ Settle

Spec == Init /\ [][Next]_vars
=============================================================================
