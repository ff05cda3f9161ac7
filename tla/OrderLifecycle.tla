--------------------------- MODULE OrderLifecycle ---------------------------
(***************************************************************************)
(* What the rest of the system may assume of an order's status: it starts  *)
(* in one of the entry states and every change is one entry of the         *)
(* transition table.  The modules that move orders with concurrent,        *)
(* multi-step handlers are shown to implement this machine.                *)
(***************************************************************************)
EXTENDS OrderTable

CONSTANT Entry   \* the statuses an order may be created (or handed over) in

VARIABLE status

TypeOK == status \in OrderStates

Init == status \in Entry

Next == \E to \in orderTransitions[status] : status' = to

Spec == Init /\ [][Next]_status

(***************************************************************************)
(* services/orders.go:3-5 says payout_pending and paid_out are "not        *)
(* reachable yet": no order that enters elsewhere is ever in either state. *)
(***************************************************************************)
PayoutStatesUnreachable == status \notin {"payout_pending", "paid_out"}

=============================================================================
