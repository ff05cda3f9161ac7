----------------------------- MODULE OrderTable -----------------------------
(***************************************************************************)
(* The order-status vocabulary and its transition table, translated from   *)
(* services/orders.go.  Everything that moves an order consults this table *)
(* with a status it read earlier and then compare-and-sets the row.        *)
(***************************************************************************)

OrderStates == {"pending_payment", "payment_failed", "paid", "in_progress",
                "delivered", "revision_requested", "accepted", "disputed",
                "cancel_requested", "cancelled", "payout_pending", "paid_out",
                "closed"}

\* The map orderTransitions: for each status, the statuses it may move to.
orderTransitions ==
  [pending_payment    |-> {"paid", "payment_failed"},
   payment_failed     |-> {"pending_payment"},
   paid               |-> {"in_progress"},
   in_progress        |-> {"delivered", "cancel_requested", "disputed"},
   delivered          |-> {"revision_requested", "accepted", "disputed"},
   revision_requested |-> {"delivered", "disputed"},
   accepted           |-> {"closed", "disputed"},
   cancel_requested   |-> {"cancelled", "in_progress"},
   disputed           |-> {"in_progress", "closed", "cancelled"},
   cancelled          |-> {},
   closed             |-> {},
   payout_pending     |-> {"paid_out"},
   paid_out           |-> {}]

CanTransitionOrder(from, to) == to \in orderTransitions[from]

=============================================================================
