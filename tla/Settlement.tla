----------------------------- MODULE Settlement -----------------------------
(***************************************************************************)
(* The money of one order after its payment succeeded: the capture is      *)
(* posted, acceptances release the seller's earnings, and admins refund    *)
(* the buyer and adjust accounts (handlers/payments.go adminOrderRefund,   *)
(* handlers/orders.go and orders.go releaseSellerEarnings, handlers/       *)
(* admin.go adminLedgerAdjust, ledger/ledger.go).  Each is a sequence of   *)
(* database and provider calls that may stop after any of them.            *)
(***************************************************************************)
EXTENDS Ledger

CONSTANTS
  Refunds,       \* submissions of the admin's refund form
  Acceptances,   \* acceptances of the order, by its buyer or the sweep
  Gross, Fee,    \* orders.total_minor_units and platform_fee_minor_units
  Keyed,         \* the provider honours idempotency keys: Stripe, not BTCPay or EVM
  MaxAmount, MaxAdjustments  \* bounds of the manual adjustments

\* handlers/checkout.go: a total is positive and the fee a share of it.
ASSUME AmountsAssumption == Gross \in Nat \ {0} /\ Fee \in 0..Gross
ASSUME KeyedAssumption == Keyed \in BOOLEAN
ASSUME BoundAssumption == MaxAmount \in Nat /\ MaxAdjustments \in Nat

VARIABLES
  captured,    \* the capture is posted: only then the order can start
  accepted,    \* orders.status is accepted
  acceptedAt,  \* orders.accepted_at is set; nothing clears it
  release,     \* each acceptance: what it still has to do
  req,         \* each refund request: its next call and what it has read
  refund,      \* refunds.status of the row each request created
  key,         \* the answer the provider keeps for the idempotency key
  provider,    \* the refund made at the provider by each request's call
  posted,      \* the requests that posted RefundIssued
  ledger,      \* the order's balances: currency as spelt, kind
  adjusted,    \* what manual adjustments moved
  adjustments  \* how many there were

orderVars == <<captured, accepted, acceptedAt, release>>
refundVars == <<req, refund, key, provider, posted>>
adminVars == <<adjusted, adjustments>>
vars == <<captured, accepted, acceptedAt, release, req, refund, key, provider,
          posted, ledger, adjusted, adjustments>>

Payable == Gross - Fee

\* A capture is posted in the order's currency as it is stored, everything else
\* in its lower-case form.
Currencies == {"USD", "usd"}
Answers == {"succeeded", "processing", "failed"}

TypeOK ==
  /\ captured \in BOOLEAN /\ accepted \in BOOLEAN /\ acceptedAt \in BOOLEAN
  /\ release \in [Acceptances -> {"idle", "release", "ended"}]
  /\ req \in [Refunds -> [pc : {"idle", "check", "call", "create", "set", "post", "ended"},
                          available : BOOLEAN, answer : Answers]]
  /\ refund \in [Refunds -> {"none", "pending", "succeeded", "failed"}]
  /\ key \in Answers \cup {"none"}
  /\ provider \in [Refunds -> Answers \cup {"none"}]
  /\ posted \subseteq Refunds
  /\ ledger \in [Currencies -> [Kinds -> Int]]
  /\ adjusted \in [Kinds -> Int] /\ adjustments \in 0..MaxAdjustments

Init ==
  /\ captured = FALSE /\ accepted = FALSE /\ acceptedAt = FALSE
  /\ release = [a \in Acceptances |-> "idle"]
  /\ req = [r \in Refunds |-> [pc |-> "idle", available |-> FALSE, answer |-> "processing"]]
  /\ refund = [r \in Refunds |-> "none"]
  /\ key = "none" /\ provider = [r \in Refunds |-> "none"]
  /\ posted = {}
  /\ ledger = [c \in Currencies |-> Nothing]
  /\ adjusted = Nothing /\ adjustments = 0

\* PostLedgerEntries validates once more, then writes all entries or none.
PostLedgerEntries(currency, p) ==
  /\ Validate(p)
  /\ ledger' = [ledger EXCEPT ![currency] = Apply(@, p)]

-----------------------------------------------------------------------------
(* Capture and release.                                                      *)

PostCapture ==
  /\ ~captured /\ captured' = TRUE
  /\ PostLedgerEntries("USD", PaymentCaptured(Gross, Fee))
  /\ UNCHANGED <<accepted, acceptedAt, release, refundVars, adminVars>>

Accept(a) ==
  /\ captured /\ ~accepted
  /\ release[a] = "idle"
  /\ accepted' = TRUE /\ acceptedAt' = TRUE
  /\ release' = [release EXCEPT ![a] = "release"]
  /\ UNCHANGED <<captured, refundVars, ledger, adminVars>>

\* A dispute about the accepted order sends it back to in_progress.
Reopen ==
  /\ accepted /\ accepted' = FALSE
  /\ UNCHANGED <<captured, acceptedAt, release, refundVars, ledger, adminVars>>

\* A failed posting is only logged.
releaseSellerEarnings(a) ==
  /\ release[a] = "release"
  /\ release' = [release EXCEPT ![a] = "ended"]
  /\ \/ Payable > 0 /\ PostLedgerEntries("usd", EarningsReleased(Payable))
     \/ UNCHANGED ledger
  /\ UNCHANGED <<captured, accepted, acceptedAt, refundVars, adminVars>>

-----------------------------------------------------------------------------
(* adminOrderRefund.                                                         *)

Goto(r, pc) == req' = [req EXCEPT ![r].pc = pc]

GetOrder(r) ==
  /\ req[r].pc = "idle"
  /\ req' = [req EXCEPT ![r].pc = "check", ![r].available = acceptedAt]
  /\ UNCHANGED <<orderVars, refund, key, provider, posted, ledger, adminVars>>

HasRefund == \E q \in Refunds : refund[q] \in {"pending", "succeeded"}

GetRefundForOrder(r) ==
  /\ req[r].pc = "check"
  /\ Goto(r, IF HasRefund THEN "ended" ELSE "call")
  /\ UNCHANGED <<orderVars, refund, key, provider, posted, ledger, adminVars>>

\* The key is derived from the order alone: a second call is answered like the
\* first and moves nothing.
Replayed_freshKeys == FALSE
Replayed == Keyed /\ key # "none"

\* BTCPay creates a pull payment that is still to be claimed, EVM refunds are sent
\* by hand.
FirstAnswers == IF Keyed THEN Answers ELSE {"processing"}

ProviderRefund(r) ==
  /\ req[r].pc = "call"
  /\ \/ /\ Replayed
        /\ req' = [req EXCEPT ![r].pc = "create", ![r].answer = key]
        /\ UNCHANGED <<key, provider>>
     \/ /\ ~Replayed
        /\ \E answer \in FirstAnswers :
             /\ req' = [req EXCEPT ![r].pc = "create", ![r].answer = answer]
             /\ key' = answer /\ provider' = [provider EXCEPT ![r] = answer]
  /\ UNCHANGED <<orderVars, refund, posted, ledger, adminVars>>

\* idx_refunds_order_not_failed
Unique_unindexed == TRUE
Unique == ~HasRefund

CreateRefund(r) ==
  /\ req[r].pc = "create"
  /\ IF Unique
     THEN refund' = [refund EXCEPT ![r] = "pending"] /\ Goto(r, "set")
     ELSE Goto(r, "ended") /\ UNCHANGED refund
  /\ UNCHANGED <<orderVars, key, provider, posted, ledger, adminVars>>

Recorded_optimistic(answer) == "succeeded"
Recorded(answer) == answer

\* refunds_status_check knows no "processing".
RefundStatuses_unconstrained == Answers \cup {"pending"}
RefundStatuses == {"pending", "succeeded", "failed"}

\* An update the constraint refuses ends the request.
SetRefundStatus(r) ==
  /\ req[r].pc = "set"
  /\ IF Recorded(req[r].answer) \in RefundStatuses
     THEN /\ refund' = [refund EXCEPT ![r] = Recorded(req[r].answer)]
          /\ Goto(r, IF Recorded(req[r].answer) = "succeeded" THEN "post" ELSE "ended")
     ELSE Goto(r, "ended") /\ UNCHANGED refund
  /\ UNCHANGED <<orderVars, key, provider, posted, ledger, adminVars>>

PostRefund(r) ==
  /\ req[r].pc = "post"
  /\ PostLedgerEntries("usd", RefundIssued(Gross, Fee, req[r].available))
  /\ posted' = posted \cup {r}
  /\ Goto(r, "ended")
  /\ UNCHANGED <<orderVars, refund, key, provider, adminVars>>

\* Any call fails, or its answer is lost with the request.
Abort(r) ==
  /\ req[r].pc \notin {"idle", "ended"}
  /\ Goto(r, "ended")
  /\ UNCHANGED <<orderVars, refund, key, provider, posted, ledger, adminVars>>

\* A refund under way settles at the provider; nothing here is told.
ProviderSettles(r) ==
  /\ provider[r] = "processing"
  /\ \E outcome \in {"succeeded", "failed"} : provider' = [provider EXCEPT ![r] = outcome]
  /\ UNCHANGED <<orderVars, req, refund, key, posted, ledger, adminVars>>

-----------------------------------------------------------------------------

adminLedgerAdjust(from, to, amount) ==
  /\ PostLedgerEntries("usd", ManualAdjustment(from, to, amount))
  /\ adjusted' = Apply(adjusted, ManualAdjustment(from, to, amount))
  /\ adjustments < MaxAdjustments /\ adjustments' = adjustments + 1
  /\ UNCHANGED <<orderVars, refundVars>>

adminOrderRefund(r) ==
  \/ GetOrder(r) \/ GetRefundForOrder(r) \/ ProviderRefund(r) \/ CreateRefund(r)
  \/ SetRefundStatus(r) \/ PostRefund(r) \/ Abort(r)

Next ==
  \/ PostCapture \/ Reopen
  \/ \E a \in Acceptances : Accept(a) \/ releaseSellerEarnings(a)
  \/ \E r \in Refunds : adminOrderRefund(r) \/ ProviderSettles(r)
  \/ \E from, to \in Kinds, amount \in 1..MaxAmount : adminLedgerAdjust(from, to, amount)

Spec == Init /\ [][Next]_vars

-----------------------------------------------------------------------------
(* Properties.                                                               *)

\* Double entry (ledger.go:136-139): whatever was posted, in each currency all
\* accounts together stand at zero.
LedgerBalances == \A c \in Currencies : Total(ledger[c]) = 0

Balance(k) == ledger["USD"][k] + ledger["usd"][k]
Captured(amount) == IF captured THEN amount ELSE 0
Refunded(amount) == IF posted # {} THEN amount ELSE 0

\* The cross-account identity of docs/runbooks/reconciliation.md, account by
\* account: over both spellings of the currency, the platform, the seller and the
\* clearing account hold what was captured less what was refunded, each its
\* share, and the refunds account passes everything on.
AccountsExplained ==
  /\ Balance("platform_revenue") = Captured(Fee) - Refunded(Fee) + adjusted["platform_revenue"]
  /\ Balance("seller_pending") + Balance("seller_available")
       = Captured(Payable) - Refunded(Payable)
           + adjusted["seller_pending"] + adjusted["seller_available"]
  /\ Balance("provider_clearing") = Refunded(Gross) - Captured(Gross) + adjusted["provider_clearing"]
  /\ Balance("refunds") = adjusted["refunds"]

\* migrations/0011: a form submitted twice does not post twice, and what is
\* posted is a refund whose row says so.
RefundPostedOnce ==
  /\ \A q, r \in posted : q = r
  /\ \A r \in posted : refund[r] = "succeeded"

\* No refund is recorded as paid that the provider did not pay.
RefundWasPaid ==
  \A r \in Refunds : refund[r] = "succeeded" =>
    \E q \in Refunds : provider[q] = "succeeded"

\* services/payments.go:41-46, refund.md: the derived key makes the provider
\* pay the buyer once, however many submissions reach it and whatever answers
\* are lost.
BuyerRefundedOnce ==
  Keyed => \A q, r \in Refunds :
             provider[q] \in {"processing", "succeeded"} /\ provider[r] \in {"processing", "succeeded"}
               => q = r

=============================================================================
