--------------------------- MODULE OrderWorkflow ----------------------------
(***************************************************************************)
(* One captured order worked on by concurrent HTTP handlers                *)
(* (handlers/orders.go) and by the worker's auto-accept sweep (orders.go). *)
(*                                                                         *)
(* A handler reads the order row, decides from that snapshot, writes its   *)
(* own rows (delivery, revision, cancellation, dispute, review) and only   *)
(* then compare-and-sets orders.status.  Each of these is a separate       *)
(* database call, so other handlers run in between, and a handler may stop *)
(* after any of them (an error, a cancelled request context, a crash).     *)
(*                                                                         *)
(* rowLock is the FOR UPDATE lock on the orders row.  Statements that      *)
(* update that row, and inserts whose foreign key share-locks it, wait for *)
(* it.                                                                     *)
(*                                                                         *)
(* A definition X_fault just before X is X with a plausible bug in it.  No *)
(* action uses it; it is put in X's place to see a property fail.          *)
(***************************************************************************)
EXTENDS Naturals, Sequences, OrderTable

CONSTANTS
  Buyer, Seller, Admin,  \* the three users; an admin is a party to no order here
  Requests,              \* HTTP handlers in flight
  Sweepers,              \* worker goroutines that run the auto-accept sweep
  RevisionsAllowed,      \* orders.revisions_allowed
  PaymentCaptured,       \* the order's latest payment intent succeeded
  MaxDeliveries, MaxCancellations, MaxDisputes,   \* bounds on rows
  None

ASSUME UsersAssumption == /\ Buyer # Seller /\ Buyer # Admin /\ Seller # Admin
                          /\ None \notin Requests
ASSUME BoundsAssumption == /\ RevisionsAllowed \in Nat /\ PaymentCaptured \in BOOLEAN
                           /\ MaxDeliveries \in Nat /\ MaxCancellations \in Nat
                           /\ MaxDisputes \in Nat

VARIABLES
  status,         \* orders.status
  revisionsUsed,  \* orders.revisions_used
  accepted,       \* orders.accepted_at is set
  overdue,        \* orders.delivered_at is older than AUTO_ACCEPT_AFTER
  deliveries,     \* deliveries.version, in insertion order
  revisions,      \* number of revision_requests rows
  cancellations,  \* cancellation_requests rows: who asked, row status
  disputes,       \* disputes rows: row status
  reviewed,       \* a reviews row exists
  releases,       \* EarningsReleased postings made for this order
  rowLock,        \* the request holding the row lock, or None
  req,            \* what each handler has read and is about to do
  sweep           \* what each sweeper is about to do

rows == <<revisionsUsed, accepted, overdue, deliveries, revisions,
          cancellations, disputes, reviewed, releases>>
vars == <<status, rows, rowLock, req, sweep>>

Parties == {Buyer, Seller}
Users == {Buyer, Seller, Admin}

Ops == {"none", "deliver", "revise", "accept", "cancelRequest", "cancelResolve",
        "disputeOpen", "disputeResolve", "review"}
Pcs == {"idle", "find", "write", "locked", "move", "release"}

\* access.Order.Status (from), the decided target (to), and the row found or
\* the number read under the lock (row).
Idle == [pc |-> "idle", op |-> "none", user |-> None,
         from |-> "in_progress", to |-> "in_progress", row |-> 0]

RequestState == [pc : Pcs, op : Ops, user : Users \cup {None},
                 from : OrderStates, to : OrderStates, row : Nat]

CancellationRow == [by : Parties, status : {"pending", "approved", "declined"}]
DisputeRow == {"open", "resolved"}

TypeOK ==
  /\ status \in OrderStates
  /\ revisionsUsed \in Nat /\ revisions \in Nat /\ releases \in Nat
  /\ accepted \in BOOLEAN /\ overdue \in BOOLEAN /\ reviewed \in BOOLEAN
  /\ deliveries \in Seq(Nat)
  /\ cancellations \in Seq(CancellationRow)
  /\ disputes \in Seq(DisputeRow)
  /\ rowLock \in Requests \cup {None}
  /\ req \in [Requests -> RequestState]
  /\ sweep \in [Sweepers -> {"idle", "release"}]

Init ==
  /\ status = "in_progress"
  /\ revisionsUsed = 0 /\ revisions = 0 /\ releases = 0
  /\ accepted = FALSE /\ overdue = FALSE /\ reviewed = FALSE
  /\ deliveries = <<>> /\ cancellations = <<>> /\ disputes = <<>>
  /\ rowLock = None
  /\ req = [r \in Requests |-> Idle]
  /\ sweep = [w \in Sweepers |-> "idle"]

-----------------------------------------------------------------------------
(* Helpers on one request's state.                                          *)

At(r, op, pc) == req[r].op = op /\ req[r].pc = pc
Goto(r, pc) == req' = [req EXCEPT ![r].pc = pc]
GotoRow(r, pc, n) == req' = [req EXCEPT ![r].pc = pc, ![r].row = n]
Finish(r) == req' = [req EXCEPT ![r] = Idle]

\* FOR UPDATE on the orders row; without it nothing waits.
RowFree_unlocked == TRUE
RowFree == rowLock = None

\* loadOrderAccess and the checks on the snapshot.  A request refused here has
\* changed nothing and is not modelled.
loadOrderAccess(r, op, u, to, pc) ==
  /\ req[r].pc = "idle"
  /\ CanTransitionOrder(status, to)
  /\ req' = [req EXCEPT ![r] = [pc |-> pc, op |-> op, user |-> u,
                                from |-> status, to |-> to, row |-> 0]]
  /\ UNCHANGED <<status, rows, rowLock, sweep>>

-----------------------------------------------------------------------------
(* Deliveries and revisions: the row is written under the order's row lock.  *)

orderDeliver(r) == loadOrderAccess(r, "deliver", Seller, "delivered", "write")

\* The largest version inserted so far, or 0.
MaxVersion == IF deliveries = <<>> THEN 0
              ELSE CHOOSE v \in {deliveries[i] : i \in DOMAIN deliveries} :
                     \A i \in DOMAIN deliveries : deliveries[i] <= v

CreateDeliveryLock(r) ==
  /\ At(r, "deliver", "write") /\ RowFree
  /\ Len(deliveries) < MaxDeliveries
  /\ rowLock' = r
  /\ GotoRow(r, "locked", MaxVersion + 1)
  /\ UNCHANGED <<status, rows, sweep>>

\* UNIQUE (order_id, version): the insert fails if the version is taken.
CreateDeliveryInsert(r) ==
  /\ At(r, "deliver", "locked")
  /\ \A i \in DOMAIN deliveries : deliveries[i] # req[r].row
  /\ deliveries' = Append(deliveries, req[r].row)
  /\ rowLock' = None
  /\ Goto(r, "move")
  /\ UNCHANGED <<status, revisionsUsed, accepted, overdue, revisions,
                 cancellations, disputes, reviewed, releases, sweep>>

orderRevise(r) == loadOrderAccess(r, "revise", Buyer, "revision_requested", "write")

CreateRevisionRequestLock(r) ==
  /\ At(r, "revise", "write") /\ RowFree
  /\ revisionsUsed < RevisionsAllowed
  /\ rowLock' = r
  /\ Goto(r, "locked")
  /\ UNCHANGED <<status, rows, sweep>>

CreateRevisionRequestInsert(r) ==
  /\ At(r, "revise", "locked")
  /\ revisionsUsed' = revisionsUsed + 1
  /\ revisions' = revisions + 1
  /\ rowLock' = None
  /\ Goto(r, "move")
  /\ UNCHANGED <<status, accepted, overdue, deliveries, cancellations,
                 disputes, reviewed, releases, sweep>>

orderAccept(r) == loadOrderAccess(r, "accept", Buyer, "accepted", "move")

-----------------------------------------------------------------------------
(* Cancellation: one party asks, the other decides.                          *)

\* access.IsBuyer || access.IsSeller; without the check an admin may ask too.
MayCancel_anyViewer == Users
MayCancel == Parties

orderCancelRequest(r) ==
  \E u \in MayCancel : loadOrderAccess(r, "cancelRequest", u, "cancel_requested", "write")

CreateCancellationRequest(r) ==
  /\ At(r, "cancelRequest", "write") /\ RowFree
  /\ Len(cancellations) < MaxCancellations
  /\ cancellations' = Append(cancellations, [by |-> req[r].user, status |-> "pending"])
  /\ Goto(r, "move")
  /\ UNCHANGED <<status, revisionsUsed, accepted, overdue, deliveries, revisions,
                 disputes, reviewed, releases, rowLock, sweep>>

\* The handler reads the order first and the open request second; the check
\* of the transition needs only the first read and the submitted decision.
orderCancelResolve(r) ==
  \E u \in Parties, to \in {"cancelled", "in_progress"} :
    loadOrderAccess(r, "cancelResolve", u, to, "find")

\* ORDER BY created_at DESC LIMIT 1 among the pending rows.
IsOpenCancellation(n) ==
  /\ n \in DOMAIN cancellations /\ cancellations[n].status = "pending"
  /\ \A i \in DOMAIN cancellations : i > n => cancellations[i].status # "pending"

GetOpenCancellationRequest(r) ==
  /\ At(r, "cancelResolve", "find")
  /\ \E n \in DOMAIN cancellations :
       /\ IsOpenCancellation(n)
       /\ cancellations[n].by # req[r].user
       /\ GotoRow(r, "write", n)
  /\ UNCHANGED <<status, rows, rowLock, sweep>>

\* WHERE id = $1 AND status = 'pending'
CancellationPending_anyStatus(r) == TRUE
CancellationPending(r) == cancellations[req[r].row].status = "pending"

\* The row status that goes with the submitted decision.
Resolution_swapped(to) == IF to = "cancelled" THEN "declined" ELSE "approved"
Resolution(to) == IF to = "cancelled" THEN "approved" ELSE "declined"

ResolveCancellationRequest(r) ==
  /\ At(r, "cancelResolve", "write")
  /\ CancellationPending(r)
  /\ cancellations' = [cancellations EXCEPT ![req[r].row].status = Resolution(req[r].to)]
  /\ Goto(r, "move")
  /\ UNCHANGED <<status, revisionsUsed, accepted, overdue, deliveries, revisions,
                 disputes, reviewed, releases, rowLock, sweep>>

-----------------------------------------------------------------------------
(* Disputes: either party opens one, an admin decides it.                    *)

orderDisputeOpen(r) ==
  \E u \in Parties : loadOrderAccess(r, "disputeOpen", u, "disputed", "write")

CreateDispute(r) ==
  /\ At(r, "disputeOpen", "write") /\ RowFree
  /\ Len(disputes) < MaxDisputes
  /\ disputes' = Append(disputes, "open")
  /\ Goto(r, "move")
  /\ UNCHANGED <<status, revisionsUsed, accepted, overdue, deliveries, revisions,
                 cancellations, reviewed, releases, rowLock, sweep>>

orderDisputeResolve(r) ==
  \E to \in {"in_progress", "cancelled", "closed"} :
    loadOrderAccess(r, "disputeResolve", Admin, to, "find")

IsOpenDispute(n) ==
  /\ n \in DOMAIN disputes /\ disputes[n] = "open"
  /\ \A i \in DOMAIN disputes : i > n => disputes[i] # "open"

GetOpenDispute(r) ==
  /\ At(r, "disputeResolve", "find")
  /\ \E n \in DOMAIN disputes : IsOpenDispute(n) /\ GotoRow(r, "write", n)
  /\ UNCHANGED <<status, rows, rowLock, sweep>>

ResolveDispute(r) ==
  /\ At(r, "disputeResolve", "write")
  /\ disputes[req[r].row] = "open"
  /\ disputes' = [disputes EXCEPT ![req[r].row] = "resolved"]
  /\ Goto(r, "move")
  /\ UNCHANGED <<status, revisionsUsed, accepted, overdue, deliveries, revisions,
                 cancellations, reviewed, releases, rowLock, sweep>>

-----------------------------------------------------------------------------
(* Reviews.                                                                  *)

Reviewable_delivered == status \in {"delivered", "accepted"}
Reviewable == status = "accepted"

orderReviewCreate(r) ==
  /\ req[r].pc = "idle" /\ Reviewable
  /\ req' = [req EXCEPT ![r] = [pc |-> "write", op |-> "review", user |-> Buyer,
                                from |-> status, to |-> "in_progress", row |-> 0]]
  /\ UNCHANGED <<status, rows, rowLock, sweep>>

\* reviews.order_id is unique.
CreateReview(r) ==
  /\ At(r, "review", "write") /\ RowFree /\ ~reviewed
  /\ reviewed' = TRUE
  /\ Finish(r)
  /\ UNCHANGED <<status, revisionsUsed, accepted, overdue, deliveries, revisions,
                 cancellations, disputes, releases, rowLock, sweep>>

-----------------------------------------------------------------------------
(* The compare-and-set every handler ends with, and what follows it.         *)

\* UPDATE orders ... WHERE id = $1 AND status = $2
StatusUnchanged_blindSet(r) == TRUE
StatusUnchanged(r) == status = req[r].from

TransitionOrder(r) ==
  /\ req[r].pc = "move" /\ RowFree
  /\ StatusUnchanged(r)
  /\ status' = req[r].to
  /\ accepted' = (accepted \/ req[r].to = "accepted")
  /\ overdue' = (overdue /\ req[r].to # "delivered")
  /\ IF req[r].op = "accept" THEN Goto(r, "release") ELSE Finish(r)
  /\ UNCHANGED <<revisionsUsed, deliveries, revisions, cancellations, disputes,
                 reviewed, releases, rowLock, sweep>>

\* What releaseSellerEarnings does to the ledger: nothing was captured, nothing
\* is released.
PostRelease == RowFree /\ releases' = IF PaymentCaptured THEN releases + 1 ELSE releases

releaseSellerEarnings(r) ==
  /\ req[r].pc = "release"
  /\ PostRelease
  /\ Finish(r)
  /\ UNCHANGED <<status, revisionsUsed, accepted, overdue, deliveries, revisions,
                 cancellations, disputes, reviewed, rowLock, sweep>>

\* A request whose store call reports a lost race or an exhausted allowance
\* ends with an error page; what it wrote before stays.
Refused(r) ==
  /\ \/ At(r, "revise", "write") /\ RowFree /\ revisionsUsed >= RevisionsAllowed
     \/ At(r, "cancelResolve", "find")
          /\ ~\E n \in DOMAIN cancellations :
                IsOpenCancellation(n) /\ cancellations[n].by # req[r].user
     \/ At(r, "cancelResolve", "write") /\ ~CancellationPending(r)
     \/ At(r, "disputeResolve", "find") /\ ~\E n \in DOMAIN disputes : IsOpenDispute(n)
     \/ At(r, "disputeResolve", "write") /\ disputes[req[r].row] # "open"
     \/ At(r, "review", "write") /\ RowFree /\ reviewed
     \/ req[r].pc = "move" /\ RowFree /\ ~StatusUnchanged(r)
  /\ Finish(r)
  /\ UNCHANGED <<status, rows, rowLock, sweep>>

\* The handler stops between two database calls; an open transaction rolls back.
Abort(r) ==
  /\ req[r].pc # "idle"
  /\ Finish(r)
  /\ rowLock' = IF rowLock = r THEN None ELSE rowLock
  /\ UNCHANGED <<status, rows, sweep>>

-----------------------------------------------------------------------------
(* The auto-accept sweep.                                                    *)

WindowElapses ==
  /\ status = "delivered" /\ ~overdue
  /\ overdue' = TRUE
  /\ UNCHANGED <<status, revisionsUsed, accepted, deliveries, revisions,
                 cancellations, disputes, reviewed, releases, rowLock, req, sweep>>

\* delivered_at < cutoff
PastCutoff_fresh == ~overdue
PastCutoff == overdue

AutoAcceptOrders(w) ==
  /\ sweep[w] = "idle" /\ RowFree
  /\ status = "delivered" /\ PastCutoff
  /\ status' = "accepted" /\ accepted' = TRUE
  /\ sweep' = [sweep EXCEPT ![w] = "release"]
  /\ UNCHANGED <<revisionsUsed, overdue, deliveries, revisions, cancellations,
                 disputes, reviewed, releases, rowLock, req>>

sweepReleaseSellerEarnings(w) ==
  /\ sweep[w] = "release"
  /\ PostRelease
  /\ sweep' = [sweep EXCEPT ![w] = "idle"]
  /\ UNCHANGED <<status, revisionsUsed, accepted, overdue, deliveries, revisions,
                 cancellations, disputes, reviewed, rowLock, req>>

\* The worker dies after the update; the retried job no longer sees the order.
SweepAbort(w) ==
  /\ sweep[w] = "release"
  /\ sweep' = [sweep EXCEPT ![w] = "idle"]
  /\ UNCHANGED <<status, rows, rowLock, req>>

-----------------------------------------------------------------------------

Begin(r) ==
  \/ orderDeliver(r) \/ orderRevise(r) \/ orderAccept(r)
  \/ orderCancelRequest(r) \/ orderCancelResolve(r)
  \/ orderDisputeOpen(r) \/ orderDisputeResolve(r) \/ orderReviewCreate(r)

\* The steps of a request that has begun.
Continue(r) ==
  \/ CreateDeliveryLock(r) \/ CreateDeliveryInsert(r)
  \/ CreateRevisionRequestLock(r) \/ CreateRevisionRequestInsert(r)
  \/ CreateCancellationRequest(r)
  \/ GetOpenCancellationRequest(r) \/ ResolveCancellationRequest(r)
  \/ CreateDispute(r) \/ GetOpenDispute(r) \/ ResolveDispute(r)
  \/ CreateReview(r)
  \/ TransitionOrder(r) \/ releaseSellerEarnings(r) \/ Refused(r)

Next ==
  \/ \E r \in Requests : Begin(r) \/ Continue(r) \/ Abort(r)
  \/ WindowElapses
  \/ \E w \in Sweepers : AutoAcceptOrders(w) \/ sweepReleaseSellerEarnings(w) \/ SweepAbort(w)

Spec == Init /\ [][Next]_vars

\* net/http runs a begun handler to its end, time passes, and the recurring
\* sweep keeps running.  The sweep's UPDATE queues for the row lock, which is
\* why it is strongly fair: holders come and go, a waiter is served.  So does
\* the ledger insert, whose order_id references that row.
Fairness ==
  /\ \A r \in Requests : WF_vars(Continue(r))
  /\ WF_vars(WindowElapses)
  /\ \A w \in Sweepers : SF_vars(sweepReleaseSellerEarnings(w))
  /\ SF_vars(\E w \in Sweepers : AutoAcceptOrders(w))

FairSpec == Spec /\ Fairness

-----------------------------------------------------------------------------
(* Properties.                                                               *)

Lifecycle == INSTANCE OrderLifecycle WITH Entry <- {"in_progress"}

\* However the handlers interleave, and wherever they stop, the order's status
\* only ever takes steps of the transition table: a decision made from a stale
\* snapshot never moves the order (TransitionOrder's WHERE status = $2).
ImplementsLifecycle == Lifecycle!Spec

\* Delivery versions are 1, 2, 3, ... in insertion order, and a seller who
\* submits twice at once never computes a version that is already taken
\* (CreateDelivery reads the maximum under the row lock).
DeliveryVersions ==
  /\ \A i \in DOMAIN deliveries : deliveries[i] = i
  /\ \A r \in Requests : At(r, "deliver", "locked") => req[r].row = Len(deliveries) + 1

\* The buyer never gets more revisions than the package allows, and each one
\* consumed is recorded, also when two requests pass the status check together
\* (CreateRevisionRequest re-reads the counter under the row lock).
RevisionAllowance == revisionsUsed <= RevisionsAllowed /\ revisions = revisionsUsed

\* A cancelled order always carries the decision that cancelled it: an approved
\* cancellation request or a resolved dispute.  The row is written before the
\* order moves, so no crash leaves a cancelled order nobody decided on.
CancelledByDecision ==
  status = "cancelled" =>
    \/ \E i \in DOMAIN cancellations : cancellations[i].status = "approved"
    \/ \E i \in DOMAIN disputes : disputes[i] = "resolved"

\* The seller's earnings are released at most once, plus once for every dispute
\* that could have sent the order back to work: the buyer's accept, a second
\* accept and the sweep race for one compare-and-set and only its winner posts.
ReleasesBounded == releases <= 1 + Len(disputes)

\* A review only exists on an order that was accepted, although the check of
\* the status and the insert are separate calls.
ReviewAfterAcceptance == reviewed => accepted

KeepsDecisions ==
  /\ \A i \in DOMAIN cancellations :
       cancellations[i].status # "pending" => cancellations'[i] = cancellations[i]
  /\ \A i \in DOMAIN disputes :
       disputes[i] = "resolved" => disputes'[i] = "resolved"

\* A decision on a cancellation request or a dispute is final: two people
\* answering at once never overwrite each other.
DecisionsFinal == [][KeepsDecisions]_vars

\* A delivery the buyer does not answer does not wait for ever: the sweep
\* accepts it once the review window is over, whatever stale requests do.
DeliveryAnswered == []<>(status # "delivered")

=============================================================================
