------------------------ MODULE OrderWorkflowProofs -------------------------
(***************************************************************************)
(* Theorems about OrderWorkflow, for any set of concurrent requests and    *)
(* sweepers and any revision allowance.                                    *)
(***************************************************************************)
EXTENDS OrderWorkflow, SequenceTheorems, FiniteSetTheorems, TLAPS

(***************************************************************************)
(* Type correctness.  Every handler, from any interleaving, leaves rows    *)
(* and request states of the declared shape; a row number a request holds  *)
(* points at a row that exists (rows are never deleted).                   *)
(***************************************************************************)
RowExists(r) ==
  /\ At(r, "cancelResolve", "write") => req[r].row \in DOMAIN cancellations
  /\ At(r, "disputeResolve", "write") => req[r].row \in DOMAIN disputes
  /\ req[r].op \in {"cancelRequest", "disputeOpen"} => req[r].user \in Parties

RowsExist == \A r \in Requests : RowExists(r)

TypeInv == TypeOK /\ RowsExist

LEMMA TableTyped == orderTransitions \in [OrderStates -> SUBSET OrderStates]
BY DEF orderTransitions, OrderStates

LEMMA BeginsTyped ==
  ASSUME TypeInv, NEW r \in Requests, NEW x \in RequestState,
         req' = [req EXCEPT ![r] = x], UNCHANGED <<status, rows, rowLock, sweep>>,
         x.op \in {"cancelResolve", "disputeResolve"} => x.pc # "write",
         x.op \in {"cancelRequest", "disputeOpen"} => x.user \in Parties
  PROVE  TypeInv'
<1>1. req' \in [Requests -> RequestState] /\ req'[r] = x
  BY DEF TypeInv, TypeOK
<1>2. TypeOK'
  BY <1>1 DEF TypeInv, TypeOK, rows
<1>3. ASSUME NEW q \in Requests PROVE RowExists(q)'
  <2>1. CASE q = r
    BY <1>1, <2>1 DEF RowExists, At, rows
  <2>2. CASE q # r
    <3>1. req'[q] = req[q]
      BY <2>2 DEF TypeInv, TypeOK
    <3> QED  BY <3>1 DEF TypeInv, RowsExist, RowExists, At, rows
  <2> QED  BY <2>1, <2>2
<1> QED  BY <1>2, <1>3 DEF TypeInv, RowsExist

LEMMA BeginTyped ==
  ASSUME TypeInv, NEW r \in Requests, Begin(r)
  PROVE  TypeInv'
<1>s. status \in OrderStates
  BY DEF TypeInv, TypeOK
<1>1. ASSUME NEW op \in Ops \ {"none"}, NEW u \in Users, NEW to \in OrderStates, NEW pc \in {"find", "write", "move"},
             op \in {"cancelRequest", "disputeOpen"} => u \in Parties,
             op \in {"cancelResolve", "disputeResolve"} => pc # "write",
             loadOrderAccess(r, op, u, to, pc)
      PROVE  TypeInv'
  <2> DEFINE x == [pc |-> pc, op |-> op, user |-> u, from |-> status, to |-> to, row |-> 0]
  <2>1. /\ x \in RequestState /\ x.op = op /\ x.pc = pc /\ x.user = u
    BY <1>s DEF RequestState, Pcs
  <2>2. req' = [req EXCEPT ![r] = x] /\ UNCHANGED <<status, rows, rowLock, sweep>>
    BY <1>1 DEF loadOrderAccess
  <2> HIDE DEF x
  <2> QED  BY <1>1, <2>1, <2>2, BeginsTyped
<1>u. Buyer \in Users /\ Seller \in Users /\ Admin \in Users /\ Parties \subseteq Users
  BY DEF Users, Parties
<1>o. /\ Ops \ {"none"} = {"deliver", "revise", "accept", "cancelRequest", "cancelResolve",
                           "disputeOpen", "disputeResolve", "review"}
      /\ {"delivered", "revision_requested", "accepted", "cancel_requested", "cancelled",
           "in_progress", "disputed", "closed"} \subseteq OrderStates
  BY DEF Ops, OrderStates
<1>2. CASE orderReviewCreate(r)
  <2> DEFINE x == [pc |-> "write", op |-> "review", user |-> Buyer,
                   from |-> status, to |-> "in_progress", row |-> 0]
  <2>1. x \in RequestState /\ x.op = "review"
    BY <1>s, <1>u DEF RequestState, Pcs, Ops, OrderStates
  <2>2. req' = [req EXCEPT ![r] = x] /\ UNCHANGED <<status, rows, rowLock, sweep>>
    BY <1>2 DEF orderReviewCreate
  <2> HIDE DEF x
  <2> QED  BY <2>1, <2>2, BeginsTyped
<1>3. CASE orderDeliver(r)  BY <1>1, <1>3, <1>u, <1>o DEF orderDeliver
<1>4. CASE orderRevise(r)  BY <1>1, <1>4, <1>u, <1>o DEF orderRevise
<1>5. CASE orderAccept(r)  BY <1>1, <1>5, <1>u, <1>o DEF orderAccept
<1>6. CASE orderCancelRequest(r)  BY <1>1, <1>6, <1>u, <1>o DEF orderCancelRequest, MayCancel
<1>7. CASE orderCancelResolve(r)  BY <1>1, <1>7, <1>u, <1>o DEF orderCancelResolve
<1>8. CASE orderDisputeOpen(r)  BY <1>1, <1>8, <1>u, <1>o DEF orderDisputeOpen
<1>9. CASE orderDisputeResolve(r)  BY <1>1, <1>9, <1>u, <1>o DEF orderDisputeResolve
<1> QED  BY <1>2, <1>3, <1>4, <1>5, <1>6, <1>7, <1>8, <1>9 DEF Begin

(***************************************************************************)
(* What a step does to the request that takes it, and to the others.       *)
(***************************************************************************)
SameRequest(r) ==
  /\ req'[r].op = req[r].op /\ req'[r].user = req[r].user
  /\ req'[r].from = req[r].from /\ req'[r].to = req[r].to

OthersSame(r) == \A q \in Requests \ {r} : req'[q] = req[q]

LEMMA GotoReq ==
  ASSUME req \in [Requests -> RequestState], NEW r \in Requests, NEW pc \in Pcs, Goto(r, pc)
  PROVE  /\ req' \in [Requests -> RequestState]
         /\ SameRequest(r) /\ OthersSame(r)
         /\ req'[r].pc = pc /\ req'[r].row = req[r].row
<1> DEFINE s == [req[r] EXCEPT !.pc = pc]
<1>1. req' = [req EXCEPT ![r] = s]
  BY DEF Goto
<1>2. req[r] \in RequestState
  OBVIOUS
<1>3. /\ s \in RequestState /\ s.pc = pc /\ s.op = req[r].op /\ s.user = req[r].user
      /\ s.from = req[r].from /\ s.to = req[r].to /\ s.row = req[r].row
  BY <1>2 DEF RequestState
<1> HIDE DEF s
<1> QED  BY <1>1, <1>3 DEF SameRequest, OthersSame

LEMMA GotoRowReq ==
  ASSUME req \in [Requests -> RequestState], NEW r \in Requests, NEW pc \in Pcs, NEW n \in Nat,
         GotoRow(r, pc, n)
  PROVE  /\ req' \in [Requests -> RequestState]
         /\ SameRequest(r) /\ OthersSame(r)
         /\ req'[r].pc = pc /\ req'[r].row = n
<1> DEFINE s == [req[r] EXCEPT !.pc = pc, !.row = n]
<1>1. req' = [req EXCEPT ![r] = s]
  BY DEF GotoRow
<1>2. req[r] \in RequestState
  OBVIOUS
<1>3. /\ s \in RequestState /\ s.pc = pc /\ s.op = req[r].op /\ s.user = req[r].user
      /\ s.from = req[r].from /\ s.to = req[r].to /\ s.row = n
  BY <1>2 DEF RequestState
<1> HIDE DEF s
<1> QED  BY <1>1, <1>3 DEF SameRequest, OthersSame

LEMMA FinishReq ==
  ASSUME req \in [Requests -> RequestState], NEW r \in Requests, Finish(r)
  PROVE  /\ req' \in [Requests -> RequestState]
         /\ OthersSame(r)
         /\ req'[r].pc = "idle" /\ req'[r].op = "none" /\ req'[r].to = "in_progress"
<1>1. /\ Idle \in RequestState
      /\ Idle.pc = "idle" /\ Idle.op = "none" /\ Idle.to = "in_progress"
  BY DEF Idle, RequestState, Pcs, Ops, OrderStates
<1> QED  BY <1>1 DEF Finish, OthersSame

LEMMA RowsExistStep ==
  ASSUME RowsExist, NEW r \in Requests, OthersSame(r), RowExists(r)',
         DOMAIN cancellations \subseteq DOMAIN cancellations',
         DOMAIN disputes \subseteq DOMAIN disputes'
  PROVE  RowsExist'
BY DEF RowsExist, RowExists, OthersSame, At

LEMMA MaxVersionIsLength ==
  ASSUME deliveries \in Seq(Nat), \A i \in DOMAIN deliveries : deliveries[i] = i
  PROVE  MaxVersion = Len(deliveries)
<1>1. CASE deliveries = <<>>  BY <1>1 DEF MaxVersion
<1>2. CASE deliveries # <<>>
  <2> DEFINE versions == {deliveries[i] : i \in DOMAIN deliveries}
             isMax(v) == \A i \in DOMAIN deliveries : deliveries[i] <= v
  <2>1. Len(deliveries) \in DOMAIN deliveries /\ DOMAIN deliveries = 1..Len(deliveries)
    BY <1>2
  <2>2. Len(deliveries) \in versions /\ isMax(Len(deliveries))
    BY <2>1
  <2>3. \A v \in versions : isMax(v) => v = Len(deliveries)
    BY <2>1
  <2> QED  BY <1>2, <2>2, <2>3 DEF MaxVersion
<1> QED  BY <1>1, <1>2

LEMMA ContinueTyped ==
  ASSUME TypeInv, DeliveryVersions, NEW r \in Requests, Continue(r)
  PROVE  TypeInv'
<1> USE RowsExistStep DEF TypeInv, TypeOK, RowExists, At, rows
<1>p. {"write", "locked", "move", "release", "idle"} \subseteq Pcs /\ RowExists(r)
  BY DEF Pcs, RowsExist
<1>l. rowLock' = r => rowLock' \in Requests \cup {None}
  OBVIOUS
<1>1. CASE CreateDeliveryLock(r)
  <2>1. MaxVersion + 1 \in Nat
    BY MaxVersionIsLength DEF DeliveryVersions
  <2> QED  BY <1>p, <1>1, <2>1, GotoRowReq DEF CreateDeliveryLock, SameRequest
<1>14. CASE CreateRevisionRequestLock(r)
  BY <1>p, <1>14, GotoReq DEF CreateRevisionRequestLock, SameRequest
<1>2. CASE CreateDeliveryInsert(r)
  <2>1. req[r].row \in Nat
    BY DEF RequestState
  <2> QED  BY <1>p, <1>2, <2>1, GotoReq DEF CreateDeliveryInsert, SameRequest
<1>3. CASE CreateRevisionRequestInsert(r)
  <2>1. revisionsUsed' \in Nat /\ revisions' \in Nat
    BY <1>3 DEF CreateRevisionRequestInsert
  <2>2. /\ req' \in [Requests -> RequestState] /\ SameRequest(r) /\ OthersSame(r)
        /\ req'[r].pc = "move"
    BY <1>p, <1>3, GotoReq DEF CreateRevisionRequestInsert
  <2>3. RowExists(r)'
    BY <1>p, <1>3, <2>2 DEF CreateRevisionRequestInsert, SameRequest
  <2> QED  BY <1>p, <1>3, <2>1, <2>2, <2>3 DEF CreateRevisionRequestInsert
<1>4. CASE CreateCancellationRequest(r)
  <2>1. [by |-> req[r].user, status |-> "pending"] \in CancellationRow
    BY <1>p, <1>4 DEF CreateCancellationRequest, CancellationRow
  <2>2. cancellations' \in Seq(CancellationRow) /\ DOMAIN cancellations \subseteq DOMAIN cancellations'
    BY <1>4, <2>1, AppendProperties DEF CreateCancellationRequest
  <2> QED  BY <1>p, <1>4, <2>2, GotoReq DEF CreateCancellationRequest, SameRequest
<1>5. CASE GetOpenCancellationRequest(r)
  <2>1. PICK n \in DOMAIN cancellations : GotoRow(r, "write", n)
    BY <1>5 DEF GetOpenCancellationRequest
  <2> QED  BY <1>p, <1>5, <2>1, GotoRowReq DEF GetOpenCancellationRequest, SameRequest
<1>6. CASE ResolveCancellationRequest(r)
  <2> DEFINE n == req[r].row
             c == [cancellations[n] EXCEPT !.status = Resolution(req[r].to)]
  <2>1. n \in DOMAIN cancellations /\ cancellations[n] \in CancellationRow
    BY <1>p, <1>6 DEF ResolveCancellationRequest
  <2>2. c \in CancellationRow
    BY <2>1 DEF CancellationRow, Resolution
  <2>3. cancellations' = [cancellations EXCEPT ![n] = c]
    BY <1>6 DEF ResolveCancellationRequest
  <2> HIDE DEF c
  <2>4. cancellations' \in Seq(CancellationRow) /\ DOMAIN cancellations' = DOMAIN cancellations
    BY <2>1, <2>2, <2>3, ExceptSeq
  <2> QED  BY <1>p, <1>6, <2>4, GotoReq DEF ResolveCancellationRequest, SameRequest
<1>7. CASE CreateDispute(r)
  <2>1. disputes' \in Seq(DisputeRow) /\ DOMAIN disputes \subseteq DOMAIN disputes'
    BY <1>7, AppendProperties DEF CreateDispute, DisputeRow
  <2> QED  BY <1>p, <1>7, <2>1, GotoReq DEF CreateDispute, SameRequest
<1>8. CASE GetOpenDispute(r)
  <2>1. PICK n \in DOMAIN disputes : GotoRow(r, "write", n)
    BY <1>8 DEF GetOpenDispute
  <2> QED  BY <1>p, <1>8, <2>1, GotoRowReq DEF GetOpenDispute, SameRequest
<1>9. CASE ResolveDispute(r)
  BY <1>p, <1>9, GotoReq DEF ResolveDispute, DisputeRow, SameRequest
<1>10. CASE CreateReview(r)  BY <1>10, FinishReq DEF CreateReview
<1>11. CASE TransitionOrder(r)
  <2>1. status' \in OrderStates
    BY <1>11 DEF TransitionOrder, RequestState
  <2>2. CASE Goto(r, "release")
    BY <1>p, <1>11, <2>1, <2>2, GotoReq DEF TransitionOrder, SameRequest
  <2>3. CASE Finish(r)  BY <1>11, <2>1, <2>3, FinishReq DEF TransitionOrder
  <2> QED  BY <1>11, <2>2, <2>3 DEF TransitionOrder
<1>12. CASE releaseSellerEarnings(r)
  BY <1>12, FinishReq DEF releaseSellerEarnings, PostRelease
<1>13. CASE Refused(r)  BY <1>13, FinishReq DEF Refused
<1> QED  BY <1>1, <1>2, <1>3, <1>4, <1>5, <1>6, <1>7, <1>8, <1>9, <1>10, <1>11, <1>12,
            <1>13, <1>14 DEF Continue

LEMMA AbortTyped ==
  ASSUME TypeInv, NEW r \in Requests, Abort(r)
  PROVE  TypeInv'
<1>1. OthersSame(r) /\ RowExists(r)'
  BY FinishReq DEF Abort, TypeInv, TypeOK, RowExists, At
<1>2. RowsExist'
  BY <1>1, RowsExistStep DEF Abort, rows, TypeInv
<1> QED  BY <1>2, FinishReq DEF Abort, rows, TypeInv, TypeOK

LEMMA SweepTyped ==
  ASSUME TypeInv,
         \/ WindowElapses
         \/ \E w \in Sweepers : AutoAcceptOrders(w) \/ sweepReleaseSellerEarnings(w) \/ SweepAbort(w)
         \/ UNCHANGED vars
  PROVE  TypeInv'
<1> USE DEF TypeInv, TypeOK, RowsExist, RowExists, At, rows
<1>1. CASE WindowElapses  BY <1>1 DEF WindowElapses
<1>2. ASSUME NEW w \in Sweepers, AutoAcceptOrders(w) PROVE TypeInv'
  BY <1>2 DEF AutoAcceptOrders, OrderStates
<1>3. ASSUME NEW w \in Sweepers, sweepReleaseSellerEarnings(w) PROVE TypeInv'
  BY <1>3 DEF sweepReleaseSellerEarnings, PostRelease
<1>4. ASSUME NEW w \in Sweepers, SweepAbort(w) PROVE TypeInv'
  BY <1>4 DEF SweepAbort
<1>5. CASE UNCHANGED vars  BY <1>5 DEF vars
<1> QED  BY <1>1, <1>2, <1>3, <1>4, <1>5

LEMMA StepTyped ==
  ASSUME TypeInv, DeliveryVersions, [Next]_vars
  PROVE  TypeInv'
BY BeginTyped, ContinueTyped, AbortTyped, SweepTyped DEF Next

(***************************************************************************)
(* A request's step leaves every other request alone, and either keeps its *)
(* own operation and decision or ends the request.                         *)
(***************************************************************************)
LEMMA RequestStep ==
  ASSUME TypeInv, NEW r \in Requests, Continue(r) \/ Abort(r)
  PROVE  /\ OthersSame(r)
         /\ \/ SameRequest(r)
            \/ req'[r].pc = "idle" /\ req'[r].op = "none" /\ req'[r].to = "in_progress"
<1> USE DEF TypeInv, TypeOK
<1>1. ASSUME NEW pc \in Pcs, Goto(r, pc)
      PROVE  OthersSame(r) /\ SameRequest(r)
  BY <1>1, GotoReq
<1>2. ASSUME Finish(r)
      PROVE  OthersSame(r) /\ req'[r].pc = "idle" /\ req'[r].op = "none" /\ req'[r].to = "in_progress"
  BY <1>2, FinishReq
<1>3. ASSUME NEW pc \in Pcs, NEW n, GotoRow(r, pc, n)
      PROVE  OthersSame(r) /\ SameRequest(r)
  <2> DEFINE s == [req[r] EXCEPT !.pc = pc, !.row = n]
  <2>1. req' = [req EXCEPT ![r] = s]
    BY <1>3 DEF GotoRow
  <2>2. req[r] \in RequestState
    OBVIOUS
  <2>3. /\ s.op = req[r].op /\ s.user = req[r].user /\ s.from = req[r].from /\ s.to = req[r].to
    BY <2>2 DEF RequestState
  <2> HIDE DEF s
  <2> QED  BY <2>1, <2>3 DEF SameRequest, OthersSame
<1>4. {"write", "locked", "move", "release"} \subseteq Pcs
  BY DEF Pcs
<1>5. CASE CreateDeliveryLock(r) \/ GetOpenCancellationRequest(r) \/ GetOpenDispute(r)
  BY <1>3, <1>4, <1>5 DEF CreateDeliveryLock, GetOpenCancellationRequest, GetOpenDispute
<1>6. CASE CreateDeliveryInsert(r) \/ CreateRevisionRequestLock(r) \/ CreateCancellationRequest(r)
             \/ CreateRevisionRequestInsert(r) \/ ResolveCancellationRequest(r)
             \/ CreateDispute(r) \/ ResolveDispute(r)
  BY <1>1, <1>4, <1>6 DEF CreateDeliveryInsert, CreateRevisionRequestLock, CreateRevisionRequestInsert,
       CreateCancellationRequest, ResolveCancellationRequest, CreateDispute, ResolveDispute
<1>7. CASE CreateReview(r) \/ releaseSellerEarnings(r) \/ Refused(r) \/ Abort(r)
  BY <1>2, <1>4, <1>7 DEF CreateReview, releaseSellerEarnings, Refused, Abort
<1>8. CASE TransitionOrder(r)
  BY <1>1, <1>2, <1>4, <1>8 DEF TransitionOrder
<1> QED  BY <1>5, <1>6, <1>7, <1>8 DEF Continue

(***************************************************************************)
(* The row lock and what is done under it.  Only one request is between    *)
(* its locked read and its insert, so the version it computed is still the *)
(* next one and the allowance it checked is still there.                   *)
(***************************************************************************)
LockInv ==
  \A r \in Requests :
    /\ req[r].pc = "locked" <=> rowLock = r
    /\ req[r].pc = "locked" => req[r].op \in {"deliver", "revise"}

AllowanceLeft == \A r \in Requests : At(r, "revise", "locked") => revisionsUsed < RevisionsAllowed

UnderLock == LockInv /\ DeliveryVersions /\ RevisionAllowance /\ AllowanceLeft

LEMMA UnderLockStep ==
  ASSUME TypeInv, UnderLock, NEW r \in Requests, Begin(r) \/ Continue(r) \/ Abort(r)
  PROVE  UnderLock'
<1> USE UsersAssumption, BoundsAssumption DEF TypeInv, TypeOK
<1>p. {"write", "locked", "move", "release"} \subseteq Pcs
  BY DEF Pcs
(* Steps that touch neither the lock nor the rows it guards. *)
<1>1. ASSUME UNCHANGED <<rowLock, deliveries, revisionsUsed, revisions>>,
             OthersSame(r), req'[r].pc # "locked", rowLock # r
      PROVE  UnderLock'
  BY <1>1 DEF UnderLock, LockInv, DeliveryVersions, RevisionAllowance, AllowanceLeft, OthersSame, At
<1>2. ASSUME req[r].pc # "locked" PROVE rowLock # r
  BY <1>2 DEF UnderLock, LockInv
<1>3. CASE Begin(r)
  <2>1. ASSUME NEW op, NEW u, NEW to, NEW pc, pc # "locked", loadOrderAccess(r, op, u, to, pc)
        PROVE  UnderLock'
    BY <2>1, <1>1, <1>2 DEF loadOrderAccess, rows, OthersSame
  <2>2. CASE orderReviewCreate(r)
    BY <2>2, <1>1, <1>2 DEF orderReviewCreate, rows, OthersSame
  <2> QED  BY <1>3, <2>1, <2>2 DEF Begin, orderDeliver, orderRevise, orderAccept, orderCancelRequest,
             orderCancelResolve, orderDisputeOpen, orderDisputeResolve
<1>4. CASE CreateDeliveryLock(r)
  <2>1. MaxVersion + 1 \in Nat /\ MaxVersion = Len(deliveries)
    BY MaxVersionIsLength DEF UnderLock, DeliveryVersions
  <2>2. OthersSame(r) /\ SameRequest(r) /\ req'[r].pc = "locked" /\ req'[r].row = Len(deliveries) + 1
    BY <1>p, <1>4, <2>1, GotoRowReq DEF CreateDeliveryLock
  <2>3. LockInv' /\ UNCHANGED <<deliveries, revisionsUsed, revisions>> /\ req'[r].op = "deliver"
    BY <1>4, <2>2 DEF CreateDeliveryLock, RowFree, UnderLock, LockInv, OthersSame, SameRequest, rows, At
  <2> QED  BY <2>2, <2>3 DEF UnderLock, DeliveryVersions, RevisionAllowance, AllowanceLeft,
             OthersSame, SameRequest, At
<1>5. CASE CreateRevisionRequestLock(r)
  <2>1. OthersSame(r) /\ SameRequest(r) /\ req'[r].pc = "locked"
    BY <1>p, <1>5, GotoReq DEF CreateRevisionRequestLock
  <2>2. LockInv' /\ UNCHANGED <<deliveries, revisionsUsed, revisions>> /\ req'[r].op = "revise"
    BY <1>5, <2>1 DEF CreateRevisionRequestLock, RowFree, UnderLock, LockInv, OthersSame, SameRequest, rows, At
  <2> QED  BY <1>5, <2>1, <2>2 DEF CreateRevisionRequestLock, UnderLock, DeliveryVersions,
             RevisionAllowance, AllowanceLeft, OthersSame, SameRequest, At
<1>6. CASE CreateDeliveryInsert(r)
  <2>1. OthersSame(r) /\ req'[r].pc = "move"
    BY <1>p, <1>6, GotoReq DEF CreateDeliveryInsert
  <2>2. \A q \in Requests : req'[q].pc # "locked"
    BY <1>6, <2>1 DEF CreateDeliveryInsert, UnderLock, LockInv, OthersSame, At
  <2>3. req[r].row = Len(deliveries) + 1
    BY <1>6 DEF CreateDeliveryInsert, UnderLock, DeliveryVersions
  <2>4. \A i \in DOMAIN deliveries' : deliveries'[i] = i
    <3> DEFINE v == Len(deliveries) + 1
    <3>1. deliveries' = Append(deliveries, v) /\ v \in Nat
      BY <1>6, <2>3 DEF CreateDeliveryInsert
    <3>2. /\ deliveries' \in Seq(Nat) /\ Len(deliveries') = v /\ deliveries'[v] = v
          /\ \A i \in 1..Len(deliveries) : deliveries'[i] = deliveries[i]
      <4> HIDE DEF v
      <4>1. v = Len(deliveries) + 1
        BY DEF v
      <4> QED  BY <3>1, <4>1, AppendProperties
    <3>3. \A i \in DOMAIN deliveries' : i = v \/ i \in 1..Len(deliveries)
      BY <3>2
    <3>4. \A i \in 1..Len(deliveries) : deliveries[i] = i
      BY DEF UnderLock, DeliveryVersions
    <3> QED  BY <3>2, <3>3, <3>4
  <2> QED  BY <1>6, <2>2, <2>4 DEF CreateDeliveryInsert, UnderLock, LockInv, DeliveryVersions,
             RevisionAllowance, AllowanceLeft, At
<1>7. CASE CreateRevisionRequestInsert(r)
  <2>1. OthersSame(r) /\ req'[r].pc = "move"
    BY <1>p, <1>7, GotoReq DEF CreateRevisionRequestInsert
  <2>2. \A q \in Requests : req'[q].pc # "locked"
    BY <1>7, <2>1 DEF CreateRevisionRequestInsert, UnderLock, LockInv, OthersSame, At
  <2> QED  BY <1>7, <2>2 DEF CreateRevisionRequestInsert, UnderLock, LockInv, DeliveryVersions,
             RevisionAllowance, AllowanceLeft, At
<1>8. CASE Abort(r)
  <2>1. OthersSame(r) /\ req'[r].pc = "idle"
    BY <1>8, FinishReq DEF Abort
  <2>2. UNCHANGED <<deliveries, revisions, revisionsUsed>>
    BY <1>8 DEF Abort, rows
  <2>3. rowLock' = IF rowLock = r THEN None ELSE rowLock
    BY <1>8 DEF Abort
  <2> QED  BY <2>1, <2>2, <2>3 DEF UnderLock, LockInv, DeliveryVersions, RevisionAllowance,
             AllowanceLeft, OthersSame, At
<1>9. ASSUME NEW pc \in {"write", "move", "release"}, NEW n \in Nat,
             Goto(r, pc) \/ GotoRow(r, pc, n) \/ Finish(r)
      PROVE  OthersSame(r) /\ req'[r].pc # "locked"
  BY <1>p, <1>9, GotoReq, GotoRowReq, FinishReq
<1>10. CASE \/ CreateCancellationRequest(r) \/ ResolveCancellationRequest(r) \/ CreateDispute(r)
            \/ ResolveDispute(r) \/ TransitionOrder(r) \/ releaseSellerEarnings(r)
            \/ CreateReview(r) \/ Refused(r)
  BY <1>1, <1>2, <1>9, <1>10 DEF CreateCancellationRequest, ResolveCancellationRequest, CreateDispute,
     ResolveDispute, TransitionOrder, releaseSellerEarnings, CreateReview, Refused, rows, At
<1>11. CASE GetOpenCancellationRequest(r) \/ GetOpenDispute(r)
  <2>1. DOMAIN cancellations \subseteq Nat /\ DOMAIN disputes \subseteq Nat
    OBVIOUS
  <2>2. \E n \in DOMAIN cancellations \cup DOMAIN disputes : GotoRow(r, "write", n)
    BY <1>11 DEF GetOpenCancellationRequest, GetOpenDispute
  <2>3. PICK n \in Nat : GotoRow(r, "write", n)
    BY <2>1, <2>2
  <2> QED  BY <1>1, <1>2, <1>9, <1>11, <2>3 DEF GetOpenCancellationRequest, GetOpenDispute, rows, At
<1> QED  BY <1>3, <1>4, <1>5, <1>6, <1>7, <1>8, <1>10, <1>11 DEF Continue

\* A step of the worker, of time, or of nobody.
WorkerStep ==
  \/ WindowElapses
  \/ \E w \in Sweepers : AutoAcceptOrders(w) \/ sweepReleaseSellerEarnings(w) \/ SweepAbort(w)
  \/ UNCHANGED vars

LEMMA NextSplit ==
  ASSUME [Next]_vars
  PROVE  (\E r \in Requests : Begin(r) \/ Continue(r) \/ Abort(r)) \/ WorkerStep
BY DEF Next, WorkerStep

LEMMA WorkerKeeps ==
  ASSUME WorkerStep
  PROVE  UNCHANGED <<revisionsUsed, deliveries, revisions, cancellations, disputes, reviewed,
                     rowLock, req>>
BY DEF WorkerStep, WindowElapses, AutoAcceptOrders, sweepReleaseSellerEarnings, SweepAbort, vars, rows

(***************************************************************************)
(* The decision a request carries is one the transition table allows, and  *)
(* only the two resolving handlers may carry "cancelled".                  *)
(***************************************************************************)
MoveAllowed(r) ==
  /\ req[r].pc # "idle" /\ req[r].op # "review" => CanTransitionOrder(req[r].from, req[r].to)
  /\ req[r].op = "review" => req[r].pc = "write"
  /\ req[r].to = "cancelled" => req[r].op \in {"cancelResolve", "disputeResolve"}

MoveInv == \A r \in Requests : MoveAllowed(r)

LEMMA BeginMove ==
  ASSUME NEW r \in Requests, TypeInv, Begin(r)
  PROVE  MoveAllowed(r)' /\ OthersSame(r)
<1> USE DEF TypeInv, TypeOK
<1>1. ASSUME NEW op, NEW u, NEW to, NEW pc, op # "review", loadOrderAccess(r, op, u, to, pc),
             to = "cancelled" => op \in {"cancelResolve", "disputeResolve"}
      PROVE  MoveAllowed(r)' /\ OthersSame(r)
  BY <1>1 DEF loadOrderAccess, MoveAllowed, OthersSame, CanTransitionOrder
<1>2. CASE orderReviewCreate(r)
  BY <1>2 DEF orderReviewCreate, MoveAllowed, OthersSame
<1> QED  BY <1>1, <1>2 DEF Begin, orderDeliver, orderRevise, orderAccept, orderCancelRequest,
           orderCancelResolve, orderDisputeOpen, orderDisputeResolve

LEMMA MoveInvStep ==
  ASSUME TypeInv, MoveInv, [Next]_vars
  PROVE  MoveInv'
<1>1. ASSUME NEW r \in Requests, OthersSame(r), MoveAllowed(r)'  PROVE MoveInv'
  BY <1>1 DEF MoveInv, MoveAllowed, OthersSame
<1>2. ASSUME NEW r \in Requests, Begin(r)  PROVE MoveInv'
  BY <1>1, <1>2, BeginMove
<1>3. ASSUME NEW r \in Requests, Continue(r) \/ Abort(r)  PROVE MoveInv'
  <2>1. req[r].pc # "idle" /\ MoveAllowed(r)
    BY <1>3 DEF MoveInv, Continue, Abort, At, CreateDeliveryLock, CreateDeliveryInsert,
       CreateRevisionRequestLock, CreateRevisionRequestInsert, CreateCancellationRequest,
       GetOpenCancellationRequest, ResolveCancellationRequest, CreateDispute, GetOpenDispute,
       ResolveDispute, CreateReview, TransitionOrder, releaseSellerEarnings, Refused
  <2>2. CASE SameRequest(r)
    <3>1. CASE req[r].op = "review"
      <4>1. Finish(r)
        BY <1>3, <2>1, <3>1 DEF MoveAllowed, Continue, Abort, At, CreateDeliveryLock, CreateDeliveryInsert,
           CreateRevisionRequestLock, CreateRevisionRequestInsert, CreateCancellationRequest,
           GetOpenCancellationRequest, ResolveCancellationRequest, CreateDispute, GetOpenDispute,
           ResolveDispute, CreateReview, TransitionOrder, releaseSellerEarnings, Refused
      <4> QED  BY <2>2, <3>1, <4>1, FinishReq DEF TypeInv, TypeOK, SameRequest
    <3>2. CASE req[r].op # "review"
      BY <1>1, <1>3, <2>1, <2>2, <3>2, RequestStep DEF MoveAllowed, SameRequest
    <3> QED  BY <3>1, <3>2
  <2> QED  BY <1>1, <1>3, <2>1, <2>2, RequestStep DEF MoveAllowed
<1>4. CASE WorkerStep  BY <1>4, WorkerKeeps DEF MoveInv, MoveAllowed
<1> QED  BY <1>2, <1>3, <1>4, NextSplit

(***************************************************************************)
(* The decision behind a cancellation is on record before the order moves. *)
(***************************************************************************)
Decided ==
  \/ \E i \in DOMAIN cancellations : cancellations[i].status = "approved"
  \/ \E i \in DOMAIN disputes : disputes[i] = "resolved"

DecidedBeforeMove ==
  \A r \in Requests : req[r].pc = "move" /\ req[r].to = "cancelled" => Decided

DecisionInv == CancelledByDecision /\ DecidedBeforeMove

LEMMA AppendKeeps ==
  ASSUME NEW S, NEW s \in Seq(S), NEW e
  PROVE  /\ DOMAIN s \subseteq DOMAIN Append(s, e)
         /\ \A i \in DOMAIN s : Append(s, e)[i] = s[i]
OBVIOUS

(* A row that carries a decision is never changed again. *)
LEMMA RowsKeepDecisions ==
  ASSUME TypeInv, [Next]_vars
  PROVE  /\ \A i \in DOMAIN cancellations :
               /\ i \in DOMAIN cancellations'
               /\ cancellations[i].status # "pending" => cancellations'[i] = cancellations[i]
         /\ \A i \in DOMAIN disputes :
               /\ i \in DOMAIN disputes'
               /\ disputes[i] = "resolved" => disputes'[i] = "resolved"
<1> USE DEF TypeInv, TypeOK
<1>1. CASE UNCHANGED <<cancellations, disputes>>  BY <1>1
<1>2. ASSUME NEW r \in Requests, Begin(r) PROVE UNCHANGED <<cancellations, disputes>>
  BY <1>2 DEF Begin, orderDeliver, orderRevise, orderAccept, orderCancelRequest,
     orderCancelResolve, orderDisputeOpen, orderDisputeResolve, orderReviewCreate, loadOrderAccess, rows
<1>3. ASSUME NEW r \in Requests, Continue(r) \/ Abort(r)
      PROVE  \/ UNCHANGED <<cancellations, disputes>>
             \/ CreateCancellationRequest(r) \/ ResolveCancellationRequest(r)
             \/ CreateDispute(r) \/ ResolveDispute(r)
  BY <1>3 DEF Continue, Abort, rows, CreateDeliveryLock, CreateDeliveryInsert,
     CreateRevisionRequestLock, CreateRevisionRequestInsert, GetOpenCancellationRequest,
     GetOpenDispute, CreateReview, TransitionOrder, releaseSellerEarnings, Refused
<1>4. ASSUME NEW r \in Requests, CreateCancellationRequest(r)
      PROVE  /\ \A i \in DOMAIN cancellations :
                  i \in DOMAIN cancellations' /\ cancellations'[i] = cancellations[i]
             /\ disputes' = disputes
  BY <1>4, AppendKeeps DEF CreateCancellationRequest
<1>5. ASSUME NEW r \in Requests, ResolveCancellationRequest(r)
      PROVE  /\ \A i \in DOMAIN cancellations :
                  /\ i \in DOMAIN cancellations'
                  /\ cancellations[i].status # "pending" => cancellations'[i] = cancellations[i]
             /\ disputes' = disputes
  BY <1>5 DEF ResolveCancellationRequest, CancellationPending
<1>6. ASSUME NEW r \in Requests, CreateDispute(r)
      PROVE  /\ \A i \in DOMAIN disputes : i \in DOMAIN disputes' /\ disputes'[i] = disputes[i]
             /\ cancellations' = cancellations
  BY <1>6, AppendKeeps DEF CreateDispute
<1>7. ASSUME NEW r \in Requests, ResolveDispute(r)
      PROVE  /\ \A i \in DOMAIN disputes :
                  /\ i \in DOMAIN disputes'
                  /\ disputes[i] = "resolved" => disputes'[i] = "resolved"
             /\ cancellations' = cancellations
  BY <1>7 DEF ResolveDispute
<1> QED  BY <1>1, <1>2, <1>3, <1>4, <1>5, <1>6, <1>7, WorkerKeeps, NextSplit

LEMMA DecidedStays ==
  ASSUME TypeInv, Decided, [Next]_vars
  PROVE  Decided'
BY RowsKeepDecisions DEF Decided

LEMMA DecisionInvStep ==
  ASSUME TypeInv, MoveInv, DecisionInv, [Next]_vars
  PROVE  DecisionInv'
<1> USE DEF TypeInv, TypeOK
<1>1. CASE Decided
  BY <1>1, DecidedStays DEF DecisionInv, CancelledByDecision, DecidedBeforeMove, Decided
<1>2. CASE ~Decided
  <2>1. status # "cancelled" /\ \A r \in Requests : ~(req[r].pc = "move" /\ req[r].to = "cancelled")
    BY <1>2 DEF DecisionInv, CancelledByDecision, DecidedBeforeMove, Decided
  <2>2. SUFFICES Decided' \/ (/\ status' # "cancelled"
                               /\ \A r \in Requests : ~(req'[r].pc = "move" /\ req'[r].to = "cancelled"))
    BY DEF DecisionInv, CancelledByDecision, DecidedBeforeMove, Decided
  <2>3. ASSUME NEW r \in Requests, Begin(r)  PROVE status' = status /\ ~(req'[r].pc = "move" /\ req'[r].to = "cancelled")
    <3>1. ASSUME NEW op, NEW u, NEW to, NEW pc, ~(pc = "move" /\ to = "cancelled"), loadOrderAccess(r, op, u, to, pc)
          PROVE  status' = status /\ ~(req'[r].pc = "move" /\ req'[r].to = "cancelled")
      BY <3>1 DEF loadOrderAccess
    <3>2. CASE orderReviewCreate(r)  BY <3>2 DEF orderReviewCreate
    <3> QED  BY <2>3, <3>1, <3>2 DEF Begin, orderDeliver, orderRevise, orderAccept, orderCancelRequest,
               orderCancelResolve, orderDisputeOpen, orderDisputeResolve
  <2>4. ASSUME NEW r \in Requests, TransitionOrder(r)
        PROVE  status' # "cancelled" /\ ~(req'[r].pc = "move" /\ req'[r].to = "cancelled")
    <3>1. status' # "cancelled"
      BY <2>1, <2>4 DEF TransitionOrder
    <3>2. CASE Goto(r, "release")  BY <3>1, <3>2, GotoReq DEF Pcs
    <3>3. CASE Finish(r)  BY <3>1, <3>3, FinishReq
    <3> QED  BY <2>4, <3>1, <3>2, <3>3 DEF TransitionOrder
  <2>5. ASSUME NEW r \in Requests, Continue(r) \/ Abort(r), ~TransitionOrder(r)  PROVE status' = status
    BY <2>5 DEF Continue, Abort, rows, CreateDeliveryLock, CreateDeliveryInsert,
       CreateRevisionRequestLock, CreateRevisionRequestInsert, CreateCancellationRequest,
       GetOpenCancellationRequest, ResolveCancellationRequest, CreateDispute, GetOpenDispute,
       ResolveDispute, CreateReview, releaseSellerEarnings, Refused
  <2>6. ASSUME NEW r \in Requests, ResolveCancellationRequest(r), req[r].to = "cancelled"  PROVE Decided'
    <3> DEFINE n == req[r].row
    <3>1. n \in DOMAIN cancellations /\ cancellations[n] \in CancellationRow
      BY <2>6 DEF ResolveCancellationRequest, RowsExist, RowExists
    <3>2. cancellations'[n].status = "approved" /\ n \in DOMAIN cancellations'
      BY <2>6, <3>1 DEF ResolveCancellationRequest, CancellationRow, Resolution
    <3> QED  BY <3>2 DEF Decided
  <2>7. ASSUME NEW r \in Requests, ResolveDispute(r)  PROVE Decided'
    <3>1. req[r].row \in DOMAIN disputes
      BY <2>7 DEF ResolveDispute, RowsExist, RowExists
    <3> QED  BY <2>7, <3>1 DEF ResolveDispute, Decided
  <2>8. ASSUME NEW r \in Requests, Continue(r) \/ Abort(r), req'[r].pc = "move", req'[r].to = "cancelled",
               ~TransitionOrder(r)
        PROVE  ResolveCancellationRequest(r) \/ ResolveDispute(r)
    <3>1. SameRequest(r)
      BY <2>8, RequestStep
    <3>2. req[r].op \in {"cancelResolve", "disputeResolve"}
      BY <2>8, <3>1 DEF MoveInv, MoveAllowed, SameRequest
    <3>3. ~GetOpenCancellationRequest(r) /\ ~GetOpenDispute(r)
      <4>1. ASSUME NEW n, GotoRow(r, "write", n)  PROVE req'[r].pc = "write"
        BY <4>1 DEF GotoRow, RequestState
      <4> QED  BY <2>8, <4>1 DEF GetOpenCancellationRequest, GetOpenDispute
    <3>4. ~Finish(r)
      BY <2>8, FinishReq
    <3> QED  BY <2>8, <3>2, <3>3, <3>4 DEF Continue, Abort, At, CreateDeliveryLock, CreateDeliveryInsert,
               CreateRevisionRequestLock, CreateRevisionRequestInsert, CreateCancellationRequest,
               CreateDispute, CreateReview, releaseSellerEarnings, Refused
  <2>9. CASE WorkerStep
    <3>1. status' # "cancelled"
      BY <2>1, <2>9 DEF WorkerStep, WindowElapses, AutoAcceptOrders, sweepReleaseSellerEarnings,
         SweepAbort, vars, rows
    <3> QED  BY <2>1, <2>9, <3>1, WorkerKeeps
  <2>10. ASSUME NEW r \in Requests, Begin(r) \/ Continue(r) \/ Abort(r)  PROVE OthersSame(r)
    BY <2>10, BeginMove, RequestStep
  <2>11. ASSUME NEW r \in Requests, status' # "cancelled", OthersSame(r),
                ~(req'[r].pc = "move" /\ req'[r].to = "cancelled")
         PROVE  \A q \in Requests : ~(req'[q].pc = "move" /\ req'[q].to = "cancelled")
    BY <2>1, <2>11 DEF OthersSame
  <2>12. ASSUME NEW r \in Requests, Begin(r)
         PROVE  /\ status' # "cancelled"
                /\ \A q \in Requests : ~(req'[q].pc = "move" /\ req'[q].to = "cancelled")
    BY <2>1, <2>3, <2>10, <2>11, <2>12
  <2>13. ASSUME NEW r \in Requests, Continue(r) \/ Abort(r), ~Decided'
         PROVE  /\ status' # "cancelled"
                /\ \A q \in Requests : ~(req'[q].pc = "move" /\ req'[q].to = "cancelled")
    <3>1. CASE TransitionOrder(r)  BY <2>4, <2>10, <2>11, <2>13, <3>1
    <3>2. CASE ~TransitionOrder(r)
      <4>1. status' # "cancelled"
        BY <2>1, <2>5, <2>13, <3>2
      <4>2. ~(req'[r].pc = "move" /\ req'[r].to = "cancelled")
        <5>1. SUFFICES ASSUME req'[r].pc = "move", req'[r].to = "cancelled"  PROVE FALSE
          OBVIOUS
        <5>2. ResolveCancellationRequest(r) => req[r].to = "cancelled"
          BY <2>13, <5>1, RequestStep DEF SameRequest
        <5> QED  BY <2>6, <2>7, <2>8, <2>13, <3>2, <5>1, <5>2
      <4> QED  BY <2>10, <2>11, <2>13, <4>1, <4>2
    <3> QED  BY <3>1, <3>2
  <2> QED  BY <2>9, <2>12, <2>13, NextSplit
<1> QED  BY <1>1, <1>2

(***************************************************************************)
(* accepted_at is set for good, so a review started on an accepted order   *)
(* is still a review of an order that was accepted.                        *)
(***************************************************************************)
AcceptInv ==
  /\ status = "accepted" => accepted
  /\ \A r \in Requests : At(r, "review", "write") => accepted
  /\ ReviewAfterAcceptance

LEMMA AcceptInvStep ==
  ASSUME TypeInv, MoveInv, AcceptInv, [Next]_vars
  PROVE  AcceptInv'
<1> USE DEF TypeInv, TypeOK, At
<1>1. ASSUME NEW r \in Requests, Begin(r)
      PROVE  UNCHANGED <<status, accepted, reviewed>> /\ (At(r, "review", "write")' => accepted)
  <2>1. ASSUME NEW op, NEW u, NEW to, NEW pc, op # "review", loadOrderAccess(r, op, u, to, pc)
        PROVE  UNCHANGED <<status, accepted, reviewed>> /\ ~At(r, "review", "write")'
    BY <2>1 DEF loadOrderAccess, rows
  <2>2. CASE orderReviewCreate(r)
    BY <2>2 DEF orderReviewCreate, Reviewable, rows, AcceptInv
  <2> QED  BY <1>1, <2>1, <2>2 DEF Begin, orderDeliver, orderRevise, orderAccept, orderCancelRequest,
             orderCancelResolve, orderDisputeOpen, orderDisputeResolve
<1>2. ASSUME NEW r \in Requests, Continue(r) \/ Abort(r), ~TransitionOrder(r), ~CreateReview(r)
      PROVE  UNCHANGED <<status, accepted, reviewed>>
  BY <1>2 DEF Continue, Abort, rows, CreateDeliveryLock, CreateDeliveryInsert,
     CreateRevisionRequestLock, CreateRevisionRequestInsert, CreateCancellationRequest,
     GetOpenCancellationRequest, ResolveCancellationRequest, CreateDispute, GetOpenDispute,
     ResolveDispute, releaseSellerEarnings, Refused
<1>3. ASSUME NEW r \in Requests, CreateReview(r)
      PROVE  UNCHANGED <<status, accepted>> /\ accepted
  BY <1>3 DEF CreateReview, AcceptInv
<1>4. ASSUME NEW r \in Requests, TransitionOrder(r)
      PROVE  /\ accepted => accepted'
             /\ status' = "accepted" => accepted'
             /\ reviewed' = reviewed
  BY <1>4 DEF TransitionOrder
<1>5. ASSUME NEW r \in Requests, Continue(r) \/ Abort(r)
      PROVE  \A q \in Requests : At(q, "review", "write")' => req[q].op = "review" /\ req[q].pc = "write"
  <2>1. OthersSame(r) /\ (SameRequest(r) \/ req'[r].op = "none")
    BY <1>5, RequestStep
  <2>2. req'[r].op = "review" => req[r].op = "review"
    BY <2>1 DEF SameRequest
  <2> QED  BY <2>1, <2>2 DEF OthersSame, MoveInv, MoveAllowed
<1>6. CASE WorkerStep
  <2>1. (accepted => accepted') /\ (status' = "accepted" => accepted' \/ status = "accepted")
    BY <1>6 DEF WorkerStep, WindowElapses, AutoAcceptOrders, sweepReleaseSellerEarnings, SweepAbort, vars, rows
  <2> QED  BY <1>6, <2>1, WorkerKeeps DEF AcceptInv, ReviewAfterAcceptance
<1>7. ASSUME NEW r \in Requests, Begin(r)  PROVE AcceptInv'
  BY <1>1, <1>7, BeginMove DEF AcceptInv, ReviewAfterAcceptance, OthersSame
<1>8. ASSUME NEW r \in Requests, Continue(r) \/ Abort(r)  PROVE AcceptInv'
  BY <1>2, <1>3, <1>4, <1>5, <1>8 DEF AcceptInv, ReviewAfterAcceptance
<1> QED  BY <1>6, <1>7, <1>8, NextSplit

(***************************************************************************)
(* Releases.  A release is posted by whoever won an acceptance and has not *)
(* posted yet, and the next acceptance can only come after a dispute whose *)
(* row is already written (CreateDispute runs before the order moves).     *)
(***************************************************************************)
Releasing == {r \in Requests : req[r].pc = "release"}
SweepReleasing == {w \in Sweepers : sweep[w] = "release"}
\* Dispute rows whose order has still to move to "disputed".
Disputing == {r \in Requests : At(r, "disputeOpen", "move")}

\* Once accepted, only a dispute makes another acceptance possible.
NextAcceptance(s) == IF s \in {"accepted", "closed"} THEN 0 ELSE 1

Counted == IsFiniteSet(Releasing) /\ IsFiniteSet(SweepReleasing) /\ IsFiniteSet(Disputing)

OpCarries(r) ==
  /\ req[r].op = "accept" => req[r].to = "accepted"
  /\ req[r].to = "disputed" => req[r].op = "disputeOpen"

\* The releases still to be posted, and the acceptances there have been.
Promised == Cardinality(Releasing) + Cardinality(SweepReleasing)
Acceptances == (Len(disputes) - Cardinality(Disputing)) + (1 - NextAcceptance(status))

ReleaseInv ==
  /\ Counted
  /\ \A r \in Requests : OpCarries(r)
  /\ releases + Promised <= Acceptances

LEMMA BeginCarries ==
  ASSUME TypeInv, NEW r \in Requests, Begin(r)
  PROVE  /\ OpCarries(r)' /\ OthersSame(r)
         /\ req[r].pc = "idle" /\ req'[r].pc # "release" /\ ~At(r, "disputeOpen", "move")'
         /\ UNCHANGED <<status, releases, disputes, sweep>>
<1> USE DEF TypeInv, TypeOK
<1>1. ASSUME NEW op, NEW u, NEW to, NEW pc \in {"find", "write", "move"},
             op = "accept" => to = "accepted", to = "disputed" => op = "disputeOpen",
             op = "disputeOpen" => pc = "write",
             loadOrderAccess(r, op, u, to, pc)
      PROVE  /\ OpCarries(r)' /\ OthersSame(r)
             /\ req[r].pc = "idle" /\ req'[r].pc # "release" /\ ~At(r, "disputeOpen", "move")'
             /\ UNCHANGED <<status, releases, disputes, sweep>>
  BY <1>1 DEF loadOrderAccess, OpCarries, OthersSame, At, rows
<1>2. CASE orderReviewCreate(r)
  BY <1>2 DEF orderReviewCreate, OpCarries, OthersSame, At, rows
<1> QED  BY <1>1, <1>2 DEF Begin, orderDeliver, orderRevise, orderAccept, orderCancelRequest,
           orderCancelResolve, orderDisputeOpen, orderDisputeResolve

\* One element joins or leaves a set.
LEMMA CountStep ==
  ASSUME NEW S, NEW T, NEW x, IsFiniteSet(S), T \ {x} = S \ {x}
  PROVE  /\ IsFiniteSet(T) /\ Cardinality(S) \in Nat /\ Cardinality(T) \in Nat
         /\ (x \in S <=> x \in T) => Cardinality(T) = Cardinality(S)
         /\ x \in T /\ x \notin S => Cardinality(T) = Cardinality(S) + 1
         /\ x \in S /\ x \notin T => Cardinality(T) = Cardinality(S) - 1
<1>1. Cardinality(S) \in Nat
  BY FS_CardinalityType
<1>2. CASE x \in S <=> x \in T
  <2>1. T = S
    BY <1>2
  <2> QED  BY <1>1, <1>2, <2>1
<1>3. CASE x \in T /\ x \notin S
  <2>1. T = S \cup {x}
    BY <1>3
  <2>2. IsFiniteSet(T) /\ Cardinality(T) = Cardinality(S) + 1
    BY <1>3, <2>1, FS_AddElement
  <2> QED  BY <1>1, <1>3, <2>2
<1>4. CASE x \in S /\ x \notin T
  <2>1. T = S \ {x}
    BY <1>4
  <2>2. IsFiniteSet(T) /\ Cardinality(T) = Cardinality(S) - 1
    BY <1>4, <2>1, FS_RemoveElement
  <2>3. Cardinality(T) \in Nat
    BY <2>2, FS_CardinalityType
  <2> QED  BY <1>1, <1>4, <2>2, <2>3
<1> QED  BY <1>2, <1>3, <1>4

\* What a request's step does to the sets that are counted.
LEMMA RequestCounts ==
  ASSUME Counted, NEW r \in Requests, OthersSame(r)
  PROVE  LET was == Cardinality(Releasing)  is == Cardinality(Releasing')
             had == Cardinality(Disputing)  has == Cardinality(Disputing') IN
         /\ IsFiniteSet(Releasing') /\ IsFiniteSet(Disputing')
         /\ was \in Nat /\ is \in Nat /\ had \in Nat /\ has \in Nat
         /\ (req[r].pc = "release" <=> req'[r].pc = "release") => is = was
         /\ req'[r].pc = "release" /\ req[r].pc # "release" => is = was + 1
         /\ req[r].pc = "release" /\ req'[r].pc # "release" => is = was - 1
         /\ (At(r, "disputeOpen", "move") <=> At(r, "disputeOpen", "move")') => has = had
         /\ At(r, "disputeOpen", "move")' /\ ~At(r, "disputeOpen", "move") => has = had + 1
         /\ At(r, "disputeOpen", "move") /\ ~At(r, "disputeOpen", "move")' => has = had - 1
<1>1. /\ Releasing' \ {r} = Releasing \ {r}
      /\ r \in Releasing <=> req[r].pc = "release"
      /\ r \in Releasing' <=> req'[r].pc = "release"
  BY DEF Releasing, OthersSame
<1>2. /\ Disputing' \ {r} = Disputing \ {r}
      /\ r \in Disputing <=> At(r, "disputeOpen", "move")
      /\ r \in Disputing' <=> At(r, "disputeOpen", "move")'
  BY DEF Disputing, OthersSame, At
<1>3. IsFiniteSet(Releasing) /\ IsFiniteSet(Disputing)
  BY DEF Counted
<1> HIDE DEF Releasing, Disputing
<1>4. /\ IsFiniteSet(Releasing') /\ Cardinality(Releasing) \in Nat /\ Cardinality(Releasing') \in Nat
      /\ (r \in Releasing <=> r \in Releasing') => Cardinality(Releasing') = Cardinality(Releasing)
      /\ r \in Releasing' /\ r \notin Releasing => Cardinality(Releasing') = Cardinality(Releasing) + 1
      /\ r \in Releasing /\ r \notin Releasing' => Cardinality(Releasing') = Cardinality(Releasing) - 1
  BY <1>1, <1>3, CountStep
<1>5. /\ IsFiniteSet(Disputing') /\ Cardinality(Disputing) \in Nat /\ Cardinality(Disputing') \in Nat
      /\ (r \in Disputing <=> r \in Disputing') => Cardinality(Disputing') = Cardinality(Disputing)
      /\ r \in Disputing' /\ r \notin Disputing => Cardinality(Disputing') = Cardinality(Disputing) + 1
      /\ r \in Disputing /\ r \notin Disputing' => Cardinality(Disputing') = Cardinality(Disputing) - 1
  BY <1>2, <1>3, CountStep
<1> QED  BY <1>1, <1>2, <1>4, <1>5

\* The same for a sweeper's step.
LEMMA SweepCounts ==
  ASSUME Counted, TypeInv, NEW w \in Sweepers, NEW pc \in {"idle", "release"},
         sweep' = [sweep EXCEPT ![w] = pc], pc # sweep[w]
  PROVE  LET was == Cardinality(SweepReleasing)  is == Cardinality(SweepReleasing') IN
         /\ IsFiniteSet(SweepReleasing') /\ was \in Nat /\ is \in Nat
         /\ is = IF pc = "release" THEN was + 1 ELSE was - 1
<1>1. /\ SweepReleasing' \ {w} = SweepReleasing \ {w}
      /\ w \in SweepReleasing <=> sweep[w] = "release"
      /\ w \in SweepReleasing' <=> pc = "release"
      /\ sweep[w] \in {"idle", "release"}
  BY DEF SweepReleasing, TypeInv, TypeOK
<1>2. IsFiniteSet(SweepReleasing)
  BY DEF Counted
<1>3. /\ IsFiniteSet(SweepReleasing')
      /\ Cardinality(SweepReleasing) \in Nat /\ Cardinality(SweepReleasing') \in Nat
      /\ w \in SweepReleasing' /\ w \notin SweepReleasing
           => Cardinality(SweepReleasing') = Cardinality(SweepReleasing) + 1
      /\ w \in SweepReleasing /\ w \notin SweepReleasing'
           => Cardinality(SweepReleasing') = Cardinality(SweepReleasing) - 1
  BY <1>1, <1>2, CountStep
<1> QED  BY <1>1, <1>3

LEMMA ReleaseTypes ==
  ASSUME TypeInv, Counted
  PROVE  /\ Cardinality(Releasing) \in Nat /\ Cardinality(SweepReleasing) \in Nat
         /\ Cardinality(Disputing) \in Nat /\ releases \in Nat /\ Len(disputes) \in Nat
         /\ status \in OrderStates /\ NextAcceptance(status) \in 0..1
         /\ Promised \in Nat /\ Acceptances \in Int /\ Acceptances <= 1 + Len(disputes)
<1>1. /\ Cardinality(Releasing) \in Nat /\ Cardinality(SweepReleasing) \in Nat
      /\ Cardinality(Disputing) \in Nat
  BY FS_CardinalityType DEF Counted
<1>2. releases \in Nat /\ Len(disputes) \in Nat /\ status \in OrderStates
  BY DEF TypeInv, TypeOK
<1>3. NextAcceptance(status) \in 0..1
  BY DEF NextAcceptance
<1> QED  BY <1>1, <1>2, <1>3 DEF Promised, Acceptances

\* The same after a step.
LEMMA ReleaseTypesNext ==
  ASSUME TypeInv', Counted'
  PROVE  /\ Cardinality(Releasing)' \in Nat /\ Cardinality(SweepReleasing)' \in Nat
         /\ Cardinality(Disputing)' \in Nat /\ releases' \in Nat /\ Len(disputes)' \in Nat
         /\ status' \in OrderStates /\ NextAcceptance(status)' \in 0..1
         /\ Promised' \in Nat /\ Acceptances' \in Int /\ Acceptances' <= 1 + Len(disputes)'
<1>1. /\ Cardinality(Releasing)' \in Nat /\ Cardinality(SweepReleasing)' \in Nat
      /\ Cardinality(Disputing)' \in Nat
  BY FS_CardinalityType DEF Counted
<1>2. releases' \in Nat /\ Len(disputes)' \in Nat /\ status' \in OrderStates
  BY DEF TypeInv, TypeOK
<1>3. NextAcceptance(status)' \in 0..1
  BY DEF NextAcceptance
<1> QED  BY <1>1, <1>2, <1>3 DEF Promised, Acceptances

\* What an acceptance needs and what it leads to, by the transition table.
LEMMA AcceptanceTable ==
  ASSUME NEW from \in OrderStates, NEW to \in orderTransitions[from]
  PROVE  /\ to = "accepted" => NextAcceptance(from) = 1 /\ NextAcceptance(to) = 0
         /\ to # "disputed" => NextAcceptance(to) <= NextAcceptance(from)
         /\ NextAcceptance(from) \in 0..1 /\ NextAcceptance(to) \in 0..1
BY DEF orderTransitions, OrderStates, NextAcceptance

\* The arithmetic of a bound on a sum.
LEMMA BoundMoves ==
  \A x, p, a, y, q, b \in Int :
    /\ x + p <= a
    /\ \/ y + q <= x + p /\ b >= a
       \/ y + q = x + p + 1 /\ b = a + 1
    => y + q <= b
OBVIOUS

\* A step keeps the bound if what it promises is covered by an acceptance.
LEMMA KeepsBound ==
  ASSUME TypeInv, ReleaseInv, Counted', \A r \in Requests : OpCarries(r)',
         releases' \in Int, Promised' \in Int, Acceptances' \in Int,
         \/ releases' + Promised' <= releases + Promised /\ Acceptances' >= Acceptances
         \/ releases' + Promised' = releases + Promised + 1 /\ Acceptances' = Acceptances + 1
  PROVE  ReleaseInv'
<1>1. /\ releases \in Int /\ Promised \in Int /\ Acceptances \in Int
      /\ releases + Promised <= Acceptances
  BY ReleaseTypes DEF ReleaseInv
<1>2. releases' + Promised' <= Acceptances'
  BY <1>1, BoundMoves
<1> QED  BY <1>2 DEF ReleaseInv

LEMMA MoveReleases ==
  ASSUME TypeInv, TypeInv', MoveInv, ReleaseInv, NEW r \in Requests, TransitionOrder(r)
  PROVE  ReleaseInv'
<1>1. /\ req[r].pc = "move" /\ req[r].op # "review" /\ status = req[r].from /\ status' = req[r].to
      /\ req[r].to \in orderTransitions[status] /\ OpCarries(r) /\ Counted
      /\ UNCHANGED <<releases, disputes, sweep>>
  BY DEF TransitionOrder, StatusUnchanged, MoveInv, MoveAllowed, CanTransitionOrder, ReleaseInv
<1>2. OthersSame(r) /\ (SameRequest(r) \/ (req'[r].op = "none" /\ req'[r].to = "in_progress"))
  BY RequestStep DEF Continue
<1>3. /\ req[r].op = "accept" => req'[r].pc = "release" /\ req'[r].op = "accept"
      /\ req[r].op # "accept" => req'[r].pc = "idle" /\ req'[r].op = "none"
  <2>1. req \in [Requests -> RequestState] /\ "release" \in Pcs
    BY DEF TypeInv, TypeOK, Pcs
  <2> QED  BY <2>1, GotoReq, FinishReq DEF TransitionOrder, SameRequest
<1>4. \A q \in Requests : OpCarries(q)'
  <2>1. OpCarries(r)'
    BY <1>1, <1>2 DEF OpCarries, SameRequest
  <2> QED  BY <1>2, <2>1 DEF OthersSame, OpCarries, ReleaseInv
<1>5. SweepReleasing' = SweepReleasing
  BY <1>1 DEF SweepReleasing
<1>6. Counted'
  BY <1>1, <1>2, <1>5, RequestCounts DEF Counted
<1>7. ~At(r, "disputeOpen", "move")' /\ (At(r, "disputeOpen", "move") <=> req[r].op = "disputeOpen")
  BY <1>1, <1>3 DEF At
<1>8. /\ releases \in Nat /\ Promised \in Nat /\ Acceptances \in Int
      /\ Cardinality(Releasing) \in Nat /\ Cardinality(SweepReleasing) \in Nat
      /\ Cardinality(Disputing) \in Nat /\ Len(disputes) \in Nat
      /\ Promised' \in Nat /\ Acceptances' \in Int /\ releases' \in Nat
  BY <1>1, <1>6, ReleaseTypes, ReleaseTypesNext
<1>9. /\ req[r].op = "accept" => NextAcceptance(status) = 1 /\ NextAcceptance(status') = 0
      /\ req[r].op # "disputeOpen" => NextAcceptance(status') <= NextAcceptance(status)
      /\ NextAcceptance(status) \in 0..1 /\ NextAcceptance(status') \in 0..1
  BY <1>1, AcceptanceTable, ReleaseTypes DEF OpCarries
<1>10. CASE req[r].op = "accept"
  <2>1. Promised' = Promised + 1
    <3>1. Cardinality(Releasing') = Cardinality(Releasing) + 1
      BY <1>1, <1>2, <1>3, <1>10, RequestCounts
    <3> QED  BY <1>5, <1>8, <3>1 DEF Promised
  <2>2. Disputing' = Disputing
    BY <1>2, <1>7, <1>10 DEF Disputing, OthersSame, At
  <2>3. Acceptances' = Acceptances + 1
    BY <1>1, <1>8, <1>9, <1>10, <2>2 DEF Acceptances
  <2> QED  BY <1>1, <1>4, <1>6, <1>8, <2>1, <2>3, KeepsBound
<1>11. CASE req[r].op # "accept"
  <2>1. Releasing' = Releasing
    BY <1>1, <1>2, <1>3, <1>11 DEF Releasing, OthersSame
  <2>2. Promised' = Promised
    BY <1>5, <2>1 DEF Promised
  <2>3. Acceptances' >= Acceptances
    <3>1. CASE req[r].op = "disputeOpen"
      <4>1. Cardinality(Disputing') = Cardinality(Disputing) - 1
        BY <1>1, <1>2, <1>7, <3>1, RequestCounts
      <4> QED  BY <1>1, <1>8, <1>9, <4>1 DEF Acceptances
    <3>2. CASE req[r].op # "disputeOpen"
      <4>1. Disputing' = Disputing
        BY <1>2, <1>7, <3>2 DEF Disputing, OthersSame, At
      <4> QED  BY <1>1, <1>8, <1>9, <3>2, <4>1 DEF Acceptances
    <3> QED  BY <3>1, <3>2
  <2> QED  BY <1>1, <1>4, <1>6, <1>8, <2>2, <2>3, KeepsBound
<1> QED  BY <1>10, <1>11

\* What the other steps of a request do to what is counted: a posting ends a
\* promise, and a dispute is counted as soon as its row is.
LEMMA HandlerEffect ==
  ASSUME TypeInv, NEW r \in Requests, Begin(r) \/ Continue(r) \/ Abort(r), ~TransitionOrder(r)
  PROVE  /\ \/ releases' = releases
            \/ releases' = releases + 1 /\ req[r].pc = "release" /\ req'[r].pc # "release"
         /\ req'[r].pc = "release" => req[r].pc = "release"
         /\ \/ Len(disputes') = Len(disputes)
                 /\ (At(r, "disputeOpen", "move")' => At(r, "disputeOpen", "move"))
            \/ Len(disputes') = Len(disputes) + 1
<1>t. req \in [Requests -> RequestState] /\ disputes \in Seq(DisputeRow)
  BY DEF TypeInv, TypeOK
<1>p. {"write", "locked", "move", "release"} \subseteq Pcs
  BY DEF Pcs
<1>1. CASE Begin(r)
  BY <1>1, BeginCarries
<1>2. CASE releaseSellerEarnings(r)
  <2>1. req[r].pc = "release" /\ req'[r].pc = "idle"
    BY <1>t, <1>2, FinishReq DEF releaseSellerEarnings
  <2>2. (releases' = releases \/ releases' = releases + 1) /\ disputes' = disputes
    BY <1>2 DEF releaseSellerEarnings, PostRelease
  <2>3. ~At(r, "disputeOpen", "move")'
    BY <2>1 DEF At
  <2> QED  BY <2>1, <2>2, <2>3
<1>3. CASE CreateDispute(r)
  <2>1. req'[r].pc = "move"
    BY <1>t, <1>p, <1>3, GotoReq DEF CreateDispute
  <2>2. Len(disputes') = Len(disputes) + 1 /\ releases' = releases
    BY <1>t, <1>3 DEF CreateDispute
  <2> QED  BY <2>1, <2>2
<1>4. CASE ResolveDispute(r)
  <2>1. req'[r].pc = "move" /\ req'[r].op = "disputeResolve"
    BY <1>t, <1>p, <1>4, GotoReq DEF ResolveDispute, SameRequest, At
  <2>2. Len(disputes') = Len(disputes) /\ releases' = releases
    BY <1>t, <1>4 DEF ResolveDispute
  <2> QED  BY <2>1, <2>2 DEF At
<1>5. CASE CreateReview(r) \/ Refused(r) \/ Abort(r)
  <2>1. req'[r].pc = "idle"
    BY <1>t, <1>5, FinishReq DEF CreateReview, Refused, Abort
  <2>2. UNCHANGED <<releases, disputes>>
    BY <1>5 DEF CreateReview, Refused, Abort, rows
  <2> QED  BY <2>1, <2>2 DEF At
<1>6. CASE \/ CreateDeliveryInsert(r) \/ CreateRevisionRequestLock(r) \/ CreateRevisionRequestInsert(r)
           \/ CreateCancellationRequest(r) \/ ResolveCancellationRequest(r)
  <2>1. ASSUME NEW pc \in {"locked", "move"}, Goto(r, pc), req[r].op # "disputeOpen"
        PROVE  req'[r].pc # "release" /\ ~At(r, "disputeOpen", "move")'
    BY <1>t, <1>p, <2>1, GotoReq DEF SameRequest, At
  <2>2. req'[r].pc # "release" /\ ~At(r, "disputeOpen", "move")'
    BY <1>6, <2>1 DEF CreateDeliveryInsert, CreateRevisionRequestLock, CreateRevisionRequestInsert,
       CreateCancellationRequest, ResolveCancellationRequest, At
  <2>3. UNCHANGED <<releases, disputes>>
    BY <1>6 DEF CreateDeliveryInsert, CreateRevisionRequestLock, CreateRevisionRequestInsert,
       CreateCancellationRequest, ResolveCancellationRequest, rows
  <2> QED  BY <2>2, <2>3
<1>7. CASE CreateDeliveryLock(r) \/ GetOpenCancellationRequest(r) \/ GetOpenDispute(r)
  <2>1. ASSUME NEW pc \in {"locked", "write"}, NEW n, GotoRow(r, pc, n)
        PROVE  req'[r].pc = pc
    BY <1>t, <2>1 DEF GotoRow, RequestState
  <2>2. req'[r].pc \in {"locked", "write"}
    BY <1>7, <2>1 DEF CreateDeliveryLock, GetOpenCancellationRequest, GetOpenDispute
  <2>3. UNCHANGED <<releases, disputes>>
    BY <1>7 DEF CreateDeliveryLock, GetOpenCancellationRequest, GetOpenDispute, rows
  <2> QED  BY <2>2, <2>3 DEF At
<1> QED  BY <1>1, <1>2, <1>3, <1>4, <1>5, <1>6, <1>7 DEF Continue

LEMMA HandlerReleases ==
  ASSUME TypeInv, TypeInv', ReleaseInv, NEW r \in Requests, Begin(r) \/ Continue(r) \/ Abort(r),
         ~TransitionOrder(r)
  PROVE  ReleaseInv'
<1>1. OthersSame(r) /\ OpCarries(r)'
  <2>1. CASE Begin(r)  BY <2>1, BeginCarries
  <2>2. CASE Continue(r) \/ Abort(r)
    BY <2>2, RequestStep DEF ReleaseInv, OpCarries, SameRequest
  <2> QED  BY <2>1, <2>2
<1>2. UNCHANGED <<status, sweep>>
  <2>1. CASE Begin(r)  BY <2>1, BeginCarries
  <2>2. CASE Continue(r) \/ Abort(r)
    BY <2>2 DEF Continue, Abort, rows, CreateDeliveryLock, CreateDeliveryInsert,
       CreateRevisionRequestLock, CreateRevisionRequestInsert, CreateCancellationRequest,
       GetOpenCancellationRequest, ResolveCancellationRequest, CreateDispute, GetOpenDispute,
       ResolveDispute, CreateReview, releaseSellerEarnings, Refused
  <2> QED  BY <2>1, <2>2
<1>3. SweepReleasing' = SweepReleasing /\ Counted
  BY <1>2 DEF SweepReleasing, ReleaseInv
<1>4. /\ Counted' /\ \A q \in Requests : OpCarries(q)'
  BY <1>1, <1>3, RequestCounts DEF Counted, OthersSame, OpCarries, ReleaseInv
<1>5. /\ releases \in Nat /\ Promised \in Nat /\ Acceptances \in Int
      /\ Cardinality(Releasing) \in Nat /\ Cardinality(SweepReleasing) \in Nat
      /\ Cardinality(Disputing) \in Nat /\ Len(disputes) \in Nat /\ NextAcceptance(status) \in 0..1
      /\ Promised' \in Nat /\ Acceptances' \in Int /\ releases' \in Nat
  BY <1>3, <1>4, ReleaseTypes, ReleaseTypesNext
<1>6. releases' + Promised' <= releases + Promised
  <2>1. CASE req'[r].pc = "release" \/ req[r].pc # "release"
    <3>1. releases' = releases /\ Releasing' = Releasing
      BY <1>1, <2>1, HandlerEffect DEF Releasing, OthersSame
    <3> QED  BY <1>3, <1>5, <3>1 DEF Promised
  <2>2. CASE req'[r].pc # "release" /\ req[r].pc = "release"
    <3>1. Cardinality(Releasing') = Cardinality(Releasing) - 1
      BY <1>1, <1>3, <2>2, RequestCounts
    <3>2. Promised' = Promised - 1
      BY <1>3, <1>5, <3>1 DEF Promised
    <3>3. releases' = releases \/ releases' = releases + 1
      BY HandlerEffect
    <3>4. /\ releases \in Nat /\ Promised \in Nat
      BY <1>5
    <3> QED  BY <3>2, <3>3, <3>4
  <2> QED  BY <2>1, <2>2
<1>7. Acceptances' >= Acceptances
  <2>1. CASE Len(disputes') = Len(disputes) + 1
    <3>1. /\ Cardinality(Disputing') \in Nat
          /\ Cardinality(Disputing') <= Cardinality(Disputing) + 1
      BY <1>1, <1>3, <1>5, RequestCounts
    <3> QED  BY <1>2, <1>5, <2>1, <3>1 DEF Acceptances
  <2>2. CASE Len(disputes') = Len(disputes) /\ (At(r, "disputeOpen", "move")' => At(r, "disputeOpen", "move"))
    <3>1. /\ Cardinality(Disputing') \in Nat
          /\ Cardinality(Disputing') <= Cardinality(Disputing)
      BY <1>1, <1>3, <1>5, <2>2, RequestCounts
    <3> QED  BY <1>2, <1>5, <2>2, <3>1 DEF Acceptances
  <2>3. \/ Len(disputes') = Len(disputes) + 1
        \/ /\ Len(disputes') = Len(disputes)
           /\ At(r, "disputeOpen", "move")' => At(r, "disputeOpen", "move")
    BY HandlerEffect
  <2> QED  BY <2>1, <2>2, <2>3
<1>8. releases' \in Int /\ Promised' \in Int /\ Acceptances' \in Int
  BY <1>5
<1> QED  BY <1>4, <1>6, <1>7, <1>8, KeepsBound

LEMMA WorkerReleases ==
  ASSUME TypeInv, TypeInv', ReleaseInv, WorkerStep
  PROVE  ReleaseInv'
<1>1. UNCHANGED <<req, disputes>>
  BY WorkerKeeps
<1>2. Releasing' = Releasing /\ Disputing' = Disputing /\ Counted /\ \A r \in Requests : OpCarries(r)'
  BY <1>1 DEF Releasing, Disputing, At, OpCarries, ReleaseInv
<1>3. /\ releases \in Nat /\ Promised \in Nat /\ Acceptances \in Int
      /\ Cardinality(Releasing) \in Nat /\ Cardinality(SweepReleasing) \in Nat
      /\ Cardinality(Disputing) \in Nat /\ Len(disputes) \in Nat
  BY <1>2, ReleaseTypes
<1>4. ASSUME IsFiniteSet(SweepReleasing')
      PROVE  /\ Counted' /\ Promised' \in Nat /\ Acceptances' \in Int /\ releases' \in Nat
  <2>1. Counted'
    BY <1>2, <1>4 DEF Counted
  <2> QED  BY <2>1, ReleaseTypesNext
<1>5. CASE WindowElapses \/ UNCHANGED vars
  <2>1. UNCHANGED <<status, releases, SweepReleasing>>
    BY <1>5 DEF WindowElapses, vars, rows, SweepReleasing
  <2>2. Promised' = Promised /\ Acceptances' = Acceptances /\ IsFiniteSet(SweepReleasing')
    BY <1>1, <1>2, <2>1 DEF Promised, Acceptances, Counted
  <2> QED  BY <1>2, <1>3, <1>4, <2>1, <2>2, KeepsBound
<1>6. ASSUME NEW w \in Sweepers, AutoAcceptOrders(w)  PROVE ReleaseInv'
  <2>1. /\ sweep' = [sweep EXCEPT ![w] = "release"] /\ sweep[w] = "idle" /\ releases' = releases
        /\ NextAcceptance(status) = 1 /\ NextAcceptance(status') = 0
    BY <1>6 DEF AutoAcceptOrders, NextAcceptance
  <2>2. /\ IsFiniteSet(SweepReleasing')
        /\ Cardinality(SweepReleasing') = Cardinality(SweepReleasing) + 1
    BY <1>2, <2>1, SweepCounts
  <2>3. Promised' = Promised + 1
    BY <1>2, <1>3, <2>2 DEF Promised
  <2>4. Acceptances' = Acceptances + 1
    BY <1>1, <1>2, <1>3, <2>1 DEF Acceptances
  <2> QED  BY <1>2, <1>3, <1>4, <2>1, <2>2, <2>3, <2>4, KeepsBound
<1>7. ASSUME NEW w \in Sweepers, sweepReleaseSellerEarnings(w) \/ SweepAbort(w)  PROVE ReleaseInv'
  <2>1. /\ sweep' = [sweep EXCEPT ![w] = "idle"] /\ sweep[w] = "release" /\ status' = status
        /\ releases' = releases \/ releases' = releases + 1
    BY <1>7 DEF sweepReleaseSellerEarnings, SweepAbort, PostRelease, rows
  <2>2. /\ IsFiniteSet(SweepReleasing')
        /\ Cardinality(SweepReleasing') = Cardinality(SweepReleasing) - 1
    BY <1>2, <2>1, SweepCounts
  <2>3. Promised' = Promised - 1
    BY <1>2, <1>3, <2>2 DEF Promised
  <2>4. Acceptances' = Acceptances
    BY <1>1, <1>2, <2>1 DEF Acceptances
  <2>5. releases' + Promised' <= releases + Promised
    BY <1>3, <2>1, <2>3
  <2> QED  BY <1>2, <1>3, <1>4, <2>2, <2>4, <2>5, KeepsBound
<1> QED  BY <1>5, <1>6, <1>7 DEF WorkerStep

LEMMA ReleaseInvStep ==
  ASSUME TypeInv, TypeInv', MoveInv, ReleaseInv, [Next]_vars
  PROVE  ReleaseInv'
BY MoveReleases, HandlerReleases, WorkerReleases, NextSplit DEF Continue

-----------------------------------------------------------------------------
(* The inductive invariant and what follows from it.                        *)

IInv == TypeInv /\ UnderLock /\ MoveInv /\ DecisionInv /\ AcceptInv /\ ReleaseInv

LEMMA IInvInit ==
  ASSUME Init
  PROVE  IInv
<1> USE UsersAssumption, BoundsAssumption DEF Init, Idle, At
<1>1. TypeInv
  <2>1. Idle \in RequestState
    BY DEF RequestState, Pcs, Ops, OrderStates
  <2>2. <<>> \in Seq(Nat) /\ <<>> \in Seq(CancellationRow) /\ <<>> \in Seq(DisputeRow)
    OBVIOUS
  <2>3. TypeOK
    BY <2>1, <2>2 DEF TypeOK, OrderStates
  <2> QED  BY <2>3 DEF TypeInv, RowsExist, RowExists
<1>2. UnderLock
  BY DEF UnderLock, LockInv, DeliveryVersions, RevisionAllowance, AllowanceLeft
<1>3. MoveInv /\ DecisionInv /\ AcceptInv
  BY DEF MoveInv, MoveAllowed, DecisionInv, CancelledByDecision, DecidedBeforeMove, AcceptInv,
     ReviewAfterAcceptance
<1>4. ReleaseInv
  <2>1. Releasing = {} /\ SweepReleasing = {} /\ Disputing = {} /\ NextAcceptance(status) = 1
    BY DEF Releasing, SweepReleasing, Disputing, NextAcceptance
  <2>2. \A r \in Requests : OpCarries(r)
    BY DEF OpCarries
  <2>3. Counted /\ Promised = 0
    BY <2>1, FS_EmptySet DEF Counted, Promised
  <2>4. Acceptances = 0
    BY <2>1, FS_EmptySet DEF Acceptances
  <2> QED  BY <2>2, <2>3, <2>4 DEF ReleaseInv
<1> QED  BY <1>1, <1>2, <1>3, <1>4 DEF IInv

LEMMA IInvStep ==
  ASSUME IInv, [Next]_vars
  PROVE  IInv'
<1>1. TypeInv'
  BY StepTyped DEF IInv, UnderLock
<1>2. UnderLock'
  <2>1. CASE WorkerStep
    BY <2>1, WorkerKeeps DEF IInv, UnderLock, LockInv, DeliveryVersions, RevisionAllowance, AllowanceLeft, At
  <2> QED  BY <2>1, UnderLockStep, NextSplit DEF IInv
<1>3. MoveInv' /\ DecisionInv' /\ AcceptInv' /\ ReleaseInv'
  BY <1>1, MoveInvStep, DecisionInvStep, AcceptInvStep, ReleaseInvStep DEF IInv
<1> QED  BY <1>1, <1>2, <1>3 DEF IInv

LEMMA Invariance == Spec => []IInv
BY IInvInit, IInvStep, PTL DEF Spec

(***************************************************************************)
(* Every reachable state has the declared shape (TypeOK).                  *)
(***************************************************************************)
THEOREM TypeCorrect == Spec => []TypeOK
<1>1. IInv => TypeOK
  BY DEF IInv, TypeInv
<1> QED  BY <1>1, Invariance, PTL

(***************************************************************************)
(* However many sellers' requests race in CreateDelivery, versions are     *)
(* consecutive and the UNIQUE constraint is never hit (DeliveryVersions).  *)
(***************************************************************************)
THEOREM VersionsConsecutive == Spec => []DeliveryVersions
<1>1. IInv => DeliveryVersions
  BY DEF IInv, UnderLock
<1> QED  BY <1>1, Invariance, PTL

(***************************************************************************)
(* However many revision requests race in CreateRevisionRequest, the       *)
(* package's allowance is never exceeded (RevisionAllowance).              *)
(***************************************************************************)
THEOREM AllowanceKept == Spec => []RevisionAllowance
<1>1. IInv => RevisionAllowance
  BY DEF IInv, UnderLock
<1> QED  BY <1>1, Invariance, PTL

(***************************************************************************)
(* A cancelled order carries the approval or the dispute decision that     *)
(* cancelled it (CancelledByDecision).                                     *)
(***************************************************************************)
THEOREM CancellationDecided == Spec => []CancelledByDecision
<1>1. IInv => CancelledByDecision
  BY DEF IInv, DecisionInv
<1> QED  BY <1>1, Invariance, PTL

(***************************************************************************)
(* However many acceptances, sweeps and disputes race, the earnings are    *)
(* released at most once plus once per dispute (ReleasesBounded).          *)
(***************************************************************************)
THEOREM ReleasesLimited == Spec => []ReleasesBounded
<1>1. IInv => ReleasesBounded
  <2>1. SUFFICES ASSUME IInv  PROVE ReleasesBounded
    OBVIOUS
  <2>2. /\ releases \in Nat /\ Promised \in Nat /\ Acceptances \in Int /\ Len(disputes) \in Nat
        /\ Acceptances <= 1 + Len(disputes) /\ releases + Promised <= Acceptances
    BY <2>1, ReleaseTypes DEF IInv, ReleaseInv
  <2> QED  BY <2>2 DEF ReleasesBounded
<1> QED  BY <1>1, Invariance, PTL

(***************************************************************************)
(* Only an order that was accepted is ever reviewed                        *)
(* (ReviewAfterAcceptance).                                                *)
(***************************************************************************)
THEOREM ReviewsAreOfAccepted == Spec => []ReviewAfterAcceptance
<1>1. IInv => ReviewAfterAcceptance
  BY DEF IInv, AcceptInv
<1> QED  BY <1>1, Invariance, PTL

(***************************************************************************)
(* No step changes a decided cancellation request or a resolved dispute    *)
(* (DecisionsFinal).                                                       *)
(***************************************************************************)
THEOREM DecisionsStand == Spec => DecisionsFinal
<1>1. IInv /\ [Next]_vars => [KeepsDecisions]_vars
  BY RowsKeepDecisions DEF IInv, KeepsDecisions
<1> QED  BY <1>1, Invariance, PTL DEF Spec, DecisionsFinal

(***************************************************************************)
(* The handlers and the sweep implement the abstract status machine        *)
(* (ImplementsLifecycle): every step either leaves the status alone or     *)
(* takes one entry of the transition table.                                *)
(***************************************************************************)
LEMMA StepsOfTable ==
  ASSUME IInv, [Next]_vars
  PROVE  [Lifecycle!Next]_status
<1>t. orderTransitions = Lifecycle!orderTransitions
  BY DEF orderTransitions, Lifecycle!orderTransitions
<1> USE <1>t DEF Lifecycle!Next
<1>1. ASSUME NEW r \in Requests, TransitionOrder(r)  PROVE status' \in orderTransitions[status]
  <2>1. req[r].op # "review" /\ req[r].pc = "move" /\ status = req[r].from
    BY <1>1 DEF TransitionOrder, StatusUnchanged, IInv, MoveInv, MoveAllowed
  <2>2. status' = req[r].to /\ MoveAllowed(r)
    BY <1>1 DEF TransitionOrder, IInv, MoveInv
  <2> QED  BY <2>1, <2>2 DEF MoveAllowed, CanTransitionOrder
<1>2. ASSUME NEW r \in Requests, Continue(r) \/ Abort(r), ~TransitionOrder(r)  PROVE status' = status
  BY <1>2 DEF Continue, Abort, rows, CreateDeliveryLock, CreateDeliveryInsert,
     CreateRevisionRequestLock, CreateRevisionRequestInsert, CreateCancellationRequest,
     GetOpenCancellationRequest, ResolveCancellationRequest, CreateDispute, GetOpenDispute,
     ResolveDispute, CreateReview, releaseSellerEarnings, Refused
<1>3. ASSUME NEW r \in Requests, Begin(r)  PROVE status' = status
  BY <1>3 DEF Begin, orderDeliver, orderRevise, orderAccept, orderCancelRequest,
     orderCancelResolve, orderDisputeOpen, orderDisputeResolve, orderReviewCreate, loadOrderAccess
<1>4. CASE WorkerStep
  <2>1. status' = status \/ (status = "delivered" /\ status' = "accepted")
    BY <1>4 DEF WorkerStep, WindowElapses, AutoAcceptOrders, sweepReleaseSellerEarnings, SweepAbort, vars
  <2> QED  BY <2>1 DEF orderTransitions
<1> QED  BY <1>1, <1>2, <1>3, <1>4, NextSplit

THEOREM WorkflowImplementsLifecycle == Spec => ImplementsLifecycle
<1>1. Init => Lifecycle!Init
  BY DEF Init, Lifecycle!Init
<1>2. IInv /\ [Next]_vars => [Lifecycle!Next]_status
  BY StepsOfTable
<1> QED  BY <1>1, <1>2, Invariance, PTL DEF Spec, ImplementsLifecycle, Lifecycle!Spec

(***************************************************************************)
(* services/orders.go:3-5: payout_pending and paid_out cannot be reached,  *)
(* because no status outside the pair has an entry that leads into it.     *)
(***************************************************************************)
THEOREM PayoutNeverReached == Spec => []Lifecycle!PayoutStatesUnreachable
<1> USE DEF Lifecycle!PayoutStatesUnreachable
<1>1. Init => Lifecycle!PayoutStatesUnreachable
  BY DEF Init
<1>2. IInv /\ Lifecycle!PayoutStatesUnreachable /\ [Next]_vars => Lifecycle!PayoutStatesUnreachable'
  <2>1. SUFFICES ASSUME IInv, Lifecycle!PayoutStatesUnreachable, [Next]_vars
        PROVE  Lifecycle!PayoutStatesUnreachable'
    OBVIOUS
  <2>2. status' = status \/ status' \in Lifecycle!orderTransitions[status]
    BY <2>1, StepsOfTable DEF Lifecycle!Next
  <2>3. \A s \in OrderStates \ {"payout_pending", "paid_out"} :
           "payout_pending" \notin Lifecycle!orderTransitions[s] /\ "paid_out" \notin Lifecycle!orderTransitions[s]
    BY DEF Lifecycle!orderTransitions, OrderStates
  <2>4. status \in OrderStates
    BY <2>1 DEF IInv, TypeInv, TypeOK
  <2> QED  BY <2>1, <2>2, <2>3, <2>4
<1> QED  BY <1>1, <1>2, Invariance, PTL DEF Spec

=============================================================================
