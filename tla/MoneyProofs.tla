----------------------------- MODULE MoneyProofs -----------------------------
(***************************************************************************)
(* Theorems about money on both sides of an order: Ledger and Settlement,  *)
(* for every total, fee, provider, number of refund requests, acceptances  *)
(* and adjustments; and Reconciliation, for any number of payments and     *)
(* sweeps, any limit of the list and any configurations of providers.  The *)
(* two share nothing.                                                      *)
(***************************************************************************)
EXTENDS Settlement, Reconciliation, FiniteSetTheorems, SequenceTheorems, TLAPS

(***************************************************************************)
(* Settlement.                                                             *)
(***************************************************************************)
Balances == [Kinds -> Int]
Postings == [debit : Balances, credit : Balances]

-----------------------------------------------------------------------------
(* The postings.                                                             *)

\* Nothing is a balance, zero on every kind.
LEMMA NothingType == Nothing \in Balances /\ \A k \in Kinds : Nothing[k] = 0
  BY DEF Nothing, Balances

\* Applying a posting gives balances again, each moved by its own entries.
LEMMA ApplyType ==
  ASSUME NEW b \in Balances, NEW p \in Postings
  PROVE  /\ Apply(b, p) \in Balances
         /\ \A k \in Kinds : Apply(b, p)[k] = b[k] + p.credit[k] - p.debit[k]
  BY DEF Apply, Balances, Postings

\* The kinds one by one: what is true of every kind is true of each of the six.
LEMMA EachKind ==
  /\ "platform_revenue" \in Kinds /\ "seller_pending" \in Kinds
  /\ "seller_available" \in Kinds /\ "refunds" \in Kinds
  /\ "reserves" \in Kinds /\ "provider_clearing" \in Kinds
  BY DEF Kinds

\* A total is a sum of integers, and adds up like its summands.
LEMMA TotalSum ==
  ASSUME NEW f, NEW g, NEW h, NEW i,
         \A k \in Kinds : g[k] \in Int /\ h[k] \in Int /\ i[k] \in Int
                           /\ f[k] = g[k] + h[k] - i[k]
  PROVE  /\ Total(g) \in Int /\ Total(h) \in Int /\ Total(i) \in Int
         /\ Total(f) = Total(g) + Total(h) - Total(i)
  BY EachKind DEF Total

\* A posting that validates leaves the total as it was.
LEMMA ApplyTotal ==
  ASSUME NEW b \in Balances, NEW p \in Postings, Validate(p)
  PROVE  Total(Apply(b, p)) = Total(b)
  <1>1. \A k \in Kinds : Apply(b, p)[k] = b[k] + p.credit[k] - p.debit[k]
    BY ApplyType
  <1>2. \A k \in Kinds : b[k] \in Int /\ p.credit[k] \in Int /\ p.debit[k] \in Int
    BY DEF Balances, Postings
  <1>3. /\ Total(b) \in Int /\ Total(p.credit) \in Int /\ Total(p.debit) \in Int
        /\ Total(Apply(b, p)) = Total(b) + Total(p.credit) - Total(p.debit)
    BY <1>1, <1>2, TotalSum
  <1> QED BY <1>3 DEF Validate

\* What PaymentCaptured debits and credits.
LEMMA CaptureEntries ==
  ASSUME NEW gross \in Int, NEW fee \in Int
  PROVE  LET p == PaymentCaptured(gross, fee) IN
         /\ p \in Postings
         /\ \A k \in Kinds : p.debit[k] = IF k = "provider_clearing" THEN gross ELSE 0
         /\ \A k \in Kinds : p.credit[k] = IF k = "platform_revenue" THEN fee
                                           ELSE IF k = "seller_pending" THEN gross - fee ELSE 0
  BY DEF PaymentCaptured, Nothing, Postings, Balances, Kinds

\* What EarningsReleased debits and credits.
LEMMA ReleaseEntries ==
  ASSUME NEW amount \in Int
  PROVE  LET p == EarningsReleased(amount) IN
         /\ p \in Postings
         /\ \A k \in Kinds : p.debit[k] = IF k = "seller_pending" THEN amount ELSE 0
         /\ \A k \in Kinds : p.credit[k] = IF k = "seller_available" THEN amount ELSE 0
  BY DEF EarningsReleased, Nothing, Postings, Balances, Kinds

\* What RefundIssued debits and credits.
LEMMA RefundEntries ==
  ASSUME NEW amount \in Int, NEW fee \in Int, NEW available \in BOOLEAN
  PROVE  LET p == RefundIssued(amount, fee, available) IN
         /\ p \in Postings
         /\ \A k \in Kinds : p.debit[k] = IF k = "refunds" THEN amount
                                          ELSE IF k = "platform_revenue" THEN fee
                                          ELSE IF k = SellerAccount(available) THEN amount - fee ELSE 0
         /\ \A k \in Kinds : p.credit[k] = IF k \in {"provider_clearing", "refunds"} THEN amount ELSE 0
         /\ SellerAccount(available) \in {"seller_pending", "seller_available"}
  BY DEF RefundIssued, SellerAccount, Nothing, Postings, Balances, Kinds

\* What ManualAdjustment debits and credits.
LEMMA AdjustmentEntries ==
  ASSUME NEW from \in Kinds, NEW to \in Kinds, NEW amount \in Int
  PROVE  LET p == ManualAdjustment(from, to, amount) IN
         /\ p \in Postings
         /\ \A k \in Kinds : p.debit[k] = IF k = from THEN amount ELSE 0
         /\ \A k \in Kinds : p.credit[k] = IF k = to THEN amount ELSE 0
  BY DEF ManualAdjustment, Nothing, Postings, Balances

\* ledger.go:136-139: "the invariant every posting function above must
\* satisfy".  Whatever the amounts, the store never refuses what they build.
THEOREM PostingsValidate ==
  ASSUME NEW gross \in Nat \ {0}, NEW fee \in 0..gross, NEW available \in BOOLEAN,
         NEW from \in Kinds, NEW to \in Kinds
  PROVE  /\ Validate(PaymentCaptured(gross, fee))
         /\ Validate(EarningsReleased(gross))
         /\ Validate(RefundIssued(gross, fee, available))
         /\ Validate(ManualAdjustment(from, to, gross))
  <1>1. Validate(PaymentCaptured(gross, fee))
    <2> DEFINE p == PaymentCaptured(gross, fee)
    <2>0. gross \in Int /\ fee \in Int
      OBVIOUS
    <2>a. /\ \A k \in Kinds : p.debit[k] = IF k = "provider_clearing" THEN gross ELSE 0
          /\ \A k \in Kinds : p.credit[k] = IF k = "platform_revenue" THEN fee
                                            ELSE IF k = "seller_pending" THEN gross - fee ELSE 0
      BY <2>0, CaptureEntries
    <2> HIDE DEF p
    <2>1. Total(p.debit) = gross /\ Total(p.credit) = gross
      BY <2>0, <2>a, EachKind DEF Total
    <2> QED BY <2>1 DEF Validate, p
  <1>2. Validate(EarningsReleased(gross))
    <2> DEFINE p == EarningsReleased(gross)
    <2>1. /\ Total(p.debit) = gross
          /\ Total(p.credit) = gross
      BY ReleaseEntries, EachKind DEF Total
    <2> QED BY <2>1 DEF Validate
  <1>3. Validate(RefundIssued(gross, fee, available))
    <2> DEFINE p == RefundIssued(gross, fee, available)
    <2>1. /\ Total(p.debit) = gross + gross
          /\ Total(p.credit) = gross + gross
      BY RefundEntries, EachKind DEF Total
    <2> QED BY <2>1 DEF Validate
  <1>4. Validate(ManualAdjustment(from, to, gross))
    <2> DEFINE p == ManualAdjustment(from, to, gross)
    <2>a. /\ \A k \in Kinds : p.debit[k] = IF k = from THEN gross ELSE 0
          /\ \A k \in Kinds : p.credit[k] = IF k = to THEN gross ELSE 0
      BY AdjustmentEntries
    <2> HIDE DEF p
    <2>1. Total(p.debit) = gross
      BY <2>a, EachKind DEF Total, Kinds
    <2>2. Total(p.credit) = gross
      BY <2>a, EachKind DEF Total, Kinds
    <2> QED BY <2>1, <2>2 DEF Validate, p
  <1> QED BY <1>1, <1>2, <1>3, <1>4

-----------------------------------------------------------------------------
(* Types.                                                                    *)

\* Posting to one currency changes that currency's balances alone.
LEMMA PostEffect ==
  ASSUME ledger \in [Currencies -> Balances], NEW c \in Currencies, NEW p \in Postings,
         PostLedgerEntries(c, p)
  PROVE  /\ ledger' \in [Currencies -> Balances]
         /\ \A k \in Kinds : ledger'[c][k] = ledger[c][k] + p.credit[k] - p.debit[k]
         /\ \A d \in Currencies \ {c} : ledger'[d] = ledger[d]
         /\ \A d \in Currencies : Total(ledger'[d]) = Total(ledger[d])
  <1>1. ledger' = [ledger EXCEPT ![c] = Apply(ledger[c], p)] /\ Validate(p)
    BY DEF PostLedgerEntries
  <1>2. /\ Apply(ledger[c], p) \in Balances
        /\ \A k \in Kinds : Apply(ledger[c], p)[k] = ledger[c][k] + p.credit[k] - p.debit[k]
    BY ApplyType
  <1>3. Total(Apply(ledger[c], p)) = Total(ledger[c])
    BY <1>1, ApplyTotal
  <1> QED BY <1>1, <1>2, <1>3

\* Every step that touches the ledger posts one of the four postings.
Posts ==
  \/ ledger' = ledger
  \/ \E c \in Currencies, p \in Postings : PostLedgerEntries(c, p)

\* The amounts of the order.
LEMMA Amounts == Gross \in Int /\ Fee \in Int /\ Payable \in Int /\ Payable = Gross - Fee
  BY AmountsAssumption DEF Payable

\* The ledger is only written by postings.
LEMMA OnlyPostings == ASSUME TypeOK, [Next]_vars PROVE Posts
  <1> USE DEF Posts
  <1>1. CASE PostCapture
    BY <1>1, CaptureEntries, Amounts DEF PostCapture, Currencies
  <1>2. ASSUME NEW a \in Acceptances, releaseSellerEarnings(a) PROVE Posts
    BY <1>2, ReleaseEntries, Amounts DEF releaseSellerEarnings, Currencies
  <1>3. ASSUME NEW r \in Refunds, PostRefund(r) PROVE Posts
    <2>1. req[r].available \in BOOLEAN
      BY DEF TypeOK
    <2> QED BY <1>3, <2>1, RefundEntries, Amounts DEF PostRefund, Currencies
  <1>4. ASSUME NEW from \in Kinds, NEW to \in Kinds, NEW amount \in 1..MaxAmount,
               adminLedgerAdjust(from, to, amount)
        PROVE  Posts
    BY <1>4, AdjustmentEntries, BoundAssumption DEF adminLedgerAdjust, Currencies
  <1>5. CASE UNCHANGED vars
    BY <1>5 DEF vars
  <1>6. CASE Reopen
    BY <1>6 DEF Reopen
  <1>7. ASSUME NEW a \in Acceptances, Accept(a) PROVE Posts
    BY <1>7 DEF Accept
  <1>8. ASSUME NEW r \in Refunds, ProviderSettles(r) \/ (adminOrderRefund(r) /\ ~PostRefund(r))
        PROVE  Posts
    BY <1>8 DEF ProviderSettles, adminOrderRefund, GetOrder, GetRefundForOrder, ProviderRefund,
                CreateRefund, SetRefundStatus, Abort
  <1> QED BY <1>1, <1>2, <1>3, <1>4, <1>5, <1>6, <1>7, <1>8 DEF Next, adminOrderRefund

LEMMA InitType == Init => TypeOK
  <1> SUFFICES ASSUME Init PROVE TypeOK
    OBVIOUS
  <1>1. ledger \in [Currencies -> [Kinds -> Int]] /\ adjusted \in [Kinds -> Int]
    BY NothingType DEF Init, Balances
  <1>2. req \in [Refunds -> [pc : {"idle", "check", "call", "create", "set", "post", "ended"},
                             available : BOOLEAN, answer : Answers]]
    BY DEF Init, Answers
  <1>3. adjustments \in 0..MaxAdjustments
    BY BoundAssumption DEF Init
  <1> QED BY <1>1, <1>2, <1>3 DEF Init, TypeOK

RequestState == [pc : {"idle", "check", "call", "create", "set", "post", "ended"},
                 available : BOOLEAN, answer : Answers]

\* A request that is given a new state keeps all requests typed.
LEMMA RequestTyped ==
  ASSUME TypeOK, NEW r \in Refunds, NEW x \in RequestState, req' = [req EXCEPT ![r] = x]
  PROVE  req' \in [Refunds -> RequestState]
  BY DEF TypeOK, RequestState

\* The states a request goes through.
LEMMA RequestStates ==
  ASSUME TypeOK, NEW r \in Refunds,
         NEW pc \in {"check", "call", "create", "set", "post", "ended"},
         NEW available \in BOOLEAN, NEW answer \in Answers
  PROVE  /\ [req[r] EXCEPT !.pc = pc] \in RequestState
         /\ [req[r] EXCEPT !.pc = pc, !.available = available] \in RequestState
         /\ [req[r] EXCEPT !.pc = pc, !.answer = answer] \in RequestState
  <1>1. req[r] \in RequestState
    BY DEF TypeOK, RequestState
  <1> QED BY <1>1 DEF RequestState

\* A request that goes on keeps its type.
LEMMA GotoTyped ==
  ASSUME TypeOK, NEW r \in Refunds,
         NEW pc \in {"check", "call", "create", "set", "post", "ended"}, Goto(r, pc)
  PROVE  req' \in [Refunds -> RequestState]
  <1> DEFINE x == [req[r] EXCEPT !.pc = pc]
  <1>1. x \in RequestState
    <2>1. req[r] \in RequestState
      BY DEF TypeOK, RequestState
    <2> QED BY <2>1 DEF RequestState
  <1>2. req' = [req EXCEPT ![r] = x]
    BY DEF Goto
  <1> HIDE DEF x
  <1> QED BY <1>1, <1>2, RequestTyped

\* What a request's step has to show: its own state and the rows stay typed.
LEMMA RequestStepTyped ==
  ASSUME TypeOK, req' \in [Refunds -> RequestState],
         refund' \in [Refunds -> {"none", "pending", "succeeded", "failed"}],
         key' \in Answers \cup {"none"},
         provider' \in [Refunds -> Answers \cup {"none"}],
         posted' \subseteq Refunds,
         ledger' \in [Currencies -> [Kinds -> Int]],
         UNCHANGED <<orderVars, adminVars>>
  PROVE  TypeOK'
  BY DEF TypeOK, RequestState, orderVars, adminVars

\* Every step of a refund request keeps the types.
LEMMA RefundStepType ==
  ASSUME TypeOK, NEW r \in Refunds, adminOrderRefund(r),
         ledger' \in [Currencies -> [Kinds -> Int]]
  PROVE  TypeOK'
  <1>a. /\ refund \in [Refunds -> {"none", "pending", "succeeded", "failed"}]
        /\ key \in Answers \cup {"none"}
        /\ provider \in [Refunds -> Answers \cup {"none"}]
        /\ posted \subseteq Refunds
        /\ acceptedAt \in BOOLEAN
    BY DEF TypeOK
  <1>b. "none" \notin Answers
    BY DEF Answers
  <1>1. CASE GetOrder(r)
    <2> DEFINE x == [req[r] EXCEPT !.pc = "check", !.available = acceptedAt]
    <2>1. x \in RequestState
      <3>1. \E answer : answer \in Answers
        BY DEF Answers
      <3> QED BY <1>a, <3>1, RequestStates
    <2>2. req' = [req EXCEPT ![r] = x]
      BY <1>1 DEF GetOrder
    <2> HIDE DEF x
    <2>3. req' \in [Refunds -> RequestState]
      BY <2>1, <2>2, RequestTyped
    <2> QED BY <1>1, <1>a, <2>3, RequestStepTyped DEF GetOrder
  <1>2. CASE GetRefundForOrder(r)
    BY <1>2, <1>a, GotoTyped, RequestStepTyped DEF GetRefundForOrder
  <1>3. CASE ProviderRefund(r)
    <2>1. PICK answer \in Answers :
            /\ req' = [req EXCEPT ![r].pc = "create", ![r].answer = answer]
            /\ key' \in Answers \cup {"none"}
            /\ provider' \in [Refunds -> Answers \cup {"none"}]
      <3>1. CASE Replayed /\ req' = [req EXCEPT ![r].pc = "create", ![r].answer = key]
                          /\ UNCHANGED <<key, provider>>
        <4>1. key \in Answers
          BY <3>1, <1>a DEF Replayed
        <4> QED BY <3>1, <4>1, <1>a
      <3>2. ASSUME NEW answer \in FirstAnswers,
                   req' = [req EXCEPT ![r].pc = "create", ![r].answer = answer],
                   key' = answer, provider' = [provider EXCEPT ![r] = answer]
            PROVE  /\ answer \in Answers
                   /\ provider' \in [Refunds -> Answers \cup {"none"}]
        <4>1. answer \in Answers
          BY DEF FirstAnswers, Answers
        <4> QED BY <3>2, <4>1, <1>a
      <3> QED BY <1>3, <3>1, <3>2 DEF ProviderRefund
    <2> DEFINE x == [req[r] EXCEPT !.pc = "create", !.answer = answer]
    <2>2. x \in RequestState
      BY RequestStates
    <2>3. req' = [req EXCEPT ![r] = x]
      BY <2>1
    <2> HIDE DEF x
    <2>4. req' \in [Refunds -> RequestState]
      BY <2>2, <2>3, RequestTyped
    <2> QED BY <1>3, <1>a, <2>1, <2>4, RequestStepTyped DEF ProviderRefund
  <1>4. CASE CreateRefund(r)
    <2>1. refund' \in [Refunds -> {"none", "pending", "succeeded", "failed"}]
      BY <1>4, <1>a DEF CreateRefund
    <2>2. req' \in [Refunds -> RequestState]
      BY <1>4, GotoTyped DEF CreateRefund
    <2> QED BY <1>4, <1>a, <2>1, <2>2, RequestStepTyped DEF CreateRefund
  <1>5. CASE SetRefundStatus(r)
    <2>1. refund' \in [Refunds -> {"none", "pending", "succeeded", "failed"}]
      BY <1>5, <1>a DEF SetRefundStatus, RefundStatuses
    <2>2. req' \in [Refunds -> RequestState]
      BY <1>5, GotoTyped DEF SetRefundStatus
    <2> QED BY <1>5, <1>a, <2>1, <2>2, RequestStepTyped DEF SetRefundStatus
  <1>6. CASE PostRefund(r)
    BY <1>6, <1>a, GotoTyped, RequestStepTyped DEF PostRefund
  <1>7. CASE Abort(r)
    BY <1>7, <1>a, GotoTyped, RequestStepTyped DEF Abort
  <1> QED BY <1>1, <1>2, <1>3, <1>4, <1>5, <1>6, <1>7 DEF adminOrderRefund

\* Every step keeps the types.
LEMMA StepType == TypeOK /\ [Next]_vars => TypeOK'
  <1> SUFFICES ASSUME TypeOK, [Next]_vars PROVE TypeOK'
    OBVIOUS
  <1>a. ledger' \in [Currencies -> [Kinds -> Int]]
    <2>1. ledger \in [Currencies -> Balances]
      BY DEF TypeOK, Balances
    <2>2. ledger' \in [Currencies -> Balances]
      BY <2>1, OnlyPostings, PostEffect DEF Posts
    <2> QED BY <2>2 DEF Balances
  <1> USE <1>a DEF TypeOK, orderVars, refundVars, adminVars, Goto
  <1>1. CASE PostCapture
    BY <1>1 DEF PostCapture
  <1>2. CASE Reopen
    BY <1>2 DEF Reopen
  <1>3. ASSUME NEW a \in Acceptances, Accept(a) PROVE TypeOK'
    BY <1>3 DEF Accept
  <1>4. ASSUME NEW a \in Acceptances, releaseSellerEarnings(a) PROVE TypeOK'
    BY <1>4 DEF releaseSellerEarnings
  <1>5. ASSUME NEW r \in Refunds, adminOrderRefund(r) PROVE TypeOK'
    BY <1>5, <1>a, RefundStepType
  <1>6. ASSUME NEW r \in Refunds, ProviderSettles(r) PROVE TypeOK'
    BY <1>6 DEF ProviderSettles, Answers
  <1>7. ASSUME NEW from \in Kinds, NEW to \in Kinds, NEW amount \in 1..MaxAmount,
               adminLedgerAdjust(from, to, amount)
        PROVE  TypeOK'
    <2>1. adjusted' \in [Kinds -> Int]
      <3>1. ManualAdjustment(from, to, amount) \in Postings
        BY BoundAssumption, AdjustmentEntries
      <3>2. adjusted \in Balances
        BY DEF Balances
      <3>3. Apply(adjusted, ManualAdjustment(from, to, amount)) \in Balances
        BY <3>1, <3>2, ApplyType
      <3> QED BY <1>7, <3>3 DEF adminLedgerAdjust, Balances
    <2>2. adjustments' \in 0..MaxAdjustments
      BY <1>7, BoundAssumption DEF adminLedgerAdjust
    <2> QED BY <1>7, <2>1, <2>2 DEF adminLedgerAdjust
  <1>8. CASE UNCHANGED vars
    BY <1>8 DEF vars
  <1> QED BY <1>1, <1>2, <1>3, <1>4, <1>5, <1>6, <1>7, <1>8 DEF Next

\* Every variable keeps its type.
THEOREM TypeCorrect == Spec => []TypeOK
  BY InitType, StepType, PTL DEF Spec

\* Double entry: whatever handlers, sweeps and admins post, and in whatever
\* order, the accounts of each currency together stand at zero.
THEOREM DoubleEntry == Spec => []LedgerBalances
  <1>1. Init => LedgerBalances
    BY NothingType, EachKind DEF Init, LedgerBalances, Total
  <1>2. TypeOK /\ LedgerBalances /\ [Next]_vars => LedgerBalances'
    <2> SUFFICES ASSUME TypeOK, LedgerBalances, [Next]_vars PROVE LedgerBalances'
      OBVIOUS
    <2>1. ledger \in [Currencies -> Balances]
      BY DEF TypeOK, Balances
    <2>2. \A c \in Currencies : Total(ledger'[c]) = Total(ledger[c])
      BY <2>1, OnlyPostings, PostEffect DEF Posts
    <2> QED BY <2>2 DEF LedgerBalances
  <1> QED BY <1>1, <1>2, TypeCorrect, PTL DEF Spec

-----------------------------------------------------------------------------
(* One refund.                                                               *)

Live(r) == refund[r] \in {"pending", "succeeded"}

\* How far a request has come tells the state of its row; the unique index keeps
\* a second live row out, and a request posts once and only from "post".
RowInv ==
  /\ \A q, r \in Refunds : Live(q) /\ Live(r) => q = r
  /\ \A r \in Refunds :
       /\ req[r].pc \in {"idle", "check", "call", "create"} => refund[r] = "none"
       /\ req[r].pc = "set" => refund[r] = "pending"
       /\ req[r].pc = "post" => refund[r] = "succeeded" /\ r \notin posted
       /\ r \in posted => refund[r] = "succeeded"

\* The unique index and the order of the handler's calls keep RowInv.
LEMMA StepRow == TypeOK /\ RowInv /\ [Next]_vars => RowInv'
  <1> SUFFICES ASSUME TypeOK, RowInv, [Next]_vars PROVE RowInv'
    OBVIOUS
  <1> USE DEF TypeOK, RowInv, Live, Goto
  <1>1. CASE UNCHANGED <<req, refund, posted>>
    BY <1>1
  <1>2. ASSUME NEW r \in Refunds, adminOrderRefund(r) PROVE RowInv'
    <2>1. CASE GetOrder(r)
      BY <2>1 DEF GetOrder
    <2>2. CASE GetRefundForOrder(r)
      BY <2>2 DEF GetRefundForOrder
    <2>3. CASE ProviderRefund(r)
      <3>1. \A q \in Refunds : req'[q].pc = IF q = r THEN "create" ELSE req[q].pc
        BY <2>3 DEF ProviderRefund
      <3>2. req[r].pc = "call" /\ UNCHANGED <<refund, posted>>
        BY <2>3 DEF ProviderRefund
      <3> QED BY <3>1, <3>2
    <2>4. CASE CreateRefund(r)
      BY <2>4 DEF CreateRefund, Unique, HasRefund
    <2>5. CASE SetRefundStatus(r)
      BY <2>5 DEF SetRefundStatus, Recorded, RefundStatuses, Answers
    <2>6. CASE PostRefund(r)
      BY <2>6 DEF PostRefund
    <2>7. CASE Abort(r)
      BY <2>7 DEF Abort
    <2> QED BY <1>2, <2>1, <2>2, <2>3, <2>4, <2>5, <2>6, <2>7 DEF adminOrderRefund
  <1>3. CASE PostCapture \/ Reopen
    BY <1>1, <1>3 DEF PostCapture, Reopen, refundVars
  <1>4. ASSUME NEW a \in Acceptances, Accept(a) \/ releaseSellerEarnings(a) PROVE RowInv'
    BY <1>1, <1>4 DEF Accept, releaseSellerEarnings, refundVars
  <1>5. ASSUME NEW r \in Refunds, ProviderSettles(r) PROVE RowInv'
    BY <1>1, <1>5 DEF ProviderSettles
  <1>6. ASSUME NEW from \in Kinds, NEW to \in Kinds, NEW amount \in 1..MaxAmount,
               adminLedgerAdjust(from, to, amount)
        PROVE  RowInv'
    BY <1>1, <1>6 DEF adminLedgerAdjust, refundVars
  <1> QED BY <1>1, <1>2, <1>3, <1>4, <1>5, <1>6 DEF Next, vars

\* RowInv is an invariant.
LEMMA Rows == Spec => []RowInv
  <1>1. Init => RowInv
    BY DEF Init, RowInv, Live
  <1> QED BY <1>1, StepRow, TypeCorrect, PTL DEF Spec

\* However often the form is submitted, one refund is posted, and its row says
\* that it succeeded.
THEOREM RefundsPostedOnce == Spec => []RefundPostedOnce
  <1>1. TypeOK /\ RowInv => RefundPostedOnce
    BY DEF TypeOK, RowInv, Live, RefundPostedOnce
  <1> QED BY <1>1, Rows, TypeCorrect, PTL

\* What the provider did: it acts once for each request and, under a key, for one
\* request only; whoever was told "succeeded" was told so after it paid.
Paid == \E q \in Refunds : provider[q] = "succeeded"

CallInv ==
  /\ \A r \in Refunds : req[r].pc \in {"idle", "check", "call"} => provider[r] = "none"
  /\ Keyed => /\ key = "none" => \A r \in Refunds : provider[r] = "none"
              /\ \A q, r \in Refunds : provider[q] # "none" /\ provider[r] # "none" => q = r

PaidInv ==
  /\ key = "succeeded" => Paid
  /\ \A r \in Refunds : req[r].answer = "succeeded" \/ refund[r] = "succeeded" => Paid

\* What a step can do to the provider: nothing, settle a refund, or make one.
LEMMA ProviderSteps ==
  ASSUME TypeOK, [Next]_vars
  PROVE  \/ UNCHANGED <<key, provider>>
         \/ \E r \in Refunds : ProviderSettles(r) \/ ProviderRefund(r)
  BY DEF Next, vars, PostCapture, Reopen, Accept, releaseSellerEarnings, adminOrderRefund,
         GetOrder, GetRefundForOrder, CreateRefund, SetRefundStatus, PostRefund, Abort,
         adminLedgerAdjust, refundVars

\* Only an answer, or the row made of it, tells a request that a refund succeeded.
LEMMA AnswerSteps ==
  ASSUME TypeOK, [Next]_vars, NEW r \in Refunds
  PROVE  /\ \/ req'[r].answer = req[r].answer
            \/ ProviderRefund(r)
         /\ \/ refund'[r] = "succeeded" => refund[r] = "succeeded"
            \/ req[r].answer = "succeeded"
         /\ req'[r].pc \in {"idle", "check", "call"} => req[r].pc \in {"idle", "check", "call"}
  <1> USE DEF TypeOK, Goto, refundVars
  <1>1. ASSUME NEW q \in Refunds, adminOrderRefund(q)
        PROVE  /\ req'[r].answer = req[r].answer \/ ProviderRefund(r)
               /\ (refund'[r] = "succeeded" => refund[r] = "succeeded") \/ req[r].answer = "succeeded"
               /\ req'[r].pc \in {"idle", "check", "call"} => req[r].pc \in {"idle", "check", "call"}
    <2>1. CASE GetOrder(q)
      BY <2>1 DEF GetOrder
    <2>2. CASE GetRefundForOrder(q)
      BY <2>2 DEF GetRefundForOrder
    <2>3. CASE ProviderRefund(q)
      <3>1. \A t \in Refunds \ {q} : req'[t] = req[t]
        BY <2>3 DEF ProviderRefund
      <3>2. req'[q].pc = "create" /\ UNCHANGED refund
        BY <2>3 DEF ProviderRefund
      <3> QED BY <2>3, <3>1, <3>2
    <2>4. CASE CreateRefund(q)
      <3>1. CASE Unique
        BY <2>4, <3>1 DEF CreateRefund
      <3>2. CASE ~Unique
        BY <2>4, <3>2 DEF CreateRefund
      <3> QED BY <3>1, <3>2
    <2>5. CASE SetRefundStatus(q)
      <3>0. PICK pc \in {"ended", "post"} : req' = [req EXCEPT ![q].pc = pc]
        BY <2>5 DEF SetRefundStatus
      <3>1. /\ req'[r].answer = req[r].answer
            /\ req'[r].pc \in {"idle", "check", "call"} => req[r].pc \in {"idle", "check", "call"}
        BY <3>0
      <3>2. \A t \in Refunds : refund'[t] = refund[t] \/ (t = q /\ refund'[t] = req[t].answer)
        BY <2>5 DEF SetRefundStatus, Recorded, RefundStatuses
      <3>3. (refund'[r] = "succeeded" => refund[r] = "succeeded") \/ req[r].answer = "succeeded"
        BY <3>2
      <3> QED BY <3>1, <3>3
    <2>6. CASE PostRefund(q)
      BY <2>6 DEF PostRefund
    <2>7. CASE Abort(q)
      BY <2>7 DEF Abort
    <2> QED BY <1>1, <2>1, <2>2, <2>3, <2>4, <2>5, <2>6, <2>7 DEF adminOrderRefund
  <1>2. CASE UNCHANGED <<req, refund>>
    BY <1>2
  <1>3. UNCHANGED <<req, refund>> \/ \E q \in Refunds : adminOrderRefund(q)
    BY DEF Next, vars, PostCapture, Reopen, Accept, releaseSellerEarnings, ProviderSettles,
           adminLedgerAdjust
  <1> QED BY <1>1, <1>2, <1>3

\* The derived key keeps the provider from acting twice.
LEMMA StepCall == TypeOK /\ CallInv /\ [Next]_vars => CallInv'
  <1> SUFFICES ASSUME TypeOK, CallInv, [Next]_vars PROVE CallInv'
    OBVIOUS
  <1>0. \A r \in Refunds : req'[r].pc \in {"idle", "check", "call"} =>
                             req[r].pc \in {"idle", "check", "call"}
    BY AnswerSteps
  <1> USE DEF TypeOK, CallInv
  <1>1. CASE UNCHANGED <<key, provider>>
    BY <1>0, <1>1
  <1>2. ASSUME NEW r \in Refunds, ProviderSettles(r) PROVE CallInv'
    <2>1. PICK outcome \in {"succeeded", "failed"} : provider' = [provider EXCEPT ![r] = outcome]
      BY <1>2 DEF ProviderSettles
    <2>2. provider[r] = "processing" /\ key' = key
      BY <1>2 DEF ProviderSettles
    <2>3. \A q \in Refunds : provider'[q] = "none" <=> provider[q] = "none"
      BY <2>1, <2>2
    <2> QED BY <1>0, <2>2, <2>3
  <1>3. ASSUME NEW r \in Refunds, ProviderRefund(r), ~Replayed PROVE CallInv'
    <2>1. PICK answer \in FirstAnswers : key' = answer /\ provider' = [provider EXCEPT ![r] = answer]
      BY <1>3 DEF ProviderRefund
    <2>2. answer # "none"
      BY <2>1 DEF FirstAnswers, Answers
    <2>3. req'[r].pc = "create"
      BY <1>3 DEF ProviderRefund
    <2>4. Keyed => \A q \in Refunds : provider[q] = "none"
      BY <1>3 DEF Replayed
    <2> QED BY <1>0, <2>1, <2>2, <2>3, <2>4
  <1>4. ASSUME NEW r \in Refunds, ProviderRefund(r), Replayed PROVE CallInv'
    BY <1>1, <1>4 DEF ProviderRefund
  <1> QED BY <1>1, <1>2, <1>3, <1>4, ProviderSteps

\* CallInv is an invariant.
LEMMA Calls == Spec => []CallInv
  <1>1. Init => CallInv
    BY DEF Init, CallInv
  <1> QED BY <1>1, StepCall, TypeCorrect, PTL DEF Spec

\* A provider that honours the derived key refunds the buyer at most once,
\* however often the form is submitted and whatever is lost on the way.
THEOREM BuyersRefundedOnce == Spec => []BuyerRefundedOnce
  <1>1. CallInv => BuyerRefundedOnce
    BY DEF CallInv, BuyerRefundedOnce
  <1> QED BY <1>1, Calls, PTL

\* A refund that was paid stays paid.
LEMMA PaidStays == TypeOK /\ CallInv /\ [Next]_vars /\ Paid => Paid'
  <1> SUFFICES ASSUME TypeOK, CallInv, [Next]_vars, Paid PROVE Paid'
    OBVIOUS
  <1>1. PICK q \in Refunds : provider[q] = "succeeded"
    BY DEF Paid
  <1>2. provider'[q] = "succeeded"
    <2>1. CASE UNCHANGED <<key, provider>>
      BY <1>1, <2>1
    <2>2. ASSUME NEW r \in Refunds, ProviderSettles(r) PROVE provider'[q] = "succeeded"
      BY <1>1, <2>2 DEF ProviderSettles, TypeOK
    <2>3. ASSUME NEW r \in Refunds, ProviderRefund(r) PROVE provider'[q] = "succeeded"
      <3>1. q # r
        BY <1>1, <2>3 DEF ProviderRefund, CallInv
      <3> QED BY <1>1, <2>3, <3>1 DEF ProviderRefund, TypeOK
    <2> QED BY <2>1, <2>2, <2>3, ProviderSteps
  <1> QED BY <1>2 DEF Paid

\* Answers, and rows made of them, tell of refunds that were paid.
LEMMA StepPaid == TypeOK /\ CallInv /\ PaidInv /\ [Next]_vars => PaidInv'
  <1> SUFFICES ASSUME TypeOK, CallInv, PaidInv, [Next]_vars PROVE PaidInv'
    OBVIOUS
  <1>1. Paid => Paid'
    BY PaidStays
  <1>2. ASSUME NEW r \in Refunds, ProviderRefund(r)
        PROVE  key' = "succeeded" \/ req'[r].answer = "succeeded" => Paid'
    <2>1. CASE Replayed
      BY <1>1, <1>2, <2>1 DEF ProviderRefund, PaidInv, TypeOK
    <2>2. CASE ~Replayed
      BY <1>2, <2>2 DEF ProviderRefund, Paid, TypeOK
    <2> QED BY <2>1, <2>2
  <1>3. key' = "succeeded" => Paid'
    <2>1. CASE UNCHANGED <<key, provider>>
      BY <1>1, <2>1 DEF PaidInv
    <2>2. ASSUME NEW r \in Refunds, ProviderSettles(r) PROVE key' = "succeeded" => Paid'
      BY <1>1, <2>2 DEF ProviderSettles, PaidInv
    <2> QED BY <1>2, <2>1, <2>2, ProviderSteps
  <1>4. ASSUME NEW r \in Refunds, req'[r].answer = "succeeded" PROVE Paid'
    BY <1>1, <1>2, <1>4, AnswerSteps DEF PaidInv
  <1>5. ASSUME NEW r \in Refunds, refund'[r] = "succeeded" PROVE Paid'
    BY <1>1, <1>5, AnswerSteps DEF PaidInv
  <1> QED BY <1>3, <1>4, <1>5 DEF PaidInv

\* No refund is recorded as paid that the provider did not pay.
THEOREM RefundsWerePaid == Spec => []RefundWasPaid
  <1>1. Init => PaidInv
    BY DEF Init, PaidInv
  <1>2. PaidInv => RefundWasPaid
    BY DEF PaidInv, Paid, RefundWasPaid
  <1> QED BY <1>1, <1>2, StepPaid, Calls, TypeCorrect, PTL DEF Spec

-----------------------------------------------------------------------------
(* The books.                                                                *)

Quiet == UNCHANGED <<ledger, captured, posted, adjusted>>

\* A posting in either spelling moves the balance of a kind by its own entries.
LEMMA BalanceEffect ==
  ASSUME TypeOK, NEW c \in Currencies, NEW p \in Postings, PostLedgerEntries(c, p)
  PROVE  \A k \in Kinds : /\ Balance(k) \in Int
                          /\ Balance(k)' = Balance(k) + p.credit[k] - p.debit[k]
  <1>1. ledger \in [Currencies -> Balances]
    BY DEF TypeOK, Balances
  <1>2. /\ \A k \in Kinds : ledger'[c][k] = ledger[c][k] + p.credit[k] - p.debit[k]
        /\ \A d \in Currencies \ {c} : ledger'[d] = ledger[d]
    BY <1>1, PostEffect
  <1>3. \A k \in Kinds : /\ ledger["USD"][k] \in Int /\ ledger["usd"][k] \in Int
                         /\ p.credit[k] \in Int /\ p.debit[k] \in Int
    BY <1>1 DEF Balances, Postings, Currencies
  <1>4. CASE c = "USD"
    <2>1. ledger'["usd"] = ledger["usd"]
      BY <1>2, <1>4 DEF Currencies
    <2> QED BY <1>2, <1>3, <1>4, <2>1 DEF Balance
  <1>5. CASE c = "usd"
    <2>1. ledger'["USD"] = ledger["USD"]
      BY <1>2, <1>5 DEF Currencies
    <2> QED BY <1>2, <1>3, <1>5, <2>1 DEF Balance
  <1> QED BY <1>4, <1>5 DEF Currencies

\* A request about to post finds nothing posted yet.
LEMMA FirstPosting ==
  ASSUME TypeOK, RowInv, NEW r \in Refunds, req[r].pc = "post"
  PROVE  posted = {}
  <1> SUFFICES ASSUME NEW q \in posted PROVE FALSE
    OBVIOUS
  <1>1. q \in Refunds /\ Live(q) /\ Live(r) /\ r \notin posted
    BY DEF TypeOK, RowInv, Live
  <1> QED BY <1>1 DEF RowInv

\* A step that posts moves what it captured, refunded or adjusted.
LEMMA StepAccounts == TypeOK /\ RowInv /\ AccountsExplained /\ [Next]_vars => AccountsExplained'
  <1> SUFFICES ASSUME TypeOK, RowInv, AccountsExplained, [Next]_vars PROVE AccountsExplained'
    OBVIOUS
  <1>0. /\ \A k \in Kinds : adjusted[k] \in Int /\ Balance(k) \in Int
        /\ Gross \in Int /\ Fee \in Int /\ Payable = Gross - Fee
    <2>1. \A k \in Kinds : ledger["USD"][k] \in Int /\ ledger["usd"][k] \in Int /\ adjusted[k] \in Int
      BY DEF TypeOK, Currencies
    <2> QED BY <2>1, Amounts DEF Balance
  <1>1. CASE Quiet
    BY <1>1 DEF Quiet, AccountsExplained, Balance, Captured, Refunded
  <1>2. CASE PostCapture
    <2> DEFINE p == PaymentCaptured(Gross, Fee)
    <2>1. /\ p \in Postings
          /\ \A k \in Kinds : p.debit[k] = IF k = "provider_clearing" THEN Gross ELSE 0
          /\ \A k \in Kinds : p.credit[k] = IF k = "platform_revenue" THEN Fee
                                            ELSE IF k = "seller_pending" THEN Gross - Fee ELSE 0
      BY <1>0, CaptureEntries
    <2>2. PostLedgerEntries("USD", p)
      BY <1>2 DEF PostCapture
    <2> HIDE DEF p
    <2>3. \A k \in Kinds : Balance(k)' = Balance(k) + p.credit[k] - p.debit[k]
      BY <2>1, <2>2, BalanceEffect DEF Currencies
    <2>4. ~captured /\ captured' = TRUE /\ UNCHANGED <<posted, adjusted>>
      BY <1>2 DEF PostCapture, refundVars, adminVars
    <2> QED BY <1>0, <2>1, <2>3, <2>4, EachKind DEF AccountsExplained, Captured, Refunded
  <1>3. ASSUME NEW a \in Acceptances, releaseSellerEarnings(a), ledger' # ledger
        PROVE  AccountsExplained'
    <2> DEFINE p == EarningsReleased(Payable)
    <2>1. /\ p \in Postings
          /\ \A k \in Kinds : p.debit[k] = IF k = "seller_pending" THEN Payable ELSE 0
          /\ \A k \in Kinds : p.credit[k] = IF k = "seller_available" THEN Payable ELSE 0
      BY Amounts, ReleaseEntries
    <2>2. PostLedgerEntries("usd", p)
      BY <1>3 DEF releaseSellerEarnings
    <2> HIDE DEF p
    <2>3. \A k \in Kinds : Balance(k)' = Balance(k) + p.credit[k] - p.debit[k]
      BY <2>1, <2>2, BalanceEffect DEF Currencies
    <2>4. UNCHANGED <<captured, posted, adjusted>>
      BY <1>3 DEF releaseSellerEarnings, refundVars, adminVars
    <2> QED BY <1>0, <2>1, <2>3, <2>4, EachKind DEF AccountsExplained, Captured, Refunded
  <1>4. ASSUME NEW r \in Refunds, PostRefund(r) PROVE AccountsExplained'
    <2> DEFINE p == RefundIssued(Gross, Fee, req[r].available)
               s == SellerAccount(req[r].available)
    <2>0. req[r].available \in BOOLEAN
      BY DEF TypeOK
    <2>1. /\ p \in Postings
          /\ \A k \in Kinds : p.debit[k] = IF k = "refunds" THEN Gross
                                           ELSE IF k = "platform_revenue" THEN Fee
                                           ELSE IF k = s THEN Gross - Fee ELSE 0
          /\ \A k \in Kinds : p.credit[k] = IF k \in {"provider_clearing", "refunds"} THEN Gross ELSE 0
          /\ s \in {"seller_pending", "seller_available"}
      BY <1>0, <2>0, RefundEntries
    <2>2. PostLedgerEntries("usd", p)
      BY <1>4 DEF PostRefund
    <2> HIDE DEF p, s
    <2>3. \A k \in Kinds : Balance(k)' = Balance(k) + p.credit[k] - p.debit[k]
      BY <2>1, <2>2, BalanceEffect DEF Currencies
    <2>4. posted = {} /\ posted' # {} /\ UNCHANGED <<captured, adjusted>>
      BY <1>4, FirstPosting DEF PostRefund, orderVars, adminVars
    <2>5. /\ Balance("platform_revenue")' = Balance("platform_revenue") - Fee
          /\ Balance("provider_clearing")' = Balance("provider_clearing") + Gross
          /\ Balance("refunds")' = Balance("refunds")
      BY <1>0, <2>1, <2>3, EachKind
    <2>6. Balance("seller_pending")' + Balance("seller_available")'
            = Balance("seller_pending") + Balance("seller_available") - Payable
      <3>1. CASE s = "seller_pending"
        BY <1>0, <2>1, <2>3, <3>1, EachKind
      <3>2. CASE s = "seller_available"
        BY <1>0, <2>1, <2>3, <3>2, EachKind
      <3> QED BY <2>1, <3>1, <3>2
    <2> QED BY <1>0, <2>4, <2>5, <2>6, EachKind DEF AccountsExplained, Captured, Refunded
  <1>5. ASSUME NEW from \in Kinds, NEW to \in Kinds, NEW amount \in 1..MaxAmount,
               adminLedgerAdjust(from, to, amount)
        PROVE  AccountsExplained'
    <2> DEFINE p == ManualAdjustment(from, to, amount)
    <2>1. amount \in Int
      BY BoundAssumption
    <2>2. p \in Postings
      BY <2>1, AdjustmentEntries
    <2>3. /\ PostLedgerEntries("usd", p) /\ adjusted' = Apply(adjusted, p)
          /\ UNCHANGED <<captured, posted>>
      BY <1>5 DEF adminLedgerAdjust, orderVars, refundVars
    <2> HIDE DEF p
    <2>4. \A k \in Kinds : p.credit[k] \in Int /\ p.debit[k] \in Int
      BY <2>2 DEF Postings, Balances
    <2>5. \A k \in Kinds : Balance(k)' = Balance(k) + p.credit[k] - p.debit[k]
      BY <2>2, <2>3, BalanceEffect DEF Currencies
    <2>6. \A k \in Kinds : adjusted'[k] = adjusted[k] + p.credit[k] - p.debit[k]
      <3>1. adjusted \in Balances
        BY DEF TypeOK, Balances
      <3> QED BY <2>2, <2>3, <3>1, ApplyType
    <2>7. \A k \in Kinds : /\ Balance(k)' \in Int /\ adjusted'[k] \in Int
                          /\ Balance(k)' = Balance(k) + (adjusted'[k] - adjusted[k])
      BY <1>0, <2>4, <2>5, <2>6
    <2>8. captured' = captured /\ posted' = posted
      BY <2>3
    <2>9. /\ Captured(Fee)' = Captured(Fee) /\ Refunded(Fee)' = Refunded(Fee)
           /\ Captured(Payable)' = Captured(Payable) /\ Refunded(Payable)' = Refunded(Payable)
           /\ Captured(Gross)' = Captured(Gross) /\ Refunded(Gross)' = Refunded(Gross)
      BY <2>8 DEF Captured, Refunded, Payable
    <2>10. /\ Captured(Fee) \in Int /\ Refunded(Fee) \in Int
           /\ Captured(Payable) \in Int /\ Refunded(Payable) \in Int
           /\ Captured(Gross) \in Int /\ Refunded(Gross) \in Int
      BY <1>0 DEF Captured, Refunded
    <2>11. /\ (Balance("platform_revenue") = Captured(Fee) - Refunded(Fee)
                 + adjusted["platform_revenue"])'
           /\ (Balance("provider_clearing") = Refunded(Gross) - Captured(Gross)
                 + adjusted["provider_clearing"])'
           /\ (Balance("refunds") = adjusted["refunds"])'
      BY <1>0, <2>7, <2>9, <2>10, EachKind DEF AccountsExplained
    <2>12. (Balance("seller_pending") + Balance("seller_available")
              = Captured(Payable) - Refunded(Payable)
                  + adjusted["seller_pending"] + adjusted["seller_available"])'
      <3>1. /\ Balance("seller_pending")' = Balance("seller_pending")
                 + (adjusted'["seller_pending"] - adjusted["seller_pending"])
            /\ Balance("seller_available")' = Balance("seller_available")
                 + (adjusted'["seller_available"] - adjusted["seller_available"])
            /\ adjusted'["seller_pending"] \in Int /\ adjusted'["seller_available"] \in Int
        BY <2>7, EachKind
      <3>2. /\ Balance("seller_pending") \in Int /\ Balance("seller_available") \in Int
            /\ adjusted["seller_pending"] \in Int /\ adjusted["seller_available"] \in Int
        BY <1>0, EachKind
      <3>3. Balance("seller_pending") + Balance("seller_available")
              = Captured(Payable) - Refunded(Payable)
                  + adjusted["seller_pending"] + adjusted["seller_available"]
        BY DEF AccountsExplained
      <3> QED BY <2>9, <2>10, <3>1, <3>2, <3>3
    <2> QED BY <2>11, <2>12 DEF AccountsExplained
  <1>6. \/ Quiet \/ PostCapture
        \/ \E a \in Acceptances : releaseSellerEarnings(a) /\ ledger' # ledger
        \/ \E r \in Refunds : PostRefund(r)
        \/ \E from, to \in Kinds, amount \in 1..MaxAmount : adminLedgerAdjust(from, to, amount)
    BY DEF Quiet, Next, vars, Reopen, Accept, releaseSellerEarnings, ProviderSettles,
           adminOrderRefund, GetOrder, GetRefundForOrder, ProviderRefund, CreateRefund,
           SetRefundStatus, Abort, orderVars, refundVars, adminVars
  <1> QED BY <1>1, <1>2, <1>3, <1>4, <1>5, <1>6

\* docs/runbooks/reconciliation.md: the platform, the seller and the clearing
\* account hold what was captured less what was refunded, whichever postings
\* were lost and however requests interleave.
THEOREM BooksExplained == Spec => []AccountsExplained
  <1>1. Init => AccountsExplained
    <2> SUFFICES ASSUME Init PROVE AccountsExplained
      OBVIOUS
    <2>1. \A k \in Kinds : Balance(k) = 0 /\ adjusted[k] = 0
      <3>1. ledger["USD"] = Nothing /\ ledger["usd"] = Nothing /\ adjusted = Nothing
        BY DEF Init, Currencies
      <3>2. \A k \in Kinds : ledger["USD"][k] = 0 /\ ledger["usd"][k] = 0 /\ adjusted[k] = 0
        BY <3>1, NothingType
      <3>3. ASSUME NEW k \in Kinds PROVE Balance(k) = 0
        <4>1. ledger["USD"][k] = 0 /\ ledger["usd"][k] = 0
          BY <3>2
        <4>2. Balance(k) = 0 + 0
          BY <4>1 DEF Balance
        <4> QED BY <4>2
      <3> QED BY <3>2, <3>3
    <2>2. captured = FALSE /\ posted = {}
      BY DEF Init
    <2>3. \A amount : Captured(amount) = 0 /\ Refunded(amount) = 0
      BY <2>2 DEF Captured, Refunded
    <2> QED BY <2>1, <2>3, EachKind DEF AccountsExplained
  <1> QED BY <1>1, StepAccounts, Rows, TypeCorrect, PTL DEF Spec

-----------------------------------------------------------------------------
(***************************************************************************)
(* Reconciliation.  A payment that succeeded has its charge reference: a   *)
(* sweep about to move an intent to succeeded polled a payment that has    *)
(* one, and has written it, tried to, or found it written; references and  *)
(* rows stay, so this is still so when it moves the intent.                *)
(***************************************************************************)
ListedRows(s) == \A n \in DOMAIN sweep[s].list : sweep[s].list[n].id \in Created
ChargeDone(s) == sweep[s].pc = "move" /\ sweep[s].to = "succeeded"
                   => intents[First(s).id].charge # "none"

RefundInv == /\ RTypeOK /\ SucceededRefundable
             /\ \A s \in Sweepers : ListedRows(s) /\ ChargeDone(s)

\* What may become of the intents.
RowsStay ==
  /\ intents' \in [Ids -> Intent]
  /\ \A i \in Ids : intents'[i].ref => session[i] # <<>>
  /\ \A i \in Created : /\ intents'[i].status # "none"
                        /\ intents[i].charge # "none" => intents'[i].charge # "none"

\* A sweep that goes on as new.
GoesOn(new) ==
  /\ new \in SweepState /\ (new.pc # "idle" => new.list # <<>>)
  /\ \A n \in DOMAIN new.list : new.list[n].id \in Created

LEMMA StatesTyped ==
  ASSUME RTypeOK
  PROVE  /\ intents \in [Ids -> Intent] /\ Created \subseteq Ids
         /\ \A i \in Ids : intents[i] \in Intent
         /\ \A s \in Sweepers :
              /\ sweep[s] \in SweepState /\ sweep[s].list \in Seq(Read)
              /\ sweep[s].pc # "idle" =>
                   /\ sweep[s].list # <<>> /\ 1 \in DOMAIN sweep[s].list
                   /\ First(s) \in Read /\ First(s).id \in Ids
<1>1. /\ intents \in [Ids -> Intent] /\ Created \subseteq Ids
      /\ \A i \in Ids : intents[i] \in Intent
  BY DEF RTypeOK, Created
<1>2. ASSUME NEW s \in Sweepers
      PROVE  /\ sweep[s] \in SweepState /\ sweep[s].list \in Seq(Read)
             /\ sweep[s].pc # "idle" =>
                  /\ sweep[s].list # <<>> /\ 1 \in DOMAIN sweep[s].list
                  /\ First(s) \in Read /\ First(s).id \in Ids
  <2>1. sweep[s] \in SweepState /\ (sweep[s].pc # "idle" => sweep[s].list # <<>>)
    BY DEF RTypeOK
  <2>2. sweep[s].list \in Seq(Read)
    BY <2>1 DEF SweepState
  <2>3. sweep[s].list # <<>> => 1 \in DOMAIN sweep[s].list /\ sweep[s].list[1] \in Read
    BY <2>2, EmptySeq, LenProperties, ElementOfSeq
  <2> QED  BY <2>1, <2>2, <2>3 DEF First, Read
<1> QED  BY <1>1, <1>2

LEMMA SkipGoesOn ==
  ASSUME RefundInv, NEW s \in Sweepers, sweep[s].pc # "idle"
  PROVE  GoesOn(Skip(s)) /\ Skip(s).pc # "move"
<1>1. /\ sweep[s].list \in Seq(Read) /\ sweep[s].list # <<>>
      /\ \A n \in DOMAIN sweep[s].list : sweep[s].list[n].id \in Created
  BY StatesTyped DEF RefundInv, ListedRows
<1>2. CASE Len(sweep[s].list) = 1
  BY <1>2 DEF Skip, GoesOn, IdleSweep, SweepState, PaymentStatuses
<1>3. CASE Len(sweep[s].list) # 1
  <2>1. Len(sweep[s].list) \in Nat /\ Len(sweep[s].list) > 1
    <3>1. Len(sweep[s].list) \in Nat \ {0}
      BY <1>1, EmptySeq
    <3>2. \A n \in Nat \ {0} : n # 1 => n > 1
      OBVIOUS
    <3> QED  BY <1>3, <3>1, <3>2
  <2>2. /\ Tail(sweep[s].list) \in Seq(Read)
        /\ Len(Tail(sweep[s].list)) = Len(sweep[s].list) - 1
        /\ \A n \in 1..(Len(sweep[s].list) - 1) :
             Tail(sweep[s].list)[n] = sweep[s].list[n + 1]
    BY <1>1, HeadTailProperties
  <2>3. \A n \in DOMAIN Tail(sweep[s].list) : Tail(sweep[s].list)[n].id \in Created
    <3> SUFFICES ASSUME NEW n \in DOMAIN Tail(sweep[s].list)
                 PROVE  Tail(sweep[s].list)[n].id \in Created
      OBVIOUS
    <3>1. n \in 1..(Len(sweep[s].list) - 1)
      BY <2>2, LenProperties
    <3>2. n + 1 \in DOMAIN sweep[s].list
      BY <1>1, <2>1, <3>1, LenProperties
    <3> QED  BY <1>1, <2>2, <3>1, <3>2
  <2>4. Tail(sweep[s].list) # <<>>
    BY <2>1, <2>2, EmptySeq
  <2>5. Skip(s) = [pc |-> "poll", list |-> Tail(sweep[s].list), to |-> "pending"]
    BY <1>3 DEF Skip
  <2> QED  BY <2>2, <2>3, <2>4, <2>5 DEF GoesOn, SweepState, PaymentStatuses
<1> QED  BY <1>2, <1>3

\* The same list, with another program counter and status.
LEMMA SameGoesOn ==
  ASSUME RefundInv, NEW s \in Sweepers, sweep[s].pc # "idle", NEW to \in PaymentStatuses,
         NEW pc \in {"charge", "move"}
  PROVE  LET new == [sweep[s] EXCEPT !.pc = pc, !.to = to]
         IN  GoesOn(new) /\ new.list = sweep[s].list /\ new.pc = pc /\ new.to = to
<1>1. /\ sweep[s] \in SweepState /\ sweep[s].list # <<>>
      /\ \A n \in DOMAIN sweep[s].list : sweep[s].list[n].id \in Created
  BY StatesTyped DEF RefundInv, ListedRows
<1> QED  BY <1>1 DEF GoesOn, SweepState

\* A step of one sweep, which may write one intent.
LEMMA SweepStepKeeps ==
  ASSUME RefundInv, RowsStay, SucceededRefundable', NEW s \in Sweepers, NEW new, GoesOn(new),
         sweep' = [sweep EXCEPT ![s] = new],
         new.pc = "move" /\ new.to = "succeeded" => intents'[new.list[1].id].charge # "none",
         UNCHANGED <<session, registered>>, faults' \in 0..MaxFaults
  PROVE  RefundInv'
<1>1. RTypeOK'
  BY DEF RefundInv, RTypeOK, RowsStay, GoesOn
<1>2. /\ sweep \in [Sweepers -> SweepState] /\ Created \subseteq Created'
      /\ Created \subseteq Ids
  BY DEF RefundInv, RTypeOK, RowsStay, Created
<1>3. ASSUME NEW t \in Sweepers PROVE ListedRows(t)' /\ ChargeDone(t)'
  <2>1. CASE t = s
    <3>1. sweep'[t] = new
      BY <1>2, <2>1
    <3> QED  BY <1>2, <3>1 DEF ListedRows, ChargeDone, First, GoesOn
  <2>2. CASE t # s
    <3>1. sweep'[t] = sweep[t] /\ ListedRows(t) /\ ChargeDone(t)
      BY <1>2, <2>2 DEF RefundInv
    <3>2. sweep[t].pc = "move" => First(t).id \in Created
      BY <3>1, StatesTyped DEF RefundInv, ListedRows, First
    <3> QED  BY <1>2, <3>1, <3>2 DEF ListedRows, ChargeDone, First, RowsStay
  <2> QED  BY <2>1, <2>2
<1> QED  BY <1>1, <1>3 DEF RefundInv

\* A step of something else, on the intents alone.
LEMMA OtherStepKeeps ==
  ASSUME RefundInv, RowsStay, SucceededRefundable', sweep' = sweep, RTypeOK'
  PROVE  RefundInv'
<1>1. Created \subseteq Created'
  BY DEF RowsStay, RefundInv, RTypeOK, Created
<1>2. ASSUME NEW t \in Sweepers PROVE ListedRows(t)' /\ ChargeDone(t)'
  <2>1. ListedRows(t) /\ ChargeDone(t)
    BY DEF RefundInv
  <2>2. sweep[t].pc = "move" => First(t).id \in Created
    BY <2>1, StatesTyped DEF RefundInv, ListedRows, First
  <2> QED  BY <1>1, <2>1, <2>2 DEF ListedRows, ChargeDone, First, RowsStay
<1> QED  BY <1>2 DEF RefundInv

LEMMA SameIntents ==
  ASSUME RefundInv, intents' = intents PROVE RowsStay /\ SucceededRefundable'
<1>1. intents \in [Ids -> Intent] /\ \A i \in Ids : intents[i].ref => session[i] # <<>>
  BY DEF RefundInv, RTypeOK
<1> QED  BY <1>1 DEF RefundInv, RowsStay, Created, SucceededRefundable

\* One intent is written: it keeps its reference, and has one when it succeeds.
LEMMA OneIntent ==
  ASSUME RefundInv, NEW i \in Ids, NEW row \in Intent, intents' = [intents EXCEPT ![i] = row],
         i \in Created => /\ row.status # "none"
                          /\ intents[i].charge # "none" => row.charge # "none",
         row.status = "succeeded" => row.charge # "none", row.ref => session[i] # <<>>
  PROVE  RowsStay /\ SucceededRefundable'
<1>1. /\ intents \in [Ids -> Intent] /\ Created \subseteq Ids
      /\ \A j \in Ids : intents[j].ref => session[j] # <<>>
  BY StatesTyped DEF RefundInv, RTypeOK
<1>2. \A j \in Ids : intents'[j] = IF j = i THEN row ELSE intents[j]
  BY <1>1
<1>3. intents' \in [Ids -> Intent] /\ \A j \in Ids : intents'[j].ref => session[j] # <<>>
  BY <1>1, <1>2
<1>4. \A j \in Created : /\ intents'[j].status # "none"
                         /\ intents[j].charge # "none" => intents'[j].charge # "none"
  BY <1>1, <1>2 DEF Created
<1> QED  BY <1>2, <1>3, <1>4 DEF RefundInv, RowsStay, SucceededRefundable

LEMMA MovesTyped ==
  ASSUME NEW name \in {"stripe", "btcpay"}, NEW state \in SessionStates
  PROVE  SessionMoves[name][state] \subseteq SessionStates
BY DEF SessionMoves, SessionStates

LEMMA CheckoutKeeps ==
  ASSUME RefundInv, NEW i \in Ids, Checkout(i) \/ SessionAdvances(i) \/ Webhook(i)
  PROVE  RefundInv'
<1>1. /\ intents \in [Ids -> Intent] /\ intents[i] \in Intent /\ RTypeOK
      /\ session \in [Ids -> Seq(SessionStates)]
      /\ intents[i].ref => session[i] # <<>>
  BY StatesTyped DEF RefundInv, RTypeOK
<1>2. ASSUME NEW method \in Methods[i], CreatePaymentIntent(i, method)
      PROVE  RefundInv'
  <2> DEFINE row == [NoIntent EXCEPT !.provider = paymentMethodProvider(method),
                                     !.status = "pending"]
  <2>1. row \in Intent /\ row.status = "pending" /\ ~row.ref
    BY <1>2 DEF CreatePaymentIntent, NoIntent, Intent, PaymentStatuses, paymentMethodProvider,
                Providers, Storable
  <2>2. intents' = [intents EXCEPT ![i] = row] /\ i \notin Created
    BY <1>2 DEF CreatePaymentIntent
  <2> HIDE DEF row
  <2>3. RowsStay /\ SucceededRefundable'
    BY <2>1, <2>2, OneIntent
  <2>4. RTypeOK'
    BY <1>1, <1>2, <2>1, <2>2, <2>3 DEF CreatePaymentIntent, RTypeOK, RowsStay
  <2> QED  BY <1>2, <2>3, <2>4, OtherStepKeeps DEF CreatePaymentIntent
<1>3. CASE CreatePayment(i)
  <2>1. session' \in [Ids -> Seq(SessionStates)]
    <3>1. <<"open">> \in Seq(SessionStates)
      BY DEF SessionStates, SessionMoves
    <3> QED  BY <1>1, <1>3, <3>1 DEF CreatePayment
  <2>2. RTypeOK'
    BY <1>1, <1>3, <2>1 DEF CreatePayment, RTypeOK
  <2> QED  BY <1>3, <2>2, SameIntents, OtherStepKeeps DEF CreatePayment
<1>4. CASE SetPaymentIntentSession(i)
  <2> DEFINE row == [intents[i] EXCEPT !.ref = TRUE]
  <2>1. /\ row \in Intent /\ row.status = intents[i].status /\ row.charge = intents[i].charge
        /\ intents' = [intents EXCEPT ![i] = row] /\ session[i] # <<>>
    BY <1>1, <1>4 DEF SetPaymentIntentSession, Intent
  <2> HIDE DEF row
  <2>2. RowsStay /\ SucceededRefundable'
    BY <2>1, OneIntent DEF RefundInv, SucceededRefundable, Created
  <2>3. RTypeOK'
    BY <1>1, <1>4, <2>1, <2>2 DEF SetPaymentIntentSession, RTypeOK, RowsStay
  <2> QED  BY <1>4, <2>2, <2>3, OtherStepKeeps DEF SetPaymentIntentSession
<1>5. CASE SessionAdvances(i)
  <2>1. PICK state \in SessionMoves[intents[i].provider][State(i)] :
          session' = [session EXCEPT ![i] = Append(session[i], state)]
    BY <1>5 DEF SessionAdvances
  <2>2. session[i] \in Seq(SessionStates) /\ session[i] # <<>>
    BY <1>1, <1>5 DEF SessionAdvances
  <2>3. state \in SessionStates
    <3>1. intents[i].provider \in {"stripe", "btcpay"}
      BY <1>1 DEF Intent, Providers, Storable
    <3>2. Len(session[i]) \in 1..Len(session[i])
      <4>1. Len(session[i]) \in Nat \ {0}
        BY <2>2, EmptySeq
      <4> QED  BY <4>1
    <3>3. State(i) \in SessionStates
      BY <2>2, <3>2, ElementOfSeq DEF State
    <3> QED  BY <2>1, <3>1, <3>3, MovesTyped
  <2>4. Append(session[i], state) \in Seq(SessionStates) /\ Append(session[i], state) # <<>>
    BY <2>2, <2>3, AppendProperties
  <2>5. RTypeOK'
    BY <1>1, <1>5, <2>1, <2>4 DEF SessionAdvances, RTypeOK
  <2> QED  BY <1>5, <2>5, SameIntents, OtherStepKeeps DEF SessionAdvances
<1>6. CASE WebhookChargeRef(i)
  <2> DEFINE row == [intents[i] EXCEPT !.charge = "set"]
  <2>1. /\ row \in Intent /\ row.status = intents[i].status /\ row.charge = "set"
        /\ intents' = [intents EXCEPT ![i] = row] /\ row.ref = intents[i].ref
    BY <1>1, <1>6 DEF WebhookChargeRef, Intent
  <2> HIDE DEF row
  <2>2. RowsStay /\ SucceededRefundable'
    BY <1>1, <2>1, OneIntent DEF Created
  <2>3. RTypeOK'
    BY <1>1, <1>6, <2>1, <2>2 DEF WebhookChargeRef, RTypeOK, RowsStay
  <2> QED  BY <1>6, <2>2, <2>3, OtherStepKeeps DEF WebhookChargeRef
<1>7. CASE WebhookTransition(i)
  <2>1. PICK n \in Reported(i) :
          LET to == EventStatus(intents[i].provider, session[i][n])
          IN  /\ HasChargeRef(intents[i].provider, session[i][n]) => intents[i].charge = "set"
              /\ CanTransitionPayment(intents[i].status, to)
              /\ intents' = [intents EXCEPT ![i].status = to]
    BY <1>7 DEF WebhookTransition
  <2> DEFINE to == EventStatus(intents[i].provider, session[i][n])
             row == [intents[i] EXCEPT !.status = to]
  <2>2. to \in PaymentStatuses /\ to # "none"
    BY DEF EventStatus, PolledStatus, PaymentStatuses
  <2>3. to = "succeeded" => HasChargeRef(intents[i].provider, session[i][n])
    BY DEF EventStatus, PolledStatus, HasChargeRef
  <2> HIDE DEF to
  <2>4. /\ row \in Intent /\ row.status = to /\ row.charge = intents[i].charge
        /\ row.ref = intents[i].ref
        /\ intents' = [intents EXCEPT ![i] = row]
    BY <1>1, <2>1, <2>2 DEF Intent, to
  <2> HIDE DEF row
  <2>5. RowsStay /\ SucceededRefundable'
    BY <1>1, <2>1, <2>2, <2>3, <2>4, OneIntent DEF to
  <2>6. RTypeOK'
    BY <1>1, <1>7, <2>4, <2>5 DEF WebhookTransition, RTypeOK, RowsStay
  <2> QED  BY <1>7, <2>5, <2>6, OtherStepKeeps DEF WebhookTransition
<1> QED  BY <1>2, <1>3, <1>4, <1>5, <1>6, <1>7 DEF Checkout, Webhook

LEMMA AfterChargeGoesOn ==
  ASSUME RefundInv, NEW s \in Sweepers, sweep[s].pc # "idle", NEW to \in PaymentStatuses
  PROVE  LET new == AfterChargeRef(s, to)
         IN  /\ GoesOn(new)
             /\ new.pc = "move" => new.list = sweep[s].list /\ new.to = to
<1>1. CASE CanTransitionPayment(First(s).status, to)
  BY <1>1, SameGoesOn DEF AfterChargeRef
<1>2. CASE ~CanTransitionPayment(First(s).status, to)
  BY <1>2, SkipGoesOn DEF AfterChargeRef
<1> QED  BY <1>1, <1>2

\* The list of a sweep that starts: there is something to list, all of it created.
LEMMA ListStarts ==
  ASSUME RefundInv, NEW s \in Sweepers, ListStalePaymentIntents(s)
  PROVE  RefundInv'
<1>1. PICK list \in [1..Cardinality(Listed) -> Listed] :
        sweep' = [sweep EXCEPT ![s] =
            [pc |-> "poll", to |-> "pending",
             list |-> [n \in DOMAIN list |->
                         [id |-> list[n], status |-> intents[list[n]].status]]]]
  BY DEF ListStalePaymentIntents
<1> DEFINE polls == [n \in DOMAIN list |-> [id |-> list[n], status |-> intents[list[n]].status]]
           new == [pc |-> "poll", to |-> "pending", list |-> polls]
<1>2. Cardinality(Listed) \in Nat \ {0}
  <2>1. IsFiniteSet(Ids)
    BY BoundsAssumption, FS_Interval DEF Ids
  <2>2. Listed \subseteq Ids
    BY DEF Listed, Stale
  <2>3. IsFiniteSet(Listed) /\ Listed # {}
    BY <2>1, <2>2, FS_Subset DEF ListStalePaymentIntents
  <2> QED  BY <2>3, FS_CardinalityType, FS_EmptySet
<1>3. \A i \in Listed : i \in Created /\ i \in Ids /\ intents[i].status \in PaymentStatuses
  BY DEF Listed, Stale, Waiting, Created, PaymentStatuses
<1>4. /\ DOMAIN polls = 1..Cardinality(Listed) /\ polls \in [1..Cardinality(Listed) -> Read]
      /\ \A n \in DOMAIN polls : polls[n].id \in Created
  BY <1>1, <1>3 DEF Read
<1>5. polls \in Seq(Read) /\ polls # <<>>
  <2>1. polls \in Seq(Read)
    BY <1>2, <1>4, SeqDef
  <2>2. Len(polls) # 0
    BY <1>2, <1>4, <2>1, LenProperties
  <2> QED  BY <2>1, <2>2
<1> HIDE DEF polls
<1>6. GoesOn(new)
  BY <1>4, <1>5 DEF GoesOn, SweepState, PaymentStatuses
<1>7. new.pc # "move" /\ sweep' = [sweep EXCEPT ![s] = new]
  BY <1>1 DEF polls
<1>8. RowsStay /\ SucceededRefundable' /\ UNCHANGED <<session, registered>>
      /\ faults' \in 0..MaxFaults
  BY SameIntents DEF ListStalePaymentIntents, RefundInv, RTypeOK
<1> HIDE DEF new
<1> QED  BY <1>6, <1>7, <1>8, SweepStepKeeps

LEMMA SweepKeeps ==
  ASSUME RefundInv, NEW s \in Sweepers, Sweep(s) \/ SweepFaults(s)
  PROVE  RefundInv'
<1>1. /\ RTypeOK /\ intents \in [Ids -> Intent]
      /\ faults \in 0..MaxFaults /\ MaxFaults \in Nat
  BY BoundsAssumption DEF RefundInv, RTypeOK
<1>2. ASSUME sweep[s].pc # "idle"
      PROVE  /\ First(s).id \in Ids /\ First(s).id \in Created /\ intents[First(s).id] \in Intent
             /\ sweep[s].to \in PaymentStatuses /\ First(s) = sweep[s].list[1]
             /\ intents[First(s).id].ref => session[First(s).id] # <<>>
  BY <1>2, StatesTyped DEF RefundInv, RTypeOK, ListedRows, First, SweepState
\* A step that writes the charge reference of the first, or nothing.
<1>3. CASE Payment(s)
  <2> DEFINE i == First(s).id
             to == PolledStatus(State(i))
             charge == HasChargeRef(intents[i].provider, State(i))
             new == IF intents[i].provider \in registered THEN AfterPayment(s, to, charge)
                    ELSE Skip(s)
  <2>1. sweep[s].pc # "idle" /\ sweep' = [sweep EXCEPT ![s] = new]
    BY <1>3 DEF Payment
  <2>2. to \in PaymentStatuses /\ (to = "succeeded" => charge)
    BY DEF PolledStatus, PaymentStatuses, HasChargeRef
  <2> HIDE DEF to, charge
  <2>3. GoesOn(Skip(s)) /\ Skip(s).pc # "move"
    BY <2>1, SkipGoesOn
  <2>4. /\ GoesOn(AfterChargeRef(s, to))
        /\ AfterChargeRef(s, to).pc = "move" =>
             AfterChargeRef(s, to).list = sweep[s].list /\ AfterChargeRef(s, to).to = to
    BY <2>1, <2>2, AfterChargeGoesOn
  <2>5. /\ GoesOn([sweep[s] EXCEPT !.pc = "charge", !.to = to])
        /\ [sweep[s] EXCEPT !.pc = "charge", !.to = to].pc = "charge"
    BY <2>1, <2>2, SameGoesOn
  <2>6. GoesOn(new)
    BY <2>3, <2>4, <2>5 DEF AfterPayment
  <2>7. ASSUME new.pc = "move", new.to = "succeeded"
        PROVE  new.list = sweep[s].list /\ intents[i].charge # "none"
    BY <2>2, <2>3, <2>4, <2>5, <2>7 DEF AfterPayment
  <2>8. RowsStay /\ SucceededRefundable' /\ intents' = intents
    BY <1>3, SameIntents DEF Payment
  <2>9. new.pc = "move" /\ new.to = "succeeded" => intents'[new.list[1].id].charge # "none"
    BY <2>7, <2>8 DEF First
  <2> HIDE DEF new
  <2> QED  BY <1>1, <1>3, <2>1, <2>6, <2>8, <2>9, SweepStepKeeps DEF Payment
<1>4. ASSUME NEW charge \in {"set", "lost"}, sweep[s].pc = "charge",
             intents' = [intents EXCEPT ![First(s).id].charge = charge],
             sweep' = [sweep EXCEPT ![s] = AfterChargeRef(s, sweep[s].to)],
             UNCHANGED <<session, registered>>, faults' \in 0..MaxFaults
      PROVE  RefundInv'
  <2> DEFINE i == First(s).id
             row == [intents[i] EXCEPT !.charge = charge]
             new == AfterChargeRef(s, sweep[s].to)
  <2>1. /\ i \in Ids /\ i \in Created /\ intents[i] \in Intent /\ sweep[s].pc # "idle"
        /\ sweep[s].to \in PaymentStatuses /\ i = sweep[s].list[1].id
        /\ intents[i].ref => session[i] # <<>>
    BY <1>2, <1>4
  <2>2. /\ GoesOn(new) /\ (new.pc = "move" => new.list = sweep[s].list)
    BY <2>1, AfterChargeGoesOn
  <2> HIDE DEF new
  <2>3. /\ row \in Intent /\ row.status = intents[i].status /\ row.charge # "none"
        /\ row.ref = intents[i].ref /\ intents' = [intents EXCEPT ![i] = row]
    BY <1>1, <1>4, <2>1 DEF Intent
  <2>4. intents'[i].charge # "none"
    BY <1>1, <2>1, <2>3
  <2> HIDE DEF row, i
  <2>5. RowsStay /\ SucceededRefundable'
    BY <2>1, <2>3, OneIntent DEF Created
  <2>6. new.pc = "move" /\ new.to = "succeeded" => intents'[new.list[1].id].charge # "none"
    BY <2>1, <2>2, <2>4
  <2> QED  BY <1>4, <2>2, <2>5, <2>6, SweepStepKeeps DEF new
<1>5. CASE SetPaymentIntentChargeRef(s)
  BY <1>1, <1>4, <1>5 DEF SetPaymentIntentChargeRef
<1>6. CASE ChargeRefFails(s)
  <2> DEFINE charge == IF intents[First(s).id].charge = "set" THEN "set" ELSE "lost"
  <2>1. /\ charge \in {"set", "lost"} /\ sweep[s].pc = "charge" /\ UNCHANGED <<session, registered>>
        /\ sweep' = [sweep EXCEPT ![s] = AfterChargeRef(s, sweep[s].to)]
        /\ faults' \in 0..MaxFaults
    BY <1>1, <1>6 DEF ChargeRefFails
  <2>2. intents' = [intents EXCEPT ![First(s).id].charge = charge]
    BY <1>1, <1>2, <1>6, <2>1 DEF ChargeRefFails
  <2> HIDE DEF charge
  <2> QED  BY <1>4, <2>1, <2>2
<1>7. CASE TransitionPaymentIntent(s)
  <2> DEFINE i == First(s).id
             row == [intents[i] EXCEPT !.status = sweep[s].to]
  <2>1. /\ i \in Ids /\ i \in Created /\ intents[i] \in Intent /\ sweep[s].pc # "idle"
        /\ sweep[s].to \in PaymentStatuses /\ (intents[i].ref => session[i] # <<>>)
        /\ sweep[s].to = "succeeded" => intents[i].charge # "none"
    BY <1>2, <1>7 DEF TransitionPaymentIntent, RefundInv, ChargeDone
  <2>2. /\ row \in Intent /\ row.status = sweep[s].to /\ row.charge = intents[i].charge
        /\ row.ref = intents[i].ref /\ row.status # "none"
    BY <1>1, <2>1 DEF Intent, PaymentStatuses
  <2>3. intents' = intents \/ intents' = [intents EXCEPT ![i] = row]
    BY <1>7 DEF TransitionPaymentIntent
  <2> HIDE DEF row, i
  <2>4. RowsStay /\ SucceededRefundable'
    BY <2>1, <2>2, <2>3, OneIntent, SameIntents
  <2> QED  BY <1>1, <1>7, <2>1, <2>4, SkipGoesOn, SweepStepKeeps DEF TransitionPaymentIntent
<1>8. CASE PaymentFails(s)
  <2>1. /\ sweep[s].pc # "idle" /\ sweep' = [sweep EXCEPT ![s] = Skip(s)]
        /\ UNCHANGED <<session, registered>> /\ faults' \in 0..MaxFaults /\ intents' = intents
    BY <1>1, <1>8 DEF PaymentFails
  <2> QED  BY <2>1, SameIntents, SkipGoesOn, SweepStepKeeps
<1>9. CASE SweepTimesOut(s)
  <2>1. /\ sweep' = [sweep EXCEPT ![s] = IdleSweep]
        /\ UNCHANGED <<session, registered>> /\ faults' \in 0..MaxFaults /\ intents' = intents
    BY <1>1, <1>9 DEF SweepTimesOut
  <2>2. GoesOn(IdleSweep) /\ IdleSweep.pc # "move"
    BY DEF GoesOn, IdleSweep, SweepState, PaymentStatuses
  <2> QED  BY <2>1, <2>2, SameIntents, SweepStepKeeps
<1> QED  BY <1>3, <1>5, <1>6, <1>7, <1>8, <1>9, ListStarts DEF Sweep, SweepFaults

LEMMA RefundInit == RInit => RefundInv
<1> SUFFICES ASSUME RInit PROVE RefundInv
  OBVIOUS
<1>1. \A s \in Sweepers : sweep[s] = IdleSweep /\ IdleSweep \in SweepState
  BY DEF RInit, IdleSweep, SweepState, PaymentStatuses
<1>2. \A i \in Ids : intents[i] = NoIntent /\ NoIntent \in Intent
  BY DEF RInit, NoIntent, Intent, Providers, Storable
<1>3. \A s \in Sweepers : ListedRows(s) /\ ChargeDone(s)
  BY <1>1 DEF ListedRows, ChargeDone, IdleSweep
<1>4. RTypeOK
  BY <1>1, <1>2, BoundsAssumption DEF RInit, RTypeOK, NoIntent, IdleSweep
<1> QED  BY <1>2, <1>3, <1>4 DEF RefundInv, SucceededRefundable, NoIntent

LEMMA RefundStep == RefundInv /\ [RNext]_rVars => RefundInv'
<1> SUFFICES ASSUME RefundInv, [RNext]_rVars PROVE RefundInv'
  OBVIOUS
<1>1. CASE Restart
  <2>1. intents' = intents /\ session' = session /\ registered' \in Configurations
    BY <1>1 DEF Restart
  <2>2. \A s \in Sweepers : sweep'[s] = IdleSweep /\ IdleSweep \in SweepState
    BY <1>1 DEF Restart, IdleSweep, SweepState, PaymentStatuses
  <2>3. \A s \in Sweepers : ListedRows(s)' /\ ChargeDone(s)'
    BY <2>2 DEF ListedRows, ChargeDone, IdleSweep
  <2>4. RTypeOK'
    <3>1. sweep' \in [Sweepers -> SweepState] /\ faults' \in 0..MaxFaults
      BY <1>1, <2>2, BoundsAssumption DEF Restart, RefundInv, RTypeOK
    <3>2. \A s \in Sweepers : sweep'[s].pc = "idle"
      BY <2>2 DEF IdleSweep
    <3> QED  BY <2>1, <3>1, <3>2 DEF RefundInv, RTypeOK
  <2> QED  BY <2>1, <2>3, <2>4, SameIntents DEF RefundInv
<1>2. CASE UNCHANGED rVars
  <2>1. RTypeOK' /\ SucceededRefundable'
    BY <1>2 DEF rVars, RefundInv, RTypeOK, SucceededRefundable
  <2>2. RowsStay /\ sweep' = sweep
    BY <1>2, SameIntents DEF rVars
  <2> QED  BY <2>1, <2>2, OtherStepKeeps
<1> QED  BY <1>1, <1>2, CheckoutKeeps, SweepKeeps DEF RNext

\* store/payments.go:169-172, handlers/payments.go:706: however many payments,
\* sweeps and webhooks there are, whichever of them wins an intent and wherever each
\* stops, a payment that succeeded has the reference that refunds need, or the
\* sweep failed to write it.
THEOREM RefundsPossible == RSpec => []SucceededRefundable
<1>1. RefundInv => SucceededRefundable
  BY DEF RefundInv
<1> QED  BY <1>1, RefundInit, RefundStep, PTL DEF RSpec

=============================================================================
