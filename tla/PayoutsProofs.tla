---------------------------- MODULE PayoutsProofs ----------------------------
(***************************************************************************)
(* Theorems about Payouts, for any number of concurrent confirmations and  *)
(* payout requests, any wallets and payouts, and any cooling-off time.     *)
(***************************************************************************)
EXTENDS Payouts, FiniteSetTheorems, SequenceTheorems, TLAPS

(***************************************************************************)
(* Type correctness.                                                       *)
(***************************************************************************)

\* A payout request in flight asks for an amount the form admits.
Asking(r) == req[r].pc # "idle" => req[r].amount \in Amounts

TypeInv == TypeOK /\ \A r \in Requests : Asking(r)

LEMMA FunctionIsSeq ==
  ASSUME NEW S, NEW n \in Nat, NEW f \in [1..n -> S]
  PROVE  f \in Seq(S) /\ Len(f) = n /\ DOMAIN f = 1..n
OBVIOUS

\* What a step may do to the wallets: rows are never deleted, keep the time they
\* were created, and once confirmed remember that they were.
WalletsKept ==
  /\ wallets' \in Seq(Wallet)
  /\ DOMAIN wallets \subseteq DOMAIN wallets'
  /\ \A w \in DOMAIN wallets : /\ wallets'[w].createdAt = wallets[w].createdAt
                               /\ wallets[w].by # None => wallets'[w].by # None

\* A step on the wallets alone, or with the confirmations.
LEMMA WalletStepTyped ==
  ASSUME TypeInv, WalletsKept, UNCHANGED <<available, payouts, req, clock>>,
         conf' = conf
         \/ \E c \in Confirmers, s \in ConfState :
              /\ conf' = [conf EXCEPT ![c] = s]
              /\ s.pc # "idle" => s.token \in DOMAIN wallets /\ s.wallet \in DOMAIN wallets
  PROVE  TypeInv'
<1>1. /\ conf' \in [Confirmers -> ConfState]
      /\ \A c \in Confirmers : conf'[c].pc # "idle" =>
           conf'[c].token \in DOMAIN wallets' /\ conf'[c].wallet \in DOMAIN wallets'
  BY DEF TypeInv, TypeOK, WalletsKept
<1>2. \A r \in Requests : Asking(r)'
  BY DEF TypeInv, Asking
<1> QED  BY <1>1, <1>2 DEF TypeInv, TypeOK, WalletsKept

LEMMA CreatePendingKept ==
  ASSUME TypeInv, CreatePendingWallet PROVE WalletsKept
<1>0. PICK seen \in 0..Len(wallets) :
        wallets' = Append([w \in DOMAIN wallets |->
                             IF w \in Replaced(seen)
                             THEN [wallets[w] EXCEPT !.status = "superseded"] ELSE wallets[w]],
                          NewWallet)
  BY DEF CreatePendingWallet
<1> DEFINE old == [w \in DOMAIN wallets |->
                     IF w \in Replaced(seen)
                     THEN [wallets[w] EXCEPT !.status = "superseded"] ELSE wallets[w]]
<1>1. wallets \in Seq(Wallet) /\ clock \in Nat
  BY DEF TypeInv, TypeOK
<1>2. old \in [1..Len(wallets) -> Wallet] /\ Len(wallets) \in Nat
  <2>1. ASSUME NEW w \in 1..Len(wallets)
        PROVE  wallets[w] \in Wallet /\ [wallets[w] EXCEPT !.status = "superseded"] \in Wallet
    <3>1. wallets[w] \in Wallet
      BY <1>1, ElementOfSeq
    <3> QED  BY <3>1 DEF Wallet
  <2> QED  BY <1>1, <2>1, LenProperties
<1>3. \A w \in DOMAIN wallets : /\ old[w].createdAt = wallets[w].createdAt
                                /\ old[w].by = wallets[w].by
  BY <1>1 DEF Wallet
<1>4. NewWallet \in Wallet
  BY <1>1 DEF NewWallet, Wallet
<1>5. wallets' = Append(old, NewWallet)
  BY <1>0
<1>6. DOMAIN wallets = 1..Len(wallets)
  BY <1>1
<1> HIDE DEF old
<1>7. old \in Seq(Wallet) /\ Len(old) = Len(wallets)
  BY <1>2, FunctionIsSeq
<1> QED  BY <1>2, <1>3, <1>4, <1>5, <1>6, <1>7, AppendProperties DEF WalletsKept

\* One wallet's link changes.
LEMMA LinkKept ==
  ASSUME TypeInv, NEW w \in DOMAIN wallets, NEW link \in {"due", "refused", "live", "spent"},
         wallets' = [wallets EXCEPT ![w].link = link]
  PROVE  WalletsKept
<1> DEFINE row == [wallets[w] EXCEPT !.link = link]
<1>1. wallets \in Seq(Wallet) /\ DOMAIN wallets = 1..Len(wallets)
  BY DEF TypeInv, TypeOK
<1>2. row \in Wallet /\ row.createdAt = wallets[w].createdAt /\ row.by = wallets[w].by
  <2>1. wallets[w] \in Wallet
    BY <1>1, ElementOfSeq
  <2> QED  BY <2>1 DEF Wallet
<1>3. wallets' = [wallets EXCEPT ![w] = row]
  OBVIOUS
<1> HIDE DEF row
<1> QED  BY <1>1, <1>2, <1>3, ExceptSeq DEF WalletsKept

LEMMA CommitKept ==
  ASSUME TypeInv, NEW c \in Confirmers, ConfirmWalletCommit(c) PROVE WalletsKept
<1>1. /\ wallets \in Seq(Wallet) /\ DOMAIN wallets = 1..Len(wallets) /\ Len(wallets) \in Nat
      /\ EligibleAt(c) \in Nat
  BY AmountsAssumption DEF TypeInv, TypeOK, ConfState, EligibleAt
<1> DEFINE row(w) == IF w = conf[c].wallet
                     THEN [wallets[w] EXCEPT !.status = "confirmed", !.by = c,
                                               !.eligibleAt = EligibleAt(c)]
                     ELSE IF w \in conf[c].old
                          THEN [wallets[w] EXCEPT !.status = "superseded"] ELSE wallets[w]
<1>2. ASSUME NEW w \in 1..Len(wallets)
      PROVE  /\ row(w) \in Wallet /\ row(w).createdAt = wallets[w].createdAt
             /\ row(w).by = wallets[w].by \/ row(w).by = c
  <2>1. wallets[w] \in Wallet
    BY <1>1, ElementOfSeq
  <2> QED  BY <1>1, <2>1 DEF Wallet
<1>3. wallets' = [w \in 1..Len(wallets) |-> row(w)]
  BY <1>1 DEF ConfirmWalletCommit
<1> HIDE DEF row
<1>4. wallets' \in Seq(Wallet) /\ DOMAIN wallets' = DOMAIN wallets
  <2>1. wallets' \in [1..Len(wallets) -> Wallet]
    BY <1>2, <1>3
  <2> QED  BY <1>1, <2>1, FunctionIsSeq
<1>5. \A w \in DOMAIN wallets : /\ wallets'[w].createdAt = wallets[w].createdAt
                                /\ wallets[w].by # None => wallets'[w].by # None
  BY <1>1, <1>2, <1>3, ConfirmersAssumption
<1> QED  BY <1>4, <1>5 DEF WalletsKept

LEMMA SameWalletsKept == ASSUME TypeInv, wallets' = wallets PROVE WalletsKept
BY DEF TypeInv, TypeOK, WalletsKept

LEMMA WalletActionTyped ==
  ASSUME TypeInv,
         CreatePendingWallet \/ \E w \in DOMAIN wallets : CreateAuthToken(w) \/ TokenExpires(w)
  PROVE  TypeInv' /\ WalletsKept
<1>1. CASE CreatePendingWallet
  BY <1>1, CreatePendingKept, WalletStepTyped DEF CreatePendingWallet
<1>2. ASSUME NEW w \in DOMAIN wallets, CreateAuthToken(w)
      PROVE  TypeInv' /\ WalletsKept
  BY <1>2, LinkKept, WalletStepTyped DEF CreateAuthToken
<1>3. ASSUME NEW w \in DOMAIN wallets, TokenExpires(w)
      PROVE  TypeInv' /\ WalletsKept
  BY <1>3, LinkKept, WalletStepTyped DEF TokenExpires
<1> QED  BY <1>1, <1>2, <1>3

ConfStep(c) ==
  \/ confirmWallet(c) \/ ConfirmWalletSupersede(c) \/ ConfirmWalletCommit(c)
  \/ UseAuthToken(c) \/ ConfirmationAborts(c)

LEMMA ConfirmationTyped ==
  ASSUME TypeInv, NEW c \in Confirmers, ConfStep(c)
  PROVE  TypeInv' /\ WalletsKept
<1>1. /\ conf[c] \in ConfState /\ NoConf \in ConfState /\ NoConf.pc = "idle"
      /\ conf[c].pc # "idle" =>
           conf[c].token \in DOMAIN wallets /\ conf[c].wallet \in DOMAIN wallets
      /\ wallets \in Seq(Wallet) /\ DOMAIN wallets \subseteq Nat /\ clock \in Nat
  BY DEF TypeInv, TypeOK, NoConf, ConfState
<1>2. CASE confirmWallet(c)
  <2>1. PICK t \in DOMAIN wallets, w \in DOMAIN wallets :
          conf' = [conf EXCEPT ![c] = [pc |-> "supersede", token |-> t, wallet |-> w,
                                       at |-> clock, old |-> {}]]
    BY <1>2 DEF confirmWallet
  <2>2. [pc |-> "supersede", token |-> t, wallet |-> w, at |-> clock, old |-> {}] \in ConfState
    BY <1>1 DEF ConfState
  <2> QED  BY <1>2, <2>1, <2>2, SameWalletsKept, WalletStepTyped DEF confirmWallet
<1>3. CASE ConfirmWalletSupersede(c)
  <2> DEFINE s == [conf[c] EXCEPT !.pc = "commit", !.old = Superseded]
  <2>1. s \in ConfState /\ s.token = conf[c].token /\ s.wallet = conf[c].wallet
    BY <1>1 DEF ConfState, Superseded
  <2>2. conf' = [conf EXCEPT ![c] = s]
    BY <1>3 DEF ConfirmWalletSupersede
  <2> HIDE DEF s
  <2> QED  BY <1>1, <1>3, <2>1, <2>2, SameWalletsKept, WalletStepTyped DEF ConfirmWalletSupersede
<1>4. CASE ConfirmWalletCommit(c)
  <2> DEFINE s == [conf[c] EXCEPT !.pc = "use"]
  <2>1. s \in ConfState /\ s.token = conf[c].token /\ s.wallet = conf[c].wallet
    BY <1>1 DEF ConfState
  <2>2. conf' = [conf EXCEPT ![c] = s]
    BY <1>4 DEF ConfirmWalletCommit
  <2> HIDE DEF s
  <2> QED  BY <1>1, <1>4, <2>1, <2>2, CommitKept, WalletStepTyped DEF ConfirmWalletCommit
<1>5. CASE UseAuthToken(c)
  <2>1. WalletsKept
    BY <1>1, <1>5, LinkKept, SameWalletsKept DEF UseAuthToken
  <2> QED  BY <1>1, <1>5, <2>1, WalletStepTyped DEF UseAuthToken
<1>6. CASE ConfirmationAborts(c)
  BY <1>1, <1>6, SameWalletsKept, WalletStepTyped DEF ConfirmationAborts
<1> QED  BY <1>2, <1>3, <1>4, <1>5, <1>6 DEF ConfStep

ReqStep(r) ==
  submitPayoutRequest(r) \/ ListPayoutsBySeller(r) \/ CreatePayout(r) \/ RequestAborts(r)

\* A step of a payout request, which may add a payout.
LEMMA RequestStepTyped ==
  ASSUME TypeInv, NEW r \in Requests, NEW q \in ReqState, req' = [req EXCEPT ![r] = q],
         q.pc # "idle" => q.wallet \in DOMAIN wallets /\ q.amount \in Amounts,
         UNCHANGED <<wallets, conf, available, clock>>,
         payouts' = payouts
         \/ \E p \in Payout : p.wallet \in DOMAIN wallets /\ payouts' = Append(payouts, p)
  PROVE  TypeInv'
<1>1. /\ payouts' \in Seq(Payout)
      /\ \A p \in DOMAIN payouts' : payouts'[p].wallet \in DOMAIN wallets
  <2>1. payouts \in Seq(Payout) /\ \A p \in DOMAIN payouts : payouts[p].wallet \in DOMAIN wallets
    BY DEF TypeInv, TypeOK
  <2>2. ASSUME NEW p \in Payout, p.wallet \in DOMAIN wallets, payouts' = Append(payouts, p)
        PROVE  /\ payouts' \in Seq(Payout)
               /\ \A n \in DOMAIN payouts' : payouts'[n].wallet \in DOMAIN wallets
    BY <2>1, <2>2, AppendProperties
  <2> QED  BY <2>1, <2>2
<1>2. /\ req' \in [Requests -> ReqState]
      /\ \A s \in Requests : /\ req'[s].pc # "idle" => req'[s].wallet \in DOMAIN wallets
                             /\ Asking(s)'
  BY DEF TypeInv, TypeOK, Asking
<1> QED  BY <1>1, <1>2 DEF TypeInv, TypeOK

LEMMA RequestTyped ==
  ASSUME TypeInv, NEW r \in Requests, ReqStep(r) PROVE TypeInv'
<1>1. /\ req[r] \in ReqState /\ NoReq \in ReqState /\ NoReq.pc = "idle"
      /\ req[r].pc # "idle" => req[r].wallet \in DOMAIN wallets /\ req[r].amount \in Amounts
      /\ DOMAIN wallets \subseteq Nat /\ available \in Nat /\ clock \in Nat
  BY BoundsAssumption DEF TypeInv, TypeOK, Asking, NoReq, ReqState
<1>2. CASE submitPayoutRequest(r)
  <2>1. PICK w \in DOMAIN wallets, a \in Amounts :
          req' = [req EXCEPT ![r] = [pc |-> "sum", wallet |-> w, amount |-> a,
                                     balance |-> available]]
    BY <1>2 DEF submitPayoutRequest, RequestedAmounts
  <2>2. [pc |-> "sum", wallet |-> w, amount |-> a, balance |-> available] \in ReqState
    BY <1>1 DEF ReqState
  <2> QED  BY <1>2, <2>1, <2>2, RequestStepTyped DEF submitPayoutRequest
<1>3. CASE ListPayoutsBySeller(r)
  <2> DEFINE q == [req[r] EXCEPT !.pc = "create"]
  <2>1. q \in ReqState /\ q.wallet = req[r].wallet /\ q.amount = req[r].amount
    BY <1>1 DEF ReqState
  <2>2. req' = [req EXCEPT ![r] = q] \/ req' = [req EXCEPT ![r] = NoReq]
    BY <1>3 DEF ListPayoutsBySeller
  <2> HIDE DEF q
  <2> QED  BY <1>1, <1>3, <2>1, <2>2, RequestStepTyped DEF ListPayoutsBySeller
<1>4. CASE CreatePayout(r)
  <2> DEFINE p == [wallet |-> req[r].wallet, amount |-> req[r].amount, at |-> clock,
                   txHash |-> None,
                   status |-> IF IsHighValue(req[r].amount) THEN "needs_manual_review"
                              ELSE "queued"]
  <2>1. p \in Payout /\ p.wallet \in DOMAIN wallets
    BY <1>1, <1>4 DEF CreatePayout, Payout
  <2>2. payouts' = Append(payouts, p)
    BY <1>4 DEF CreatePayout
  <2> HIDE DEF p
  <2> QED  BY <1>1, <1>4, <2>1, <2>2, RequestStepTyped DEF CreatePayout
<1>5. CASE RequestAborts(r)
  BY <1>1, <1>5, RequestStepTyped DEF RequestAborts
<1> QED  BY <1>2, <1>3, <1>4, <1>5 DEF ReqStep

\* An admin's decision changes one payout, and neither its wallet nor its time.
LEMMA TransitionTyped ==
  ASSUME TypeInv, NEW p \in DOMAIN payouts, adminPayoutApprove(p) \/ adminPayoutComplete(p)
  PROVE  /\ TypeInv'
         /\ DOMAIN payouts' = DOMAIN payouts
         /\ \A q \in DOMAIN payouts : /\ payouts'[q].wallet = payouts[q].wallet
                                      /\ payouts'[q].at = payouts[q].at
<1>1. PICK status \in {"ready_for_manual_execution", "completed"}, h \in TxHashes \cup {None},
           from \in {"needs_manual_review", "ready_for_manual_execution"} :
        TransitionPayout(p, from, status, h)
  BY DEF adminPayoutApprove, adminPayoutComplete
<1> DEFINE row == [payouts[p] EXCEPT !.status = status, !.txHash = IF h = None THEN @ ELSE h]
<1>2. payouts \in Seq(Payout) /\ DOMAIN payouts = 1..Len(payouts)
  BY DEF TypeInv, TypeOK
<1>3. row \in Payout /\ row.wallet = payouts[p].wallet /\ row.at = payouts[p].at
  <2>1. payouts[p] \in Payout
    BY <1>2, ElementOfSeq
  <2> QED  BY <2>1 DEF Payout
<1>4. payouts' = [payouts EXCEPT ![p] = row]
  BY <1>1 DEF TransitionPayout
<1> HIDE DEF row
<1>5. payouts' \in Seq(Payout) /\ DOMAIN payouts' = DOMAIN payouts
  BY <1>2, <1>3, <1>4, ExceptSeq
<1>6. \A q \in DOMAIN payouts : /\ payouts'[q].wallet = payouts[q].wallet
                                /\ payouts'[q].at = payouts[q].at
  BY <1>2, <1>3, <1>4
<1>7. TypeInv'
  BY <1>1, <1>5, <1>6 DEF TransitionPayout, TypeInv, TypeOK, Asking
<1> QED  BY <1>5, <1>6, <1>7

LEMMA OutsideTyped == ASSUME TypeInv, BalanceMoves \/ Tick PROVE TypeInv'
<1>1. CASE BalanceMoves
  BY <1>1 DEF BalanceMoves, TypeInv, TypeOK, Asking
<1>2. CASE Tick
  BY <1>2 DEF Tick, TypeInv, TypeOK, Asking
<1> QED  BY <1>1, <1>2

LEMMA TypeInit == Init => TypeInv
BY BoundsAssumption DEF Init, TypeInv, TypeOK, Asking, NoConf, ConfState, NoReq, ReqState

LEMMA TypeStep == TypeInv /\ [Next]_vars => TypeInv'
<1> SUFFICES ASSUME TypeInv, [Next]_vars PROVE TypeInv'
  OBVIOUS
<1>1. CASE Next
  BY <1>1, WalletActionTyped, ConfirmationTyped, RequestTyped, TransitionTyped, OutsideTyped
  DEF Next, ConfStep, ReqStep
<1>2. CASE UNCHANGED vars
  BY <1>2 DEF vars, TypeInv, TypeOK, Asking
<1> QED  BY <1>1, <1>2

\* Every variable keeps its type; a payout and a request in flight name a wallet
\* that exists.
THEOREM TypeCorrect == Spec => []TypeOK
<1>1. TypeInv => TypeOK
  BY DEF TypeInv
<1> QED  BY <1>1, TypeInit, TypeStep, PTL DEF Spec

(***************************************************************************)
(* A completed payout stays as it is: the decisions compare the status     *)
(* they start from, and nothing else writes a payout that is there.        *)
(***************************************************************************)

\* A completed payout is never changed, whatever two admins submit.
THEOREM CompletedStays == Spec => CompletedFinal
<1>1. ASSUME TypeInv, [Next]_vars
      PROVE  \A p \in DOMAIN payouts :
               payouts[p].status = "completed" => payouts'[p] = payouts[p]
  <2> SUFFICES ASSUME NEW p \in DOMAIN payouts, payouts[p].status = "completed"
               PROVE  payouts'[p] = payouts[p]
    OBVIOUS
  <2>0. payouts \in Seq(Payout) /\ DOMAIN payouts = 1..Len(payouts)
    BY <1>1 DEF TypeInv, TypeOK
  <2>1. ASSUME NEW r \in Requests, CreatePayout(r)
        PROVE  payouts'[p] = payouts[p]
    <3>1. PICK x : payouts' = Append(payouts, x)
      BY <2>1 DEF CreatePayout
    <3> QED  BY <2>0, <3>1
  <2>2. ASSUME NEW q \in DOMAIN payouts, adminPayoutApprove(q) \/ adminPayoutComplete(q)
        PROVE  payouts'[p] = payouts[p]
    <3>1. p # q
      BY <2>2 DEF adminPayoutApprove, adminPayoutComplete, TransitionPayout, InState
    <3> QED  BY <2>0, <2>2, <3>1 DEF adminPayoutApprove, adminPayoutComplete, TransitionPayout
  <2>3. CASE UNCHANGED payouts
    BY <2>3
  <2> QED
    BY <1>1, <2>1, <2>2, <2>3
    DEF Next, vars, CreatePendingWallet, CreateAuthToken, TokenExpires, confirmWallet,
        ConfirmWalletSupersede, ConfirmWalletCommit, UseAuthToken, ConfirmationAborts,
        submitPayoutRequest, ListPayoutsBySeller, RequestAborts, BalanceMoves, Tick
<1> QED  BY <1>1, TypeInit, TypeStep, PTL DEF Spec, CompletedFinal

LEMMA RowsTyped == ASSUME TypeInv PROVE \A w \in DOMAIN wallets : wallets[w] \in Wallet
<1>1. wallets \in Seq(Wallet) /\ DOMAIN wallets = 1..Len(wallets)
  BY DEF TypeInv, TypeOK
<1> QED  BY <1>1, ElementOfSeq

(***************************************************************************)
(* What a step does to the wallets when it confirms none.                  *)
(***************************************************************************)
KeptRow(old, new) ==
  /\ new.createdAt = old.createdAt /\ new.eligibleAt = old.eligibleAt /\ new.by = old.by
  /\ new.status \in {old.status, "superseded"}

NothingConfirmed ==
  \A w \in DOMAIN wallets' :
    \/ w \in DOMAIN wallets /\ KeptRow(wallets[w], wallets'[w])
    \/ wallets'[w] = NewWallet

LEMMA PendingConfirmsNothing ==
  ASSUME TypeInv, CreatePendingWallet PROVE NothingConfirmed
<1>0. PICK seen \in 0..Len(wallets) :
        wallets' = Append([w \in DOMAIN wallets |->
                             IF w \in Replaced(seen)
                             THEN [wallets[w] EXCEPT !.status = "superseded"] ELSE wallets[w]],
                          NewWallet)
  BY DEF CreatePendingWallet
<1> DEFINE old == [w \in DOMAIN wallets |->
                     IF w \in Replaced(seen)
                     THEN [wallets[w] EXCEPT !.status = "superseded"] ELSE wallets[w]]
<1>1. /\ wallets \in Seq(Wallet) /\ DOMAIN wallets = 1..Len(wallets) /\ Len(wallets) \in Nat
      /\ \A w \in 1..Len(wallets) : wallets[w] \in Wallet
  BY DEF TypeInv, TypeOK
<1>2. \A w \in 1..Len(wallets) : KeptRow(wallets[w], old[w])
  BY <1>1 DEF Wallet, KeptRow
<1>3. wallets' = Append(old, NewWallet)
  BY <1>0
<1>4. old \in Seq({old[w] : w \in 1..Len(wallets)}) /\ Len(old) = Len(wallets)
  BY <1>1, FunctionIsSeq
<1> HIDE DEF old
<1>5. /\ DOMAIN wallets' = 1..(Len(wallets) + 1)
      /\ wallets'[Len(wallets) + 1] = NewWallet
      /\ \A w \in 1..Len(wallets) : wallets'[w] = old[w]
  BY <1>1, <1>3, <1>4
<1> QED  BY <1>1, <1>2, <1>5 DEF NothingConfirmed

LEMMA LinkConfirmsNothing ==
  ASSUME TypeInv, NEW w \in DOMAIN wallets, NEW link,
         wallets' = [wallets EXCEPT ![w].link = link]
  PROVE  NothingConfirmed
<1>1. \A v \in DOMAIN wallets : wallets[v] \in Wallet
  BY DEF TypeInv, TypeOK
<1>2. DOMAIN wallets' = DOMAIN wallets
  OBVIOUS
<1>3. ASSUME NEW v \in DOMAIN wallets PROVE KeptRow(wallets[v], wallets'[v])
  <2>1. CASE v # w
    BY <2>1 DEF KeptRow
  <2>2. CASE v = w
    <3>1. wallets'[v] = [wallets[v] EXCEPT !.link = link]
      BY <2>2
    <3> QED  BY <1>1, <3>1 DEF KeptRow, Wallet
  <2> QED  BY <2>1, <2>2
<1> QED  BY <1>2, <1>3 DEF NothingConfirmed

LEMMA SameConfirmsNothing == ASSUME wallets' = wallets PROVE NothingConfirmed
BY DEF NothingConfirmed, KeptRow

\* Only the commit of a confirmation confirms.
LEMMA OnlyCommitConfirms ==
  ASSUME TypeInv, [Next]_vars, \A c \in Confirmers : ~ConfirmWalletCommit(c)
  PROVE  NothingConfirmed
<1>1. CASE CreatePendingWallet
  BY <1>1, PendingConfirmsNothing
<1>2. ASSUME NEW w \in DOMAIN wallets, CreateAuthToken(w) \/ TokenExpires(w)
      PROVE  NothingConfirmed
  BY <1>2, LinkConfirmsNothing DEF CreateAuthToken, TokenExpires
<1>3. ASSUME NEW c \in Confirmers, UseAuthToken(c)
      PROVE  NothingConfirmed
  <2>1. conf[c].token \in DOMAIN wallets
    BY <1>3 DEF UseAuthToken, TypeInv, TypeOK
  <2> QED  BY <1>3, <2>1, LinkConfirmsNothing, SameConfirmsNothing DEF UseAuthToken
<1>4. CASE wallets' = wallets
  BY <1>4, SameConfirmsNothing
<1> QED
  BY <1>1, <1>2, <1>3, <1>4
  DEF Next, vars, confirmWallet, ConfirmWalletSupersede, ConfirmationAborts,
      submitPayoutRequest, ListPayoutsBySeller, CreatePayout, RequestAborts,
      adminPayoutApprove, adminPayoutComplete, TransitionPayout, BalanceMoves, Tick

\* And what it does, row by row.
LEMMA CommitRows ==
  ASSUME TypeInv, NEW c \in Confirmers, ConfirmWalletCommit(c)
  PROVE  /\ DOMAIN wallets' = DOMAIN wallets
         /\ conf[c].wallet \in DOMAIN wallets /\ conf[c].at \in Nat
         /\ wallets'[conf[c].wallet].status = "confirmed"
         /\ wallets'[conf[c].wallet].by = c
         /\ wallets'[conf[c].wallet].createdAt = wallets[conf[c].wallet].createdAt
         /\ wallets'[conf[c].wallet].eligibleAt = conf[c].at + Cooldown
         /\ \A w \in DOMAIN wallets \ {conf[c].wallet} :
              /\ KeptRow(wallets[w], wallets'[w])
              /\ w \in conf[c].old => wallets'[w].status = "superseded"
<1> DEFINE m == conf[c].wallet
<1>1. /\ \A w \in DOMAIN wallets : wallets[w] \in Wallet
      /\ m \in DOMAIN wallets /\ conf[c].at \in Nat
  BY RowsTyped DEF TypeInv, TypeOK, ConfState, ConfirmWalletCommit
<1>2. DOMAIN wallets' = DOMAIN wallets
  BY DEF ConfirmWalletCommit
<1>3. wallets'[m] = [wallets[m] EXCEPT !.status = "confirmed", !.by = c,
                                       !.eligibleAt = conf[c].at + Cooldown]
  BY <1>1 DEF ConfirmWalletCommit, EligibleAt
<1>4. /\ wallets'[m].status = "confirmed" /\ wallets'[m].by = c
      /\ wallets'[m].createdAt = wallets[m].createdAt
      /\ wallets'[m].eligibleAt = conf[c].at + Cooldown
  <2>1. wallets[m] \in Wallet
    BY <1>1
  <2> HIDE DEF m
  <2> QED  BY <1>3, <2>1 DEF Wallet
<1>5. ASSUME NEW w \in DOMAIN wallets \ {m}
      PROVE  /\ KeptRow(wallets[w], wallets'[w])
             /\ w \in conf[c].old => wallets'[w].status = "superseded"
  <2>1. wallets[w] \in Wallet
    BY <1>1
  <2>2. wallets'[w] = IF w \in conf[c].old THEN [wallets[w] EXCEPT !.status = "superseded"]
                      ELSE wallets[w]
    BY <1>5 DEF ConfirmWalletCommit
  <2> QED  BY <2>1, <2>2 DEF Wallet, KeptRow
<1> QED  BY <1>1, <1>2, <1>4, <1>5

(***************************************************************************)
(* What a step does to one confirmation, to one request and to the clock.  *)
(***************************************************************************)
LEMMA ConfFrame ==
  ASSUME TypeInv, [Next]_vars, NEW c \in Confirmers
  PROVE  \/ conf'[c] = conf[c] \/ conf'[c].pc \in {"idle", "use"}
         \/ confirmWallet(c) \/ ConfirmWalletSupersede(c)
<1>0. conf \in [Confirmers -> ConfState]
  BY DEF TypeInv, TypeOK
<1>1. ASSUME NEW d \in Confirmers, ConfStep(d), d # c PROVE conf'[c] = conf[c]
  BY <1>0, <1>1 DEF ConfStep, confirmWallet, ConfirmWalletSupersede, ConfirmWalletCommit,
                    UseAuthToken, ConfirmationAborts
<1>2. ASSUME ConfirmWalletCommit(c) PROVE conf'[c].pc = "use"
  <2>1. conf[c] \in ConfState /\ conf'[c] = [conf[c] EXCEPT !.pc = "use"]
    BY <1>0, <1>2 DEF ConfirmWalletCommit
  <2> QED  BY <2>1 DEF ConfState
<1>3. ASSUME UseAuthToken(c) \/ ConfirmationAborts(c) PROVE conf'[c].pc = "idle"
  BY <1>0, <1>3 DEF UseAuthToken, ConfirmationAborts, NoConf
<1>4. CASE conf' = conf
  BY <1>4
<1> QED
  BY <1>1, <1>2, <1>3, <1>4
  DEF Next, vars, ConfStep, CreatePendingWallet, CreateAuthToken, TokenExpires,
      submitPayoutRequest, ListPayoutsBySeller, CreatePayout, RequestAborts,
      adminPayoutApprove, adminPayoutComplete, TransitionPayout, BalanceMoves, Tick

LEMMA ReqFrame ==
  ASSUME TypeInv, [Next]_vars, NEW r \in Requests
  PROVE  \/ req'[r].pc = "idle" \/ submitPayoutRequest(r)
         \/ req[r].pc # "idle" /\ req'[r].wallet = req[r].wallet
<1>0. req \in [Requests -> ReqState] /\ NoReq.pc = "idle"
  BY DEF TypeInv, TypeOK, NoReq
<1>1. ASSUME NEW s \in Requests, ReqStep(s), s # r PROVE req'[r] = req[r]
  BY <1>0, <1>1 DEF ReqStep, submitPayoutRequest, ListPayoutsBySeller, CreatePayout, RequestAborts
<1>2. ASSUME CreatePayout(r) \/ RequestAborts(r) PROVE req'[r].pc = "idle"
  BY <1>0, <1>2 DEF CreatePayout, RequestAborts
<1>3. ASSUME ListPayoutsBySeller(r)
      PROVE  req'[r].pc = "idle" \/ (req[r].pc # "idle" /\ req'[r].wallet = req[r].wallet)
  <2> DEFINE q == [req[r] EXCEPT !.pc = "create"]
  <2>1. q.wallet = req[r].wallet
    BY <1>0 DEF ReqState
  <2>2. req'[r] = q \/ req'[r] = NoReq
    BY <1>0, <1>3 DEF ListPayoutsBySeller
  <2> HIDE DEF q
  <2> QED  BY <1>0, <1>3, <2>1, <2>2 DEF ListPayoutsBySeller
<1>4. CASE req' = req
  BY <1>4
<1> QED
  BY <1>1, <1>2, <1>3, <1>4
  DEF Next, vars, ReqStep, CreatePendingWallet, CreateAuthToken, TokenExpires, confirmWallet,
      ConfirmWalletSupersede, ConfirmWalletCommit, UseAuthToken, ConfirmationAborts,
      adminPayoutApprove, adminPayoutComplete, TransitionPayout, BalanceMoves, Tick

LEMMA ClockFrame ==
  ASSUME TypeInv, [Next]_vars PROVE clock \in Nat /\ clock' \in Nat /\ clock <= clock'
<1>1. clock \in Nat
  BY DEF TypeInv, TypeOK
<1>2. clock' = clock \/ clock' = clock + 1
  BY DEF Next, vars, CreatePendingWallet, CreateAuthToken, TokenExpires, confirmWallet,
      ConfirmWalletSupersede, ConfirmWalletCommit, UseAuthToken, ConfirmationAborts,
      submitPayoutRequest, ListPayoutsBySeller, CreatePayout, RequestAborts,
      adminPayoutApprove, adminPayoutComplete, TransitionPayout, BalanceMoves, Tick
<1> QED  BY <1>1, <1>2

LEMMA Kept == ASSUME TypeInv, [Next]_vars PROVE WalletsKept
<1>1. CASE UNCHANGED wallets
  BY <1>1, SameWalletsKept
<1> QED
  BY <1>1, WalletActionTyped, ConfirmationTyped
  DEF Next, vars, ConfStep,
      submitPayoutRequest, ListPayoutsBySeller, CreatePayout, RequestAborts,
      adminPayoutApprove, adminPayoutComplete, TransitionPayout, BalanceMoves, Tick

(***************************************************************************)
(* Cooling off.  A wallet is not eligible before Cooldown has passed since *)
(* it was created, since it is confirmed later than that; that it was      *)
(* confirmed stays true of it, so a request that has seen it eligible may  *)
(* insert its payout at any later time.                                    *)
(***************************************************************************)
RowAged(x, now) ==
  /\ x.createdAt <= now
  /\ x.by # None => x.createdAt + Cooldown <= x.eligibleAt
  /\ x.status = "confirmed" => x.by # None

Aged(x, at) == x.by # None /\ x.createdAt + Cooldown <= at

RowsAged == \A w \in DOMAIN wallets : RowAged(wallets[w], clock)
BegunLater ==
  \A c \in Confirmers : conf[c].pc \in {"supersede", "commit"} =>
    wallets[conf[c].wallet].createdAt <= conf[c].at
AskedLater == \A r \in Requests : req[r].pc # "idle" => Aged(wallets[req[r].wallet], clock)

AgeInv == RowsAged /\ BegunLater /\ AskedLater /\ CoolingOff

LEMMA AgedStays ==
  ASSUME TypeInv, [Next]_vars, NEW w \in DOMAIN wallets, NEW at \in Nat, NEW later \in Nat,
         at <= later, Aged(wallets[w], at)
  PROVE  Aged(wallets'[w], later)
<1>1. wallets[w].createdAt \in Nat /\ wallets[w] \in Wallet
  BY RowsTyped DEF Wallet
<1>2. wallets'[w].createdAt = wallets[w].createdAt /\ (wallets[w].by # None => wallets'[w].by # None)
  BY Kept DEF WalletsKept
<1> QED  BY <1>1, <1>2, AmountsAssumption DEF Aged

LEMMA RowsAgedStep == ASSUME TypeInv, AgeInv, [Next]_vars PROVE RowsAged'
<1>1. \A w \in DOMAIN wallets :
        /\ wallets[w].createdAt \in Nat /\ wallets[w].eligibleAt \in Nat
        /\ RowAged(wallets[w], clock)
  BY RowsTyped DEF Wallet, AgeInv, RowsAged
<1>2. ASSUME NEW c \in Confirmers, ConfirmWalletCommit(c) PROVE RowsAged'
  <2>1. wallets[conf[c].wallet].createdAt <= conf[c].at
    BY <1>2 DEF AgeInv, BegunLater, ConfirmWalletCommit
  <2>2. RowAged(wallets'[conf[c].wallet], clock')
    BY <1>1, <1>2, <2>1, CommitRows, ClockFrame, AmountsAssumption, ConfirmersAssumption DEF RowAged
  <2>3. \A w \in DOMAIN wallets \ {conf[c].wallet} : RowAged(wallets'[w], clock')
    BY <1>1, <1>2, CommitRows, ClockFrame DEF RowAged, KeptRow
  <2> QED  BY <1>2, <2>2, <2>3, CommitRows DEF RowsAged
<1>3. CASE NothingConfirmed
  <2>1. NewWallet.createdAt = clock /\ NewWallet.by = None /\ NewWallet.status = "pending"
    BY DEF NewWallet
  <2>2. RowAged(NewWallet, clock')
    BY <2>1, ClockFrame DEF RowAged
  <2>3. \A w \in DOMAIN wallets : \A new : KeptRow(wallets[w], new) => RowAged(new, clock')
    BY <1>1, ClockFrame DEF RowAged, KeptRow
  <2> QED  BY <1>3, <2>2, <2>3 DEF NothingConfirmed, RowsAged
<1> QED  BY <1>2, <1>3, OnlyCommitConfirms

LEMMA BegunLaterStep == ASSUME TypeInv, AgeInv, [Next]_vars PROVE BegunLater'
<1> SUFFICES ASSUME NEW c \in Confirmers, conf'[c].pc \in {"supersede", "commit"}
             PROVE  wallets'[conf'[c].wallet].createdAt <= conf'[c].at
  BY DEF BegunLater
<1>0. conf[c] \in ConfState /\ conf \in [Confirmers -> ConfState]
  BY DEF TypeInv, TypeOK
<1>1. CASE confirmWallet(c)
  <2>1. PICK w \in DOMAIN wallets : conf'[c].wallet = w /\ conf'[c].at = clock
    BY <1>0, <1>1 DEF confirmWallet
  <2>2. wallets' = wallets /\ wallets[w].createdAt <= clock
    BY <1>1 DEF confirmWallet, AgeInv, RowsAged, RowAged
  <2> QED  BY <2>1, <2>2
<1>2. ASSUME conf[c].pc \in {"supersede", "commit"}, conf'[c].wallet = conf[c].wallet,
             conf'[c].at = conf[c].at
      PROVE  wallets'[conf'[c].wallet].createdAt <= conf'[c].at
  <2>1. conf[c].wallet \in DOMAIN wallets
    BY <1>2 DEF TypeInv, TypeOK
  <2> QED  BY <1>2, <2>1, Kept DEF AgeInv, BegunLater, WalletsKept
<1>3. CASE ConfirmWalletSupersede(c)
  <2> DEFINE s == [conf[c] EXCEPT !.pc = "commit", !.old = Superseded]
  <2>1. s.wallet = conf[c].wallet /\ s.at = conf[c].at
    BY <1>0 DEF ConfState
  <2>2. conf'[c] = s /\ conf[c].pc = "supersede"
    BY <1>0, <1>3 DEF ConfirmWalletSupersede
  <2> HIDE DEF s
  <2> QED  BY <1>2, <2>1, <2>2
<1> QED  BY <1>1, <1>2, <1>3, ConfFrame

LEMMA AskedLaterStep == ASSUME TypeInv, AgeInv, [Next]_vars PROVE AskedLater'
<1> SUFFICES ASSUME NEW r \in Requests, req'[r].pc # "idle"
             PROVE  Aged(wallets'[req'[r].wallet], clock')
  BY DEF AskedLater
<1>1. CASE submitPayoutRequest(r)
  <2>1. PICK w \in DOMAIN wallets : IsPayoutEligible(w) /\ req'[r].wallet = w
    BY <1>1 DEF submitPayoutRequest, TypeInv, TypeOK
  <2>2. wallets' = wallets /\ clock' = clock
    BY <1>1 DEF submitPayoutRequest
  <2>3. /\ RowAged(wallets[w], clock) /\ wallets[w].eligibleAt \in Nat
        /\ wallets[w].createdAt \in Nat
    BY RowsTyped DEF AgeInv, RowsAged, Wallet
  <2> QED  BY <2>1, <2>2, <2>3, ClockFrame, AmountsAssumption DEF IsPayoutEligible, Aged, RowAged
<1>2. CASE req[r].pc # "idle" /\ req'[r].wallet = req[r].wallet
  <2>1. req[r].wallet \in DOMAIN wallets /\ Aged(wallets[req[r].wallet], clock)
    BY <1>2 DEF AgeInv, AskedLater, TypeInv, TypeOK
  <2> QED  BY <1>2, <2>1, ClockFrame, AgedStays
<1> QED  BY <1>1, <1>2, ReqFrame

LEMMA CoolingOffStep == ASSUME TypeInv, AgeInv, [Next]_vars PROVE CoolingOff'
<1>1. /\ \A p \in DOMAIN payouts : /\ payouts[p].wallet \in DOMAIN wallets
                                   /\ payouts[p].at \in Nat
                                   /\ Aged(wallets[payouts[p].wallet], payouts[p].at)
      /\ payouts \in Seq(Payout) /\ DOMAIN payouts = 1..Len(payouts) /\ Len(payouts) \in Nat
  <2>1. payouts \in Seq(Payout) /\ DOMAIN payouts = 1..Len(payouts) /\ Len(payouts) \in Nat
    BY DEF TypeInv, TypeOK
  <2>2. \A p \in DOMAIN payouts : payouts[p] \in Payout
    BY <2>1, ElementOfSeq
  <2> QED  BY <2>1, <2>2 DEF AgeInv, CoolingOff, Aged, TypeInv, TypeOK, Payout
<1>2. \A p \in DOMAIN payouts : Aged(wallets'[payouts[p].wallet], payouts[p].at)
  BY <1>1, AgedStays
<1>3. ASSUME NEW r \in Requests, CreatePayout(r) PROVE CoolingOff'
  <2>1. PICK x : payouts' = Append(payouts, x) /\ x.wallet = req[r].wallet /\ x.at = clock
    BY <1>3 DEF CreatePayout
  <2>2. /\ DOMAIN payouts' = 1..(Len(payouts) + 1) /\ payouts'[Len(payouts) + 1] = x
        /\ \A p \in 1..Len(payouts) : payouts'[p] = payouts[p]
    BY <1>1, <2>1
  <2>3. Aged(wallets[req[r].wallet], clock) /\ wallets' = wallets
    BY <1>3 DEF CreatePayout, AgeInv, AskedLater
  <2>4. \A p \in DOMAIN payouts' : Aged(wallets'[payouts'[p].wallet], payouts'[p].at)
    BY <1>1, <1>2, <2>1, <2>2, <2>3
  <2> QED  BY <2>4 DEF CoolingOff, Aged
<1>4. ASSUME NEW p \in DOMAIN payouts, adminPayoutApprove(p) \/ adminPayoutComplete(p)
      PROVE  CoolingOff'
  <2>1. \A q \in DOMAIN payouts' : Aged(wallets'[payouts'[q].wallet], payouts'[q].at)
    BY <1>2, <1>4, TransitionTyped
  <2> QED  BY <2>1 DEF CoolingOff, Aged
<1>5. CASE UNCHANGED payouts
  <2>1. \A q \in DOMAIN payouts' : Aged(wallets'[payouts'[q].wallet], payouts'[q].at)
    BY <1>2, <1>5
  <2> QED  BY <2>1 DEF CoolingOff, Aged
<1> QED
  BY <1>3, <1>4, <1>5
  DEF Next, vars, CreatePendingWallet, CreateAuthToken, TokenExpires, confirmWallet,
      ConfirmWalletSupersede, ConfirmWalletCommit, UseAuthToken, ConfirmationAborts,
      submitPayoutRequest, ListPayoutsBySeller, RequestAborts, BalanceMoves, Tick

\* No payout goes to a wallet younger than the cooling-off time.
THEOREM WalletsCoolOff == Spec => []CoolingOff
<1>1. Init => TypeInv /\ AgeInv
  BY TypeInit DEF Init, AgeInv, RowsAged, BegunLater, AskedLater, CoolingOff, NoConf, NoReq
<1>2. TypeInv /\ AgeInv /\ [Next]_vars => TypeInv' /\ AgeInv'
  BY TypeStep, RowsAgedStep, BegunLaterStep, AskedLaterStep, CoolingOffStep DEF AgeInv
<1>3. AgeInv => CoolingOff
  BY DEF AgeInv
<1> QED  BY <1>1, <1>2, <1>3, PTL DEF Spec

(***************************************************************************)
(* One wallet per confirmer.  A confirmation that is about to commit has   *)
(* seen every wallet that it confirmed itself before.                      *)
(***************************************************************************)
SeenInv ==
  /\ \A c \in Confirmers : conf[c].pc = "commit" =>
       \A w \in DOMAIN wallets :
         wallets[w].status = "confirmed" /\ wallets[w].by = c => w \in conf[c].old
  /\ OneWalletPerConfirmer

LEMMA SeenStep == TypeInv /\ SeenInv /\ [Next]_vars => SeenInv'
<1> SUFFICES ASSUME TypeInv, SeenInv, [Next]_vars PROVE SeenInv'
  OBVIOUS
<1>0. conf \in [Confirmers -> ConfState]
  BY DEF TypeInv, TypeOK
<1>1. ASSUME NEW c \in Confirmers, ConfirmWalletCommit(c)
      PROVE  SeenInv'
  <2>1. /\ conf[c].pc = "commit" /\ conf'[c].pc = "use"
        /\ \A d \in Confirmers \ {c} : conf'[d] = conf[d]
    BY <1>0, <1>1 DEF ConfirmWalletCommit, ConfState
  <2>2. /\ DOMAIN wallets' = DOMAIN wallets
        /\ \A w \in DOMAIN wallets :
             wallets'[w].status = "confirmed" =>
               \/ w = conf[c].wallet /\ wallets'[w].by = c
               \/ /\ w # conf[c].wallet /\ w \notin conf[c].old
                  /\ wallets[w].status = "confirmed" /\ wallets'[w].by = wallets[w].by
    BY <1>1, CommitRows DEF KeptRow
  <2>3. \A w \in DOMAIN wallets :
          wallets[w].status = "confirmed" /\ w \notin conf[c].old => wallets[w].by # c
    BY <2>1 DEF SeenInv
  <2>4. OneWalletPerConfirmer'
    BY <2>2, <2>3 DEF SeenInv, OneWalletPerConfirmer
  <2>5. \A d \in Confirmers : conf'[d].pc = "commit" =>
          \A w \in DOMAIN wallets' :
            wallets'[w].status = "confirmed" /\ wallets'[w].by = d => w \in conf'[d].old
    BY <2>1, <2>2 DEF SeenInv
  <2> QED  BY <2>4, <2>5 DEF SeenInv
<1>2. CASE NothingConfirmed
  <2>1. \A w \in DOMAIN wallets' : wallets'[w].status = "confirmed" =>
          /\ w \in DOMAIN wallets /\ wallets[w].status = "confirmed"
          /\ wallets'[w].by = wallets[w].by
    BY <1>2 DEF NothingConfirmed, KeptRow, NewWallet
  <2>2. OneWalletPerConfirmer'
    BY <2>1 DEF SeenInv, OneWalletPerConfirmer
  <2>3. ASSUME NEW c \in Confirmers, conf'[c].pc = "commit",
               NEW w \in DOMAIN wallets', wallets'[w].status = "confirmed", wallets'[w].by = c
        PROVE  w \in conf'[c].old
    <3>1. CASE ConfirmWalletSupersede(c)
      <4>1. conf'[c].old = Superseded
        BY <1>0, <3>1 DEF ConfirmWalletSupersede, ConfState
      <4> QED  BY <2>1, <2>3, <4>1 DEF Superseded
    <3>2. CASE conf'[c] = conf[c]
      BY <2>1, <2>3, <3>2 DEF SeenInv
    <3>3. ~confirmWallet(c)
      BY <1>0, <2>3 DEF confirmWallet
    <3> QED  BY <2>3, <3>1, <3>2, <3>3, ConfFrame
  <2> QED  BY <2>2, <2>3 DEF SeenInv
<1> QED  BY <1>1, <1>2, OnlyCommitConfirms

\* A confirmation supersedes what the same request confirmed before.
THEOREM ConfirmersLeaveOne == Spec => []OneWalletPerConfirmer
<1>1. Init => TypeInv /\ SeenInv
  BY TypeInit DEF Init, SeenInv, OneWalletPerConfirmer, NoConf
<1>2. TypeInv /\ SeenInv /\ [Next]_vars => TypeInv' /\ SeenInv'
  BY TypeStep, SeenStep
<1>3. SeenInv => OneWalletPerConfirmer
  BY DEF SeenInv
<1> QED  BY <1>1, <1>2, <1>3, PTL DEF Spec

(***************************************************************************)
(* The overdraft.  Amounts are added up as sets of units: f[x] units for   *)
(* each x of S.                                                            *)
(***************************************************************************)
Units(S, f) == UNION {{x} \X (1..f[x]) : x \in S}

LEMMA UnitsOf ==
  ASSUME NEW S, NEW f, NEW u
  PROVE  u \in Units(S, f) <=> \E x \in S : \E n \in 1..f[x] : u = <<x, n>>
BY DEF Units

LEMMA UnitsSame ==
  ASSUME NEW S, NEW f, NEW g, \A x \in S : f[x] = g[x]
  PROVE  Units(S, f) = Units(S, g)
<1>1. \A u : u \in Units(S, f) <=> u \in Units(S, g)
  BY UnitsOf
<1> QED  BY <1>1 DEF Units

LEMMA UnitsFewer ==
  ASSUME NEW S, NEW T \in SUBSET S, NEW f, IsFiniteSet(Units(S, f))
  PROVE  /\ IsFiniteSet(Units(T, f))
         /\ Cardinality(Units(T, f)) \in Nat /\ Cardinality(Units(S, f)) \in Nat
         /\ Cardinality(Units(T, f)) <= Cardinality(Units(S, f))
<1>1. Units(T, f) \subseteq Units(S, f)
  BY UnitsOf
<1> QED  BY <1>1, FS_Subset, FS_CardinalityType

LEMMA Row ==
  ASSUME NEW x, NEW a \in Nat
  PROVE  IsFiniteSet({x} \X (1..a)) /\ Cardinality({x} \X (1..a)) = a
<1>1. IsFiniteSet({x}) /\ Cardinality({x}) = 1
  BY FS_Singleton
<1>2. IsFiniteSet(1..a) /\ Cardinality(1..a) = a
  BY FS_Interval
<1>3. /\ IsFiniteSet({x} \X (1..a))
      /\ Cardinality({x} \X (1..a)) = Cardinality({x}) * Cardinality(1..a)
  BY <1>1, <1>2, FS_Product
<1>4. 1 * a = a
  OBVIOUS
<1> QED  BY <1>1, <1>2, <1>3, <1>4

LEMMA UnitsAdded ==
  ASSUME NEW S, NEW x, x \notin S, NEW f, f[x] \in Nat, IsFiniteSet(Units(S, f))
  PROVE  /\ IsFiniteSet(Units(S \cup {x}, f))
         /\ Cardinality(Units(S, f)) \in Nat
         /\ Cardinality(Units(S \cup {x}, f)) = Cardinality(Units(S, f)) + f[x]
<1> DEFINE row == {x} \X (1..f[x])
<1>1. \A u : u \in Units(S \cup {x}, f) <=> u \in Units(S, f) \/ u \in row
  BY UnitsOf
<1>2. Units(S \cup {x}, f) = Units(S, f) \cup row
  BY <1>1
<1>3. Units(S, f) \cap row = {}
  BY UnitsOf
<1>4. IsFiniteSet(row) /\ Cardinality(row) = f[x]
  BY Row
<1>5. Cardinality(Units(S, f)) \in Nat
  BY FS_CardinalityType
<1> HIDE DEF row
<1>6. Cardinality({}) = 0
  BY FS_EmptySet
<1>7. /\ IsFiniteSet(Units(S, f) \cup row)
      /\ Cardinality(Units(S, f) \cup row)
           = Cardinality(Units(S, f)) + Cardinality(row) - Cardinality(Units(S, f) \cap row)
  BY <1>4, FS_Union
<1>8. \A m, n \in Nat : m + n - 0 = m + n
  OBVIOUS
<1> QED  BY <1>2, <1>3, <1>4, <1>5, <1>6, <1>7, <1>8

LEMMA UnitsBounded ==
  ASSUME NEW S, IsFiniteSet(S), NEW b \in Nat, NEW f, \A x \in S : f[x] \in Nat /\ f[x] <= b
  PROVE  /\ IsFiniteSet(Units(S, f))
         /\ Cardinality(Units(S, f)) \in Nat
         /\ Cardinality(Units(S, f)) <= Cardinality(S) * b
<1>1. Units(S, f) \subseteq S \X (1..b)
  BY UnitsOf
<1>2. IsFiniteSet(1..b) /\ Cardinality(1..b) = b
  BY FS_Interval
<1>3. IsFiniteSet(S \X (1..b)) /\ Cardinality(S \X (1..b)) = Cardinality(S) * b
  BY <1>2, FS_Product
<1> QED  BY <1>1, <1>3, FS_Subset, FS_CardinalityType

\* Multiplication is monotonic, and distributes.
LEMMA Times ==
  /\ \A x, y, n \in Nat : x <= y => x * n <= y * n /\ n * x <= n * y
  /\ \A x, n \in Nat : n * x + x = x * (n + 1)
OBVIOUS

(***************************************************************************)
(* What is owed to listed payouts that are not completed, and promised to  *)
(* requests that passed the check, stays within some balance b, once for   *)
(* every request: a request passes when it asks for no more than a balance *)
(* it read minus all of that, and each of the others is promised no more   *)
(* than the balance that it read.  A payout that leaves the list only      *)
(* makes the sum smaller.                                                  *)
(***************************************************************************)
AmountOf == [p \in DOMAIN payouts |-> payouts[p].amount]
AskedOf == [r \in Requests |-> req[r].amount]
Unpaid == {p \in Listed : payouts[p].status # "completed"}
Checked == {r \in Requests : req[r].pc = "create"}
Owed == Units(Unpaid, AmountOf)
Promised == Units(Checked, AskedOf)

ReadAtMost(b) == /\ \A r \in Requests : req[r].pc # "idle" => req[r].balance <= b
                 /\ \A r \in Checked : req[r].amount <= b
Within(b) == /\ ReadAtMost(b)
             /\ Cardinality(Owed) + Cardinality(Promised) <= b * Cardinality(Requests)

OverInv == /\ IsFiniteSet(Owed)
           /\ \E b \in Balances : Within(b)

LEMMA SumUnits ==
  ASSUME NEW S \in SUBSET DOMAIN payouts PROVE SumOf(S) = Cardinality(Units(S, AmountOf))
<1>1. UNION {{p} \X (1..payouts[p].amount) : p \in S} = Units(S, AmountOf)
  BY DEF Units, AmountOf
<1> QED  BY <1>1 DEF SumOf

LEMMA RequestTypes ==
  ASSUME TypeInv
  PROVE  /\ req \in [Requests -> ReqState]
         /\ \A r \in Requests : /\ req[r] \in ReqState
                                /\ req[r].amount \in Nat /\ req[r].balance \in Nat
                                /\ AskedOf[r] = req[r].amount
<1>1. req \in [Requests -> ReqState]
  BY DEF TypeInv, TypeOK
<1>2. Amounts \cup {0} \subseteq Nat
  BY AmountsAssumption
<1>3. \A q \in ReqState : q.amount \in Amounts \cup {0} /\ q.balance \in Nat
  BY DEF ReqState
<1>4. \A r \in Requests : req[r] \in ReqState /\ AskedOf[r] = req[r].amount
  BY <1>1 DEF AskedOf
<1> QED  BY <1>1, <1>2, <1>3, <1>4

LEMMA PromisedCounted ==
  ASSUME TypeInv, NEW b \in Balances, ReadAtMost(b)
  PROVE  /\ IsFiniteSet(Checked) /\ IsFiniteSet(Promised)
         /\ Cardinality(Checked) \in Nat /\ Cardinality(Promised) \in Nat
         /\ Cardinality(Promised) <= Cardinality(Checked) * b
<1>1. IsFiniteSet(Checked)
  BY RequestsAssumption, FS_Subset DEF Checked
<1>2. b \in Nat /\ \A r \in Checked : AskedOf[r] \in Nat /\ AskedOf[r] <= b
  BY BoundsAssumption, RequestTypes DEF ReadAtMost, Checked
<1> QED  BY <1>1, <1>2, UnitsBounded, FS_CardinalityType DEF Promised

\* A step that checks no request and adds no payout.
LEMMA NothingMore ==
  ASSUME TypeInv, OverInv, TypeInv', DOMAIN payouts' = DOMAIN payouts, Len(payouts') = Len(payouts),
         \A p \in Unpaid' : p \in Unpaid /\ payouts'[p].amount = payouts[p].amount,
         \A r \in Checked' : r \in Checked /\ req'[r].amount = req[r].amount,
         \A r \in Requests : req'[r].pc # "idle" =>
           \/ req[r].pc # "idle" /\ req'[r].balance = req[r].balance
           \/ req'[r].balance = available
  PROVE  OverInv'
<1>1. PICK b \in Balances : Within(b)
  BY DEF OverInv
<1>2. PICK c \in Balances : b <= c /\ available <= c
  <2>1. b \in Nat /\ available \in Nat /\ available \in Balances
    BY BoundsAssumption DEF TypeInv, TypeOK
  <2>2. CASE b <= available
    BY <2>1, <2>2
  <2>3. CASE available <= b
    BY <2>1, <2>3
  <2> QED  BY <2>1, <2>2, <2>3
<1>3. b \in Nat /\ c \in Nat /\ Cardinality(Requests) \in Nat
  BY BoundsAssumption, RequestsAssumption, FS_CardinalityType
<1>4. ReadAtMost(c)'
  <2>1. /\ \A r \in Requests : req[r].amount \in Nat /\ req[r].balance \in Nat
        /\ \A r \in Requests : req'[r].amount \in Nat /\ req'[r].balance \in Nat
    <3>1. \A r \in Requests : req[r].amount \in Nat /\ req[r].balance \in Nat
      BY RequestTypes
    <3>2. req' \in [Requests -> ReqState]
      BY DEF TypeInv, TypeOK
    <3>3. Amounts \cup {0} \subseteq Nat
      BY AmountsAssumption
    <3>4. \A q \in ReqState : q.amount \in Amounts \cup {0} /\ q.balance \in Nat
      BY DEF ReqState
    <3> QED  BY <3>1, <3>2, <3>3, <3>4
  <2>2. /\ \A r \in Requests : req[r].pc # "idle" => req[r].balance <= b
        /\ \A r \in Checked : req[r].amount <= b
    BY <1>1 DEF Within, ReadAtMost
  <2>3. \A x \in Nat : x <= b => x <= c
    BY <1>2, <1>3
  <2>4. \A r \in Requests : req'[r].pc # "idle" => req'[r].balance <= c
    BY <1>2, <2>1, <2>2, <2>3
  <2>5. Checked' \subseteq Requests
    BY DEF Checked
  <2>6. \A r \in Checked' : req'[r].amount <= c
    BY <2>1, <2>2, <2>3, <2>5
  <2> QED  BY <2>4, <2>6 DEF ReadAtMost
<1>5. /\ IsFiniteSet(Owed') /\ Cardinality(Owed') \in Nat /\ Cardinality(Owed) \in Nat
      /\ Cardinality(Owed') <= Cardinality(Owed)
  <2>1. Unpaid' \in SUBSET Unpaid /\ IsFiniteSet(Owed)
    BY DEF OverInv
  <2>2. \A p \in Unpaid' : AmountOf'[p] = AmountOf[p]
    BY DEF AmountOf, Unpaid, Listed
  <2>3. Owed' = Units(Unpaid', AmountOf)
    BY <2>2, UnitsSame DEF Owed
  <2> QED  BY <2>1, <2>3, UnitsFewer DEF Owed
<1>6. /\ Cardinality(Promised') \in Nat /\ Cardinality(Promised) \in Nat
      /\ Cardinality(Promised') <= Cardinality(Promised)
  <2>1. Checked' \in SUBSET Checked /\ IsFiniteSet(Promised)
    BY <1>1, PromisedCounted DEF Within
  <2>2. \A r \in Checked' : AskedOf'[r] = AskedOf[r]
    BY DEF AskedOf, Checked
  <2>3. Promised' = Units(Checked', AskedOf)
    BY <2>2, UnitsSame DEF Promised
  <2> QED  BY <2>1, <2>3, UnitsFewer DEF Promised
<1>7. (Cardinality(Owed) + Cardinality(Promised) <= c * Cardinality(Requests))
  <2>1. \A x, y, z \in Int : x <= y /\ y <= z => x <= z
    OBVIOUS
  <2>2. b * Cardinality(Requests) <= c * Cardinality(Requests)
    BY <1>2, <1>3, Times
  <2>3. /\ b * Cardinality(Requests) \in Int /\ c * Cardinality(Requests) \in Int
        /\ Cardinality(Owed) + Cardinality(Promised) \in Int
    BY <1>3, <1>5, <1>6
  <2> QED  BY <1>1, <2>1, <2>2, <2>3 DEF Within
<1>8. Cardinality(Owed') + Cardinality(Promised') <= c * Cardinality(Requests)
  <2>1. \A u, v, x, y, z \in Int : u <= x /\ v <= y /\ x + y <= z => u + v <= z
    OBVIOUS
  <2>2. c * Cardinality(Requests) \in Int
    BY <1>3
  <2> QED  BY <1>5, <1>6, <1>7, <2>1, <2>2
<1>9. Within(c)'
  BY <1>4, <1>8 DEF Within
<1> QED  BY <1>5, <1>9 DEF OverInv

\* What the check subtracts is what the list owes.
LEMMA ListedInFlight ==
  ASSUME TypeInv PROVE InFlight = Cardinality(Owed)
<1>1. payouts \in Seq(Payout) /\ DOMAIN payouts = 1..Len(payouts)
  BY DEF TypeInv, TypeOK
<1>2. \A p \in DOMAIN payouts : payouts[p].status \in nonTerminal \cup {"completed"}
  <2>1. \A p \in DOMAIN payouts : payouts[p] \in Payout
    BY <1>1, ElementOfSeq
  <2> QED  BY <2>1 DEF Payout, nonTerminal
<1>3. "completed" \notin nonTerminal
  BY DEF nonTerminal
<1>4. {p \in Listed : payouts[p].status \in nonTerminal} = Unpaid
  BY <1>2, <1>3 DEF Unpaid, Listed
<1>5. InFlight = SumOf(Unpaid)
  BY <1>4 DEF InFlight
<1>6. Unpaid \in SUBSET DOMAIN payouts
  BY DEF Unpaid, Listed
<1> QED  BY <1>5, <1>6, SumUnits DEF Owed

\* A request passes the check: what the others are promised is at most b each.
LEMMA RequestChecked ==
  ASSUME TypeInv, OverInv, TypeInv', NEW r \in Requests, ListPayoutsBySeller(r),
         req[r].amount <= req[r].balance - InFlight
  PROVE  OverInv'
<1> DEFINE o == Cardinality(Owed)
           p == Cardinality(Promised)
           a == req[r].amount
           n == Cardinality(Requests)
<1>1. PICK b \in Balances : Within(b)
  BY DEF OverInv
<1>2. /\ req \in [Requests -> ReqState] /\ req[r].pc = "sum" /\ r \notin Checked
      /\ a \in Nat /\ req[r].balance \in Nat /\ req[r].balance <= b /\ b \in Nat
  BY <1>1, RequestTypes, BoundsAssumption DEF ListPayoutsBySeller, Within, ReadAtMost, Checked
<1>3. req' = [req EXCEPT ![r] = [req[r] EXCEPT !.pc = "create"]] /\ payouts' = payouts
  BY DEF ListPayoutsBySeller
<1>4. /\ req'[r].pc = "create" /\ req'[r].amount = a /\ req'[r].balance = req[r].balance
      /\ \A s \in Requests \ {r} : req'[s] = req[s]
  <2>1. req'[r] = [req[r] EXCEPT !.pc = "create"]
    BY <1>2, <1>3
  <2>2. req[r] \in ReqState
    BY <1>2
  <2>3. /\ req'[r].pc = "create" /\ req'[r].amount = req[r].amount
        /\ req'[r].balance = req[r].balance
    BY <2>1, <2>2 DEF ReqState
  <2> QED  BY <1>2, <1>3, <2>3
<1>5. Owed' = Owed
  <2>1. Unpaid' = Unpaid /\ AmountOf' = AmountOf
    BY <1>3 DEF Unpaid, AmountOf, Listed
  <2> QED  BY <2>1 DEF Owed
<1>6. o \in Nat /\ a <= b - o
  <2>1. o \in Nat
    BY FS_CardinalityType DEF OverInv
  <2>2. a <= req[r].balance - o
    BY ListedInFlight
  <2>3. \A x, y, z \in Int : x <= y - o /\ y <= z => x <= z - o
    BY <2>1
  <2> HIDE DEF a, o
  <2> QED  BY <1>2, <2>1, <2>2, <2>3
<1>7. /\ IsFiniteSet(Promised) /\ p \in Nat /\ Cardinality(Checked) \in Nat
      /\ p <= Cardinality(Checked) * b
  BY <1>1, PromisedCounted DEF Within
<1>8. Cardinality(Checked) + 1 <= n /\ n \in Nat
  <2>1. IsFiniteSet(Requests) /\ n \in Nat
    BY RequestsAssumption, FS_CardinalityType
  <2>2. IsFiniteSet(Requests \ {r}) /\ Cardinality(Requests \ {r}) = n - 1
    BY <2>1, FS_RemoveElement
  <2>3. Checked \in SUBSET (Requests \ {r})
    BY <1>2 DEF Checked
  <2>4. Cardinality(Checked) <= n - 1
    BY <2>2, <2>3, FS_Subset
  <2> HIDE DEF n
  <2> QED  BY <1>7, <2>1, <2>4
<1>9. IsFiniteSet(Promised') /\ Cardinality(Promised') = p + a
  <2>1. Checked' = Checked \cup {r}
    BY <1>4 DEF Checked
  <2>2. /\ \A s \in Checked : AskedOf'[s] = AskedOf[s]
        /\ AskedOf'[r] = a
    BY <1>2, <1>4 DEF AskedOf, Checked
  <2>3. Units(Checked, AskedOf') = Promised
    BY <2>2, UnitsSame DEF Promised
  <2>4. /\ IsFiniteSet(Units(Checked \cup {r}, AskedOf'))
        /\ Cardinality(Units(Checked \cup {r}, AskedOf')) = p + a
    <3>1. /\ IsFiniteSet(Units(Checked, AskedOf')) /\ r \notin Checked
          /\ AskedOf'[r] \in Nat
      BY <1>2, <1>7, <2>2, <2>3
    <3>2. /\ IsFiniteSet(Units(Checked \cup {r}, AskedOf'))
          /\ Cardinality(Units(Checked \cup {r}, AskedOf'))
               = Cardinality(Units(Checked, AskedOf')) + AskedOf'[r]
      BY <3>1, UnitsAdded
    <3> QED  BY <2>2, <2>3, <3>2
  <2> QED  BY <2>1, <2>4 DEF Promised
<1>10. o + (p + a) <= b * n
  <2>1. Cardinality(Checked) * b + b <= b * n
    <3>1. b * (Cardinality(Checked) + 1) <= b * n
      BY <1>2, <1>7, <1>8, Times
    <3>2. Cardinality(Checked) * b + b = b * (Cardinality(Checked) + 1)
      BY <1>2, <1>7, Times
    <3> QED  BY <3>1, <3>2
  <2>2. Cardinality(Checked) * b \in Int /\ b * n \in Int
    BY <1>2, <1>7, <1>8
  <2>3. \A u, v, w, x, y, z \in Int : w <= x - u /\ v <= y /\ y + x <= z => u + (v + w) <= z
    OBVIOUS
  <2> HIDE DEF o, p, a, n
  <2> QED  BY <1>2, <1>6, <1>7, <2>1, <2>2, <2>3
<1>11. ReadAtMost(b)'
  <2>1. /\ \A s \in Requests : req[s].pc # "idle" => req[s].balance <= b
        /\ \A s \in Checked : req[s].amount <= b
    BY <1>1 DEF Within, ReadAtMost
  <2>2. a <= b
    <3>1. \A x, y, z \in Nat : x <= y - z => x <= y
      OBVIOUS
    <3> HIDE DEF a, o
    <3> QED  BY <1>2, <1>6, <3>1
  <2>3. \A s \in Requests : req'[s].pc # "idle" => req'[s].balance <= b
    BY <1>2, <1>4, <2>1
  <2>4. \A s \in Checked' : req'[s].amount <= b
    BY <1>4, <2>1, <2>2 DEF Checked
  <2> QED  BY <2>3, <2>4 DEF ReadAtMost
<1>12. Within(b)'
  BY <1>5, <1>9, <1>10, <1>11 DEF Within
<1> QED  BY <1>5, <1>12 DEF OverInv

\* A request that passed becomes a payout: what was promised is owed.
LEMMA PayoutCreated ==
  ASSUME TypeInv, OverInv, TypeInv', NEW r \in Requests, CreatePayout(r)
  PROVE  OverInv'
<1> DEFINE o == Cardinality(Owed)
           p == Cardinality(Promised)
           q == Cardinality(Promised')
           a == req[r].amount
           new == Len(payouts) + 1
<1>1. PICK b \in Balances : Within(b)
  BY DEF OverInv
<1>2. /\ req \in [Requests -> ReqState] /\ r \in Checked /\ a \in Nat
      /\ payouts \in Seq(Payout) /\ DOMAIN payouts = 1..Len(payouts) /\ Len(payouts) \in Nat
      /\ o \in Nat /\ IsFiniteSet(Owed)
  BY RequestTypes, FS_CardinalityType DEF CreatePayout, Checked, TypeInv, TypeOK, OverInv
<1>3. Len(payouts') = new
  BY <1>2 DEF CreatePayout
<1>4. /\ payouts'[new].amount = a /\ payouts'[new].status # "completed"
      /\ DOMAIN payouts' = DOMAIN payouts \cup {new} /\ new \notin DOMAIN payouts
      /\ \A x \in DOMAIN payouts : payouts'[x] = payouts[x]
  <2> DEFINE row == [wallet |-> req[r].wallet, amount |-> req[r].amount, at |-> clock,
                     txHash |-> None,
                     status |-> IF IsHighValue(req[r].amount) THEN "needs_manual_review"
                                ELSE "queued"]
  <2>1. payouts' = Append(payouts, row)
    BY DEF CreatePayout
  <2>2. row.amount = a /\ row.status # "completed"
    OBVIOUS
  <2> HIDE DEF row
  <2> QED  BY <1>2, <2>1, <2>2
<1>5. /\ req'[r].pc = "idle"
      /\ \A s \in Requests \ {r} : req'[s] = req[s]
  BY <1>2 DEF CreatePayout, NoReq
<1>6. IsFiniteSet(Owed') /\ Cardinality(Owed') \in Nat /\ Cardinality(Owed') <= o + a
  <2>1. Unpaid' \in SUBSET (Unpaid \cup {new}) /\ new \notin Unpaid
    <3>1. Listed' \subseteq Listed \cup {new} /\ Listed \subseteq DOMAIN payouts
      <4>1. \A x, l, n \in Int : x + l > n + 1 => x + l > n
        OBVIOUS
      <4>2. DOMAIN payouts \subseteq Int /\ Len(payouts) \in Int /\ ListLimit \in Int
        BY <1>2, ListAssumption
      <4> QED  BY <1>3, <1>4, <4>1, <4>2 DEF Listed
    <3> QED  BY <1>4, <3>1 DEF Unpaid
  <2> HIDE DEF new
  <2>2. (\A x \in Unpaid : AmountOf'[x] = AmountOf[x]) /\ AmountOf'[new] = a
    BY <1>4 DEF AmountOf, Unpaid, Listed
  <2>3. Units(Unpaid, AmountOf') = Owed
    BY <2>2, UnitsSame DEF Owed
  <2>4. /\ IsFiniteSet(Units(Unpaid \cup {new}, AmountOf'))
        /\ Cardinality(Units(Unpaid \cup {new}, AmountOf')) = o + a
    <3>1. new \notin Unpaid /\ AmountOf'[new] \in Nat /\ IsFiniteSet(Units(Unpaid, AmountOf'))
      BY <1>2, <2>1, <2>2, <2>3
    <3>2. /\ IsFiniteSet(Units(Unpaid \cup {new}, AmountOf'))
          /\ Cardinality(Units(Unpaid \cup {new}, AmountOf'))
               = Cardinality(Units(Unpaid, AmountOf')) + AmountOf'[new]
      BY <3>1, UnitsAdded
    <3> QED  BY <2>2, <2>3, <3>2
  <2>5. /\ IsFiniteSet(Units(Unpaid', AmountOf'))
        /\ Cardinality(Units(Unpaid', AmountOf')) \in Nat
        /\ Cardinality(Units(Unpaid', AmountOf'))
             <= Cardinality(Units(Unpaid \cup {new}, AmountOf'))
    BY <2>1, <2>4, UnitsFewer
  <2> QED  BY <2>4, <2>5 DEF Owed
<1>7. q \in Nat /\ p = q + a
  <2>1. Checked' = Checked \ {r}
    BY <1>5 DEF Checked
  <2>2. /\ \A s \in Checked' : AskedOf'[s] = AskedOf[s]
        /\ AskedOf[r] = a
    BY <1>5, <2>1 DEF AskedOf, Checked
  <2>3. Promised' = Units(Checked \ {r}, AskedOf)
    BY <2>1, <2>2, UnitsSame DEF Promised
  <2>4. IsFiniteSet(Promised)
    BY <1>1, PromisedCounted DEF Within
  <2>5. IsFiniteSet(Units(Checked \ {r}, AskedOf))
    BY <2>4, UnitsFewer DEF Promised
  <2>6. (Checked \ {r}) \cup {r} = Checked
    BY <1>2
  <2>7. /\ Cardinality(Units(Checked \ {r}, AskedOf)) \in Nat
        /\ Cardinality(Units((Checked \ {r}) \cup {r}, AskedOf))
             = Cardinality(Units(Checked \ {r}, AskedOf)) + AskedOf[r]
    BY <1>2, <2>2, <2>5, UnitsAdded
  <2> QED  BY <2>2, <2>3, <2>6, <2>7 DEF Promised
<1>8. Cardinality(Owed') + q <= b * Cardinality(Requests)
  <2>1. o + p <= b * Cardinality(Requests)
    BY <1>1 DEF Within
  <2>2. b * Cardinality(Requests) \in Int
    BY BoundsAssumption, RequestsAssumption, FS_CardinalityType
  <2>3. \A v, x, y, z, n \in Int : v <= x + z /\ x + (y + z) <= n => v + y <= n
    OBVIOUS
  <2> HIDE DEF o, p, q, a
  <2> QED  BY <1>2, <1>6, <1>7, <2>1, <2>2, <2>3
<1>9. ReadAtMost(b)'
  BY <1>1, <1>5 DEF Within, ReadAtMost, Checked
<1>10. Within(b)'
  BY <1>6, <1>8, <1>9 DEF Within
<1> QED  BY <1>6, <1>10 DEF OverInv

LEMMA OverStep == TypeInv /\ OverInv /\ [Next]_vars => OverInv'
<1> SUFFICES ASSUME TypeInv, OverInv, [Next]_vars PROVE OverInv'
  OBVIOUS
<1>0. /\ TypeInv' /\ req \in [Requests -> ReqState] /\ NoReq.pc = "idle"
      /\ payouts \in Seq(Payout)
  BY TypeStep DEF TypeInv, TypeOK, NoReq
<1>1. CASE payouts' = payouts /\ req' = req
  <2>1. \A p \in Unpaid' : p \in Unpaid /\ payouts'[p].amount = payouts[p].amount
    BY <1>1 DEF Unpaid, Listed
  <2>2. \A r \in Checked' : r \in Checked /\ req'[r].amount = req[r].amount
    BY <1>1 DEF Checked
  <2> QED  BY <1>0, <1>1, <2>1, <2>2, NothingMore
<1>2. ASSUME NEW r \in Requests, payouts' = payouts,
             submitPayoutRequest(r) \/ req' = [req EXCEPT ![r] = NoReq]
      PROVE  OverInv'
  <2>1. \A p \in Unpaid' : p \in Unpaid /\ payouts'[p].amount = payouts[p].amount
    BY <1>2 DEF Unpaid, Listed
  <2>2. /\ \A s \in Requests \ {r} : req'[s] = req[s]
        /\ \/ req'[r].pc = "idle"
           \/ req'[r].pc = "sum" /\ req'[r].balance = available
    <3>1. CASE submitPayoutRequest(r)
      BY <1>0, <3>1 DEF submitPayoutRequest
    <3>2. CASE req' = [req EXCEPT ![r] = NoReq]
      BY <1>0, <3>2
    <3> QED  BY <1>2, <3>1, <3>2
  <2>3. \A s \in Checked' : s \in Checked /\ req'[s].amount = req[s].amount
    BY <2>2 DEF Checked
  <2> QED  BY <1>0, <1>2, <2>1, <2>2, <2>3, NothingMore
<1>3. ASSUME NEW r \in Requests, ListPayoutsBySeller(r) PROVE OverInv'
  <2>1. CASE req[r].amount <= req[r].balance - InFlight
    BY <1>0, <1>3, <2>1, RequestChecked
  <2>2. CASE ~(req[r].amount <= req[r].balance - InFlight)
    BY <1>2, <1>3, <2>2 DEF ListPayoutsBySeller
  <2> QED  BY <2>1, <2>2
<1>4. ASSUME NEW x \in DOMAIN payouts, adminPayoutApprove(x) \/ adminPayoutComplete(x)
      PROVE  OverInv'
  <2>1. PICK status, h, from : TransitionPayout(x, from, status, h) /\ from # "completed"
    BY <1>4 DEF adminPayoutApprove, adminPayoutComplete
  <2> DEFINE row == [payouts[x] EXCEPT !.status = status,
                                       !.txHash = IF h = None THEN @ ELSE h]
  <2>2. /\ payouts' = [payouts EXCEPT ![x] = row] /\ payouts[x].status = from
        /\ req' = req
    BY <2>1 DEF TransitionPayout, InState
  <2>3. row.amount = payouts[x].amount
    <3>1. payouts[x] \in Payout
      BY <1>0, ElementOfSeq
    <3> QED  BY <3>1 DEF Payout
  <2> HIDE DEF row
  <2>4. /\ DOMAIN payouts' = DOMAIN payouts /\ payouts'[x].amount = payouts[x].amount
        /\ \A y \in DOMAIN payouts \ {x} : payouts'[y] = payouts[y]
    BY <2>2, <2>3
  <2>5. Len(payouts') = Len(payouts)
    <3>1. payouts' \in Seq(Payout)
      BY <1>0 DEF TypeInv, TypeOK
    <3> QED  BY <1>0, <2>4, <3>1, LenProperties
  <2>6. \A y \in Unpaid' : y \in Unpaid /\ payouts'[y].amount = payouts[y].amount
    BY <2>1, <2>2, <2>4, <2>5 DEF Unpaid, Listed
  <2>7. \A s \in Checked' : s \in Checked /\ req'[s].amount = req[s].amount
    BY <2>2 DEF Checked
  <2> QED  BY <1>0, <2>2, <2>4, <2>5, <2>6, <2>7, NothingMore
<1> QED
  BY <1>1, <1>2, <1>3, <1>4, PayoutCreated, <1>0
  DEF Next, vars, CreatePendingWallet, CreateAuthToken, TokenExpires, confirmWallet,
      ConfirmWalletSupersede, ConfirmWalletCommit, UseAuthToken, ConfirmationAborts,
      submitPayoutRequest, RequestAborts, BalanceMoves, Tick

\* Concurrent requests overdraw the balance at most once for each of them.
THEOREM OverdraftsLimited == Spec => []OverdraftBounded
<1>1. Init => OverInv
  <2> SUFFICES ASSUME Init PROVE OverInv
    OBVIOUS
  <2>1. /\ payouts = <<>> /\ \A r \in Requests : req[r].pc = "idle"
        /\ 0 \in Balances
    BY BoundsAssumption DEF Init, NoReq
  <2>2. Unpaid = {} /\ Checked = {}
    BY <2>1 DEF Unpaid, Checked, Listed
  <2>3. Owed = {} /\ Promised = {}
    BY <2>2 DEF Owed, Promised, Units
  <2>4. IsFiniteSet({}) /\ Cardinality({}) = 0
    BY FS_EmptySet
  <2>5. 0 + 0 <= 0 * Cardinality(Requests)
    BY RequestsAssumption, FS_CardinalityType
  <2>6. ReadAtMost(0)
    BY <2>1, <2>2 DEF ReadAtMost
  <2>7. Within(0)
    BY <2>3, <2>4, <2>5, <2>6 DEF Within
  <2> QED  BY <2>1, <2>3, <2>4, <2>7 DEF OverInv
<1>2. TypeInv /\ OverInv => OverdraftBounded
  <2> SUFFICES ASSUME TypeInv, OverInv PROVE OverdraftBounded
    OBVIOUS
  <2>1. PICK b \in Balances : Within(b)
    BY DEF OverInv
  <2>2. /\ Cardinality(Owed) + Cardinality(Promised) <= b * Cardinality(Requests)
        /\ Cardinality(Promised) \in Nat
    BY <2>1, PromisedCounted DEF Within
  <2>3. Cardinality(Owed) \in Nat /\ b * Cardinality(Requests) \in Nat
    BY RequestsAssumption, BoundsAssumption, FS_CardinalityType DEF OverInv
  <2>4. \A x, y, z \in Nat : x + y <= z => x <= z
    OBVIOUS
  <2>5. Cardinality(Owed) <= b * Cardinality(Requests)
    BY <2>2, <2>3, <2>4
  <2>6. SumOf(Unpaid) = Cardinality(Owed)
    BY SumUnits DEF Owed, Unpaid, Listed
  <2> QED  BY <2>5, <2>6 DEF OverdraftBounded, Unpaid
<1>3. TypeInv /\ OverInv /\ [Next]_vars => TypeInv' /\ OverInv'
  BY TypeStep, OverStep
<1> QED  BY <1>1, <1>2, <1>3, TypeInit, PTL DEF Spec

=============================================================================
