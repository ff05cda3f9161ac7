------------------------------- MODULE Payouts -------------------------------
(***************************************************************************)
(* A seller's payout wallets and payouts: a wallet is submitted and        *)
(* confirmed by a mailed link, cools off, and receives payouts that are    *)
(* checked against the seller's balance and executed by hand               *)
(* (handlers/wallets.go, handlers/payments.go, store/wallets.go).          *)
(*                                                                         *)
(* One seller, one network and asset: every statement of the store names   *)
(* the three.  A handler is several database calls and others run between  *)
(* them; a transaction's statements see what was committed before each     *)
(* (READ COMMITTED), and its own writes become visible when it commits.    *)
(*                                                                         *)
(* A definition X_fault just before X is X with a plausible bug in it.  No *)
(* action uses it; it is put in X's place to see a property fail.          *)
(***************************************************************************)
EXTENDS Integers, FiniteSets, Sequences

CONSTANTS
  Confirmers,      \* requests that open a confirmation link
  Requests,        \* submissions of the payout form
  TokenKindKnown,  \* auth_tokens_kind_check admits wallet_confirmation
  Cooldown,        \* WalletChangeCooldown
  Amounts,         \* amounts a seller asks for
  HighValue,       \* HighValueThresholdMinorUnits
  TxHashes,        \* hashes an admin may enter
  ListLimit,       \* rows ListPayoutsBySeller returns
  Balances,        \* bound: what seller_available in the ledger may be
  MaxPayouts,      \* bound: payouts there may be with so many wallets
  MaxTime,         \* bound: ticks
  None

ASSUME TokensAssumption == TokenKindKnown \in BOOLEAN
ASSUME HashesAssumption == None \notin TxHashes
ASSUME RequestsAssumption == IsFiniteSet(Requests)
ASSUME ConfirmersAssumption == None \notin Confirmers
ASSUME AmountsAssumption ==
  Amounts \subseteq Nat \ {0} /\ HighValue \in Nat /\ Cooldown \in Nat
ASSUME BoundsAssumption ==
  /\ Balances \subseteq Nat /\ 0 \in Balances
  /\ MaxPayouts \in Seq(Nat) /\ MaxTime \in Nat
ASSUME ListAssumption == ListLimit \in Nat

VARIABLES
  wallets,    \* seller_wallets rows, by id
  conf,       \* what each confirmation has read and is about to do
  available,  \* the seller_available balance of the ledger
  payouts,    \* payouts rows, by id
  req,        \* what each payout request has read and is about to do
  clock

vars == <<wallets, conf, available, payouts, req, clock>>

\* link is the confirmation token: to be created, refused by the table, usable,
\* or of no use (lost with the request, used, expired).  by is the request that
\* confirmed the wallet last.
Wallet == [status : {"pending", "confirmed", "superseded"},
           link : {"due", "refused", "live", "spent"},
           createdAt : Nat, eligibleAt : Nat, by : Confirmers \cup {None}]

Payout == [wallet : Nat, amount : Amounts, at : Nat,
           status : {"queued", "needs_manual_review",
                     "ready_for_manual_execution", "completed"},
           txHash : TxHashes \cup {None}]

NoConf == [pc |-> "idle", token |-> 0, wallet |-> 0, at |-> 0, old |-> {}]
ConfState == [pc : {"idle", "supersede", "commit", "use"},
              token : Nat, wallet : Nat, at : Nat, old : SUBSET Nat]

NoReq == [pc |-> "idle", wallet |-> 0, amount |-> 0, balance |-> 0]
ReqState == [pc : {"idle", "sum", "create"},
             wallet : Nat, amount : Amounts \cup {0}, balance : Nat]

TypeOK ==
  /\ wallets \in Seq(Wallet)
  /\ conf \in [Confirmers -> ConfState]
  /\ \A c \in Confirmers : conf[c].pc # "idle" =>
       conf[c].token \in DOMAIN wallets /\ conf[c].wallet \in DOMAIN wallets
  /\ available \in Balances
  /\ payouts \in Seq(Payout)
  /\ \A p \in DOMAIN payouts : payouts[p].wallet \in DOMAIN wallets
  /\ req \in [Requests -> ReqState]
  /\ \A r \in Requests : req[r].pc # "idle" => req[r].wallet \in DOMAIN wallets
  /\ clock \in Nat

Init ==
  /\ wallets = <<>> /\ conf = [c \in Confirmers |-> NoConf]
  /\ available = 0
  /\ payouts = <<>> /\ req = [r \in Requests |-> NoReq]
  /\ clock = 0

RoomFor(w, p) == w \in DOMAIN MaxPayouts /\ p <= MaxPayouts[w]

-----------------------------------------------------------------------------
(* submitWallet.                                                             *)

NewWallet == [status |-> "pending", link |-> "due", createdAt |-> clock,
              eligibleAt |-> 0, by |-> None]

\* The pending wallets that the first seen submissions committed.
Replaced(seen) == {w \in 1..seen : wallets[w].status = "pending"}

\* A transaction of two statements, seen when it commits.  Its UPDATE supersedes
\* what is pending as that statement sees it, and holds those rows until the
\* commit; a wallet that another submission commits after that stays pending.
CreatePendingWallet ==
  /\ RoomFor(Len(wallets) + 1, Len(payouts))
  /\ \E seen \in 0..Len(wallets) :
       wallets' = Append([w \in DOMAIN wallets |->
                            IF w \in Replaced(seen)
                            THEN [wallets[w] EXCEPT !.status = "superseded"] ELSE wallets[w]],
                         NewWallet)
  /\ UNCHANGED <<conf, available, payouts, req, clock>>

\* The wallet is committed already; the request may end before its token is.
CreateAuthToken(w) ==
  /\ wallets[w].link = "due"
  /\ \E link \in {IF TokenKindKnown THEN "live" ELSE "refused", "spent"} :
       wallets' = [wallets EXCEPT ![w].link = link]
  /\ UNCHANGED <<conf, available, payouts, req, clock>>

\* expires_at passes.
TokenExpires(w) ==
  /\ wallets[w].link = "live"
  /\ wallets' = [wallets EXCEPT ![w].link = "spent"]
  /\ UNCHANGED <<conf, available, payouts, req, clock>>

-----------------------------------------------------------------------------
(* confirmWallet and the transaction of ConfirmWallet.                       *)

\* GetAuthToken, GetWallet, and the SELECT that begins the transaction.  The
\* token names the seller, not the wallet; a wallet is never pending again, so
\* reading it in one step with the token loses nothing.
confirmWallet(c) ==
  /\ conf[c].pc = "idle"
  /\ \E t, w \in DOMAIN wallets :
       /\ wallets[t].link = "live" /\ wallets[w].status = "pending"
       /\ conf' = [conf EXCEPT ![c] = [pc |-> "supersede", token |-> t, wallet |-> w,
                                       at |-> clock, old |-> {}]]
  /\ UNCHANGED <<wallets, available, payouts, req, clock>>

\* WHERE status = 'confirmed', as this statement sees it.
Superseded_none == {}
Superseded == {w \in DOMAIN wallets : wallets[w].status = "confirmed"}

ConfirmWalletSupersede(c) ==
  /\ conf[c].pc = "supersede"
  /\ conf' = [conf EXCEPT ![c].pc = "commit", ![c].old = Superseded]
  /\ UNCHANGED <<wallets, available, payouts, req, clock>>

EligibleAt_atOnce(c) == conf[c].at
EligibleAt(c) == conf[c].at + Cooldown

\* The last UPDATE names the id only; now() is the transaction's start.
ConfirmWalletCommit(c) ==
  /\ conf[c].pc = "commit"
  /\ wallets' = [w \in DOMAIN wallets |->
       IF w = conf[c].wallet
       THEN [wallets[w] EXCEPT !.status = "confirmed", !.by = c,
                                 !.eligibleAt = EligibleAt(c)]
       ELSE IF w \in conf[c].old THEN [wallets[w] EXCEPT !.status = "superseded"]
       ELSE wallets[w]]
  /\ conf' = [conf EXCEPT ![c].pc = "use"]
  /\ UNCHANGED <<available, payouts, req, clock>>

\* A failure is only logged: the link stays usable.
UseAuthToken(c) ==
  /\ conf[c].pc = "use"
  /\ \/ wallets' = [wallets EXCEPT ![conf[c].token].link = "spent"]
     \/ wallets' = wallets
  /\ conf' = [conf EXCEPT ![c] = NoConf]
  /\ UNCHANGED <<available, payouts, req, clock>>

\* The request ends early; an open transaction is rolled back.
ConfirmationAborts(c) ==
  /\ conf[c].pc \in {"supersede", "commit"}
  /\ conf' = [conf EXCEPT ![c] = NoConf]
  /\ UNCHANGED <<wallets, available, payouts, req, clock>>

-----------------------------------------------------------------------------
(* submitPayoutRequest.                                                      *)

IsPayoutEligible(w) == wallets[w].status = "confirmed" /\ wallets[w].eligibleAt <= clock

\* amountMinor <= 0 is refused.
RequestedAmounts == Amounts

\* GetWallet, and the balance that availablePayoutBalance reads first.  A request
\* for more than that is refused whatever is in flight, so it is not begun here.
submitPayoutRequest(r) ==
  /\ req[r].pc = "idle"
  /\ \E w \in DOMAIN wallets, a \in RequestedAmounts :
       /\ IsPayoutEligible(w) /\ a <= available
       /\ req' = [req EXCEPT ![r] = [pc |-> "sum", wallet |-> w, amount |-> a,
                                     balance |-> available]]
  /\ UNCHANGED <<wallets, conf, available, payouts, clock>>

nonTerminal_withoutReview == {"queued", "ready_for_manual_execution"}
nonTerminal == {"queued", "needs_manual_review", "ready_for_manual_execution"}

\* What the payouts in S add up to, counted one minor unit at a time.
SumOf(S) == Cardinality(UNION {{p} \X (1..payouts[p].amount) : p \in S})

\* The newest ListLimit rows, of any status.
Listed == {p \in DOMAIN payouts : p + ListLimit > Len(payouts)}
InFlight == SumOf({p \in Listed : payouts[p].status \in nonTerminal})

ListPayoutsBySeller(r) ==
  /\ req[r].pc = "sum"
  /\ req' = [req EXCEPT ![r] = IF req[r].amount <= req[r].balance - InFlight
                               THEN [@ EXCEPT !.pc = "create"] ELSE NoReq]
  /\ UNCHANGED <<wallets, conf, available, payouts, clock>>

IsHighValue(amount) == amount >= HighValue

CreatePayout(r) ==
  /\ req[r].pc = "create" /\ RoomFor(Len(wallets), Len(payouts) + 1)
  /\ payouts' = Append(payouts,
       [wallet |-> req[r].wallet, amount |-> req[r].amount, at |-> clock, txHash |-> None,
        status |-> IF IsHighValue(req[r].amount) THEN "needs_manual_review" ELSE "queued"])
  /\ req' = [req EXCEPT ![r] = NoReq]
  /\ UNCHANGED <<wallets, conf, available, clock>>

RequestAborts(r) ==
  /\ req[r].pc # "idle"
  /\ req' = [req EXCEPT ![r] = NoReq]
  /\ UNCHANGED <<wallets, conf, available, payouts, clock>>

-----------------------------------------------------------------------------
(* The admin, the ledger and time.                                           *)

\* WHERE id = $1 AND status = $2
InState_anyState(p, from) == TRUE
InState(p, from) == payouts[p].status = from

TransitionPayout(p, from, to, txHash) ==
  /\ InState(p, from)
  /\ payouts' = [payouts EXCEPT ![p].status = to,
                                ![p].txHash = IF txHash = None THEN @ ELSE txHash]
  /\ UNCHANGED <<wallets, conf, available, req, clock>>

adminPayoutApprove(p) ==
  TransitionPayout(p, "needs_manual_review", "ready_for_manual_execution", None)

adminPayoutComplete(p) ==
  \E h \in TxHashes : TransitionPayout(p, "ready_for_manual_execution", "completed", h)

\* Releases, refunds and adjustments (Settlement).  A payout moves no balance.
BalanceMoves ==
  /\ available' \in Balances \ {available}
  /\ UNCHANGED <<wallets, conf, payouts, req, clock>>

Tick ==
  /\ clock < MaxTime /\ clock' = clock + 1
  /\ UNCHANGED <<wallets, conf, available, payouts, req>>

-----------------------------------------------------------------------------

Next ==
  \/ CreatePendingWallet
  \/ \E w \in DOMAIN wallets : CreateAuthToken(w) \/ TokenExpires(w)
  \/ \E c \in Confirmers : \/ confirmWallet(c) \/ ConfirmWalletSupersede(c)
                           \/ ConfirmWalletCommit(c)
                           \/ UseAuthToken(c) \/ ConfirmationAborts(c)
  \/ \E r \in Requests : \/ submitPayoutRequest(r) \/ ListPayoutsBySeller(r) \/ CreatePayout(r) \/ RequestAborts(r)
  \/ \E p \in DOMAIN payouts : adminPayoutApprove(p) \/ adminPayoutComplete(p)
  \/ BalanceMoves \/ Tick

Spec == Init /\ [][Next]_vars

-----------------------------------------------------------------------------
(* Properties.                                                               *)

\* handlers/wallets.go:139-143, "so a seller cannot queue more payouts than
\* they actually have available": requests that read the same balance each take
\* it, but no more than that.  What is promised by the payouts still listed never
\* exceeds the highest balance once for every request that can run at the same
\* time.  Of those the list has dropped nothing is known any more: nobody counts
\* them, and what they promise can be asked for again.
OverdraftBounded ==
  \E b \in Balances :
    SumOf({p \in Listed : payouts[p].status # "completed"}) <= b * Cardinality(Requests)

\* migrations/0009:2-5, "a compromised account cannot redirect payouts
\* immediately by adding a new address": a payout goes to a wallet that was
\* confirmed and is at least Cooldown old, although the wallet's row changes
\* between the check and the insert and is confirmed twice by two requests.
CoolingOff ==
  \A p \in DOMAIN payouts :
    LET w == wallets[payouts[p].wallet]
    IN  w.by # None /\ w.createdAt + Cooldown <= payouts[p].at

\* Two wallets may end up confirmed, when their confirmations did not see each
\* other, but one request never leaves two behind: what it confirmed before is
\* superseded by what it confirms next.
OneWalletPerConfirmer ==
  \A v, w \in DOMAIN wallets :
    wallets[v].status = "confirmed" /\ wallets[w].status = "confirmed"
      /\ wallets[v].by = wallets[w].by => v = w

\* A completed payout is the record of a transfer: two admins, or one who
\* submits twice, never overwrite its hash or take it back.
CompletedFinal ==
  [][\A p \in DOMAIN payouts :
       payouts[p].status = "completed" => payouts'[p] = payouts[p]]_vars

\* handlers/wallets.go:58-60, "then emails a one-time confirmation link, reusing
\* the same auth-token machinery as email verification": the table takes
\* the token of every submitted wallet.
SubmittedWalletHasLink == \A w \in DOMAIN wallets : wallets[w].link # "refused"

=============================================================================
