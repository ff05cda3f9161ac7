---------------------------- MODULE Reconciliation ----------------------------
(***************************************************************************)
(* Many payments at once: checkout gives an order an intent with the       *)
(* provider of its method (handlers/payments.go), and the reconciliation   *)
(* sweep (payments.go) polls the oldest unsettled intents, ListLimit of    *)
(* them, in the order they were created, beside the webhooks' jobs.        *)
(* PaymentCapture has one intent and what settling it does to the order    *)
(* and the ledger.                                                         *)
(*                                                                         *)
(* A call is a step of its own, others run between two of them, and what   *)
(* runs may stop after each.                                               *)
(*                                                                         *)
(* A definition X_fault just before X is X with a plausible bug in it.  No *)
(* action uses it; it is put in X's place to see a property fail.          *)
(***************************************************************************)
EXTENDS Naturals, FiniteSets, Sequences

CONSTANTS
  Methods,         \* payment methods that the buyer of each intent may choose
  Configurations,  \* sets of providers a process may be started with
  Sweepers,        \* reconciliation jobs; each start of a worker adds a chain
  ListLimit,       \* intents the sweep asks for
  MaxIntents,      \* bound: intents there may be
  MaxFaults        \* bound: polls and writes that fail, sweeps past their deadline,
                   \* and restarts

ASSUME BoundsAssumption ==
  /\ ListLimit \in Nat \ {0} /\ MaxIntents \in Nat
  /\ MaxFaults \in Nat

VARIABLES
  intents,     \* payment_intents rows, in the order of created_at
  session,     \* the states each intent's payment at the provider has been in
  registered,  \* the providers of the running process
  sweep,       \* what each sweep is about to do
  faults       \* faults so far

rVars == <<intents, session, registered, sweep, faults>>

Ids == 1..MaxIntents

-----------------------------------------------------------------------------
(* Providers.                                                                *)

paymentMethodProvider(method) ==
  CASE method \in {"bitcoin", "lightning"} -> "btcpay"
    [] method \in {"usdc-base", "usdt-base"} -> "evm-base"
    [] method \in {"usdc-polygon", "usdt-polygon"} -> "evm-polygon"
    [] OTHER -> "stripe"

Providers == {"stripe", "btcpay", "evm-base", "evm-polygon"}

\* payment_intents_provider_check
Storable == {"stripe", "btcpay", "evm"}

\* A session or invoice: open, complete and not paid yet, paid, invalid or
\* expired.  One in review was declined late, paid in part or paid late: asked for
\* it, the adapters say processing for ever.
SessionMoves ==
  [stripe |-> [open |-> {"unpaid", "paid", "expired"}, unpaid |-> {"paid", "review"},
               paid |-> {}, invalid |-> {}, expired |-> {}, review |-> {}],
   btcpay |-> [open |-> {"unpaid", "paid", "expired", "review"},
               unpaid |-> {"paid", "invalid", "review"},
               paid |-> {}, invalid |-> {}, expired |-> {"review"}, review |-> {}]]
SessionStates == DOMAIN SessionMoves["stripe"]

\* Stripe.Payment and BTCPay.Payment.
PolledStatus(state) ==
  CASE state = "paid" -> "succeeded" [] state = "invalid" -> "failed"
    [] state = "expired" -> "expired" [] state \in {"unpaid", "review"} -> "processing"
    [] OTHER -> "pending"

\* ParseEvent; to a BTCPay webhook a settled invoice is a success however it was paid.
EventStatus(provider, state) ==
  IF provider = "btcpay" /\ state = "review" THEN "succeeded" ELSE PolledStatus(state)

\* The reference that refunds need: BTCPay's is the invoice itself, Stripe's is
\* there when the session is complete.
HasChargeRef(provider, state) ==
  provider = "btcpay" \/ state \in {"unpaid", "paid", "review"}

PaymentStatuses == {"pending", "processing", "succeeded", "failed", "canceled", "expired"}

CanTransitionPayment(from, to) ==
  \/ from = "pending" /\ to \in PaymentStatuses \ {"pending"}
  \/ from = "processing" /\ to \in {"succeeded", "failed"}

-----------------------------------------------------------------------------

Intent == [provider : Providers \cap Storable, ref : BOOLEAN, status : PaymentStatuses \cup {"none"},
           charge : {"none", "set", "lost"}]
NoIntent == [provider |-> "stripe", ref |-> FALSE, status |-> "none", charge |-> "none"]

\* An intent as the sweep listed it.
Read == [id : Ids, status : PaymentStatuses]

\* list is what is left to poll; to is what the provider says of its first.
SweepState == [pc : {"idle", "poll", "charge", "move"}, list : Seq(Read), to : PaymentStatuses]
IdleSweep == [pc |-> "idle", list |-> <<>>, to |-> "pending"]

RTypeOK ==
  /\ intents \in [Ids -> Intent] /\ session \in [Ids -> Seq(SessionStates)]
  /\ \A i \in Ids : intents[i].ref => session[i] # <<>>
  /\ registered \in Configurations
  /\ sweep \in [Sweepers -> SweepState]
  /\ \A s \in Sweepers : sweep[s].pc # "idle" => sweep[s].list # <<>>
  /\ faults \in 0..MaxFaults

RInit ==
  /\ intents = [i \in Ids |-> NoIntent] /\ session = [i \in Ids |-> <<>>]
  /\ registered \in Configurations
  /\ sweep = [s \in Sweepers |-> IdleSweep]
  /\ faults = 0

State(i) == session[i][Len(session[i])]

Created == {i \in Ids : intents[i].status # "none"}

-----------------------------------------------------------------------------
(* startPayment.  A request may stop after any of its calls: nothing makes   *)
(* the next one happen.                                                      *)

\* A provider that is not registered is refused by the handler, one that the table
\* does not know by the INSERT: the order is left without an intent.
CreatePaymentIntent(i, method) ==
  /\ i \notin Created /\ 1..(i - 1) \subseteq Created
  /\ paymentMethodProvider(method) \in registered \cap Storable
  /\ intents' = [intents EXCEPT ![i] = [NoIntent EXCEPT
       !.provider = paymentMethodProvider(method), !.status = "pending"]]
  /\ UNCHANGED <<session, registered, sweep, faults>>

CreatePayment(i) ==
  /\ i \in Created /\ session[i] = <<>>
  /\ session' = [session EXCEPT ![i] = <<"open">>]
  /\ UNCHANGED <<intents, registered, sweep, faults>>

SetPaymentIntentSession(i) ==
  /\ session[i] # <<>> /\ ~intents[i].ref
  /\ intents' = [intents EXCEPT ![i].ref = TRUE]
  /\ UNCHANGED <<session, registered, sweep, faults>>

\* The buyer, who is sent to the session when it is stored, pays or does not.
SessionAdvances(i) ==
  /\ intents[i].ref
  /\ \E state \in SessionMoves[intents[i].provider][State(i)] :
       session' = [session EXCEPT ![i] = Append(@, state)]
  /\ UNCHANGED <<intents, registered, sweep, faults>>

-----------------------------------------------------------------------------
(* paymentReconcileSweep.                                                    *)

\* A payment that is still open for us and has a session.
Waiting(i) == intents[i].ref /\ intents[i].status \in {"pending", "processing"}

\* That an intent must be older than the interval only delays it.
Stale == {i \in Ids : Waiting(i)}

\* ORDER BY created_at LIMIT: those with fewer than ListLimit stale ones before.
Listed == {i \in Stale : Cardinality({j \in Stale : j < i}) < ListLimit}

ListStalePaymentIntents(s) ==
  /\ sweep[s].pc = "idle" /\ Listed # {}
  /\ \E list \in [1..Cardinality(Listed) -> Listed] :
       /\ \A m, n \in DOMAIN list : m < n => list[m] < list[n]
       /\ sweep' = [sweep EXCEPT ![s] =
            [pc |-> "poll", to |-> "pending",
             list |-> [n \in DOMAIN list |->
                         [id |-> list[n], status |-> intents[list[n]].status]]]]
  /\ UNCHANGED <<intents, session, registered, faults>>

First(s) == sweep[s].list[1]

\* The next intent; after the last the sweep reschedules itself.
Skip_endsSweep(s) == IdleSweep
Skip(s) ==
  IF Len(sweep[s].list) = 1 THEN IdleSweep
  ELSE [pc |-> "poll", list |-> Tail(sweep[s].list), to |-> "pending"]

\* The first is done when its status needs no change, or may not be changed so.
AfterChargeRef(s, to) ==
  IF CanTransitionPayment(First(s).status, to)
  THEN [sweep[s] EXCEPT !.pc = "move", !.to = to] ELSE Skip(s)

\* A charge reference that is news is written before the status.
AfterPayment_statusFirst(s, to, charge) ==
  IF charge /\ ~CanTransitionPayment(First(s).status, to)
  THEN [sweep[s] EXCEPT !.pc = "charge", !.to = to] ELSE AfterChargeRef(s, to)
AfterPayment(s, to, charge) ==
  IF charge /\ intents[First(s).id].charge # "set"
  THEN [sweep[s] EXCEPT !.pc = "charge", !.to = to] ELSE AfterChargeRef(s, to)

\* An intent whose provider is not registered any more is passed over.
Payment(s) ==
  /\ sweep[s].pc = "poll"
  /\ LET i == First(s).id
     IN  sweep' = [sweep EXCEPT ![s] =
           IF intents[i].provider \in registered
           THEN AfterPayment(s, PolledStatus(State(i)),
                             HasChargeRef(intents[i].provider, State(i)))
           ELSE Skip(s)]
  /\ UNCHANGED <<intents, session, registered, faults>>

SetPaymentIntentChargeRef(s) ==
  /\ sweep[s].pc = "charge"
  /\ intents' = [intents EXCEPT ![First(s).id].charge = "set"]
  /\ sweep' = [sweep EXCEPT ![s] = AfterChargeRef(s, sweep[s].to)]
  /\ UNCHANGED <<session, registered, faults>>

\* The compare-and-set; whoever loses it leaves the intent as it is.
TransitionPaymentIntent(s) ==
  /\ sweep[s].pc = "move"
  /\ intents' = IF intents[First(s).id].status = First(s).status
                THEN [intents EXCEPT ![First(s).id].status = sweep[s].to] ELSE intents
  /\ sweep' = [sweep EXCEPT ![s] = Skip(s)]
  /\ UNCHANGED <<session, registered, faults>>

\* The provider answers with an error, or the status is not written: on to the next.
PaymentFails(s) ==
  /\ faults < MaxFaults /\ faults' = faults + 1
  /\ sweep[s].pc \in {"poll", "move"}
  /\ sweep' = [sweep EXCEPT ![s] = Skip(s)]
  /\ UNCHANGED <<intents, session, registered>>

\* The failure is logged, and the status moves all the same.
ChargeRefFails(s) ==
  /\ faults < MaxFaults /\ faults' = faults + 1
  /\ sweep[s].pc = "charge"
  /\ intents' = [intents EXCEPT ![First(s).id].charge = IF @ = "set" THEN @ ELSE "lost"]
  /\ sweep' = [sweep EXCEPT ![s] = AfterChargeRef(s, sweep[s].to)]
  /\ UNCHANGED <<session, registered>>

\* Its deadline passes: what is left is not polled, and the job is retried.
SweepTimesOut(s) ==
  /\ faults < MaxFaults /\ faults' = faults + 1
  /\ sweep[s].pc # "idle"
  /\ sweep' = [sweep EXCEPT ![s] = IdleSweep]
  /\ UNCHANGED <<intents, session, registered>>

-----------------------------------------------------------------------------
(* processPaymentWebhook.  An event was issued for every state the payment   *)
(* has been in since it was open; its job runs whenever it does, twice, or   *)
(* stops.  A job carries nothing from its read to its writes that they do    *)
(* not check again: it needs no state of its own.                            *)

Reported(i) == {n \in 2..Len(session[i]) : intents[i].ref /\ intents[i].provider \in registered}

WebhookChargeRef(i) ==
  /\ \E n \in Reported(i) : HasChargeRef(intents[i].provider, session[i][n])
  /\ intents' = [intents EXCEPT ![i].charge = "set"]
  /\ UNCHANGED <<session, registered, sweep, faults>>

\* A reference that cannot be written ends the job: here it is there already.  The
\* compare-and-set succeeds when the status is still the one the job read.
WebhookTransition(i) ==
  /\ \E n \in Reported(i) :
       LET to == EventStatus(intents[i].provider, session[i][n])
       IN  /\ HasChargeRef(intents[i].provider, session[i][n]) => intents[i].charge = "set"
           /\ CanTransitionPayment(intents[i].status, to)
           /\ intents' = [intents EXCEPT ![i].status = to]
  /\ UNCHANGED <<session, registered, sweep, faults>>

\* The process ends, and what runs in it; the next is started with its own keys.
Restart ==
  /\ faults < MaxFaults /\ faults' = faults + 1
  /\ registered' \in Configurations
  /\ sweep' = [s \in Sweepers |-> IdleSweep]
  /\ UNCHANGED <<intents, session>>

-----------------------------------------------------------------------------

Sweep(s) ==
  \/ ListStalePaymentIntents(s) \/ Payment(s)
  \/ SetPaymentIntentChargeRef(s) \/ TransitionPaymentIntent(s)

SweepFaults(s) == PaymentFails(s) \/ ChargeRefFails(s) \/ SweepTimesOut(s)

Webhook(i) == WebhookChargeRef(i) \/ WebhookTransition(i)

Checkout(i) ==
  \/ \E method \in Methods[i] : CreatePaymentIntent(i, method)
  \/ CreatePayment(i) \/ SetPaymentIntentSession(i)

RNext ==
  \/ \E i \in Ids : Checkout(i) \/ SessionAdvances(i) \/ Webhook(i)
  \/ \E s \in Sweepers : Sweep(s) \/ SweepFaults(s)
  \/ Restart

RSpec == RInit /\ [][RNext]_rVars

\* The sweep recurs and goes on (JobQueue).  No webhook need come, no buyer need pay.
Fairness == \A s \in Sweepers : WF_rVars(Sweep(s))

FairSpec == RSpec /\ Fairness

-----------------------------------------------------------------------------
(* Properties.                                                               *)

\* The provider has decided, and can be asked.
Decided(i) ==
  /\ Waiting(i) /\ intents[i].provider \in registered
  /\ CanTransitionPayment(intents[i].status, PolledStatus(State(i)))

\* ListLimit older ones wait of which there is nothing to learn.
Crowded(i) == Cardinality({j \in Ids : j < i /\ Waiting(j) /\ ~Decided(j)}) >= ListLimit

\* payments.go:181-183, "re-checks every payment intent still pending or
\* processing": without any webhook, whatever fails meanwhile and however many
\* older intents cannot be polled or decided, the sweep gets to every payment the
\* provider has decided - unless those older ones fill its list for good.
DecisionsReached ==
  \A i \in Ids : []<>~Decided(i) \/ <>[]Crowded(i)

\* store/payments.go:169-172 and handlers/payments.go:706: a payment is refunded by
\* its charge reference, and once it succeeded nobody polls it again.  Wherever the
\* sweep or a webhook's job stops, and whoever wins, a payment that succeeded has
\* its reference, but for those where the sweep failed to write it and went on.
SucceededRefundable ==
  \A i \in Ids : intents[i].status = "succeeded" => intents[i].charge # "none"

=============================================================================
