--------------------------- MODULE PaymentCapture ---------------------------
(***************************************************************************)
(* From a confirmed checkout to a started order: startPayment opens a      *)
(* session at the provider (handlers/payments.go), the provider's webhooks *)
(* are stored and queued, and the webhook jobs and the reconciliation      *)
(* sweep (payments.go) move the payment intent, capture the money in the   *)
(* ledger and start the order, or fail it.                                 *)
(*                                                                         *)
(* One order with one intent (the idempotency key allows no second).  A    *)
(* job is several database calls; other jobs run between them, and it may  *)
(* stop after any of them.  A webhook may come late, twice (under another  *)
(* event id), out of order or never.                                       *)
(*                                                                         *)
(* A definition X_fault just before X is X with a plausible bug in it.  No *)
(* action uses it; it is put in X's place to see a property fail.          *)
(***************************************************************************)
EXTENDS Naturals, OrderTable

CONSTANTS
  Events,      \* webhook deliveries: ids of payment_webhook_events rows
  Sweepers,    \* worker goroutines that run the reconciliation sweep
  MaxTries,    \* max_attempts of a webhook job
  MaxFaults    \* bound: calls that fail, handlers and jobs that stop

ASSUME ActorsAssumption == Events \cap Sweepers = {}
ASSUME BoundsAssumption == MaxTries \in Nat /\ MaxFaults \in Nat

VARIABLES
  order,     \* orders.status
  intent,    \* payment_intents.status, "none" before the row exists
  session,   \* payment_intents.provider_ref is set
  checkout,  \* the next call of startPayment
  provider,  \* the payment at the provider
  emitted,   \* the provider statuses a webhook was issued for
  row,       \* payment_webhook_events rows
  job,       \* the payment.webhook_process job of each row
  proc,      \* what each running job has read and is about to do
  captures,  \* PaymentCaptured postings in the ledger
  faults     \* calls that failed or stopped so far

vars == <<order, intent, session, checkout, provider, emitted, row, job, proc,
          captures, faults>>
external == <<provider, emitted>>

Actors == Events \cup Sweepers

-----------------------------------------------------------------------------
(* Payment intents.                                                          *)

PaymentStates == {"pending", "processing", "succeeded", "failed", "canceled", "expired"}

paymentTransitions ==
  [pending    |-> {"processing", "succeeded", "failed", "canceled", "expired"},
   processing |-> {"succeeded", "failed"},
   succeeded  |-> {}, failed |-> {}, canceled |-> {}, expired |-> {}]

CanTransitionPayment(from, to) == to \in paymentTransitions[from]

-----------------------------------------------------------------------------
(* The provider, as its adapters see it.                                     *)

\* A Stripe checkout session is open, then complete and unpaid until the payment
\* is confirmed or declined, or it expires.
SessionMoves ==
  [open   |-> {"unpaid", "paid", "expired"},
   unpaid |-> {"paid", "declined"},
   paid   |-> {}, expired |-> {}, declined |-> {}]

\* A BTCPay invoice; Late is one settled after it had expired (PaidLate).
InvoiceMoves ==
  [New        |-> {"Processing", "Settled", "Expired"},
   Processing |-> {"Settled", "Invalid"},
   Expired    |-> {"Late"},
   Settled    |-> {}, Invalid |-> {}, Late |-> {}]

Sessions == DOMAIN SessionMoves
Invoices == DOMAIN InvoiceMoves
ProviderStates == Sessions \cup Invoices \cup {"none"}

ProviderMoves(state) ==
  CASE state \in Sessions -> SessionMoves[state]
    [] state \in Invoices -> InvoiceMoves[state]
    [] OTHER -> {}

\* The status of a session and whether it is paid.
normalizeCheckoutSessionStatus_unpaidSucceeds(status, paid) ==
  CASE status = "expired" -> "expired"
    [] status = "complete" -> "succeeded"
    [] OTHER -> "pending"
normalizeCheckoutSessionStatus(status, paid) ==
  CASE status = "expired" -> "expired"
    [] status = "complete" -> IF paid THEN "succeeded" ELSE "processing"
    [] OTHER -> "pending"

SessionStatus(kind) ==
  CASE kind = "open" -> "open" [] kind = "expired" -> "expired" [] OTHER -> "complete"

\* checkout.session.completed and async_payment_succeeded tell the status
\* themselves, and so does expired; async_payment_failed leaves it to the session.
sessionStatusForEventType(kind) ==
  CASE kind \in {"unpaid", "paid"} -> "complete"
    [] kind = "expired" -> "expired"
    [] OTHER -> SessionStatus(kind)

StripeEventStatus(kind) ==
  normalizeCheckoutSessionStatus(sessionStatusForEventType(kind), kind = "paid")

\* InvoiceSettled is a success whether or not it came late.
BTCPayEventStatus(kind) ==
  CASE kind \in {"Settled", "Late"} -> "succeeded"
    [] kind = "Expired" -> "expired"
    [] kind = "Invalid" -> "failed"
    [] OTHER -> "processing"

\* ParseEvent: the status a webhook is read as.
EventStatus(kind) ==
  IF kind \in Sessions THEN StripeEventStatus(kind) ELSE BTCPayEventStatus(kind)

StripePayment ==
  normalizeCheckoutSessionStatus(SessionStatus(provider), provider = "paid")

\* What came late is left for an admin, unlike in a webhook.
normalizeInvoiceStatus(status) ==
  CASE status = "Settled" -> "succeeded"
    [] status \in {"Processing", "Late"} -> "processing"
    [] status = "Expired" -> "expired"
    [] status = "Invalid" -> "failed"
    [] OTHER -> "pending"

BTCPayPayment == normalizeInvoiceStatus(provider)

\* Payment: the status the provider reports when asked.
PolledStatus == IF provider \in Sessions THEN StripePayment ELSE BTCPayPayment

-----------------------------------------------------------------------------

Idle == [pc |-> "idle", evt |-> "pending", snap |-> "pending"]
ProcState == [pc : {"idle", "load", "poll", "intent", "order", "paid", "post",
                    "start", "failed", "mark", "complete"},
              evt : PaymentStates, snap : PaymentStates]

NoRow == [kind |-> "none", processed |-> FALSE]

TypeOK ==
  /\ order \in {"pending_payment", "payment_failed", "paid", "in_progress"}
  /\ intent \in PaymentStates \cup {"none"}
  /\ session \in BOOLEAN /\ checkout \in {"create", "call", "save", "ended"}
  /\ session \/ checkout \in {"call", "save"} => intent # "none"
  /\ provider \in ProviderStates /\ emitted \subseteq ProviderStates \ {"none"}
  /\ row \in [Events -> [kind : ProviderStates, processed : BOOLEAN]]
  /\ job \in [Events -> [status : {"none", "queued", "failed", "claimed", "dead", "done"}, attempts : Nat]]
  /\ proc \in [Actors -> ProcState]
  /\ \A e \in Events : proc[e].pc # "idle" => job[e].status = "claimed"
  /\ \A e \in Events : row[e].kind = "none" => job[e].status = "none"
  /\ captures \in Nat /\ faults \in 0..MaxFaults

Init ==
  /\ order = "pending_payment" /\ intent = "none" /\ session = FALSE
  /\ checkout = "create"
  /\ provider = "none" /\ emitted = {}
  /\ row = [e \in Events |-> NoRow]
  /\ job = [e \in Events |-> [status |-> "none", attempts |-> 0]]
  /\ proc = [p \in Actors |-> Idle]
  /\ captures = 0 /\ faults = 0

Fault == faults < MaxFaults /\ faults' = faults + 1

-----------------------------------------------------------------------------
(* startPayment.                                                             *)

CreatePaymentIntent ==
  /\ checkout = "create" /\ checkout' = "call"
  /\ intent' = "pending"
  /\ UNCHANGED <<order, session, external, row, job, proc, captures, faults>>

CreatePayment ==
  /\ checkout = "call" /\ checkout' = "save"
  /\ provider' \in {"open", "New"}
  /\ UNCHANGED <<order, intent, session, emitted, row, job, proc, captures, faults>>

SetPaymentIntentSession ==
  /\ checkout = "save" /\ checkout' = "ended"
  /\ session' = TRUE
  /\ UNCHANGED <<order, intent, external, row, job, proc, captures, faults>>

\* A call fails or the buyer's connection ends; there is no way back to here.
CheckoutAborts ==
  /\ checkout # "ended" /\ checkout' = "ended"
  /\ Fault
  /\ UNCHANGED <<order, intent, session, external, row, job, proc, captures>>

\* Only a buyer who was redirected to the session can pay.
ProviderAdvances(to) ==
  /\ to \in ProviderMoves(provider)
  /\ to \in {"expired", "Expired"} \/ session
  /\ provider' = to /\ emitted' = emitted \cup {to}
  /\ UNCHANGED <<order, intent, session, checkout, row, job, proc, captures, faults>>

-----------------------------------------------------------------------------
(* receiveWebhookEvent: store the event once, enqueue its job, answer 200.   *)

\* A job that cannot be enqueued is only logged; the redelivery is a duplicate.
receiveWebhookEvent(e) ==
  /\ row[e] = NoRow
  /\ \E kind \in emitted : row' = [row EXCEPT ![e].kind = kind]
  /\ \/ job' = [job EXCEPT ![e].status = "queued"] /\ UNCHANGED faults
     \/ Fault /\ UNCHANGED job
  /\ UNCHANGED <<order, intent, session, checkout, external, proc, captures>>

-----------------------------------------------------------------------------
(* Running jobs.  Finished: the webhook job has its event left to mark, the  *)
(* sweep goes on to its next intent.                                         *)

Finished(p) == IF p \in Events THEN "mark" ELSE "idle"
Goto(p, pc) == proc' = [proc EXCEPT ![p].pc = pc]

\* An error: the job is retried until its attempts are used up.
Errors(p) ==
  /\ proc' = [proc EXCEPT ![p] = Idle]
  /\ job' = IF p \in Events
            THEN [job EXCEPT ![p].status =
                    IF job[p].attempts >= MaxTries THEN "dead" ELSE "failed"]
            ELSE job

\* The status decides what becomes of the order once the intent is settled.
AfterIntent(p, evt) ==
  IF evt \in {"succeeded", "failed", "expired"} THEN "order" ELSE Finished(p)

\* processPaymentWebhook begins: an event that was processed is only completed.
GetWebhookEvent(e) ==
  /\ job[e].status \in {"queued", "failed"}
  /\ job' = [job EXCEPT ![e] = [status |-> "claimed", attempts |-> @.attempts + 1]]
  /\ proc' = [proc EXCEPT ![e] =
                IF row[e].processed THEN [Idle EXCEPT !.pc = "complete"]
                ELSE [Idle EXCEPT !.pc = "load", !.evt = EventStatus(row[e].kind)]]
  /\ UNCHANGED <<order, intent, session, checkout, external, row, captures, faults>>

\* An event for a session that was never saved is marked and forgotten.
GetPaymentIntentByProviderRef(e) ==
  /\ proc[e].pc = "load"
  /\ IF session
     THEN proc' = [proc EXCEPT ![e].snap = intent,
                               ![e].pc = IF CanTransitionPayment(intent, proc[e].evt)
                                         THEN "intent" ELSE AfterIntent(e, proc[e].evt)]
     ELSE Goto(e, "mark")
  /\ UNCHANGED <<order, intent, session, checkout, external, row, job, captures, faults>>

\* status IN ('pending', 'processing') AND provider_ref <> ''
Reconcilable_pendingOnly == session /\ intent = "pending"
Reconcilable == session /\ intent \in {"pending", "processing"}

ListStalePaymentIntents(s) ==
  /\ proc[s].pc = "idle"
  /\ Reconcilable
  /\ proc' = [proc EXCEPT ![s].pc = "poll", ![s].snap = intent]
  /\ UNCHANGED <<order, intent, session, checkout, external, row, job, captures, faults>>

PollProvider(s) ==
  /\ proc[s].pc = "poll"
  /\ IF CanTransitionPayment(proc[s].snap, PolledStatus)
     THEN proc' = [proc EXCEPT ![s].pc = "intent", ![s].evt = PolledStatus]
     ELSE proc' = [proc EXCEPT ![s] = Idle]
  /\ UNCHANGED <<order, intent, session, checkout, external, row, job, captures, faults>>

\* UPDATE payment_intents ... WHERE id = $1 AND status = $2
IntentUnchanged_blindSet(p) == TRUE
IntentUnchanged(p) == intent = proc[p].snap

TransitionPaymentIntent(p) ==
  /\ proc[p].pc = "intent"
  /\ IF IntentUnchanged(p)
     THEN intent' = proc[p].evt /\ Goto(p, AfterIntent(p, proc[p].evt)) /\ UNCHANGED job
     ELSE Errors(p) /\ UNCHANGED intent
  /\ UNCHANGED <<order, session, checkout, external, row, captures, faults>>

\* capturePaymentForOrder and failPaymentForOrder begin alike: an order that
\* has left pending_payment is left alone.
GetOrder(p) ==
  /\ proc[p].pc = "order"
  /\ Goto(p, IF order # "pending_payment" THEN Finished(p)
             ELSE IF proc[p].evt = "succeeded" THEN "paid" ELSE "failed")
  /\ UNCHANGED <<order, intent, session, checkout, external, row, job, captures, faults>>

\* UPDATE orders ... WHERE id = $1 AND status = $2
OrderIs_blindSet(status) == TRUE
OrderIs(status) == order = status

\* The winner goes on to post; a lost race is a duplicate delivery.
LostRace_posts(p) == "post"
LostRace(p) == Finished(p)

TransitionToPaid(p) ==
  /\ proc[p].pc = "paid"
  /\ IF OrderIs("pending_payment")
     THEN order' = "paid" /\ Goto(p, "post")
     ELSE Goto(p, LostRace(p)) /\ UNCHANGED order
  /\ UNCHANGED <<intent, session, checkout, external, row, job, captures, faults>>

PostLedgerEntries_dropped == captures' = captures
PostLedgerEntries == captures' = captures + 1

PostCapture(p) ==
  /\ proc[p].pc = "post"
  /\ PostLedgerEntries
  /\ Goto(p, "start")
  /\ UNCHANGED <<order, intent, session, checkout, external, row, job, faults>>

TransitionToInProgress(p) ==
  /\ proc[p].pc = "start"
  /\ IF OrderIs("paid")
     THEN order' = "in_progress" /\ Goto(p, Finished(p)) /\ UNCHANGED job
     ELSE Errors(p) /\ UNCHANGED order
  /\ UNCHANGED <<intent, session, checkout, external, row, captures, faults>>

TransitionToPaymentFailed(p) ==
  /\ proc[p].pc = "failed"
  /\ order' = IF OrderIs("pending_payment") THEN "payment_failed" ELSE order
  /\ Goto(p, Finished(p))
  /\ UNCHANGED <<intent, session, checkout, external, row, job, captures, faults>>

MarkWebhookProcessed(e) ==
  /\ proc[e].pc = "mark"
  /\ row' = [row EXCEPT ![e].processed = TRUE]
  /\ Goto(e, "complete")
  /\ UNCHANGED <<order, intent, session, checkout, external, job, captures, faults>>

CompleteJob(e) ==
  /\ proc[e].pc = "complete"
  /\ proc' = [proc EXCEPT ![e] = Idle]
  /\ job' = [job EXCEPT ![e].status = "done"]
  /\ UNCHANGED <<order, intent, session, checkout, external, row, captures, faults>>

\* A call of the job fails, or its worker crashes: then the stale claim is
\* taken over whatever its attempts are.  A sweep logs and moves on.
Abort(p) ==
  /\ proc[p].pc # "idle"
  /\ Fault
  /\ \/ Errors(p)
     \/ /\ p \in Events
        /\ job' = [job EXCEPT ![p].status = "queued"]
        /\ proc' = [proc EXCEPT ![p] = Idle]
  /\ UNCHANGED <<order, intent, session, checkout, external, row, captures>>

\* An admin retries a dead letter, or a job whose backoff has not elapsed.
RetryJob(e) ==
  /\ job[e].status \in {"dead", "failed"}
  /\ job' = [job EXCEPT ![e] = [status |-> "queued", attempts |-> 0]]
  /\ UNCHANGED <<order, intent, session, checkout, external, row, proc, captures, faults>>

-----------------------------------------------------------------------------

StartPayment == CreatePaymentIntent \/ CreatePayment \/ SetPaymentIntentSession

WebhookJob(e) ==
  \/ GetWebhookEvent(e) \/ GetPaymentIntentByProviderRef(e)
  \/ MarkWebhookProcessed(e) \/ CompleteJob(e)

Sweep(s) == ListStalePaymentIntents(s) \/ PollProvider(s)

Apply(p) ==
  \/ TransitionPaymentIntent(p) \/ GetOrder(p)
  \/ TransitionToPaid(p) \/ PostCapture(p) \/ TransitionToInProgress(p)
  \/ TransitionToPaymentFailed(p)

Next ==
  \/ StartPayment \/ CheckoutAborts
  \/ \E to \in ProviderStates : ProviderAdvances(to)
  \/ \E e \in Events : receiveWebhookEvent(e) \/ WebhookJob(e) \/ RetryJob(e)
  \/ \E s \in Sweepers : Sweep(s)
  \/ \E p \in Actors : Apply(p) \/ Abort(p)

Spec == Init /\ [][Next]_vars

\* A queued job is claimed, a running job runs on, and the sweep recurs
\* (JobQueue).  No webhook need ever arrive, no buyer need pay, nobody retries
\* a dead letter.
Fairness ==
  /\ \A e \in Events : WF_vars(WebhookJob(e) \/ Apply(e))
  /\ \A s \in Sweepers : WF_vars(Sweep(s) \/ Apply(s))

FairSpec == Spec /\ Fairness

-----------------------------------------------------------------------------
(* Properties.                                                               *)

Lifecycle == INSTANCE OrderLifecycle WITH Entry <- {"pending_payment"}, status <- order

\* Duplicate, stale and reordered webhooks and concurrent sweeps only ever move
\* the order along its transition table.
ImplementsLifecycle == Lifecycle!Spec

\* The intent only takes steps of paymentTransitions: a job that read an older
\* status loses its compare-and-set, so a settled intent stays settled.
IntentFollowsTable ==
  [][intent' # intent =>
       IF intent = "none" THEN intent' = "pending"
       ELSE CanTransitionPayment(intent, intent')]_vars

\* However often a success is delivered, polled and retried, the money is
\* posted to the ledger at most once, and not before the order left
\* pending_payment for good.
CapturedOnce ==
  /\ captures <= 1
  /\ captures = 1 => order \in {"paid", "in_progress"}

\* An order the seller may work on has its money in the ledger.
StartedOrderIsPosted == order = "in_progress" => captures = 1

\* No phantom capture (docs/runbooks/reconciliation.md): money is posted only
\* when the provider has it, and an order fails only when the provider's
\* session ended without it.
OutcomeJustified ==
  /\ captures > 0 => provider \in {"paid", "Settled", "Late"}
  /\ order = "payment_failed" => provider \in {"expired", "Expired", "Invalid", "Late"}

\* docs/runbooks/reconciliation.md: a webhook that was never delivered
\* self-heals - a payment the provider holds starts its order even if no
\* webhook arrives, however the sweep and late webhooks interleave, if no call
\* fails: with a failure, ProcessedSuccessIsPosted shows how an order is stuck.
PaidOrderStarts == [](faults = 0) => ((provider \in {"paid", "Settled"}) ~> (order = "in_progress"))

\* payments.go:48-50: an error is retried and "nothing here is destructive to
\* retry" - once the success event is processed, its capture is in the ledger or
\* a job is about to post it.
ProcessedSuccessIsPosted ==
  \A e \in Events : row[e].kind \in {"paid", "Settled"} /\ row[e].processed =>
    captures = 1 \/ \E p \in Actors : proc[p].pc = "post"

=============================================================================
