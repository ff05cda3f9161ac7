------------------------ MODULE PaymentCaptureProofs ------------------------
(***************************************************************************)
(* Theorems about PaymentCapture, for any number of webhook deliveries,    *)
(* sweeps, attempts and faults.                                            *)
(***************************************************************************)
EXTENDS PaymentCapture, TLAPS

PCs == {"idle", "load", "poll", "intent", "order", "paid", "post", "start",
        "failed", "mark", "complete"}

(***************************************************************************)
(* What a step does to the jobs' local state.                              *)
(***************************************************************************)
OnlyProc(p) ==
  /\ proc' \in [Actors -> ProcState]
  /\ \A q \in Actors \ {p} : proc'[q] = proc[q]

LEMMA ProcFields ==
  ASSUME TypeOK, NEW p \in Actors
  PROVE  proc[p].pc \in PCs /\ proc[p].evt \in PaymentStates /\ proc[p].snap \in PaymentStates
BY DEF TypeOK, ProcState, PCs

LEMMA GotoEffect ==
  ASSUME TypeOK, NEW p \in Actors, NEW pc \in PCs, Goto(p, pc)
  PROVE  /\ OnlyProc(p)
         /\ proc'[p].pc = pc /\ proc'[p].evt = proc[p].evt /\ proc'[p].snap = proc[p].snap
<1>1. proc[p] \in ProcState
  BY DEF TypeOK
<1>2. [proc[p] EXCEPT !.pc = pc] \in ProcState
  BY <1>1 DEF ProcState, PCs
<1> QED  BY <1>1, <1>2 DEF TypeOK, Goto, OnlyProc, ProcState

LEMMA SetEffect ==
  ASSUME TypeOK, NEW p \in Actors, NEW x \in ProcState, proc' = [proc EXCEPT ![p] = x]
  PROVE  OnlyProc(p) /\ proc'[p] = x
BY DEF TypeOK, OnlyProc

LEMMA IdleState == Idle \in ProcState /\ Idle.pc = "idle" /\ Idle.evt = "pending"
BY DEF Idle, ProcState, PaymentStates

(***************************************************************************)
(* What the provider's states are and how they are read.                   *)
(***************************************************************************)
LEMMA ProviderKinds ==
  /\ Sessions = {"open", "unpaid", "paid", "expired", "declined"}
  /\ Invoices = {"New", "Processing", "Expired", "Settled", "Invalid", "Late"}
  /\ ProviderStates = {"open", "unpaid", "paid", "expired", "declined", "none",
                       "New", "Processing", "Expired", "Settled", "Invalid", "Late"}
BY DEF Sessions, Invoices, SessionMoves, InvoiceMoves, ProviderStates

\* A payment that is paid or invalid stays so; one that expired may come late.
LEMMA Moves ==
  ASSUME NEW state, NEW to \in ProviderMoves(state)
  PROVE  /\ state \in {"open", "unpaid", "New", "Processing", "Expired"}
         /\ state = "Expired" => to = "Late"
         /\ to \in ProviderStates \ {"none"}
<1>1. CASE state \in Sessions
  BY <1>1, ProviderKinds DEF ProviderMoves, SessionMoves
<1>2. CASE state \in Invoices
  <2>1. state \notin Sessions
    BY <1>2, ProviderKinds
  <2> QED  BY <1>2, <2>1, ProviderKinds DEF ProviderMoves, InvoiceMoves
<1> QED  BY <1>1, <1>2 DEF ProviderMoves

\* A webhook's success comes of a payment, its failure of one that ended unpaid.
LEMMA EventStates ==
  ASSUME NEW kind
  PROVE  /\ EventStatus(kind) \in PaymentStates
         /\ EventStatus(kind) = "succeeded" => kind \in {"paid", "Settled", "Late"}
         /\ EventStatus(kind) \in {"failed", "expired"} => kind \in {"expired", "Expired", "Invalid"}
<1>1. CASE kind \in Sessions
  BY <1>1, ProviderKinds DEF EventStatus, StripeEventStatus, sessionStatusForEventType,
     SessionStatus, normalizeCheckoutSessionStatus, PaymentStates
<1>2. CASE kind \notin Sessions
  BY <1>2 DEF EventStatus, BTCPayEventStatus, PaymentStates
<1> QED  BY <1>1, <1>2

LEMMA PolledStates ==
  /\ PolledStatus \in PaymentStates
  /\ PolledStatus = "succeeded" => provider \in {"paid", "Settled"}
  /\ PolledStatus \in {"failed", "expired"} => provider \in {"expired", "Expired", "Invalid"}
<1>1. CASE provider \in Sessions
  BY <1>1, ProviderKinds DEF PolledStatus, StripePayment, SessionStatus,
     normalizeCheckoutSessionStatus, PaymentStates
<1>2. CASE provider \notin Sessions
  BY <1>2 DEF PolledStatus, BTCPayPayment, normalizeInvoiceStatus, PaymentStates
<1> QED  BY <1>1, <1>2

\* The steps that only a webhook job takes, and the sweep's own.
LEMMA GetWebhookEventEffect ==
  ASSUME TypeOK, NEW e \in Events, GetWebhookEvent(e)
  PROVE  /\ OnlyProc(e)
         /\ \/ proc'[e].pc = "complete" /\ proc'[e].evt = "pending"
            \/ proc'[e].pc = "load" /\ proc'[e].evt = EventStatus(row[e].kind)
<1>1. e \in Actors
  BY DEF Actors
<1>2. EventStatus(row[e].kind) \in PaymentStates
  BY EventStates
<1> DEFINE x == IF row[e].processed THEN [Idle EXCEPT !.pc = "complete"]
                ELSE [Idle EXCEPT !.pc = "load", !.evt = EventStatus(row[e].kind)]
<1>3. x \in ProcState
  BY <1>2 DEF Idle, ProcState, PaymentStates
<1>4. \/ x.pc = "complete" /\ x.evt = "pending"
      \/ x.pc = "load" /\ x.evt = EventStatus(row[e].kind)
  BY DEF Idle
<1>5. proc' = [proc EXCEPT ![e] = x]
  BY DEF GetWebhookEvent
<1> HIDE DEF x
<1> QED  BY <1>1, <1>3, <1>4, <1>5, SetEffect

LEMMA LoadEffect ==
  ASSUME TypeOK, NEW e \in Events, GetPaymentIntentByProviderRef(e)
  PROVE  /\ OnlyProc(e) /\ proc'[e].evt = proc[e].evt
         /\ \/ proc'[e].pc = "intent" /\ proc'[e].snap = intent
               /\ CanTransitionPayment(intent, proc[e].evt)
            \/ proc'[e].pc = "order" /\ proc[e].evt \in {"succeeded", "failed", "expired"}
            \/ proc'[e].pc = "mark"
<1>1. e \in Actors /\ proc[e] \in ProcState
  BY DEF Actors, TypeOK
<1>2. CASE ~session
  BY <1>1, <1>2, GotoEffect DEF GetPaymentIntentByProviderRef, PCs
<1>3. CASE session
  <2> DEFINE pc == IF CanTransitionPayment(intent, proc[e].evt)
                   THEN "intent" ELSE AfterIntent(e, proc[e].evt)
  <2> DEFINE x == [proc[e] EXCEPT !.snap = intent, !.pc = pc]
  <2>1. intent \in PaymentStates
    BY <1>3 DEF TypeOK
  <2>2. \/ pc = "intent" /\ CanTransitionPayment(intent, proc[e].evt)
        \/ pc = "order" /\ proc[e].evt \in {"succeeded", "failed", "expired"}
        \/ pc = "mark"
    BY DEF AfterIntent, Finished
  <2>3. pc \in PCs
    BY <2>2 DEF PCs
  <2>4. proc' = [proc EXCEPT ![e] = x]
    BY <1>3 DEF GetPaymentIntentByProviderRef
  <2> HIDE DEF pc
  <2>5. x \in ProcState /\ x.pc = pc /\ x.evt = proc[e].evt /\ x.snap = intent
    BY <1>1, <2>1, <2>3 DEF ProcState, PCs
  <2> HIDE DEF x
  <2> QED  BY <1>1, <2>2, <2>4, <2>5, SetEffect
<1> QED  BY <1>2, <1>3

LEMMA ListEffect ==
  ASSUME TypeOK, NEW s \in Sweepers, ListStalePaymentIntents(s)
  PROVE  OnlyProc(s) /\ proc'[s].evt = proc[s].evt /\ proc'[s].pc = "poll"
<1>1. s \in Actors /\ proc[s] \in ProcState
  BY DEF Actors, TypeOK
<1> DEFINE x == [proc[s] EXCEPT !.pc = "poll", !.snap = intent]
<1>2. intent \in PaymentStates
  BY DEF TypeOK, ListStalePaymentIntents, Reconcilable, PaymentStates
<1>3. x \in ProcState /\ x.pc = "poll" /\ x.evt = proc[s].evt
  BY <1>1, <1>2 DEF ProcState
<1>4. proc' = [proc EXCEPT ![s] = x]
  BY DEF ListStalePaymentIntents
<1> HIDE DEF x
<1> QED  BY <1>1, <1>3, <1>4, SetEffect

LEMMA PollEffect ==
  ASSUME TypeOK, NEW s \in Sweepers, PollProvider(s)
  PROVE  /\ OnlyProc(s)
         /\ \/ proc'[s].pc = "intent" /\ proc'[s].evt = PolledStatus
               /\ CanTransitionPayment(proc'[s].snap, proc'[s].evt)
            \/ proc'[s].pc = "idle" /\ proc'[s].evt = "pending"
<1>1. s \in Actors /\ proc[s] \in ProcState
  BY DEF Actors, TypeOK
<1>2. CASE CanTransitionPayment(proc[s].snap, PolledStatus)
  <2> DEFINE x == [proc[s] EXCEPT !.pc = "intent", !.evt = PolledStatus]
  <2>1. x \in ProcState /\ x.pc = "intent" /\ x.evt = PolledStatus /\ x.snap = proc[s].snap
    BY <1>1, PolledStates DEF ProcState
  <2>2. proc' = [proc EXCEPT ![s] = x]
    BY <1>2 DEF PollProvider
  <2> HIDE DEF x
  <2> QED  BY <1>1, <1>2, <2>1, <2>2, SetEffect
<1>3. CASE ~CanTransitionPayment(proc[s].snap, PolledStatus)
  BY <1>1, <1>3, IdleState, SetEffect DEF PollProvider
<1> QED  BY <1>2, <1>3

LEMMA ErrorsEffect ==
  ASSUME TypeOK, NEW p \in Actors, Errors(p)
  PROVE  /\ OnlyProc(p) /\ proc'[p] = Idle
         /\ \A e \in Events \ {p} : job'[e] = job[e]
         /\ job' \in [Events -> [status : {"none", "queued", "failed", "claimed", "dead", "done"}, attempts : Nat]]
<1>1. OnlyProc(p) /\ proc'[p] = Idle
  BY IdleState, SetEffect DEF Errors
<1>2. CASE p \in Events
  <2> DEFINE st == IF job[p].attempts >= MaxTries THEN "dead" ELSE "failed"
  <2>1. st \in {"dead", "failed"}
    OBVIOUS
  <2>2. job' = [job EXCEPT ![p].status = st]
    BY <1>2 DEF Errors
  <2> HIDE DEF st
  <2> QED  BY <1>1, <1>2, <2>1, <2>2 DEF TypeOK
<1>3. CASE p \notin Events
  BY <1>1, <1>3 DEF Errors, TypeOK
<1> QED  BY <1>2, <1>3

-----------------------------------------------------------------------------
(***************************************************************************)
(* The inductive invariant.  CaptureInv: whoever won pending -> paid is    *)
(* alone between that and the end of the capture.  GuardInv: what a job    *)
(* checked before it moves the intent.  SourceInv: a status a job acts on  *)
(* came from the provider, and the provider never takes it back.           *)
(***************************************************************************)
Capturing(p) == proc[p].pc \in {"post", "start"}

CaptureInv ==
  /\ captures \in {0, 1}
  /\ order \in {"pending_payment", "payment_failed"} => captures = 0
  /\ order = "in_progress" => captures = 1
  /\ \A p \in Actors : Capturing(p) => order = "paid"
  /\ \A p \in Actors : proc[p].pc = "post" => captures = 0
  /\ \A p \in Actors : proc[p].pc = "start" => captures = 1
  /\ \A p, q \in Actors : Capturing(p) /\ Capturing(q) => p = q

GuardInv ==
  /\ \A p \in Actors :
       proc[p].pc = "intent" => CanTransitionPayment(proc[p].snap, proc[p].evt)
  /\ checkout = "create" => intent = "none"

Paid == provider \in {"paid", "Settled", "Late"}
EndedUnpaid == provider \in {"expired", "Expired", "Invalid", "Late"}

Backed(evt) == /\ evt = "succeeded" => Paid
               /\ evt \in {"failed", "expired"} => EndedUnpaid

\* The branch a job is in goes with the status it acts on.
Matches(x) ==
  /\ x.pc \in {"paid", "post", "start"} => x.evt = "succeeded"
  /\ x.pc = "order" => x.evt \in {"succeeded", "failed", "expired"}
  /\ x.pc = "failed" => x.evt \in {"failed", "expired"}

SourceInv ==
  /\ \A e \in Events : Backed(EventStatus(row[e].kind))
  /\ \A kind \in emitted : Backed(EventStatus(kind))
  /\ \A p \in Actors : Backed(proc[p].evt)
  /\ \A p \in Actors : Matches(proc[p])
  /\ checkout \in {"create", "call"} => provider = "none"
  /\ captures > 0 => Paid
  /\ order = "payment_failed" => EndedUnpaid

IInv == TypeOK /\ CaptureInv /\ GuardInv /\ SourceInv

LEMMA InitHolds == Init => IInv
<1> SUFFICES ASSUME Init  PROVE IInv
  OBVIOUS
<1>1. TypeOK
  <2>1. "none" \in ProviderStates
    BY ProviderKinds
  <2>2. row \in [Events -> [kind : ProviderStates, processed : BOOLEAN]]
    BY <2>1 DEF Init, NoRow
  <2>3. \A e \in Events : proc[e].pc = "idle"
    BY IdleState DEF Init, Actors
  <2>4. /\ job \in [Events -> [status : {"none", "queued", "failed", "claimed", "dead", "done"}, attempts : Nat]]
        /\ \A e \in Events : job[e].status = "none"
    BY DEF Init
  <2>5. proc \in [Actors -> ProcState]
    BY IdleState DEF Init
  <2>6. captures \in Nat /\ faults \in 0..MaxFaults
    BY BoundsAssumption DEF Init
  <2> QED  BY <2>1, <2>2, <2>3, <2>4, <2>5, <2>6 DEF Init, TypeOK
<1>2. CaptureInv /\ GuardInv
  BY DEF Init, CaptureInv, GuardInv, Capturing, Idle
<1>3. SourceInv
  BY EventStates DEF Init, SourceInv, Backed, Matches, NoRow, Idle
<1> QED  BY <1>1, <1>2, <1>3 DEF IInv

(***************************************************************************)
(* Types.                                                                  *)
(***************************************************************************)
JobType == [Events -> [status : {"none", "queued", "failed", "claimed", "dead", "done"}, attempts : Nat]]

\* A job's own step keeps the shape when its row stays claimed while it runs.
LEMMA ProcType ==
  ASSUME TypeOK, NEW p \in Actors, OnlyProc(p), job' \in JobType,
         \A e \in Events \ {p} : job'[e] = job[e],
         p \in Events => (proc'[p].pc # "idle" => job'[p].status = "claimed"),
         p \in Events => row[p].kind # "none",
         \A e \in Events : row'[e].kind = row[e].kind,
         order' \in {"pending_payment", "payment_failed", "paid", "in_progress"},
         intent' \in PaymentStates \cup {"none"}, intent # "none" => intent' # "none",
         row' \in [Events -> [kind : ProviderStates, processed : BOOLEAN]],
         captures' \in Nat, faults' \in 0..MaxFaults,
         UNCHANGED <<session, checkout, external>>
  PROVE  TypeOK'
BY DEF TypeOK, OnlyProc, JobType, Actors, external

LEMMA Claimed ==
  ASSUME TypeOK, NEW p \in Actors, proc[p].pc # "idle"
  PROVE  p \in Events => row[p].kind # "none" /\ job[p].status = "claimed"
BY DEF TypeOK

LEMMA StillClaimed ==
  ASSUME TypeOK, NEW p \in Actors, proc[p].pc # "idle", UNCHANGED job
  PROVE  /\ job' \in JobType /\ \A e \in Events \ {p} : job'[e] = job[e]
         /\ p \in Events => job'[p].status = "claimed"
BY Claimed DEF TypeOK, JobType

LEMMA AfterStates ==
  ASSUME NEW p \in Actors, NEW evt
  PROVE  /\ Finished(p) \in {"mark", "idle"} /\ Finished(p) \in PCs
         /\ AfterIntent(p, evt) \in {"order", "mark", "idle"} /\ AfterIntent(p, evt) \in PCs
         /\ AfterIntent(p, evt) = "order" => evt \in {"succeeded", "failed", "expired"}
BY DEF Finished, AfterIntent, PCs

LEMMA ApplyType ==
  ASSUME TypeOK, GuardInv, NEW p \in Actors, Apply(p)
  PROVE  TypeOK'
<1>1. proc[p].pc # "idle" /\ proc[p].evt \in PaymentStates
  BY ProcFields DEF Apply, TransitionPaymentIntent, GetOrder, TransitionToPaid, PostCapture,
     TransitionToInProgress, TransitionToPaymentFailed
<1>2. CASE TransitionPaymentIntent(p)
  <2>1. CASE intent = proc[p].snap
    <3>1. OnlyProc(p)
      BY <1>2, <2>1, GotoEffect, AfterStates DEF TransitionPaymentIntent, IntentUnchanged
    <3>2. intent' \in PaymentStates /\ intent' # "none"
      BY <1>1, <1>2, <2>1 DEF TransitionPaymentIntent, IntentUnchanged, PaymentStates
    <3> QED  BY <1>1, <1>2, <2>1, <3>1, <3>2, StillClaimed, Claimed, ProcType
             DEF TransitionPaymentIntent, IntentUnchanged, TypeOK
  <2>2. CASE intent # proc[p].snap
    BY <1>2, <2>2, ErrorsEffect, IdleState, Claimed, ProcType DEF TransitionPaymentIntent, IntentUnchanged, TypeOK, JobType
  <2> QED  BY <2>1, <2>2
<1>3. CASE GetOrder(p)
  <2>1. OnlyProc(p)
    BY <1>3, GotoEffect, AfterStates DEF GetOrder, PCs
  <2> QED  BY <1>1, <1>3, <2>1, StillClaimed, Claimed, ProcType DEF GetOrder, TypeOK
<1>4. CASE TransitionToPaid(p)
  <2>1. OnlyProc(p)
    BY <1>4, GotoEffect, AfterStates DEF TransitionToPaid, LostRace, PCs
  <2> QED  BY <1>1, <1>4, <2>1, StillClaimed, Claimed, ProcType DEF TransitionToPaid, TypeOK
<1>5. CASE PostCapture(p)
  <2>1. OnlyProc(p)
    BY <1>5, GotoEffect DEF PostCapture, PCs
  <2> QED  BY <1>1, <1>5, <2>1, StillClaimed, Claimed, ProcType DEF PostCapture, PostLedgerEntries, TypeOK
<1>6. CASE TransitionToInProgress(p)
  <2>1. CASE order = "paid"
    <3>1. OnlyProc(p)
      BY <1>6, <2>1, GotoEffect, AfterStates DEF TransitionToInProgress, OrderIs
    <3> QED  BY <1>1, <1>6, <2>1, <3>1, StillClaimed, Claimed, ProcType DEF TransitionToInProgress, OrderIs, TypeOK
  <2>2. CASE order # "paid"
    BY <1>6, <2>2, ErrorsEffect, IdleState, Claimed, ProcType DEF TransitionToInProgress, OrderIs, TypeOK, JobType
  <2> QED  BY <2>1, <2>2
<1>7. CASE TransitionToPaymentFailed(p)
  <2>1. OnlyProc(p)
    BY <1>7, GotoEffect, AfterStates DEF TransitionToPaymentFailed
  <2> QED  BY <1>1, <1>7, <2>1, StillClaimed, Claimed, ProcType DEF TransitionToPaymentFailed, OrderIs, TypeOK
<1> QED  BY <1>2, <1>3, <1>4, <1>5, <1>6, <1>7 DEF Apply

LEMMA EventType ==
  ASSUME TypeOK, NEW e \in Events,
         receiveWebhookEvent(e) \/ WebhookJob(e) \/ RetryJob(e)
  PROVE  TypeOK'
<1>a. e \in Actors
  BY DEF Actors
<1>1. CASE receiveWebhookEvent(e)
  <2>1. /\ row' \in [Events -> [kind : ProviderStates, processed : BOOLEAN]]
        /\ row'[e].kind # "none" /\ \A q \in Events \ {e} : row'[q] = row[q]
    BY <1>1 DEF receiveWebhookEvent, TypeOK
  <2> DEFINE x == [job[e] EXCEPT !.status = "queued"]
  <2>a. x \in [status : {"none", "queued", "failed", "claimed", "dead", "done"}, attempts : Nat]
    BY DEF TypeOK
  <2>b. job' = job \/ job' = [job EXCEPT ![e] = x]
    BY <1>1 DEF receiveWebhookEvent
  <2> HIDE DEF x
  <2>2. job' \in JobType /\ \A q \in Events \ {e} : job'[q] = job[q]
    BY <2>a, <2>b DEF TypeOK, JobType
  <2>3. faults' \in 0..MaxFaults
    BY <1>1, BoundsAssumption DEF receiveWebhookEvent, Fault, TypeOK
  <2>4. proc[e].pc = "idle"
    BY <1>1 DEF receiveWebhookEvent, NoRow, TypeOK
  <2> QED  BY <1>1, <2>1, <2>2, <2>3, <2>4 DEF receiveWebhookEvent, TypeOK, JobType, external
<1>2. CASE GetWebhookEvent(e)
  <2>1. job' \in JobType /\ job'[e].status = "claimed" /\ \A q \in Events \ {e} : job'[q] = job[q]
    BY <1>2 DEF GetWebhookEvent, TypeOK, JobType
  <2>2. row[e].kind # "none"
    BY <1>2 DEF GetWebhookEvent, TypeOK
  <2> QED  BY <1>2, <1>a, <2>1, <2>2, GetWebhookEventEffect, Claimed, ProcType DEF GetWebhookEvent, TypeOK
<1>3. CASE GetPaymentIntentByProviderRef(e)
  <2>1. proc[e].pc # "idle"
    BY <1>3 DEF GetPaymentIntentByProviderRef
  <2> QED  BY <1>3, <1>a, <2>1, LoadEffect, StillClaimed, Claimed, ProcType DEF GetPaymentIntentByProviderRef, TypeOK
<1>4. CASE MarkWebhookProcessed(e)
  <2>1. OnlyProc(e) /\ proc[e].pc # "idle"
    BY <1>4, <1>a, GotoEffect DEF MarkWebhookProcessed, PCs
  <2>0. row[e] \in [kind : ProviderStates, processed : BOOLEAN]
    BY DEF TypeOK
  <2> DEFINE x == [row[e] EXCEPT !.processed = TRUE]
  <2>a. row' = [row EXCEPT ![e] = x]
    BY <1>4 DEF MarkWebhookProcessed
  <2>b. x \in [kind : ProviderStates, processed : BOOLEAN] /\ x.kind = row[e].kind
    BY <2>0
  <2> HIDE DEF x
  <2>2. /\ row' \in [Events -> [kind : ProviderStates, processed : BOOLEAN]]
        /\ \A q \in Events : row'[q].kind = row[q].kind
    BY <2>a, <2>b DEF TypeOK
  <2> QED  BY <1>4, <1>a, <2>1, <2>2, StillClaimed, Claimed, ProcType DEF MarkWebhookProcessed, TypeOK
<1>5. CASE CompleteJob(e)
  <2>1. OnlyProc(e) /\ proc'[e].pc = "idle"
    BY <1>5, <1>a, IdleState, SetEffect DEF CompleteJob
  <2>2. job' \in JobType /\ \A q \in Events \ {e} : job'[q] = job[q]
    BY <1>5 DEF CompleteJob, TypeOK, JobType
  <2> QED  BY <1>5, <1>a, <2>1, <2>2, Claimed, ProcType DEF CompleteJob, TypeOK
<1>6. CASE RetryJob(e)
  <2>1. job' \in JobType /\ \A q \in Events \ {e} : job'[q] = job[q]
    BY <1>6 DEF RetryJob, TypeOK, JobType
  <2>2. proc[e].pc = "idle"
    BY <1>6 DEF RetryJob, TypeOK
  <2> QED  BY <1>6, <2>1, <2>2 DEF RetryJob, TypeOK, JobType, external
<1> QED  BY <1>1, <1>2, <1>3, <1>4, <1>5, <1>6 DEF WebhookJob

LEMMA TypeStep ==
  ASSUME TypeOK, GuardInv, [Next]_vars
  PROVE  TypeOK'
<1>1. CASE StartPayment \/ CheckoutAborts
  <2>1. {"open", "New"} \subseteq ProviderStates
    BY ProviderKinds
  <2>2. faults' \in 0..MaxFaults
    BY <1>1, BoundsAssumption DEF StartPayment, CreatePaymentIntent, CreatePayment,
       SetPaymentIntentSession, CheckoutAborts, Fault, TypeOK
  <2>3. CASE CreatePaymentIntent
    BY <2>2, <2>3 DEF CreatePaymentIntent, TypeOK, PaymentStates, external
  <2>4. CASE CreatePayment
    BY <2>1, <2>2, <2>4 DEF CreatePayment, TypeOK
  <2>5. CASE SetPaymentIntentSession
    BY <2>2, <2>5 DEF SetPaymentIntentSession, TypeOK, external
  <2>6. CASE CheckoutAborts
    BY <2>2, <2>6 DEF CheckoutAborts, TypeOK, external
  <2> QED  BY <1>1, <2>3, <2>4, <2>5, <2>6 DEF StartPayment
<1>2. ASSUME NEW to \in ProviderStates, ProviderAdvances(to)  PROVE TypeOK'
  <2>1. to # "none"
    BY <1>2, Moves DEF ProviderAdvances
  <2> QED  BY <1>2, <2>1 DEF ProviderAdvances, TypeOK
<1>3. ASSUME NEW s \in Sweepers, Sweep(s)  PROVE TypeOK'
  <2>1. s \in Actors /\ s \notin Events
    BY ActorsAssumption DEF Actors
  <2>2. OnlyProc(s)
    BY <1>3, ListEffect, PollEffect DEF Sweep
  <2>3. UNCHANGED <<order, intent, session, checkout, external, row, job, captures, faults>>
    BY <1>3 DEF Sweep, ListStalePaymentIntents, PollProvider
  <2> QED  BY <2>1, <2>2, <2>3 DEF TypeOK, OnlyProc, Actors, external
<1>4. ASSUME NEW p \in Actors, Abort(p)  PROVE TypeOK'
  <2>1. faults' \in 0..MaxFaults /\ proc[p].pc # "idle"
    BY <1>4, BoundsAssumption DEF Abort, Fault, TypeOK
  <2>2. CASE Errors(p)
    BY <1>4, <2>1, <2>2, ErrorsEffect, IdleState, Claimed, ProcType DEF Abort, TypeOK, JobType
  <2>3. CASE /\ p \in Events /\ job' = [job EXCEPT ![p].status = "queued"]
             /\ proc' = [proc EXCEPT ![p] = Idle]
    <3>1. OnlyProc(p) /\ proc'[p].pc = "idle"
      BY <2>3, IdleState, SetEffect
    <3>2. job' \in JobType /\ \A e \in Events \ {p} : job'[e] = job[e]
      BY <2>3 DEF TypeOK, JobType
    <3> QED  BY <1>4, <2>1, <3>1, <3>2, Claimed, ProcType DEF Abort, TypeOK
  <2> QED  BY <1>4, <2>2, <2>3 DEF Abort
<1>5. CASE UNCHANGED vars
  BY <1>5 DEF vars, external, TypeOK
<1> QED  BY <1>1, <1>2, <1>3, <1>4, <1>5, EventType, ApplyType DEF Next

-----------------------------------------------------------------------------
(***************************************************************************)
(* A step that leaves order and ledger alone, and starts no capture.       *)
(***************************************************************************)
QuietStep(p) ==
  /\ UNCHANGED <<order, captures>>
  /\ OnlyProc(p)
  /\ proc'[p].pc \notin {"post", "start"}

LEMMA QuietCapture ==
  ASSUME TypeOK, CaptureInv, NEW p \in Actors, QuietStep(p)
  PROVE  CaptureInv'
BY DEF CaptureInv, Capturing, QuietStep, OnlyProc

LEMMA ErrorsQuiet ==
  ASSUME TypeOK, NEW p \in Actors, Errors(p), UNCHANGED <<order, captures>>
  PROVE  QuietStep(p)
BY ErrorsEffect, IdleState DEF QuietStep

LEMMA ApplyCapture ==
  ASSUME TypeOK, CaptureInv, NEW p \in Actors, Apply(p)
  PROVE  CaptureInv'
<1>1. CASE TransitionPaymentIntent(p)
  <2>1. CASE Goto(p, AfterIntent(p, proc[p].evt))
    BY <1>1, <2>1, GotoEffect, AfterStates, QuietCapture DEF TransitionPaymentIntent, QuietStep
  <2>2. CASE Errors(p)
    BY <1>1, <2>2, ErrorsQuiet, QuietCapture DEF TransitionPaymentIntent
  <2> QED  BY <1>1, <2>1, <2>2 DEF TransitionPaymentIntent
<1>2. CASE GetOrder(p)
  <2>1. OnlyProc(p) /\ proc'[p].pc \in {"mark", "idle", "paid", "failed"}
    BY <1>2, GotoEffect, AfterStates DEF GetOrder, PCs
  <2> QED  BY <1>2, <2>1, QuietCapture DEF GetOrder, QuietStep
<1>3. CASE TransitionToPaid(p)
  <2>1. CASE order = "pending_payment"
    <3>1. OnlyProc(p) /\ proc'[p].pc = "post" /\ order' = "paid" /\ captures' = captures
      BY <1>3, <2>1, GotoEffect DEF TransitionToPaid, OrderIs, PCs
    <3>2. captures = 0 /\ \A q \in Actors : ~Capturing(q)
      BY <2>1 DEF CaptureInv
    <3> QED  BY <3>1, <3>2 DEF CaptureInv, Capturing, OnlyProc
  <2>2. CASE order # "pending_payment"
    <3>1. QuietStep(p)
      BY <1>3, <2>2, GotoEffect, AfterStates DEF TransitionToPaid, OrderIs, LostRace, QuietStep
    <3> QED  BY <3>1, QuietCapture
  <2> QED  BY <2>1, <2>2
<1>4. CASE PostCapture(p)
  <2>1. OnlyProc(p) /\ proc'[p].pc = "start" /\ order' = order /\ captures' = captures + 1
    BY <1>4, GotoEffect DEF PostCapture, PostLedgerEntries, PCs
  <2>2. captures = 0 /\ order = "paid" /\ \A q \in Actors \ {p} : ~Capturing(q)
    BY <1>4 DEF PostCapture, CaptureInv, Capturing
  <2> QED  BY <2>1, <2>2 DEF CaptureInv, Capturing, OnlyProc
<1>5. CASE TransitionToInProgress(p)
  <2>1. captures = 1 /\ order = "paid" /\ \A q \in Actors \ {p} : ~Capturing(q)
    BY <1>5 DEF TransitionToInProgress, CaptureInv, Capturing
  <2>2. /\ OnlyProc(p) /\ proc'[p].pc \in {"mark", "idle"}
        /\ order' = "in_progress" /\ captures' = captures
    BY <1>5, <2>1, GotoEffect, AfterStates DEF TransitionToInProgress, OrderIs
  <2> QED  BY <2>1, <2>2 DEF CaptureInv, Capturing, OnlyProc
<1>6. CASE TransitionToPaymentFailed(p)
  <2>1. /\ OnlyProc(p) /\ proc'[p].pc \in {"mark", "idle"} /\ captures' = captures
        /\ order' = order \/ (order = "pending_payment" /\ order' = "payment_failed")
    BY <1>6, GotoEffect, AfterStates DEF TransitionToPaymentFailed, OrderIs
  <2> QED  BY <2>1 DEF CaptureInv, Capturing, OnlyProc
<1> QED  BY <1>1, <1>2, <1>3, <1>4, <1>5, <1>6 DEF Apply

LEMMA CaptureStep ==
  ASSUME TypeOK, CaptureInv, [Next]_vars
  PROVE  CaptureInv'
<1>1. CASE UNCHANGED <<order, captures, proc>>
  BY <1>1 DEF CaptureInv, Capturing
<1>2. ASSUME NEW e \in Events, WebhookJob(e)  PROVE CaptureInv'
  <2>1. e \in Actors
    BY DEF Actors
  <2>2. OnlyProc(e) /\ proc'[e].pc \in {"load", "complete", "intent", "order", "mark", "idle"}
    BY <1>2, <2>1, GetWebhookEventEffect, LoadEffect, GotoEffect, IdleState, SetEffect
       DEF WebhookJob, MarkWebhookProcessed, CompleteJob, PCs
  <2>3. UNCHANGED <<order, captures>>
    BY <1>2 DEF WebhookJob, GetWebhookEvent, GetPaymentIntentByProviderRef, MarkWebhookProcessed, CompleteJob
  <2> QED  BY <2>1, <2>2, <2>3, QuietCapture DEF QuietStep
<1>3. ASSUME NEW s \in Sweepers, Sweep(s)  PROVE CaptureInv'
  <2>1. s \in Actors
    BY DEF Actors
  <2>2. QuietStep(s)
    BY <1>3, ListEffect, PollEffect DEF Sweep, ListStalePaymentIntents, PollProvider, QuietStep
  <2> QED  BY <2>1, <2>2, QuietCapture
<1>4. ASSUME NEW p \in Actors, Abort(p)  PROVE CaptureInv'
  <2>1. QuietStep(p)
    BY <1>4, ErrorsQuiet, IdleState, SetEffect DEF Abort, QuietStep
  <2> QED  BY <2>1, QuietCapture
<1>5. UNCHANGED vars \/ StartPayment \/ CheckoutAborts \/ (\E to \in ProviderStates : ProviderAdvances(to))
      \/ (\E e \in Events : receiveWebhookEvent(e) \/ RetryJob(e))
      => UNCHANGED <<order, captures, proc>>
  BY DEF vars, StartPayment, CreatePaymentIntent, CreatePayment, SetPaymentIntentSession,
     CheckoutAborts, ProviderAdvances, receiveWebhookEvent, RetryJob
<1> QED  BY <1>1, <1>2, <1>3, <1>4, <1>5, ApplyCapture DEF Next

-----------------------------------------------------------------------------
(***************************************************************************)
(* The guard of an intent's compare-and-set.                               *)
(***************************************************************************)
LEMMA GuardStep ==
  ASSUME TypeOK, GuardInv, [Next]_vars
  PROVE  GuardInv'
<1>1. ASSUME NEW p \in Actors, OnlyProc(p),
             proc'[p].pc = "intent" => CanTransitionPayment(proc'[p].snap, proc'[p].evt),
             checkout' = checkout, intent = "none" => intent' = "none"
      PROVE  GuardInv'
  BY <1>1 DEF GuardInv, OnlyProc
<1>2. ASSUME NEW e \in Events, WebhookJob(e)  PROVE GuardInv'
  <2>1. e \in Actors
    BY DEF Actors
  <2>2. OnlyProc(e) /\ (proc'[e].pc = "intent" => CanTransitionPayment(proc'[e].snap, proc'[e].evt))
    BY <1>2, <2>1, GetWebhookEventEffect, LoadEffect, GotoEffect, IdleState, SetEffect
       DEF WebhookJob, MarkWebhookProcessed, CompleteJob, PCs
  <2>3. UNCHANGED <<checkout, intent>>
    BY <1>2 DEF WebhookJob, GetWebhookEvent, GetPaymentIntentByProviderRef, MarkWebhookProcessed, CompleteJob
  <2> QED  BY <1>1, <2>1, <2>2, <2>3
<1>3. ASSUME NEW s \in Sweepers, Sweep(s)  PROVE GuardInv'
  <2>1. s \in Actors
    BY DEF Actors
  <2>2. UNCHANGED <<checkout, intent>>
    BY <1>3 DEF Sweep, ListStalePaymentIntents, PollProvider
  <2> QED  BY <1>1, <1>3, <2>1, <2>2, ListEffect, PollEffect DEF Sweep
<1>4. ASSUME NEW p \in Actors, Apply(p) \/ Abort(p)  PROVE GuardInv'
  <2>1. OnlyProc(p) /\ proc'[p].pc # "intent"
    <3>1. CASE Abort(p)
      BY <3>1, ErrorsEffect, IdleState, SetEffect DEF Abort
    <3>2. CASE TransitionPaymentIntent(p)
      BY <3>2, ErrorsEffect, IdleState, GotoEffect, AfterStates DEF TransitionPaymentIntent
    <3>3. CASE GetOrder(p)
      BY <3>3, GotoEffect, AfterStates DEF GetOrder, PCs
    <3>4. CASE TransitionToPaid(p) \/ PostCapture(p)
      BY <3>4, GotoEffect, AfterStates DEF TransitionToPaid, PostCapture, LostRace, PCs
    <3>5. CASE TransitionToInProgress(p) \/ TransitionToPaymentFailed(p)
      BY <3>5, ErrorsEffect, IdleState, GotoEffect, AfterStates
         DEF TransitionToInProgress, TransitionToPaymentFailed
    <3> QED  BY <1>4, <3>1, <3>2, <3>3, <3>4, <3>5 DEF Apply
  <2>2. checkout' = checkout /\ (intent = "none" => intent' = "none")
    BY <1>4, ProcFields DEF Apply, Abort, TransitionPaymentIntent, IntentUnchanged, PaymentStates,
       GetOrder, TransitionToPaid, PostCapture, TransitionToInProgress, TransitionToPaymentFailed
  <2> QED  BY <1>1, <2>1, <2>2
<1>5. CASE UNCHANGED proc /\ (checkout' = "create" => UNCHANGED <<checkout, intent>>)
  BY <1>5 DEF GuardInv
<1>6. UNCHANGED vars \/ StartPayment \/ CheckoutAborts \/ (\E to \in ProviderStates : ProviderAdvances(to))
      \/ (\E e \in Events : receiveWebhookEvent(e) \/ RetryJob(e))
      => UNCHANGED proc /\ (checkout' = "create" => UNCHANGED <<checkout, intent>>)
  BY DEF vars, StartPayment, CreatePaymentIntent, CreatePayment, SetPaymentIntentSession,
     CheckoutAborts, ProviderAdvances, receiveWebhookEvent, RetryJob
<1> QED  BY <1>2, <1>3, <1>4, <1>5, <1>6 DEF Next

-----------------------------------------------------------------------------
(***************************************************************************)
(* Where the statuses come from.                                           *)
(***************************************************************************)

\* What the provider has said stays true: paid stays paid, ended stays ended.
LEMMA ProviderKeeps ==
  ASSUME TypeOK, SourceInv, [Next]_vars
  PROVE  \A evt : Backed(evt) => Backed(evt)'
<1>1. (Paid => Paid') /\ (EndedUnpaid => EndedUnpaid')
  <2>1. CASE provider' = provider
    BY <2>1 DEF Paid, EndedUnpaid
  <2>2. CASE CreatePayment
    BY <2>2 DEF CreatePayment, SourceInv, Paid, EndedUnpaid
  <2>3. ASSUME NEW to \in ProviderStates, ProviderAdvances(to)
        PROVE  (Paid => Paid') /\ (EndedUnpaid => EndedUnpaid')
    BY <2>3, Moves DEF ProviderAdvances, Paid, EndedUnpaid
  <2>4. ASSUME NEW p \in Actors, Apply(p) \/ Abort(p)  PROVE provider' = provider
    BY <2>4 DEF Apply, Abort, TransitionPaymentIntent, GetOrder, TransitionToPaid, PostCapture,
       TransitionToInProgress, TransitionToPaymentFailed, external
  <2>5. ASSUME NEW e \in Events, receiveWebhookEvent(e) \/ WebhookJob(e) \/ RetryJob(e)
        PROVE  provider' = provider
    BY <2>5 DEF receiveWebhookEvent, WebhookJob, RetryJob, GetWebhookEvent,
       GetPaymentIntentByProviderRef, MarkWebhookProcessed, CompleteJob, external
  <2>6. ASSUME NEW s \in Sweepers, Sweep(s)  PROVE provider' = provider
    BY <2>6 DEF Sweep, ListStalePaymentIntents, PollProvider, external
  <2>7. CreatePaymentIntent \/ SetPaymentIntentSession \/ CheckoutAborts \/ UNCHANGED vars
        => provider' = provider
    BY DEF CreatePaymentIntent, SetPaymentIntentSession, CheckoutAborts, vars, external
  <2> QED  BY <2>1, <2>2, <2>3, <2>4, <2>5, <2>6, <2>7 DEF Next, StartPayment
<1> QED  BY <1>1 DEF Backed

LEMMA PolledBacked == Backed(PolledStatus)
BY PolledStates DEF Backed, Paid, EndedUnpaid

\* A job's step that keeps what it acts on true, and the order justified.
LEMMA SourceProc ==
  ASSUME TypeOK, SourceInv, [Next]_vars, NEW p \in Actors, OnlyProc(p),
         Backed(proc'[p].evt), Matches(proc'[p]),
         UNCHANGED <<emitted, checkout, provider>>,
         \A e \in Events : row'[e].kind = row[e].kind,
         captures' = captures \/ Paid,
         order' # "payment_failed" \/ order' = order \/ EndedUnpaid
  PROVE  SourceInv'
<1>1. (Paid' <=> Paid) /\ (EndedUnpaid' <=> EndedUnpaid)
  BY DEF Paid, EndedUnpaid
<1>2. \A evt : Backed(evt) => Backed(evt)'
  BY ProviderKeeps
<1>3. \A q \in Actors : Backed(proc'[q].evt) /\ Matches(proc'[q])
  BY DEF OnlyProc, SourceInv
<1>4. \A e \in Events : Backed(EventStatus(row'[e].kind))
  BY DEF SourceInv
<1> QED  BY <1>1, <1>2, <1>3, <1>4 DEF SourceInv, Backed, Matches

LEMMA ApplySource ==
  ASSUME TypeOK, SourceInv, NEW p \in Actors, Apply(p)
  PROVE  SourceInv'
<1>1. Backed(proc[p].evt) /\ Matches(proc[p])
  BY DEF SourceInv
<1>2. Backed(Idle.evt) /\ Matches(Idle)
  BY DEF Idle, Backed, Matches
<1>3. [Next]_vars
  BY DEF Next
<1>4. UNCHANGED <<emitted, checkout, provider, row>>
  BY DEF Apply, TransitionPaymentIntent, GetOrder, TransitionToPaid, PostCapture,
     TransitionToInProgress, TransitionToPaymentFailed, external
<1>5. CASE TransitionPaymentIntent(p)
  <2>1. CASE Goto(p, AfterIntent(p, proc[p].evt))
    <3>1. OnlyProc(p) /\ Backed(proc'[p].evt) /\ Matches(proc'[p])
      BY <1>1, <2>1, GotoEffect, AfterStates DEF Matches
    <3> QED  BY <1>3, <1>4, <1>5, <3>1, SourceProc DEF TransitionPaymentIntent
  <2>2. CASE Errors(p)
    BY <1>2, <1>3, <1>4, <1>5, <2>2, ErrorsEffect, SourceProc DEF TransitionPaymentIntent
  <2> QED  BY <1>5, <2>1, <2>2 DEF TransitionPaymentIntent
<1>6. CASE GetOrder(p)
  <2>1. OnlyProc(p) /\ Backed(proc'[p].evt) /\ Matches(proc'[p])
    BY <1>1, <1>6, GotoEffect, AfterStates DEF GetOrder, PCs, Matches
  <2> QED  BY <1>3, <1>4, <1>6, <2>1, SourceProc DEF GetOrder
<1>7. CASE TransitionToPaid(p)
  <2>1. OnlyProc(p) /\ Backed(proc'[p].evt) /\ Matches(proc'[p])
    BY <1>1, <1>7, GotoEffect, AfterStates DEF TransitionToPaid, LostRace, PCs, Matches
  <2>2. captures' = captures /\ (order' = "paid" \/ order' = order)
    BY <1>7 DEF TransitionToPaid
  <2> QED  BY <1>3, <1>4, <2>1, <2>2, SourceProc
<1>8. CASE PostCapture(p)
  <2>1. OnlyProc(p) /\ Backed(proc'[p].evt) /\ Matches(proc'[p])
    BY <1>1, <1>8, GotoEffect DEF PostCapture, PCs, Matches
  <2>2. Paid /\ order' = order
    BY <1>1, <1>8 DEF PostCapture, Backed, Matches
  <2> QED  BY <1>3, <1>4, <2>1, <2>2, SourceProc
<1>9. CASE TransitionToInProgress(p)
  <2>1. OnlyProc(p) /\ Backed(proc'[p].evt) /\ Matches(proc'[p])
    BY <1>1, <1>2, <1>9, GotoEffect, AfterStates, ErrorsEffect DEF TransitionToInProgress, Matches
  <2>2. captures' = captures /\ (order' = "in_progress" \/ order' = order)
    BY <1>9 DEF TransitionToInProgress
  <2> QED  BY <1>3, <1>4, <2>1, <2>2, SourceProc
<1>10. CASE TransitionToPaymentFailed(p)
  <2>1. OnlyProc(p) /\ Backed(proc'[p].evt) /\ Matches(proc'[p])
    BY <1>1, <1>10, GotoEffect, AfterStates DEF TransitionToPaymentFailed, Matches
  <2>2. captures' = captures /\ EndedUnpaid
    BY <1>1, <1>10 DEF TransitionToPaymentFailed, Backed, Matches
  <2> QED  BY <1>3, <1>4, <2>1, <2>2, SourceProc
<1> QED  BY <1>5, <1>6, <1>7, <1>8, <1>9, <1>10 DEF Apply

LEMMA JobSource ==
  ASSUME TypeOK, SourceInv, NEW e \in Events, WebhookJob(e)
  PROVE  SourceInv'
<1>a. e \in Actors
  BY DEF Actors
<1>1. Backed(proc[e].evt) /\ Backed(EventStatus(row[e].kind)) /\ Backed("pending") /\ Matches(Idle)
  BY <1>a DEF SourceInv, Idle, Backed, Matches
<1>2. [Next]_vars
  BY DEF Next
<1>3. /\ UNCHANGED <<emitted, checkout, provider, order, captures>>
      /\ \A q \in Events : row'[q].kind = row[q].kind
  BY DEF WebhookJob, GetWebhookEvent, GetPaymentIntentByProviderRef, MarkWebhookProcessed,
     CompleteJob, external, TypeOK
<1>4. OnlyProc(e) /\ Backed(proc'[e].evt) /\ Matches(proc'[e])
  <2>1. CASE GetWebhookEvent(e)
    BY <1>1, <2>1, GetWebhookEventEffect DEF Matches
  <2>2. CASE GetPaymentIntentByProviderRef(e)
    BY <1>1, <2>2, LoadEffect DEF Matches
  <2>3. CASE MarkWebhookProcessed(e)
    BY <1>1, <1>a, <2>3, GotoEffect DEF MarkWebhookProcessed, PCs, Matches
  <2>4. CASE CompleteJob(e)
    BY <1>1, <1>a, <2>4, SetEffect, IdleState DEF CompleteJob
  <2> QED  BY <2>1, <2>2, <2>3, <2>4 DEF WebhookJob
<1> QED  BY <1>a, <1>2, <1>3, <1>4, SourceProc

LEMMA SourceStep ==
  ASSUME TypeOK, SourceInv, [Next]_vars
  PROVE  SourceInv'
<1>1. ASSUME NEW s \in Sweepers, Sweep(s)  PROVE SourceInv'
  <2>1. s \in Actors /\ Backed(proc[s].evt) /\ Backed("pending")
    BY DEF Actors, SourceInv, Backed
  <2>2. OnlyProc(s) /\ Backed(proc'[s].evt) /\ Matches(proc'[s])
    BY <1>1, <2>1, ListEffect, PollEffect, PolledBacked DEF Sweep, Matches
  <2>3. UNCHANGED <<emitted, checkout, provider, row, order, captures>>
    BY <1>1 DEF Sweep, ListStalePaymentIntents, PollProvider, external
  <2> QED  BY <2>1, <2>2, <2>3, SourceProc
<1>2. ASSUME NEW p \in Actors, Abort(p)  PROVE SourceInv'
  <2>1. Backed("pending") /\ Matches(Idle)
    BY DEF Idle, Backed, Matches
  <2>2. OnlyProc(p) /\ proc'[p] = Idle
    BY <1>2, ErrorsEffect, IdleState, SetEffect DEF Abort
  <2>3. UNCHANGED <<emitted, checkout, provider, row, order, captures>>
    BY <1>2 DEF Abort, external
  <2> QED  BY <2>1, <2>2, <2>3, IdleState, SourceProc
<1>3. ASSUME NEW to \in ProviderStates, ProviderAdvances(to)  PROVE SourceInv'
  <2>1. \A evt : Backed(evt) => Backed(evt)'
    BY ProviderKeeps
  <2>2. Backed(EventStatus(to))'
    BY <1>3, EventStates DEF ProviderAdvances, Backed, Paid, EndedUnpaid
  <2>3. emitted' = emitted \cup {to} /\ UNCHANGED <<order, checkout, row, proc, captures>>
    BY <1>3 DEF ProviderAdvances
  <2>4. provider # "none"
    BY <1>3, Moves DEF ProviderAdvances
  <2>5. (Paid => Paid') /\ (EndedUnpaid => EndedUnpaid')
    BY <1>3, Moves DEF ProviderAdvances, Paid, EndedUnpaid
  <2> QED  BY <2>1, <2>2, <2>3, <2>4, <2>5 DEF SourceInv, Backed, Matches
<1>4. ASSUME NEW e \in Events, receiveWebhookEvent(e)  PROVE SourceInv'
  <2>1. PICK kind \in emitted : row' = [row EXCEPT ![e].kind = kind]
    BY <1>4 DEF receiveWebhookEvent
  <2>2. \A q \in Events : row'[q].kind = row[q].kind \/ row'[q].kind = kind
    BY <2>1 DEF TypeOK
  <2>3. UNCHANGED <<emitted, provider, order, checkout, proc, captures>>
    BY <1>4 DEF receiveWebhookEvent, external
  <2> QED  BY <2>2, <2>3 DEF SourceInv, Backed, Matches, Paid, EndedUnpaid
<1>5. CASE StartPayment \/ CheckoutAborts
  <2>1. \A evt : Backed(evt) => Backed(evt)'
    BY ProviderKeeps
  <2>2. UNCHANGED <<emitted, order, row, proc, captures>>
    BY <1>5 DEF StartPayment, CreatePaymentIntent, CreatePayment, SetPaymentIntentSession,
       CheckoutAborts, external
  <2>3. checkout' \in {"create", "call"} => provider' = "none"
    BY <1>5 DEF StartPayment, CreatePaymentIntent, CreatePayment, SetPaymentIntentSession,
       CheckoutAborts, external, SourceInv
  <2>4. (Paid => Paid') /\ (EndedUnpaid => EndedUnpaid')
    BY <2>1 DEF Backed
  <2> QED  BY <2>1, <2>2, <2>3, <2>4 DEF SourceInv, Backed, Matches
<1>6. CASE UNCHANGED <<emitted, provider, order, checkout, row, proc, captures>>
  BY <1>6 DEF SourceInv, Backed, Matches, Paid, EndedUnpaid
<1>7. UNCHANGED vars \/ (\E e \in Events : RetryJob(e))
      => UNCHANGED <<emitted, provider, order, checkout, row, proc, captures>>
  BY DEF vars, RetryJob, external
<1> QED  BY <1>1, <1>2, <1>3, <1>4, <1>5, <1>6, <1>7, ApplySource, JobSource DEF Next

LEMMA Invariance == Spec => []IInv
<1>1. IInv /\ [Next]_vars => IInv'
  BY TypeStep, CaptureStep, GuardStep, SourceStep DEF IInv
<1> QED  BY <1>1, InitHolds, PTL DEF Spec

-----------------------------------------------------------------------------

(***************************************************************************)
(* Every reachable state has the declared shape (TypeOK); in particular a  *)
(* webhook's job runs only while its row is claimed.                       *)
(***************************************************************************)
THEOREM TypeCorrect == Spec => []TypeOK
<1>1. IInv => TypeOK
  BY DEF IInv
<1> QED  BY <1>1, Invariance, PTL

(***************************************************************************)
(* The money is posted at most once, and only for an order that is then    *)
(* paid or in progress (CapturedOnce).                                     *)
(***************************************************************************)
THEOREM MoneyCapturedOnce == Spec => []CapturedOnce
<1>1. IInv => CapturedOnce
  BY DEF IInv, TypeOK, CaptureInv, CapturedOnce
<1> QED  BY <1>1, Invariance, PTL

(***************************************************************************)
(* The seller never works on an order whose money is not in the ledger     *)
(* (StartedOrderIsPosted).                                                 *)
(***************************************************************************)
THEOREM StartedIsPosted == Spec => []StartedOrderIsPosted
<1>1. IInv => StartedOrderIsPosted
  BY DEF IInv, CaptureInv, StartedOrderIsPosted
<1> QED  BY <1>1, Invariance, PTL

(***************************************************************************)
(* No phantom capture and no order failed against the provider's word      *)
(* (OutcomeJustified).                                                     *)
(***************************************************************************)
THEOREM NoPhantomCapture == Spec => []OutcomeJustified
<1>1. IInv => OutcomeJustified
  BY DEF IInv, SourceInv, Paid, EndedUnpaid, OutcomeJustified
<1> QED  BY <1>1, Invariance, PTL

(***************************************************************************)
(* The intent only takes entries of paymentTransitions                     *)
(* (IntentFollowsTable).                                                   *)
(***************************************************************************)
LEMMA IntentStep ==
  ASSUME IInv, [Next]_vars, intent' # intent
  PROVE  IF intent = "none" THEN intent' = "pending" ELSE CanTransitionPayment(intent, intent')
<1>1. ASSUME NEW p \in Actors, TransitionPaymentIntent(p)
      PROVE  intent # "none" /\ CanTransitionPayment(intent, intent')
  BY <1>1, ProcFields DEF TransitionPaymentIntent, IntentUnchanged, IInv, GuardInv, PaymentStates
<1>2. ASSUME NEW p \in Actors, Apply(p) \/ Abort(p), ~TransitionPaymentIntent(p)  PROVE FALSE
  BY <1>2 DEF Apply, Abort, GetOrder, TransitionToPaid, PostCapture, TransitionToInProgress,
     TransitionToPaymentFailed
<1>3. CASE CreatePaymentIntent
  BY <1>3 DEF CreatePaymentIntent, IInv, GuardInv
<1>4. ~UNCHANGED vars /\ ~CreatePayment /\ ~SetPaymentIntentSession /\ ~CheckoutAborts
      /\ ~(\E to \in ProviderStates : ProviderAdvances(to)) /\ ~(\E s \in Sweepers : Sweep(s))
      /\ ~(\E e \in Events : receiveWebhookEvent(e) \/ WebhookJob(e) \/ RetryJob(e))
  BY DEF vars, CreatePayment, SetPaymentIntentSession, CheckoutAborts, ProviderAdvances, Sweep,
     ListStalePaymentIntents, PollProvider, receiveWebhookEvent, WebhookJob, RetryJob,
     GetWebhookEvent, GetPaymentIntentByProviderRef, MarkWebhookProcessed, CompleteJob
<1> QED  BY <1>1, <1>2, <1>3, <1>4 DEF Next, StartPayment

THEOREM IntentFollows == Spec => IntentFollowsTable
<1>1. IInv /\ [Next]_vars =>
        [intent' # intent =>
           IF intent = "none" THEN intent' = "pending" ELSE CanTransitionPayment(intent, intent')]_vars
  BY IntentStep
<1> QED  BY <1>1, Invariance, PTL DEF Spec, IntentFollowsTable

(***************************************************************************)
(* Webhook jobs and sweeps implement the abstract status machine           *)
(* (ImplementsLifecycle), entered at pending_payment.                      *)
(***************************************************************************)
LEMMA OrderStep ==
  ASSUME IInv, [Next]_vars
  PROVE  [Lifecycle!Next]_order
<1>1. ASSUME NEW p \in Actors, Apply(p)
      PROVE  \/ order' = order
             \/ order = "pending_payment" /\ order' \in {"paid", "payment_failed"}
             \/ order = "paid" /\ order' = "in_progress"
  BY <1>1 DEF Apply, TransitionPaymentIntent, GetOrder, TransitionToPaid, PostCapture,
     TransitionToInProgress, TransitionToPaymentFailed, OrderIs
<1>2. ASSUME NEW p \in Actors, Abort(p)  PROVE order' = order
  BY <1>2 DEF Abort
<1>3. ASSUME ~\E p \in Actors : Apply(p) \/ Abort(p)  PROVE order' = order
  BY <1>3 DEF Next, vars, StartPayment, CreatePaymentIntent, CreatePayment, SetPaymentIntentSession,
     CheckoutAborts, ProviderAdvances, receiveWebhookEvent, WebhookJob, RetryJob, GetWebhookEvent,
     GetPaymentIntentByProviderRef, MarkWebhookProcessed, CompleteJob, Sweep,
     ListStalePaymentIntents, PollProvider
<1>4. /\ {"paid", "payment_failed"} \subseteq Lifecycle!orderTransitions["pending_payment"]
      /\ "in_progress" \in Lifecycle!orderTransitions["paid"]
  BY DEF Lifecycle!orderTransitions
<1> QED  BY <1>1, <1>2, <1>3, <1>4 DEF Lifecycle!Next

THEOREM CaptureImplementsLifecycle == Spec => ImplementsLifecycle
<1>1. Init => Lifecycle!Init
  BY DEF Init, Lifecycle!Init
<1>2. IInv /\ [Next]_vars => [Lifecycle!Next]_order
  BY OrderStep
<1> QED  BY <1>1, <1>2, Invariance, PTL DEF Spec, ImplementsLifecycle, Lifecycle!Spec

=============================================================================
