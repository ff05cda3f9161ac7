# TLA+ specifications of the gig marketplace

These modules describe, model-check and prove things about the parts of this
repository that move orders, money and accounts: concurrent HTTP handlers,
background jobs and payment webhooks, all of which meet in one PostgreSQL database.

Run a check with `tlc -config <file>.cfg <module>.tla`, a proof with
`tlapm <module>.tla`.

## 1. The system

`gig` is one Go binary that runs as a web server (`serve`) or as a worker
(`worker`); several of each may run on the same database. There is no shared
memory between requests: **every interaction goes through rows**, each store
call is a statement or a short transaction at READ COMMITTED, and a handler is a
sequence of such calls with everything else running in between.

| Component | State | Operations | Hard part | Module |
|---|---|---|---|---|
| Order workflow (`handlers/orders.go`, `store/orders.go`, `fulfillment.go`, `disputes.go`, `reviews.go`) | `orders.status` and counters; delivery, revision, cancellation, dispute, review rows | deliver, revise, accept, request/resolve cancellation, open/resolve dispute, review | decisions from stale snapshots; a row written before the status moves; a stop in between | `OrderWorkflow` |
| Auto-accept sweep (`orders.go`) | the same order rows | accept overdue deliveries, release earnings | races with the handlers; must eventually act | `OrderWorkflow` |
| Job queue (`jobs.go`, `store/jobs.go`, `main.go`, `maintenance.go`) | `jobs` rows, worker pools | enqueue, claim, take over, complete, fail, dead-letter, retry, drain | crashes, lost results, stale claims, mails that outlive theirs, a chain of sweeps that must not break | `JobQueue` |
| Payment capture (`payments.go`, `handlers/payments.go`, `store/payments.go`, provider adapters) | intent, session, webhook rows and jobs, `orders.status`, ledger postings | start payment, receive webhook, process webhook, reconcile | lost, duplicated, reordered webhooks; retries of half-done work | `PaymentCapture` |
| Many payments (`payments.go`, `store/payments.go`, `handlers/payments.go`) | intents and their charge references, the sweep's list, the registered providers | store an intent, list, poll, record | one that fails, or that there is nothing to learn of, before the others; the reference and the status are two writes | `Reconciliation` |
| Ledger, release, refund (`ledger/`, `store/ledger.go`, refund handler) | accounts and entries, refund rows | capture, release, refund, adjust | provider call before row, row before posting; which account is debited | `Ledger`, `Settlement` |
| Payouts and wallets (`handlers/wallets.go`, `store/wallets.go`) | wallets, links, payouts | submit/confirm wallet, request/approve/complete payout | check-then-insert on a balance and on a cooling-off time | `Payouts` |
| Checkout (`handlers/checkout.go`, `store/draftorders.go`) | the draft and its add-ons, orders | start, fill in, review, confirm | double submission; prices that change meanwhile | `Marketplace` |
| Gigs and moderation (`handlers/seller.go`, `store/catalog.go`, `handlers/admin.go`) | gig status, packages, add-ons | save, publish, hide, moderate | a form is several transactions | `Marketplace` |
| Ratings, tags, categories, images (`store/reviews.go`, `catalog.go`, `admin.go`) | derived and ordered rows | review, moderate, save, upload, rename, delete | recounts and `max + 1` at READ COMMITTED | `Catalogue` |
| Accounts (`handlers/auth.go`, `account.go`, `store/users.go`, `sessions.go`, `auth_tokens.go`) | user, sessions, one-time tokens | register, log in, second factor, change, reset, verify, log out | a login in flight while its password changes; single use; lockout | `Accounts` |
| QR codes (`services/qrcode.go`) | none (a pure encoder) | encode | a standard to be met bit by bit | `QRCode` |
| Administration, audit, fraud | settings, logs | decisions on the rows above; mostly reads | little | in the modules concerned |
| Notifications, messages, files | append-only rows; mail jobs | send | a mail's handler ignores its context | `JobQueue` (mails) |
| Stablecoin payments (`providers/evm.go`) | none: no intent of theirs can be stored | refused | see section 5 | `Reconciliation` (the refusal) |
| Profiles, onboarding, migrations, rate limiter, configuration, server, pages, provider HTTP | | | | - |

How they interact: a seller's gig is published and priced (`Marketplace`), checkout
turns a draft into an order in `pending_payment`, payment capture takes the order
to `in_progress` and posts the money, the order workflow takes over from there,
accepting an order releases the seller's earnings in the ledger (`Settlement`), and
payouts draw on them. Where a webhook does not come, the
reconciliation sweep asks the provider, one intent after the other (`Reconciliation`).
The sweeps and the webhook
processing are jobs of the queue. `OrderLifecycle` is the contract between these
components: whoever moves an order only takes steps of the transition table.

What makes each of the modelled components correct:

* *workflow*: the status follows the table; counters and version numbers are
  right under concurrent submissions; decisions are final and precede their
  effect; earnings are not released twice for one acceptance; a delivery is
  eventually answered;
* *queue*: one runner per job, but for mails; attempts are accounted for; every job
  settles, if the SMTP server lets calls end; recurring sweeps survive every failure;
* *capture*: money is posted once, only for a payment the provider has, and
  before the seller may work; the intent never leaves a final state; a paid
  order starts even if its webhook is lost;
* *many payments*: what a provider has decided is learnt, whatever fails and whoever
  is in the way; a payment that succeeded can be refunded;
* *settlement*: every posting balances; the accounts hold what was captured less
  what was refunded; a buyer is refunded once, and only a refund that was paid is
  recorded as such;
* *payouts*: what concurrent requests overdraw is bounded, among the payouts that are
  looked at; no payout goes to a
  wallet that has not cooled off; a completed payout stays as it is;
* *marketplace*: an active gig can be ordered; the buyer never pays more than was
  shown; one draft is one order, up to what is submitted at once;
* *catalogue*: ratings, tags and the order of images are what the rows they are made
  from say, up to what was committed at the same time;
* *accounts*: a reset ends what the old password opened; the second factor cannot
  be got around; guesses and uses of a token are bounded;
* *QR codes*: a reader by the standard reads what was encoded.

## 2. Modules

| Module | What it is |
|---|---|
| `OrderTable` | status vocabulary and transition table (`services/orders.go`) |
| `OrderLifecycle` | abstract specification: an order only takes steps of the table |
| `OrderWorkflow` | handlers and auto-accept sweep on one captured order |
| `JobQueue` | job table, worker processes, goroutine pools, time |
| `PaymentCapture` | one order's payment, from session to started order |
| `Reconciliation` | many payments, and the sweep's way through them |
| `Ledger` | the postings, as pure operators (`ledger/ledger.go`) |
| `Settlement` | one order's books: capture, releases, refunds, adjustments |
| `Payouts` | one seller's wallets and payouts |
| `Marketplace` | one gig, one buyer's draft, the orders it becomes |
| `Catalogue` | ratings, tags, categories and images of one seller |
| `Accounts` | one account, its sessions and one-time tokens |
| `QRCode` | the encoder, and a reader of its symbols |
| `MC*` | model values and symmetry for TLC |
| `*Proofs` | theorems about the module of that name; `MoneyProofs`: about `Settlement` and `Reconciliation` |

Names are the source's: an action is named after the handler or the store call
it models. In every module a definition `X_fault` just before `X` is a variant of
`X` with a plausible bug. No action uses it; substituting it for `X` shows that
the property named with it in `PROJECT.json` really depends on that code.

Requests have one shape throughout: `req[r]` holds a program counter and what the
request has read; each store call is one action (a transaction whose statements
can see different commits is one action per statement); an `Abort` stops the
request after any of them and frees its slot for the next.

### OrderWorkflow

A request `r` begins with `loadOrderAccess` (the snapshot, the party check,
`CanTransitionOrder`), writes its own row in one or two steps, and ends in
`TransitionOrder`, the compare-and-set `WHERE id = $1 AND status = $2`. `rowLock` is
the `FOR UPDATE` lock of `CreateDelivery` and `CreateRevisionRequest`; updates of the
order row, and inserts whose foreign key takes a share lock on it, wait for it.
`Refused` collects the requests that a store call turns away (lost race, spent
allowance, nothing open). The sweep accepts in one statement and releases in a
later one; it may die in between.

### JobQueue

`jobs` is the table, `worker` the processes, `run` the goroutine of each pool
slot. `ClaimJob` is one atomic step (`FOR UPDATE SKIP LOCKED`). Time is counted in
ticks: a handler's context ends at `HandlerDeadline` (`JOB_CLAIM_TIMEOUT`), a claim is
stale at `StaleThreshold` (`JOB_STALE_THRESHOLD`). That the first is smaller is an
*assumption* (`StaleAssumption`): the defaults (5 and 10 minutes) satisfy it,
nothing in `config.Validate` enforces it, and without it two workers may run one
job. The deadline also covers the call that records the result. `run_at` and the
backoff only delay a claim and are not kept.

There are three kinds of job. The recurring sweeps have one shape, so `sweep` stands
for all of them; `once` is what a request enqueues; `mail` is a notification's e-mail.
Every handler makes its calls with its context and so ends with it, but for the last:
`SMTPMailer.Send` (`services/mailer.go:80`) has no use for the context and
`smtp.SendMail` no deadline. `HeedsContext` tells them apart, and `WithinDeadline` stops
time at the deadline only for the goroutines it holds of (`Bounded`): a mail may run on
past its threshold, be taken over and sent twice, and the first sender's result may
settle the row that the second runs. `overtaken` counts these takeovers.

### PaymentCapture

`checkout` is `startPayment` (create the intent, call the provider, save the
session), `provider` the payment at the provider the buyer chose: a Stripe checkout
session (`SessionMoves`) or a BTCPay invoice (`InvoiceMoves`), `row`/`job` a webhook's
stored event and job, `proc` a running webhook job or sweep. A redelivered webhook
with the same event id is dropped by the unique key; BTCPay gives redeliveries a
new id, which is a second row here. A job is as many steps as it makes
state-changing calls; `Abort` fails or kills it at any of them, and `Errors` retries
it until its attempts are spent. `EventStatus` and `PolledStatus` are what the two
adapters make of a webhook and of a poll, each translated from its own adapter;
BTCPay's differ for a payment that came late. In `TransitionToInProgress` the failing
branch is kept because the code has it; the invariant `CaptureInv` shows that it is
never taken.

### Reconciliation

`PaymentCapture` has one payment and everything it does to its order;
`Reconciliation` has several and what they do to one another. `intents` are the rows
in the order of `created_at`. `CreatePaymentIntent` passes the two hurdles of the code:
the provider of the method must be registered, and the table must admit its name
(`Storable`, the CHECK of `0006_payments.sql:25`), which it does for Stripe and BTCPay
and not for `evm-base` and `evm-polygon`. `session[i]` is what the payment at the
provider has been, its newest state last; `SessionMoves` is external. `review` is what
neither adapter has a status for: a failure that came after the session was complete
(Stripe), a payment in part or late (BTCPay). Asked for it, both say processing, for
ever.

`ListStalePaymentIntents` takes the first `ListLimit` intents that wait, with the status
they have then. For each, the sweep polls (`Payment`), writes a charge reference that
is news (`SetPaymentIntentChargeRef`, whose failure is only logged: `ChargeRefFails`,
the reference is then `lost`), and moves the status by compare-and-set. A provider that
is not registered, a poll or a move that fails: on to the next (`Skip`).
`SweepTimesOut` is the handler's deadline; what is left waits for the retry. A webhook's
job needs no state: between its read and its writes it carries nothing that they do not
check again. `Restart` starts the process with other keys, so an intent may belong to a
provider that is not there any more.

### Ledger and Settlement

`Ledger` builds a posting as what its entries debit and credit on each of the six
kinds of account; an entry of amount zero does not exist in the code and adds
nothing here. An order has one seller, so the kind identifies the account, up to
the currency: `PaymentCaptured` is posted in the order's currency as stored
(`USD`), everything else in lower case, and the code opens separate accounts for
the two. `ledger` is therefore a function of spelling and kind.

`Settlement` follows one order from the captured payment. An acceptance `a` is a
request of the buyer or the sweep: it sets status and `accepted_at`, and releases
the earnings in a later call that may be lost. `Reopen` is a dispute decided for
more work; acceptances repeat after it. A refund request `r` steps through
`adminOrderRefund`: `GetOrder` reads `accepted_at`, `GetRefundForOrder` looks for
an earlier refund, `ProviderRefund` calls the provider, `CreateRefund` inserts the
row under its unique index, `SetRefundStatus` stores the answer, `PostRefund` posts;
`Abort` loses any of them. `key` is the provider's memory of the idempotency key,
`Keyed` says whether it has one (Stripe documents it; for BTCPay the code sends a
header that nothing shows to be honoured, EVM refunds are paid by hand).
`adjusted` and `posted` record what happened, for the properties; no guard reads
them.

### Payouts

`wallets` and `payouts` are the rows of one seller, network and asset. The
transaction of `ConfirmWallet` is three steps: the SELECT with which it begins, the
UPDATE that supersedes what is confirmed *as that statement sees it*, and the UPDATE
that confirms and commits. `CreatePendingWallet` likewise supersedes the pending
wallets its first statement saw (`Replaced`) and inserts one, so that two submissions
at once may leave two. A payout request reads the wallet and the balance, then
the payouts in flight, then inserts: two requests may read the same balance. Of the
payouts it sees the newest `ListLimit` (`Listed`; 200 in the code), whatever their
status. `link` is the wallet's one-time token; `TokenKindKnown` says whether
`auth_tokens` admits its kind. At this commit it does not (see the findings), so the
`payouts` run and the proofs look at the rest of the component as it would be with the
constraint extended: they hold for both values. `by`, the request that confirmed a
wallet, is not in the code; only properties read it. Amounts are added up as sets of
minor units (`SumOf`), so that the laws of finite sets apply to the sums.

### Marketplace

`edit[e]` is a request of the seller: saving the gig form is the row, then the two
transactions `ReplaceGigPackages` and `ReplaceGigAddons`, each in two steps (the DELETE
and what it saw, the INSERTs with the COMMIT). A package is known by form and tier;
`gig_packages_gig_tier_unique` refuses a second one of a tier, and drafts of a deleted
package go with it. `draft` is the one row a buyer has per gig. `checkoutConfirm`
reads the draft, `confirmGig` the gig, packages and add-ons, from which the total is
computed once more, and `CreateOrderFromDraft` inserts the order and deletes the
draft without looking whether there was one. `shown` is the total of the review page,
kept for `NeverDearerThanShown`.

### Catalogue

Each request is a store transaction in the order of its statements: a review or its
moderation and the recount of the seller's rating; `SetGigTags` with `ensureTag`
and its `ON CONFLICT`; deleting tags and categories; an image's
`COALESCE(MAX(position) + 1, 0)`, read by one statement and inserted by another. What a
transaction has written stays in its request until it commits, and a request waits for
the row another one has written: a deletion of a tag for the links to it that are being
deleted too (`TagFree`), its renaming only for the tag (`TagUnheld`). `since` (not in
the code) collects what was committed during the last recount and during the last saving
of tags, which is all that the properties allow as a difference. `after` (not in the
code either) is how many images there were when an upload read its place.

### Accounts

`account` is the user, passwords and secrets are numbers in the order in which they
were set. A session carries what its holder has shown; `RotateSession` replaces one by
another and carries that over. A login reads the account once and asks for the second
factor it saw. `passwordUpdate` ends the other sessions, `UpdatePassword` of a
reset ends all; each is a later statement whose failure is logged. A token is used in
the statement after the change it is for. `revoked`, `enrolments`, `guesses`,
`issued`, `uses` and `stuck` are history for the properties; no guard reads them.

### QRCode

The encoder by its steps: choosing the layout, bits and padding, the Reed-Solomon
divisor and remainders, interleaving, drawing the function patterns, placing the
bits, the eight masks. Which mask scores best is left open. The reader is the
standard's (external): it reads the format, skips the function cells of the
*standard*, unmasks, and recovers each block if the errors are within its reach.

## 3. Runs

| Configuration | Checks | Result |
|---|---|---|
| `MCOrderWorkflow` | `DeliveryVersions`, `RevisionAllowance`, `CancelledByDecision`, `ReleasesBounded`, `ReviewAfterAcceptance`, `ImplementsLifecycle`, `DecisionsFinal`, `DeliveryAnswered` | holds, 1,555,983 states |
| `MCJobQueue` | `RunnersHoldClaims`, `SweepChain`, `AttemptsAccounted`, `JobsSettle` | holds, 423,869 |
| `MCPaymentCapture` | `CapturedOnce`, `StartedOrderIsPosted`, `OutcomeJustified`, `ImplementsLifecycle`, `IntentFollowsTable`, `PaidOrderStarts` | holds, 1,704,572 |
| `MCReconciliation` | `SucceededRefundable`, `DecisionsReached` | holds, 843,855 |
| `MCSettlement` | `LedgerBalances`, `AccountsExplained`, `RefundPostedOnce`, `RefundWasPaid`, `BuyerRefundedOnce` | holds, 379,840 |
| `MCPayouts` | `OverdraftBounded`, `CoolingOff`, `OneWalletPerConfirmer` | holds, 3.7 million |
| `MCMarketplace` | `ActiveGigSells`, `OnePackagePerTier`, `NeverDearerThanShown`, `OrdersPerDraftBounded` | holds, 1,730,751 |
| `MCCatalogue` | `TypeOK`, `RatingsExplained`, `TagsExplained`, `UploadsKeepOrder` | holds, 1,463,344 |
| `MCAccounts` | `OldPasswordsInFlightOnly`, `SecondFactorShown`, `GuessesBounded`, `TokenUsesBounded` | holds, 4.5 million |
| `MCPaymentCapture_ProcessedSuccessIsPosted` | a processed success was posted | **violated** |
| `MCPayouts_SubmittedWalletHasLink` | the table takes the link of a submitted wallet | **violated** |
| `MCQRCode_Scannable` | a reader recovers the data codewords | **violated** |

The longest takes about two and a half minutes with two workers. The types of the
variables (`TypeOK`) are proved wherever there are proofs, and are not checked
again by the runs; TLC has checked each of them as well. `Catalogue`'s stays in its
run too: a type error there would be a link to a deleted tag, or one slug twice.

The violated ones state what a comment says; the code does otherwise, and
`PROJECT.json` quotes both:

* `payments.go:133`: a retry after `pending_payment -> paid` skips the posting, marks
  the event processed and leaves the order `paid` with nothing in the ledger.
* `handlers/wallets.go:108`: `auth_tokens_kind_check` knows no `wallet_confirmation`, so
  no wallet gets its link and none can be confirmed.
* `services/qrcode.go:106`: the cells of the format information are reserved only when
  they are drawn, after the data have been placed into them. With
  `drawFunctionPatterns` reserving them, `Scannable` holds for the same payloads.

More is visible in the modules without a run of its own.

Orders and payments:

* resolving a cancellation asks only whether the table allows the move, so a request
  left pending decides a disputed order, which `store/disputes.go:18-19` reserves to
  an admin (`handlers/orders.go:683`);
* every worker start seeds one more chain of sweeps (`maintenance.go:21` against
  `maintenance.go:12-13` and `orders.go:14-16`);
* a takeover does not look at `max_attempts` (`store/jobs.go:84` against
  `docs/runbooks/incident.md:33`; `AttemptsAccounted` states the true bound);
* nothing leaves `payment_failed` (`payments.go:171` against `payments.go:161`);
* dispute row and status are separate writes (`handlers/orders.go:804`): an order
  can stay disputed with no open dispute for an admin to decide;
* an order accepted by a sweep that dies before the release is never released
  (`orders.go:42`); a session the provider has and the crash kept from the row is
  unknown to its webhook (`handlers/payments.go:105`); Stripe's asynchronous failure
  is read as processing for ever (`providers/stripe.go:150`);
* the sweep does not see an intent that succeeded before its job was dead-lettered
  (`store/payments.go:136` against `docs/runbooks/reconciliation.md:14-19`), and takes
  the 100 oldest only (line 137). Those of which there is nothing to learn stay among them
  for ever: declined late, paid in part or late, of a provider that is no longer
  configured. A hundred of them, and no newer payment is polled: `DecisionsReached`
  says that this is the only way in which one is missed for good. The calls of a poll
  have no deadline but the handler's, so a provider that hangs uses up a sweep's turn;
* a charge reference that the sweep cannot write is given up with a warning and the
  status moves on (`payments.go:202`); nobody polls the intent again, and its refund is
  refused for want of a reference (`handlers/payments.go:706`);
* an SMTP server that takes a call and does not answer keeps the mail's handler past
  the stale threshold (`services/mailer.go:87`): the mail is sent again by the next
  worker, without regard to `max_attempts`, and in the end every slot of every worker
  waits, and no sweep runs. `JobsSettle` therefore has a premise;
* the webhook of a late BTCPay payment is a plain success, its poll is not
  (`providers/btcpay.go:316` against `btcpay.go:178-184`).

Stablecoins: `payment_intents_provider_check` (`0006_payments.sql:25`, which no later
migration changes) admits `stripe`, `btcpay` and `evm`; the providers are named
`evm-base` and `evm-polygon` (`providers/evm.go:49`, `handlers/payments.go:36-39`, inserted
at line 69). The INSERT of every stablecoin checkout fails and the order stays in
`pending_payment` without an intent: `CreatePaymentIntent` is not enabled for them, and
`RTypeOK` says that no stored intent has such a provider.

Books, refunds and payouts:

* the capture and everything after it meet different accounts, because only the
  latter spell the currency in lower case (`handlers/orders.go:583` against
  `payments.go:144`): `seller_pending` in `usd` goes negative at every release. Over
  both spellings the books are right, which is what `AccountsExplained` says;
* a refund of an order that is accepted meanwhile debits `seller_pending`, and the
  release moves the refunded earnings to `seller_available` all the same
  (`handlers/payments.go:759`); `AccountsExplained` adds the two accounts;
* a refund still under way cannot be recorded: the row's constraint has no
  `processing` (`handlers/payments.go:751`), the request ends with an error, the row
  stays `pending`, keeps every retry out, and no sweep looks at it
  (`docs/runbooks/refund.md:39` expects one);
* the refund key never changes (`handlers/payments.go:732`), so a provider that
  honours it answers the retry of a failed refund with the failure; a posting that
  fails after the refund is only logged (line 763);
* of a seller's payouts only the newest 200 are counted as in flight, whatever became of
  them (`handlers/wallets.go:155`), so an open one that is older is forgotten and its
  amount can be asked for again; `OverdraftBounded` speaks of those in the list;
* two submissions of a wallet at once leave two pending ones, two confirmations two
  confirmed ones (`store/wallets.go:58`, `84`);
* a payout that starts as `queued` never advances, a completed one is not debited
  (both known: `docs/runbooks/payout.md:28-33`), and `payouts_paused` stops nothing
  (only two pages read it; `payout.md:62-67`).

Gigs, ratings, accounts:

* two recounts that overlap leave a rating that misses a review
  (`store/reviews.go:31` has it that it "can never drift"; `RatingsExplained` says by
  how much it can);
* two images uploaded at once may get one place, or show in the other order
  (`store/catalog.go:554`); `UploadsKeepOrder` is about images that were there before;
* add-ons and tags of two forms saved at once are united, and so are packages of
  different tiers (`store/catalog.go:532`); saving a gig deletes the open drafts on
  its packages; an edit does not send a gig back to moderation;
* several reset links stay valid side by side, and a verification link mailed to an
  old address verifies the new one; ending the sessions may fail and is only logged;
  `RotateSession` does not ask whether the old session was still live; a login's
  `SetLastLogin` clears a lock set meanwhile; a disabled account keeps its sessions
  (`docs/runbooks/incident.md:63-67`).

### Bounds

* *OrderWorkflow*: two requests and one sweeper, two deliveries, one revision, one
  cancellation request, one dispute. All races here are between two actors on one
  compare-and-set or one lock, and a stopped request frees its slot for the next,
  so longer histories use the same two slots.
* *JobQueue*: two workers with one slot each, two attempts, two rows (a sweep and its
  successor, or with a job or mail, or two of those), one lost event, one retry. Rows
  meet only in the slots they take, and two mails fill both. The deadline is one tick and
  staleness two, the smallest pair with a gap.
* *PaymentCapture*: two webhook events and one sweep make three concurrent jobs on
  one intent; two attempts of the code's eight are enough to retry once and to
  dead-letter; two faults reach a failure in the retry of a failure.
* *Reconciliation*: three payments, of which the sweep lists two; the second may be in
  bitcoin, or be refused; one fault, which may be a restart without BTCPay. So the list
  may hold an intent that cannot be polled or decided before one that can, or two of
  them before the third.
* *Settlement*: two refund requests, since every race is about the second; two
  acceptances, one before and one after a reopening; one adjustment, which commutes
  with the rest; a total of 10 and a fee of 1, so that the shares differ. Without
  the key (`Keyed = FALSE`) `BuyerRefundedOnce` claims nothing; the other four hold
  there too.
* *Payouts*: two confirmations and two requests; one wallet with four payouts, of which
  three are listed, or two wallets with one (`FourOrOne`); amounts of 1 and 2, the
  second of high value, a balance of 0 or 2: both requests fit once, not twice.
* *Marketplace*: two of the seller's requests (two forms, or a form and publishing),
  two of the buyer's, three orders; three forms: a price, a higher one without the
  add-on, another tier. The fee of 10 % rounds. One draft: `drafts` counts those ever
  started, and a request that holds the id of one that is gone is the race.
* *Catalogue*: two requests at once and three in all, so that one starts while the
  second of two is still open; two orders, one gig, two slugs in four forms.
* *Accounts*: two requests, two sessions, one token; a lock after one failure, two
  passwords and one enrolment: one in force and one that replaces it.
* *QRCode*: payloads of 67, 120 and 140 bytes: one block, two blocks, none that fits.

Actors that differ in their names only are symmetric where the run checks nothing
temporal. `CHECK_DEADLOCK FALSE` is set everywhere: orders, payments and encodings
come to an end, and the tables stop at their bounds.

### Fairness

* A begun handler runs on (`net/http` runs it in its own goroutine), time passes,
  and a sweep that recurs keeps running; `JobQueue` justifies the latter. The
  sweep's UPDATE waits for the row lock among others and is strongly fair:
  PostgreSQL queues waiters.
* In `JobQueue` goroutines run on, the ticker polls, time passes, and a stopped
  worker is started again. Nothing makes the SMTP server answer: `JobsSettle` is claimed of
  behaviours in which every goroutine leaves it again and again. The restart is the
  operator's part: `docker-compose.yml` gives the worker service no restart policy.
* In `Reconciliation` the sweep recurs and goes on, as `JobQueue` has it. Calls fail and
  processes restart at most `MaxFaults` times; no webhook need come.
* Nothing makes a user, a provider, a webhook or an admin act. `PaidOrderStarts` is
  claimed only of behaviours without faults (`[](faults = 0)`): with one, the finding
  on half-done captures is a counterexample.
* The other modules claim no liveness: what they do is asked for by a user.

## 4. Proofs

`tlapm` checks every theorem for all values of the constants that satisfy the
modules' ASSUMEs; the runs above show the same properties on an instance.

* `OrderWorkflowProofs`. Type correctness first, then one invariant per property.
  Versions and allowance rest on the lock: a request at `locked` holds `rowLock`, so
  two are never there, and what it read under the lock is still true when it
  writes. `ReleaseInv` counts: what has been released, and what an acceptance or a
  sweep is still to release, is at most one for every dispute whose order has moved,
  and one more if the order stands accepted; the dispute's row precedes its move.
  `CancelledByDecision` needs the decision to be recorded as long as a request stands
  at `move` with target `cancelled`, which rests on `DecisionsFinal`; that is an
  action property proved from types alone. The refinement needs only that a request
  at `move` carries a target the table allows from its snapshot.
* `JobQueueProofs`. `RunnersHoldClaims` is not inductive by itself: the
  strengthening says that the claim of a handler that heeds its context is as old as the
  handler has run (`AgeInv`), which is no longer than `HandlerDeadline`, so a stale claim
  is held by no such handler. Of a mail's handler nothing of the kind holds: the
  invariant is of `Bounded` slots, and the proof has to see that a mail's late result
  only ever settles a mail's row. `SweepChain` adds that a sweep at `ok` has its
  successor, and `AttemptsAccounted` counts the claims that are taken over, or are without
  a live holder, against `overtaken` and `lost`.
* `PaymentCaptureProofs`. `IInv` is four parts: types; `CaptureInv` (at most one job
  stands between `paid` and `in_progress`, and it alone decides the number of
  postings); `GuardInv` (a job about to move intent or order passed the table's
  check); `SourceInv` (an outcome a job carries was true of the provider, whose
  payment never loses it). The refinement and `IntentFollowsTable` follow from it.
* `MoneyProofs`, `Reconciliation` (whose `RSpec`, `RTypeOK` are so named that one module
  can extend both). `RefundInv` adds to `SucceededRefundable` that a sweep about to move
  an intent to `succeeded` has its charge reference behind it, written or lost; that
  rows never lose one (`RowsStay`); and that what a sweep lists was created. The
  converse order of the two writes breaks it.
* `MoneyProofs`, `Settlement`. `PostingsValidate` and the lemmas under it say what
  each posting does to each account; `OnlyPostings` that nothing else writes the
  ledger, which gives `DoubleEntry`. `RowInv` ties a request's progress to its row, so
  the unique index lets one request reach its posting (`RefundsPostedOnce`), and the
  first posting finds none before it (`BooksExplained`). `CallInv` says that under a
  key the provider acts for the first call only (`BuyersRefundedOnce`), and that an
  answer of success is true and stays true (`RefundsWerePaid`).
* `PayoutsProofs`. `AgeInv`: a confirmation in flight began no earlier than its wallet
  was created, so `eligibleAt` is at least `Cooldown` after that; that a wallet was
  confirmed and when it was created never changes (`WalletsKept`), so what a request
  saw stays true until it inserts its payout, even if the wallet is superseded or
  confirmed again. `SeenInv`: a confirmation at its last UPDATE has seen every
  wallet the same request confirmed. `OverInv`: for some balance `b`, every request in
  flight has read at most `b`, and what is owed to open payouts in the list and promised to
  requests that passed the check is at most `b` for every request. The bound on the sum
  alone is not inductive: a request that passes leaves what is owed and its own amount
  within `b`, and each of the *others* is promised at most `b` because that is all it
  read. That the list forgets a payout when one is added only takes away from the sum. A
  balance that rises takes `b` with it. `CompletedStays` shows `CompletedFinal`, the
  compare-and-set of the admin's decisions, which no run checks.
* `AccountsProofs`. `IInv` is types and four parts. `KnowInv`: a request and a session
  know a password no newer than the account's, and whoever has seen the enrolment in
  force has shown its code, except a login still at `code`: this gives
  `SecondFactorHolds`, since a login reads the account once. `RevokeInv`: a row older
  than the password that ended sessions was inserted after it did (`issued`), and a
  request about to end the others spares only a session that knows what it has set.
  `GuessInv` bounds the guesses differently on the two sides of the lock: unlocked,
  by the failures counted; locked, with the requests that had read the account before
  still to come (`Guessing`). `TokenInv` sets the uses of a link against the requests
  that hold it, twice: a live link was used once at most by each of its holders, and
  one that is marked keeps only those that opened it before.
* `MarketplaceProofs`. `EditInv` and `DraftInv` complete the types: a form being saved
  has a package and a price, a confirmation holds the id of a draft that was started.
  `SellInv` adds to `ActiveGigSells` that a request at `publish` has read a package;
  that packages do not become empty meanwhile is `PackagesStep` (only
  `ReplaceGigPackagesInsert` changes them, and it inserts). `OnePackagePerTier` is
  inductive by itself. `PriceInv` says that one price per form explains every
  package, form in flight, draft and total read: a total that was shown is still the
  total of what is left, since a package keeps its price as long as it is there,
  add-ons only go, and the fee is monotone (`TotalsGrow`). `OrderInv` counts a draft's
  orders together with the confirmations that have read it.
* `CatalogueProofs`. `IInv` is types and four parts, and a step that touches nothing
  of a part is quiet for it (`TagQuiet`, `CountQuiet`, `FormQuiet`, `PlaceQuiet`),
  which leaves one to three actions for each. `TagInv`: no two tags share a slug or an
  id, the ones that are not committed yet included (`NameInv`), for then a rename that
  finds a slug free, and an upsert that waits for the slugs others hold, keep
  `tags.slug` unique when they commit; `Keeps`: what a saving holds is there, since a
  deletion waits for it. `CountInv`: what a recount has counted differs from the
  reviews as they will be at its commit by what was committed since it began.
  `FormInv`: the links that a saving does not delete are of forms committed since it
  read the old ones. `PlaceInv`: an image comes after those it counted (`Ordered`), and so
  will the ones still being uploaded, whose place was read before: rows keep place and
  number. It needs that the places are `0..n-1` for some `n` and no upload is to be put
  beyond `n` (`Filled`), so that the highest place is there to be read.

Assumptions. The proofs use the ASSUMEs of the modules and no others. Those that are
not about bounds: requests that are counted are finitely many, `None` is no row, hash,
session or token, the tags of a form are slugs, and the fee, prices, amounts and
attempts are natural numbers; `StaleAssumption` is discussed in section 2.

Model-checked only: the liveness properties (`DeliveryAnswered`, `JobsSettle`,
`PaidOrderStarts`, `DecisionsReached`), which need fairness and ENABLED; and `QRCode`,
which uses recursion and bitwise operators, which the prover does not take. Every
other property that a passing run checks is a theorem.

## 5. Not modelled

`PROJECT.json` lists every component with the reason. Within the modelled ones:

* orders and payments: message threads and attachments, the texts, in-app
  notifications, what the maintenance sweep deletes, Connect account events,
  payment attempts and signature checks. One order and one intent are modelled at a
  time in `PaymentCapture`, several intents and no order in `Reconciliation`, whose events
  have no rows: one is there for every state a payment has been in;
* stablecoins: opening a deposit, polling a chain, the deposit page and its QR code.
  The table refuses every intent they would be about. The encoder of the QR code is
  modelled all the same, since it depends on nothing stored;
* payouts: the pause flag, other sellers, networks and assets, the admin's list of 50;
* marketplace: the buyer's texts, several gigs and buyers; statuses that differ in
  their label only;
* catalogue: favourites, the portfolio, search;
* accounts: anonymous sessions, flash messages, roles, the verified date and the
  account's status, which nothing modelled reads.

## 6. Plan

Done: `OrderWorkflow`, `JobQueue`, `PaymentCapture`, `Reconciliation`, `Settlement`,
`Payouts`, `Accounts`, `Marketplace` and `Catalogue` with proofs; `QRCode` with a run.
Next, in this order:

1. A composition of `OrderWorkflow` and `Settlement` in which the acceptances are
   the workflow's.
2. Migrations (the advisory lock), the rate limiter's window, onboarding with the
   Connect webhook, favourites.
