------------------------------ MODULE JobQueue ------------------------------
(***************************************************************************)
(* The PostgreSQL job table (store/jobs.go), the worker processes that     *)
(* poll it into a bounded pool of goroutines (jobs.go, main.go), and the   *)
(* recurring sweep that keeps itself alive by enqueueing its successor     *)
(* (maintenance.go; the auto-accept and reconciliation sweeps have the     *)
(* same shape).  Workers crash, are told to stop, and are started again;   *)
(* a claim they leave behind is taken over once it is stale.               *)
(*                                                                         *)
(* A handler's context ends at its deadline and every handler's calls heed *)
(* it but one: the SMTP mailer's (services/mailer.go).  A job that sends a *)
(* mail may run on for ever, its claim may be taken over meanwhile, and it *)
(* may still record its result on the row another goroutine now runs.      *)
(*                                                                         *)
(* Time is counted in ticks.  age is the time since jobs.locked_at, and    *)
(* ran the time since the goroutine that holds the claim was started.      *)
(* run_at (a schedule, a backoff) only delays a claim, and a claim may     *)
(* always be late, so it is not kept.                                      *)
(*                                                                         *)
(* A definition X_fault just before X is X with a plausible bug in it.  No *)
(* action uses it; it is put in X's place to see a property fail.          *)
(***************************************************************************)
EXTENDS Naturals, Sequences

CONSTANTS
  Workers,           \* worker processes
  Slots,             \* the goroutines of all workers' pools
  Owner,             \* the worker each slot belongs to
  MaxAttempts,       \* JobMaxAttempts
  HandlerDeadline,   \* JobClaimTimeout, and the time to record the result
  StaleThreshold,    \* JobStaleThreshold
  MaxJobs,           \* bound: rows in the table
  MaxLost,           \* bound: crashes, stops and results that cannot be recorded
  MaxRetries,        \* bound: retries by an admin
  None

ASSUME SlotsAssumption == Owner \in [Slots -> Workers] /\ None \notin Slots
\* config.go requires the first (config.Validate).  The defaults (5m, 10m) meet
\* the second, which nothing checks, as long as no process is suspended and no
\* result takes five minutes to write.
ASSUME AttemptsAssumption == MaxAttempts \in Nat \ {0}
ASSUME StaleAssumption == /\ HandlerDeadline \in Nat /\ StaleThreshold \in Nat
                          /\ HandlerDeadline < StaleThreshold
ASSUME BoundsAssumption == MaxJobs \in Nat /\ MaxLost \in Nat /\ MaxRetries \in Nat

VARIABLES
  jobs,      \* rows of the jobs table, by id
  worker,    \* each worker process
  run,       \* what each slot is executing
  lost,      \* events that may have left a claim without a recorded result
  overtaken, \* claims taken over from a goroutine that was still running
  retries    \* admin retries so far

vars == <<jobs, worker, run, lost, overtaken, retries>>

Kinds == {"once", "sweep", "mail"}

\* SMTPMailer.Send has no use for its context.
HeedsContext(kind) == kind # "mail"

JobRow == [kind : Kinds,
           status : {"queued", "claimed", "failed", "dead", "done"},
           attempts : Nat, lockedBy : Slots \cup {None}, age : 0..StaleThreshold]

Idle == [pc |-> "idle", job |-> 0, ran |-> 0]
SlotState == [pc : {"idle", "work", "reschedule", "ok", "err"},
              job : Nat, ran : 0..HandlerDeadline]

TypeOK ==
  /\ jobs \in Seq(JobRow)
  /\ worker \in [Workers -> {"down", "up", "draining"}]
  /\ run \in [Slots -> SlotState]
  /\ \A s \in Slots : run[s].pc # "idle" => run[s].job \in DOMAIN jobs
  /\ lost \in Nat /\ overtaken \in Nat /\ retries \in Nat

Init ==
  /\ jobs = <<>>
  /\ worker = [w \in Workers |-> "down"]
  /\ run = [s \in Slots |-> Idle]
  /\ lost = 0 /\ overtaken = 0 /\ retries = 0

Running(s) == run[s].pc # "idle"
RunBySomeone(j) == \E s \in Slots : Running(s) /\ run[s].job = j

\* The goroutine's handler ends when its context does.
Bounded(s) == Running(s) /\ HeedsContext(jobs[run[s].job].kind)

-----------------------------------------------------------------------------
(* The store.                                                                *)

NewJob(kind) == [kind |-> kind, status |-> "queued", attempts |-> 0,
                 lockedBy |-> None, age |-> 0]

EnqueueJob(kind) == Len(jobs) < MaxJobs /\ jobs' = Append(jobs, NewJob(kind))

\* locked_at < now() - staleAfter
Stale_anyClaim(j) == TRUE
Stale_never(j) == FALSE
Stale(j) == jobs[j].age = StaleThreshold

\* FOR UPDATE SKIP LOCKED: the row is taken in one statement.
Claimable(j) == \/ jobs[j].status \in {"queued", "failed"}
                \/ jobs[j].status = "claimed" /\ Stale(j)

\* attempts >= max_attempts
Exhausted_offByOne(j) == jobs[j].attempts > MaxAttempts
Exhausted(j) == jobs[j].attempts >= MaxAttempts

\* CompleteJob and FailJob: WHERE id = $1 AND status = 'claimed'
SetResult(j, status) ==
  jobs' = IF jobs[j].status = "claimed"
          THEN [jobs EXCEPT ![j].status = status, ![j].lockedBy = None, ![j].age = 0]
          ELSE jobs

-----------------------------------------------------------------------------
(* The workers.                                                              *)

\* runWorker: seed the sweep, then poll.  A seed that fails ends the process.
StartWorker(w) ==
  /\ worker[w] = "down"
  /\ worker' = [worker EXCEPT ![w] = "up"]
  /\ EnqueueJob("sweep") \/ (Len(jobs) = MaxJobs /\ jobs' = jobs)
  /\ UNCHANGED <<run, lost, overtaken, retries>>

\* poll: take a slot, claim a job, hand it to a goroutine.
Poll(s) ==
  /\ worker[Owner[s]] = "up" /\ ~Running(s)
  /\ \E j \in DOMAIN jobs :
       /\ Claimable(j)
       /\ jobs' = [jobs EXCEPT ![j].status = "claimed", ![j].lockedBy = s,
                               ![j].age = 0, ![j].attempts = @ + 1]
       /\ run' = [run EXCEPT ![s] = [pc |-> "work", job |-> j, ran |-> 0]]
       /\ overtaken' = IF jobs[j].status = "claimed" /\ RunBySomeone(j)
                       THEN overtaken + 1 ELSE overtaken
  /\ UNCHANGED <<worker, lost, retries>>

Goto(s, pc) == run' = [run EXCEPT ![s].pc = pc]
Release(s) == run' = [run EXCEPT ![s] = Idle]

\* The handler's own work.  A panic is recorded like an error.  When a mail has
\* been sent, or given up, depends on the SMTP server alone.
AfterWork(kind) == IF kind = "sweep" THEN "reschedule" ELSE "ok"

Work(s) ==
  /\ run[s].pc = "work"
  /\ Goto(s, AfterWork(jobs[run[s].job].kind)) \/ Goto(s, "err")
  /\ UNCHANGED <<jobs, worker, lost, overtaken, retries>>

\* The sweep enqueues its successor last.  The insert may fail, and it may
\* commit and still be reported as failed (the context expires first).
Successor_dropped == jobs' = jobs
Successor == EnqueueJob("sweep")

Reschedule(s) ==
  /\ run[s].pc = "reschedule"
  /\ \/ Successor /\ (Goto(s, "ok") \/ Goto(s, "err"))
     \/ jobs' = jobs /\ Goto(s, "err")
  /\ UNCHANGED <<worker, lost, overtaken, retries>>

CompleteJob(s) ==
  /\ run[s].pc = "ok" /\ worker[Owner[s]] = "up"
  /\ SetResult(run[s].job, "done")
  /\ Release(s)
  /\ UNCHANGED <<worker, lost, overtaken, retries>>

FailJob(s) ==
  /\ run[s].pc = "err" /\ worker[Owner[s]] = "up"
  /\ SetResult(run[s].job, IF Exhausted(run[s].job) THEN "dead" ELSE "failed")
  /\ Release(s)
  /\ UNCHANGED <<worker, lost, overtaken, retries>>

\* CompleteJob and FailJob run under the worker's context, which is cancelled
\* once it drains: the handler has ended and its row stays claimed.
ResultDropped(s) ==
  /\ run[s].pc \in {"ok", "err"} /\ worker[Owner[s]] = "draining"
  /\ Release(s)
  /\ UNCHANGED <<jobs, worker, lost, overtaken, retries>>

\* The same when the database refuses the update; it is only logged.
ResultNotRecorded(s) ==
  /\ run[s].pc \in {"ok", "err"} /\ worker[Owner[s]] = "up"
  /\ lost < MaxLost /\ lost' = lost + 1
  /\ Release(s)
  /\ UNCHANGED <<jobs, worker, overtaken, retries>>

\* SIGTERM cancels the context: no more polls, Run waits for its goroutines.
Terminate(w) ==
  /\ worker[w] = "up"
  /\ lost < MaxLost /\ lost' = lost + 1
  /\ worker' = [worker EXCEPT ![w] = "draining"]
  /\ UNCHANGED <<jobs, run, overtaken, retries>>

Drained(w) ==
  /\ worker[w] = "draining"
  /\ \A s \in Slots : Owner[s] = w => ~Running(s)
  /\ worker' = [worker EXCEPT ![w] = "down"]
  /\ UNCHANGED <<jobs, run, lost, overtaken, retries>>

Crash(w) ==
  /\ worker[w] # "down"
  /\ lost < MaxLost /\ lost' = lost + 1
  /\ worker' = [worker EXCEPT ![w] = "down"]
  /\ run' = [s \in Slots |-> IF Owner[s] = w THEN Idle ELSE run[s]]
  /\ UNCHANGED <<jobs, overtaken, retries>>

-----------------------------------------------------------------------------
(* The web process and time.                                                 *)

\* A request enqueues a job (a webhook, a notification's e-mail).
Enqueue ==
  /\ EnqueueJob("once") \/ EnqueueJob("mail")
  /\ UNCHANGED <<worker, run, lost, overtaken, retries>>

\* WHERE id = $1 AND status IN ('dead', 'failed')
RetryJob(j) ==
  /\ jobs[j].status \in {"dead", "failed"}
  /\ retries < MaxRetries /\ retries' = retries + 1
  /\ jobs' = [jobs EXCEPT ![j].status = "queued", ![j].attempts = 0,
                          ![j].lockedBy = None, ![j].age = 0]
  /\ UNCHANGED <<worker, run, lost, overtaken>>

\* context.WithTimeout: a handler that heeds its context has ended before it
\* runs past the deadline.
WithinDeadline == \A s \in Slots : Bounded(s) => run[s].ran < HandlerDeadline

Older(age) == IF age < StaleThreshold THEN age + 1 ELSE age
Longer(ran) == IF ran < HandlerDeadline THEN ran + 1 ELSE ran

Tick ==
  /\ \E j \in DOMAIN jobs : jobs[j].status = "claimed" /\ jobs[j].age < StaleThreshold
  /\ WithinDeadline
  /\ jobs' = [j \in DOMAIN jobs |->
                IF jobs[j].status = "claimed" THEN [jobs[j] EXCEPT !.age = Older(@)] ELSE jobs[j]]
  /\ run' = [s \in Slots |-> IF Running(s) THEN [run[s] EXCEPT !.ran = Longer(@)] ELSE run[s]]
  /\ UNCHANGED <<worker, lost, overtaken, retries>>

-----------------------------------------------------------------------------

\* A goroutine that has a job gets rid of it.
Continue(s) == Work(s) \/ Reschedule(s) \/ CompleteJob(s) \/ FailJob(s) \/ ResultDropped(s)

Next ==
  \/ \E w \in Workers : StartWorker(w) \/ Terminate(w) \/ Drained(w) \/ Crash(w)
  \/ \E s \in Slots : Poll(s) \/ Continue(s) \/ ResultNotRecorded(s)
  \/ \E j \in DOMAIN jobs : RetryJob(j)
  \/ Enqueue
  \/ Tick

Spec == Init /\ [][Next]_vars

\* The goroutine is in smtp.SendMail.
Sending(s) == run[s].pc = "work" /\ ~Bounded(s)

\* Goroutines run, the ticker polls, time passes, and a worker that stopped is
\* started again.  Crashes, stops, retries and new jobs need not happen, and a
\* mail need never be sent.
Fairness ==
  /\ \A s \in Slots : WF_vars(~Sending(s) /\ Continue(s)) /\ WF_vars(Poll(s))
  /\ \A w \in Workers : WF_vars(StartWorker(w)) /\ WF_vars(Drained(w))
  /\ WF_vars(Tick)

FairSpec == Spec /\ Fairness

-----------------------------------------------------------------------------
(* Properties.                                                               *)

\* store/jobs.go:68-70, "concurrent workers never process the same job": a
\* goroutine whose handler heeds its context is the one whose claim is on the
\* row, although neither CompleteJob nor FailJob looks at locked_by, stale claims
\* are taken over, an admin may re-queue a job at any time, and mails that take
\* too long are sent twice and settle rows that others run.
RunnersHoldClaims ==
  \A s \in Slots : Bounded(s) =>
    /\ jobs[run[s].job].status = "claimed"
    /\ jobs[run[s].job].lockedBy = s

\* A sweep is only done when it has left a successor, so the newest sweep row
\* is always outstanding or dead: no crash, lost result or retry breaks the
\* chain silently.
SweepChain ==
  \A j \in DOMAIN jobs : jobs[j].kind = "sweep" /\ jobs[j].status = "done" =>
    \E k \in DOMAIN jobs : k > j /\ jobs[k].kind = "sweep"

\* A job is started at most max_attempts times, and once more for every event
\* that left its claim without a result, or, if it sends a mail, for every claim
\* that was taken over from a handler still running: ClaimJob takes a stale claim
\* over without looking at attempts, although docs/runbooks/incident.md:33 says
\* that "once attempts >= max_attempts they dead-letter".
Excess(kind) == IF HeedsContext(kind) THEN lost ELSE lost + overtaken

AttemptsAccounted ==
  \A j \in DOMAIN jobs : jobs[j].attempts <= MaxAttempts + Excess(jobs[j].kind)

\* Every job is settled, as long as the SMTP server lets every call to it end,
\* however late: a handler that keeps failing becomes a dead letter, a claim left
\* behind is taken over, whatever crashed in between.  Without that, one mail is
\* taken over until every slot of every worker waits for the server.
JobsSettle ==
  (\A s \in Slots : []<>~Sending(s)) =>
    \A j \in 1..MaxJobs :
      []<>(j \in DOMAIN jobs => jobs[j].status \in {"done", "dead"})

=============================================================================
