--------------------------- MODULE JobQueueProofs ---------------------------
(***************************************************************************)
(* Theorems about JobQueue, for any workers, pools, attempts and           *)
(* thresholds with HandlerDeadline < StaleThreshold (StaleAssumption).     *)
(* The deadline binds only handlers that heed their context: a mail's may  *)
(* run on past any threshold.                                              *)
(***************************************************************************)
EXTENDS JobQueue, SequenceTheorems, TLAPS

(***************************************************************************)
(* What the statements of the store do to the table.                       *)
(***************************************************************************)
OnlyRow(j) ==
  /\ jobs' \in Seq(JobRow) /\ DOMAIN jobs' = DOMAIN jobs
  /\ \A k \in DOMAIN jobs \ {j} : jobs'[k] = jobs[k]
  /\ jobs'[j].kind = jobs[j].kind

LEMMA UpdateRow ==
  ASSUME jobs \in Seq(JobRow), NEW j \in DOMAIN jobs, NEW row \in JobRow, row.kind = jobs[j].kind,
         jobs' = [jobs EXCEPT ![j] = row]
  PROVE  OnlyRow(j) /\ jobs'[j] = row
<1>1. j \in 1..Len(jobs) /\ DOMAIN jobs = 1..Len(jobs)
  OBVIOUS
<1>2. jobs' \in Seq(JobRow) /\ Len(jobs') = Len(jobs)
      /\ \A k \in 1..Len(jobs) : jobs'[k] = IF k = j THEN row ELSE jobs[k]
  BY <1>1, ExceptSeq
<1> QED  BY <1>1, <1>2 DEF OnlyRow

LEMMA RowFields ==
  ASSUME jobs \in Seq(JobRow), NEW j \in DOMAIN jobs
  PROVE  /\ jobs[j] \in JobRow
         /\ jobs[j].kind \in Kinds /\ jobs[j].attempts \in Nat
         /\ jobs[j].age \in 0..StaleThreshold
<1>1. jobs[j] \in JobRow
  OBVIOUS
<1>2. ASSUME NEW row \in JobRow
      PROVE  row.kind \in Kinds /\ row.attempts \in Nat /\ row.age \in 0..StaleThreshold
  BY DEF JobRow
<1> QED  BY <1>1, <1>2

LEMMA PollEffect ==
  ASSUME TypeOK, NEW s \in Slots, NEW j \in DOMAIN jobs,
         jobs' = [jobs EXCEPT ![j].status = "claimed", ![j].lockedBy = s,
                              ![j].age = 0, ![j].attempts = @ + 1]
  PROVE  /\ OnlyRow(j)
         /\ jobs'[j].status = "claimed" /\ jobs'[j].lockedBy = s /\ jobs'[j].age = 0
         /\ jobs'[j].attempts = jobs[j].attempts + 1
<1> USE StaleAssumption DEF TypeOK
<1> DEFINE row == [jobs[j] EXCEPT !.status = "claimed", !.lockedBy = s, !.age = 0, !.attempts = @ + 1]
<1>1. jobs' = [jobs EXCEPT ![j] = row]
  OBVIOUS
<1>2. /\ row \in JobRow /\ row.kind = jobs[j].kind /\ row.status = "claimed" /\ row.lockedBy = s
      /\ row.age = 0 /\ row.attempts = jobs[j].attempts + 1
  <2>1. jobs[j] \in JobRow
    BY RowFields
  <2>2. 0 \in 0..StaleThreshold
    BY StaleAssumption
  <2>3. jobs[j].attempts + 1 \in Nat /\ s \in Slots \cup {None}
    BY RowFields
  <2> DEFINE n == jobs[j].attempts + 1
  <2> HIDE DEF n
  <2>4. row = [jobs[j] EXCEPT !.status = "claimed", !.lockedBy = s, !.age = 0, !.attempts = n]
    BY DEF n
  <2>5. n \in Nat /\ n = jobs[j].attempts + 1
    BY <2>3 DEF n
  <2> HIDE DEF row
  <2> QED  BY <2>1, <2>2, <2>3, <2>4, <2>5 DEF JobRow
<1> HIDE DEF row
<1> QED  BY <1>1, <1>2, UpdateRow

LEMMA ResultEffect ==
  ASSUME TypeOK, NEW j \in DOMAIN jobs, jobs[j].status = "claimed",
         NEW status \in {"done", "failed", "dead"}, SetResult(j, status)
  PROVE  /\ OnlyRow(j)
         /\ jobs'[j].status = status /\ jobs'[j].attempts = jobs[j].attempts
<1> USE StaleAssumption DEF TypeOK
<1> DEFINE row == [jobs[j] EXCEPT !.status = status, !.lockedBy = None, !.age = 0]
<1>1. jobs' = [jobs EXCEPT ![j] = row]
  BY DEF SetResult
<1>2. /\ row \in JobRow /\ row.kind = jobs[j].kind /\ row.status = status
      /\ row.attempts = jobs[j].attempts
  <2>1. jobs[j] \in JobRow
    BY RowFields
  <2>2. 0 \in 0..StaleThreshold
    BY StaleAssumption
  <2> QED  BY <2>1, <2>2 DEF JobRow
<1> HIDE DEF row
<1> QED  BY <1>1, <1>2, UpdateRow

LEMMA RetryEffect ==
  ASSUME TypeOK, NEW j \in DOMAIN jobs,
         jobs' = [jobs EXCEPT ![j].status = "queued", ![j].attempts = 0,
                              ![j].lockedBy = None, ![j].age = 0]
  PROVE  OnlyRow(j) /\ jobs'[j].status = "queued" /\ jobs'[j].attempts = 0
<1> USE StaleAssumption DEF TypeOK
<1> DEFINE row == [jobs[j] EXCEPT !.status = "queued", !.attempts = 0, !.lockedBy = None, !.age = 0]
<1>1. jobs' = [jobs EXCEPT ![j] = row]
  OBVIOUS
<1>2. row \in JobRow /\ row.kind = jobs[j].kind /\ row.status = "queued" /\ row.attempts = 0
  <2>1. jobs[j] \in JobRow
    BY RowFields
  <2>2. 0 \in 0..StaleThreshold
    BY StaleAssumption
  <2> QED  BY <2>1, <2>2 DEF JobRow
<1> HIDE DEF row
<1> QED  BY <1>1, <1>2, UpdateRow

\* A row is appended, or nothing happens to the table.
Grows(kind) ==
  /\ jobs' \in Seq(JobRow) /\ DOMAIN jobs \subseteq DOMAIN jobs'
  /\ \A k \in DOMAIN jobs : jobs'[k] = jobs[k]
  /\ \A k \in DOMAIN jobs' \ DOMAIN jobs :
       /\ jobs'[k].kind = kind /\ jobs'[k].status = "queued" /\ jobs'[k].attempts = 0
       /\ \A i \in DOMAIN jobs : k > i

LEMMA EnqueueEffect ==
  ASSUME TypeOK, NEW kind \in Kinds, EnqueueJob(kind)
  PROVE  Grows(kind) /\ DOMAIN jobs' # DOMAIN jobs
<1> USE StaleAssumption DEF TypeOK
<1>1. /\ NewJob(kind) \in JobRow /\ NewJob(kind).kind = kind
      /\ NewJob(kind).status = "queued" /\ NewJob(kind).attempts = 0
  BY DEF NewJob, JobRow
<1> DEFINE row == NewJob(kind)
<1> HIDE DEF row
<1>2. /\ jobs' \in Seq(JobRow) /\ Len(jobs') = Len(jobs) + 1
      /\ \A k \in 1..Len(jobs) : jobs'[k] = jobs[k]
      /\ jobs'[Len(jobs) + 1] = row
  BY <1>1, AppendProperties DEF EnqueueJob, row
<1>3. DOMAIN jobs = 1..Len(jobs) /\ DOMAIN jobs' = 1..Len(jobs) + 1
  BY <1>2
<1>4. Len(jobs) \in Nat
  OBVIOUS
<1>5. \A k \in DOMAIN jobs' \ DOMAIN jobs : k = Len(jobs) + 1
  BY <1>3, <1>4
<1>6. DOMAIN jobs \subseteq DOMAIN jobs' /\ Len(jobs) + 1 \in DOMAIN jobs' \ DOMAIN jobs
  BY <1>3, <1>4
<1>7. \A i \in DOMAIN jobs : Len(jobs) + 1 > i
  BY <1>3, <1>4
<1>8. row.kind = kind /\ row.status = "queued" /\ row.attempts = 0
  BY <1>1 DEF row
<1> QED  BY <1>2, <1>3, <1>5, <1>6, <1>7, <1>8 DEF Grows

(***************************************************************************)
(* What a step does to the slots.                                          *)
(***************************************************************************)
OnlySlot(s) == \A t \in Slots \ {s} : run'[t] = run[t]

LEMMA GotoEffect ==
  ASSUME TypeOK, NEW s \in Slots, NEW pc \in {"work", "reschedule", "ok", "err"}, Goto(s, pc)
  PROVE  /\ run' \in [Slots -> SlotState] /\ OnlySlot(s)
         /\ run'[s].pc = pc /\ run'[s].job = run[s].job /\ run'[s].ran = run[s].ran
<1> DEFINE r == [run[s] EXCEPT !.pc = pc]
<1>1. run' = [run EXCEPT ![s] = r]
  BY DEF Goto
<1>2. run[s] \in SlotState
  BY DEF TypeOK
<1>3. r \in SlotState /\ r.pc = pc /\ r.job = run[s].job /\ r.ran = run[s].ran
  BY <1>2 DEF SlotState
<1> HIDE DEF r
<1> QED  BY <1>1, <1>3 DEF TypeOK, OnlySlot

LEMMA IdleTyped == Idle \in SlotState /\ Idle.pc = "idle"
BY StaleAssumption DEF Idle, SlotState

LEMMA ReleaseEffect ==
  ASSUME TypeOK, NEW s \in Slots, Release(s)
  PROVE  run' \in [Slots -> SlotState] /\ OnlySlot(s) /\ run'[s].pc = "idle"
BY IdleTyped DEF Release, TypeOK, OnlySlot

(***************************************************************************)
(* The inductive invariant.  The claim of a runner that heeds its context  *)
(* is as old as the runner, and such a runner never reaches the stale      *)
(* threshold, so nobody takes its job.  Every other claim was given up by  *)
(* an event that counted in lost, or is taken over from a mail's sender,   *)
(* which counts in overtaken.                                              *)
(***************************************************************************)
AgeInv == \A s \in Slots : Bounded(s) => jobs[run[s].job].age = run[s].ran

HasLaterSweep(j) == \E k \in DOMAIN jobs : k > j /\ jobs[k].kind = "sweep"

ChainInv ==
  /\ \A j \in DOMAIN jobs : jobs[j].kind = "sweep" /\ jobs[j].status = "done" => HasLaterSweep(j)
  /\ \A s \in Slots : run[s].pc = "ok" /\ jobs[run[s].job].kind = "sweep" => HasLaterSweep(run[s].job)

RunByLive(j) == \E s \in Slots : Running(s) /\ run[s].job = j /\ worker[Owner[s]] = "up"

WithinBudget(j) ==
  /\ jobs[j].attempts <= MaxAttempts + Excess(jobs[j].kind)
  /\ jobs[j].status \in {"queued", "failed"} =>
       jobs[j].attempts < MaxAttempts + Excess(jobs[j].kind)
  /\ jobs[j].status = "claimed" /\ ~RunByLive(j) =>
       jobs[j].attempts < MaxAttempts + Excess(jobs[j].kind)

BudgetInv == \A j \in DOMAIN jobs : WithinBudget(j)

IInv == TypeOK /\ RunnersHoldClaims /\ AgeInv /\ ChainInv /\ BudgetInv

LEMMA InitHolds ==
  ASSUME Init
  PROVE  IInv
<1> USE DEF Init
<1>1. TypeOK
  BY IdleTyped DEF TypeOK
<1> QED  BY <1>1 DEF IInv, RunnersHoldClaims, AgeInv, ChainInv, BudgetInv, Bounded, Running, Idle

(* A row whose runner heeds its context has no other runner: it would heed *)
(* its context too, and hold the claim.                                    *)
LEMMA OnlyRunner ==
  ASSUME IInv, NEW s \in Slots, Running(s)
  PROVE  /\ run[s].job \in DOMAIN jobs
         /\ \A t \in Slots \ {s} : Bounded(t) => run[t].job # run[s].job
<1>1. run[s].job \in DOMAIN jobs
  BY DEF IInv, TypeOK, Running
<1>2. ASSUME NEW t \in Slots \ {s}, Bounded(t), run[t].job = run[s].job  PROVE FALSE
  <2>1. Bounded(s)
    BY <1>2 DEF Bounded
  <2> QED  BY <1>2, <2>1 DEF IInv, RunnersHoldClaims
<1> QED  BY <1>1, <1>2

LEMMA BudgetTypes ==
  ASSUME IInv, NEW j \in DOMAIN jobs
  PROVE  /\ jobs[j].attempts \in Nat /\ MaxAttempts \in Nat \ {0}
         /\ lost \in Nat /\ overtaken \in Nat /\ Excess(jobs[j].kind) \in Nat
BY RowFields, AttemptsAssumption DEF IInv, TypeOK, Excess

(* The table grows, or nothing happens to it; no slot moves. *)
LEMMA GrowStep ==
  ASSUME IInv, NEW kind, Grows(kind) \/ jobs' = jobs, UNCHANGED <<run, lost, overtaken, retries>>,
         worker' \in [Workers -> {"down", "up", "draining"}],
         \A w \in Workers : worker[w] = "up" => worker'[w] = "up"
  PROVE  IInv'
<1> USE SlotsAssumption DEF IInv
<1>1. /\ jobs' \in Seq(JobRow) /\ DOMAIN jobs \subseteq DOMAIN jobs'
      /\ \A k \in DOMAIN jobs : jobs'[k] = jobs[k]
      /\ \A k \in DOMAIN jobs' \ DOMAIN jobs : jobs'[k].status = "queued" /\ jobs'[k].attempts = 0
  BY DEF Grows, TypeOK
<1>2. TypeOK'
  BY <1>1 DEF TypeOK
<1>3. \A s \in Slots : Running(s) => run[s].job \in DOMAIN jobs
  BY DEF TypeOK, Running
<1>4. RunnersHoldClaims' /\ AgeInv'
  BY <1>1, <1>3 DEF RunnersHoldClaims, AgeInv, Bounded, Running
<1>5. \A j \in DOMAIN jobs : HasLaterSweep(j) => HasLaterSweep(j)'
  BY <1>1 DEF HasLaterSweep
<1>6. ChainInv'
  BY <1>1, <1>3, <1>5 DEF ChainInv, Running
<1>7. ASSUME NEW j \in DOMAIN jobs'  PROVE WithinBudget(j)'
  <2>1. CASE j \in DOMAIN jobs
    <3>1. RunByLive(j) => RunByLive(j)'
      BY DEF RunByLive, Running
    <3> QED  BY <1>1, <2>1, <3>1 DEF BudgetInv, WithinBudget, Excess
  <2>2. CASE j \notin DOMAIN jobs
    BY <1>1, <1>7, <2>2, AttemptsAssumption DEF WithinBudget, Excess, TypeOK
  <2> QED  BY <2>1, <2>2
<1> QED  BY <1>2, <1>4, <1>6, <1>7 DEF BudgetInv

LEMMA SumGrows ==
  ASSUME NEW a \in Nat, NEW b \in Nat, NEW c \in Nat, b <= c
  PROVE  a + b \in Nat /\ a + c \in Nat /\ a + b <= a + c /\ (c = b + 1 => a + c = (a + b) + 1)
OBVIOUS

LEMMA PollStep ==
  ASSUME IInv, NEW s \in Slots, Poll(s)
  PROVE  IInv'
<1> USE SlotsAssumption, StaleAssumption DEF IInv
<1>0. PICK j \in DOMAIN jobs :
       /\ Claimable(j)
       /\ jobs' = [jobs EXCEPT ![j].status = "claimed", ![j].lockedBy = s,
                               ![j].age = 0, ![j].attempts = @ + 1]
       /\ run' = [run EXCEPT ![s] = [pc |-> "work", job |-> j, ran |-> 0]]
       /\ overtaken' = IF jobs[j].status = "claimed" /\ RunBySomeone(j)
                       THEN overtaken + 1 ELSE overtaken
  BY DEF Poll
<1>1. /\ OnlyRow(j)
      /\ jobs'[j].status = "claimed" /\ jobs'[j].lockedBy = s /\ jobs'[j].age = 0
      /\ jobs'[j].attempts = jobs[j].attempts + 1
  BY <1>0, PollEffect
<1>2. /\ run' \in [Slots -> SlotState] /\ OnlySlot(s)
      /\ run'[s].pc = "work" /\ run'[s].job = j /\ run'[s].ran = 0
  <2>1. [pc |-> "work", job |-> j, ran |-> 0] \in SlotState
    BY DEF SlotState, TypeOK
  <2> QED  BY <1>0, <2>1 DEF TypeOK, OnlySlot
<1>3. UNCHANGED <<worker, lost, retries>> /\ worker[Owner[s]] = "up" /\ ~Running(s)
  BY DEF Poll
<1>4. overtaken \in Nat /\ overtaken' \in Nat /\ overtaken <= overtaken'
  <2>1. CASE overtaken' = overtaken
    BY <2>1 DEF TypeOK
  <2>2. CASE overtaken' = overtaken + 1
    BY <2>2 DEF TypeOK
  <2> QED  BY <1>0, <2>1, <2>2
(* Nobody who heeds its context runs the claimed job: its claim is not stale. *)
<1>5. \A t \in Slots : Bounded(t) => run[t].job # j
  <2>1. SUFFICES ASSUME NEW t \in Slots, Bounded(t), run[t].job = j  PROVE FALSE
    OBVIOUS
  <2>2. jobs[j].status = "claimed" /\ jobs[j].age = run[t].ran
    BY <2>1 DEF RunnersHoldClaims, AgeInv
  <2>3. run[t].ran \in 0..HandlerDeadline
    BY DEF TypeOK, SlotState
  <2> QED  BY <1>0, <2>2, <2>3 DEF Claimable, Stale
<1>6. \A k \in DOMAIN jobs : jobs'[k].kind = jobs[k].kind
  BY <1>1 DEF OnlyRow
<1>7. TypeOK'
  BY <1>1, <1>2, <1>3, <1>4 DEF TypeOK, OnlyRow, OnlySlot
<1>8. \A t \in Slots \ {s} : /\ run'[t] = run[t] /\ (Running(t)' <=> Running(t))
                             /\ Running(t) => run[t].job \in DOMAIN jobs
                             /\ Bounded(t)' <=> Bounded(t)
  BY <1>2, <1>6 DEF OnlySlot, Bounded, Running, TypeOK
<1>9. RunnersHoldClaims' /\ AgeInv'
  <2>1. ASSUME NEW t \in Slots, t # s, Bounded(t)'
        PROVE  jobs'[run'[t].job] = jobs[run[t].job] /\ run'[t] = run[t] /\ Bounded(t)
    BY <1>1, <1>5, <1>8, <2>1 DEF OnlyRow, Bounded
  <2> QED  BY <1>1, <1>2, <2>1 DEF RunnersHoldClaims, AgeInv
<1>10. \A k \in DOMAIN jobs : HasLaterSweep(k) => HasLaterSweep(k)'
  BY <1>1, <1>6 DEF HasLaterSweep, OnlyRow
<1>11. ChainInv'
  <2>1. \A k \in DOMAIN jobs' : jobs'[k].kind = "sweep" /\ jobs'[k].status = "done" => HasLaterSweep(k)'
    BY <1>1, <1>6, <1>10 DEF ChainInv, OnlyRow
  <2>2. ASSUME NEW t \in Slots, run'[t].pc = "ok", jobs'[run'[t].job].kind = "sweep"
        PROVE  HasLaterSweep(run[t].job)'
    <3>1. t # s /\ run'[t] = run[t] /\ run[t].job \in DOMAIN jobs
      BY <1>2, <1>8, <2>2 DEF Running
    <3> QED  BY <1>6, <1>10, <2>2, <3>1 DEF ChainInv
  <2> QED  BY <1>2, <1>8, <2>1, <2>2 DEF ChainInv
<1>12. ASSUME NEW k \in DOMAIN jobs'  PROVE WithinBudget(k)'
  <2>1. k \in DOMAIN jobs /\ jobs'[k].kind = jobs[k].kind
    BY <1>1, <1>6, <1>12 DEF OnlyRow
  <2>2. PICK e \in Nat, f \in Nat :
          /\ e = Excess(jobs[k].kind) /\ f = Excess(jobs[k].kind)' /\ e <= f
          /\ ~HeedsContext(jobs[k].kind) /\ overtaken' = overtaken + 1 => f = e + 1
    <3>1. lost \in Nat
      BY DEF TypeOK
    <3>2. CASE HeedsContext(jobs[k].kind)
      <4>1. Excess(jobs[k].kind) = lost /\ Excess(jobs[k].kind)' = lost
        BY <1>3, <2>1, <3>2 DEF Excess
      <4> QED  BY <3>1, <3>2, <4>1
    <3>3. CASE ~HeedsContext(jobs[k].kind)
      <4>1. /\ Excess(jobs[k].kind) = lost + overtaken
            /\ Excess(jobs[k].kind)' = lost + overtaken'
        BY <1>3, <2>1, <3>3 DEF Excess
      <4>2. /\ lost + overtaken \in Nat /\ lost + overtaken' \in Nat
            /\ lost + overtaken <= lost + overtaken'
            /\ overtaken' = overtaken + 1 => lost + overtaken' = (lost + overtaken) + 1
        BY <1>4, <3>1, SumGrows
      <4> QED  BY <4>1, <4>2
    <3> QED  BY <3>2, <3>3
  <2>3. jobs[k].attempts \in Nat /\ MaxAttempts \in Nat
    BY <2>1, BudgetTypes
  <2>4. /\ jobs[k].attempts <= MaxAttempts + e
        /\ jobs[k].status \in {"queued", "failed"} => jobs[k].attempts < MaxAttempts + e
        /\ jobs[k].status = "claimed" /\ ~RunByLive(k) => jobs[k].attempts < MaxAttempts + e
    BY <2>1, <2>2 DEF BudgetInv, WithinBudget
  <2>5. CASE k = j
    <3>1. RunByLive(j)'
      BY <1>2, <1>3 DEF RunByLive, Running
    <3>2. jobs[j].attempts + 1 <= MaxAttempts + f
      <4>1. CASE jobs[j].status = "claimed" /\ RunByLive(j)
        <5>1. ~HeedsContext(jobs[j].kind)
          BY <1>5, <4>1 DEF RunByLive, Bounded
        <5>2. overtaken' = overtaken + 1
          BY <1>0, <4>1 DEF RunByLive, RunBySomeone
        <5>3. f = e + 1
          BY <2>2, <2>5, <5>1, <5>2
        <5> QED  BY <2>3, <2>4, <2>5, <5>3
      <4>2. CASE ~(jobs[j].status = "claimed" /\ RunByLive(j))
        <5>1. jobs[j].attempts < MaxAttempts + e
          BY <1>0, <2>4, <2>5, <4>2 DEF Claimable
        <5> QED  BY <2>2, <2>3, <2>5, <5>1
      <4> QED  BY <4>1, <4>2
    <3> QED  BY <1>1, <2>2, <2>5, <3>1, <3>2 DEF WithinBudget
  <2>6. CASE k # j
    <3>1. jobs'[k] = jobs[k]
      BY <1>1, <2>1, <2>6 DEF OnlyRow
    <3>2. RunByLive(k) => RunByLive(k)'
      BY <1>3, <1>8 DEF RunByLive
    <3>3. /\ jobs[k].attempts <= MaxAttempts + f
          /\ jobs[k].attempts < MaxAttempts + e => jobs[k].attempts < MaxAttempts + f
      BY <2>2, <2>3, <2>4
    <3> QED  BY <2>2, <2>4, <3>1, <3>2, <3>3 DEF WithinBudget
  <2> QED  BY <2>5, <2>6
<1> QED  BY <1>7, <1>9, <1>11, <1>12 DEF BudgetInv

(* One slot moves on while the table stands or grows. *)
LEMMA SlotMoves ==
  ASSUME IInv, NEW s \in Slots, Running(s), NEW pc \in {"work", "reschedule", "ok", "err"}, Goto(s, pc),
         NEW kind, Grows(kind) \/ jobs' = jobs, UNCHANGED <<worker, lost, overtaken, retries>>,
         pc = "ok" /\ jobs[run[s].job].kind = "sweep" => HasLaterSweep(run[s].job)'
  PROVE  IInv'
<1> USE SlotsAssumption DEF IInv
<1>1. /\ jobs' \in Seq(JobRow) /\ DOMAIN jobs \subseteq DOMAIN jobs'
      /\ \A k \in DOMAIN jobs : jobs'[k] = jobs[k]
      /\ \A k \in DOMAIN jobs' \ DOMAIN jobs : jobs'[k].status = "queued" /\ jobs'[k].attempts = 0
  BY DEF Grows, TypeOK
<1>2. /\ run' \in [Slots -> SlotState] /\ OnlySlot(s)
      /\ run'[s].pc = pc /\ run'[s].job = run[s].job /\ run'[s].ran = run[s].ran
  BY GotoEffect
<1>3. TypeOK'
  <2>1. \A t \in Slots : run'[t].pc # "idle" => run[t].pc # "idle" /\ run'[t].job = run[t].job
    BY <1>2 DEF OnlySlot, Running
  <2> QED  BY <1>1, <1>2, <2>1 DEF TypeOK
<1>4. \A t \in Slots : /\ Running(t)' <=> Running(t)
                       /\ run'[t].job = run[t].job /\ run'[t].ran = run[t].ran
  BY <1>2 DEF Running, OnlySlot
<1>5. RunnersHoldClaims' /\ AgeInv'
  <2>1. \A t \in Slots : Running(t) => run[t].job \in DOMAIN jobs
    BY DEF TypeOK, Running
  <2> QED  BY <1>1, <1>4, <2>1 DEF RunnersHoldClaims, AgeInv, Bounded
<1>6. \A j \in DOMAIN jobs : HasLaterSweep(j) => HasLaterSweep(j)'
  BY <1>1 DEF HasLaterSweep
<1>7. ChainInv'
  <2>1. \A j \in DOMAIN jobs' : jobs'[j].kind = "sweep" /\ jobs'[j].status = "done" => HasLaterSweep(j)'
    BY <1>1, <1>6 DEF ChainInv
  <2>2. ASSUME NEW t \in Slots, run'[t].pc = "ok", jobs'[run'[t].job].kind = "sweep"
        PROVE  HasLaterSweep(run[t].job)'
    <3>1. run'[t].job = run[t].job /\ run[t].job \in DOMAIN jobs
      BY <1>4, <2>2 DEF TypeOK, Running
    <3>2. CASE t = s
      BY <1>1, <1>2, <2>2, <3>1, <3>2
    <3>3. CASE t # s
      BY <1>1, <1>2, <1>6, <2>2, <3>1, <3>3 DEF ChainInv, OnlySlot
    <3> QED  BY <3>2, <3>3
  <2>3. \A t \in Slots : run'[t].job = run[t].job
    BY <1>4
  <2> QED  BY <2>1, <2>2, <2>3 DEF ChainInv
<1>8. ASSUME NEW j \in DOMAIN jobs'  PROVE WithinBudget(j)'
  <2>1. CASE j \in DOMAIN jobs
    <3>1. RunByLive(j) => RunByLive(j)'
      BY <1>4 DEF RunByLive
    <3> QED  BY <1>1, <2>1, <3>1 DEF BudgetInv, WithinBudget, Excess
  <2>2. CASE j \notin DOMAIN jobs
    BY <1>1, <1>8, <2>2, AttemptsAssumption DEF WithinBudget, Excess, TypeOK
  <2> QED  BY <2>1, <2>2
<1> QED  BY <1>3, <1>5, <1>7, <1>8 DEF BudgetInv

LEMMA WorkStep ==
  ASSUME IInv, NEW s \in Slots, Work(s)
  PROVE  IInv'
<1>1. Running(s) /\ jobs' = jobs /\ UNCHANGED <<worker, lost, overtaken, retries>>
  BY DEF Work, Running
<1>2. PICK pc \in {"reschedule", "ok", "err"} :
        Goto(s, pc) /\ (pc = "ok" => jobs[run[s].job].kind # "sweep")
  BY DEF Work, AfterWork
<1> QED  BY <1>1, <1>2, SlotMoves

LEMMA RescheduleStep ==
  ASSUME IInv, NEW s \in Slots, Reschedule(s)
  PROVE  IInv'
<1>1. Running(s) /\ UNCHANGED <<worker, lost, overtaken, retries>>
  BY DEF Reschedule, Running
<1>2. CASE jobs' = jobs /\ Goto(s, "err")  BY <1>1, <1>2, SlotMoves
<1>3. CASE Successor /\ (Goto(s, "ok") \/ Goto(s, "err"))
  <2>1. Grows("sweep") /\ DOMAIN jobs' # DOMAIN jobs
    BY <1>3, EnqueueEffect DEF Successor, IInv, Kinds
  <2>2. HasLaterSweep(run[s].job)'
    <3>1. PICK k \in DOMAIN jobs' \ DOMAIN jobs : TRUE
      BY <2>1 DEF Grows
    <3>2. k > run[s].job /\ jobs'[k].kind = "sweep"
      BY <1>1, <2>1, OnlyRunner DEF Grows
    <3>3. run'[s].job = run[s].job
      BY <1>3, GotoEffect DEF IInv
    <3> QED  BY <3>2, <3>3 DEF HasLaterSweep
  <2>3. run'[s].job = run[s].job
    BY <1>3, GotoEffect DEF IInv
  <2> QED  BY <1>1, <1>3, <2>1, <2>2, <2>3, SlotMoves
<1> QED  BY <1>2, <1>3 DEF Reschedule

(* The slot is freed. *)
LEMMA Freed ==
  ASSUME IInv, NEW s \in Slots, Running(s), Release(s)
  PROVE  /\ run' \in [Slots -> SlotState] /\ ~Running(s)'
         /\ \A t \in Slots \ {s} : run'[t] = run[t] /\ (Running(t)' <=> Running(t))
BY ReleaseEffect DEF IInv, OnlySlot, Running

(* Slots are freed or workers change while the table stands. *)
LEMMA TableStands ==
  ASSUME IInv, jobs' = jobs, run' \in [Slots -> SlotState],
         worker' \in [Workers -> {"down", "up", "draining"}], lost' \in Nat, retries' = retries,
         overtaken' = overtaken,
         \A t \in Slots : run'[t] = run[t] \/ run'[t].pc = "idle",
         \A j \in DOMAIN jobs : WithinBudget(j)'
  PROVE  IInv'
<1> USE DEF IInv
<1>1. TypeOK'
  BY DEF TypeOK
<1>2. RunnersHoldClaims' /\ AgeInv'
  BY DEF RunnersHoldClaims, AgeInv, Bounded, Running
<1>3. ChainInv'
  BY DEF ChainInv, HasLaterSweep
<1>4. BudgetInv'
  BY DEF BudgetInv
<1> QED  BY <1>1, <1>2, <1>3, <1>4

(* An event that counts in lost leaves room for one more attempt everywhere. *)
LEMMA LossMakesRoom ==
  ASSUME IInv, jobs' = jobs, lost' = lost + 1, overtaken' = overtaken, NEW j \in DOMAIN jobs
  PROVE  WithinBudget(j)'
<1> DEFINE e == Excess(jobs[j].kind)
<1>1. jobs[j].attempts <= MaxAttempts + e
  BY DEF IInv, BudgetInv, WithinBudget
<1>2. jobs[j].attempts \in Nat /\ e \in Nat /\ MaxAttempts \in Nat
  BY BudgetTypes
<1>3. Excess(jobs[j].kind)' = e + 1
  BY BudgetTypes DEF Excess
<1> QED  BY <1>1, <1>2, <1>3 DEF WithinBudget

(* A late sender finds the row already settled, and changes nothing; or some *)
(* goroutine's claim is on it, perhaps another's, and is settled.            *)
LEMMA ResultStep ==
  ASSUME IInv, NEW s \in Slots, CompleteJob(s) \/ FailJob(s)
  PROVE  IInv'
<1> USE SlotsAssumption DEF IInv
<1> DEFINE j == run[s].job
<1>1. /\ Running(s) /\ Release(s) /\ UNCHANGED <<worker, lost, overtaken, retries>>
  BY DEF CompleteJob, FailJob, Running
<1>2. j \in DOMAIN jobs /\ \A t \in Slots \ {s} : Bounded(t) => run[t].job # j
  BY <1>1, OnlyRunner
<1>3. PICK status \in {"done", "failed", "dead"} :
        /\ SetResult(j, status)
        /\ status = "done" => run[s].pc = "ok"
        /\ status = "failed" => ~Exhausted(j)
  BY DEF CompleteJob, FailJob
<1> HIDE DEF j
<1>4. /\ run' \in [Slots -> SlotState] /\ run'[s].pc = "idle" /\ ~Running(s)'
      /\ \A t \in Slots \ {s} : run'[t] = run[t] /\ (Running(t)' <=> Running(t))
  BY <1>1, Freed DEF Running
<1>5. \A k \in DOMAIN jobs : k # j /\ RunByLive(k) => RunByLive(k)'
  BY <1>1, <1>4 DEF RunByLive, j
<1>6. CASE jobs[j].status # "claimed"
  <2>1. jobs' = jobs
    BY <1>3, <1>6 DEF SetResult
  <2>2. ASSUME NEW k \in DOMAIN jobs  PROVE WithinBudget(k)'
    <3>1. Excess(jobs[k].kind)' = Excess(jobs[k].kind)
      BY <1>1, <2>1 DEF Excess
    <3> QED  BY <1>1, <1>5, <1>6, <2>1, <2>2, <3>1 DEF BudgetInv, WithinBudget
  <2> QED  BY <1>1, <1>4, <2>1, <2>2, TableStands DEF TypeOK
<1>7. CASE jobs[j].status = "claimed"
  <2>1. OnlyRow(j) /\ jobs'[j].status = status /\ jobs'[j].attempts = jobs[j].attempts
    BY <1>2, <1>3, <1>7, ResultEffect
  <2>2. \A k \in DOMAIN jobs : jobs'[k].kind = jobs[k].kind
    BY <2>1 DEF OnlyRow
  <2>3. TypeOK'
    BY <1>1, <1>4, <2>1 DEF TypeOK, OnlyRow, Running
  <2>4. RunnersHoldClaims' /\ AgeInv'
    <3>1. ASSUME NEW t \in Slots, Bounded(t)'
          PROVE  jobs'[run'[t].job] = jobs[run[t].job] /\ run'[t] = run[t] /\ Bounded(t)
      <4>1. t # s /\ run'[t] = run[t] /\ Running(t) /\ run[t].job \in DOMAIN jobs
        BY <1>4, <3>1 DEF Bounded, TypeOK, Running
      <4>2. Bounded(t)
        BY <2>2, <3>1, <4>1 DEF Bounded
      <4> QED  BY <1>2, <2>1, <4>1, <4>2 DEF OnlyRow
    <3> QED  BY <3>1 DEF RunnersHoldClaims, AgeInv
  <2>5. \A k \in DOMAIN jobs : HasLaterSweep(k) => HasLaterSweep(k)'
    BY <2>1, <2>2 DEF HasLaterSweep, OnlyRow
  <2>6. jobs[j].kind = "sweep" /\ status = "done" => HasLaterSweep(j)
    BY <1>3 DEF ChainInv, j
  <2>7. ChainInv'
    <3>1. \A k \in DOMAIN jobs' : jobs'[k].kind = "sweep" /\ jobs'[k].status = "done" => HasLaterSweep(k)'
      BY <1>2, <2>1, <2>2, <2>5, <2>6 DEF ChainInv, OnlyRow
    <3>2. ASSUME NEW t \in Slots, run'[t].pc = "ok", jobs'[run'[t].job].kind = "sweep"
          PROVE  HasLaterSweep(run[t].job)'
      <4>1. t # s /\ run'[t] = run[t] /\ run[t].job \in DOMAIN jobs
        BY <1>4, <3>2 DEF Running, TypeOK
      <4> QED  BY <2>2, <2>5, <3>2, <4>1 DEF ChainInv, HasLaterSweep
    <3>3. \A t \in Slots : run'[t].pc = "ok" => run'[t] = run[t]
      BY <1>4
    <3> QED  BY <3>1, <3>2, <3>3 DEF ChainInv
  <2>8. ASSUME NEW k \in DOMAIN jobs'  PROVE WithinBudget(k)'
    <3>1. k \in DOMAIN jobs /\ jobs'[k].kind = jobs[k].kind
      BY <2>1, <2>2, <2>8 DEF OnlyRow
    <3>2. PICK e \in Nat : e = Excess(jobs[k].kind) /\ e = Excess(jobs[k].kind)'
      BY <1>1, <3>1, BudgetTypes DEF Excess
    <3>3. jobs[k].attempts \in Nat /\ MaxAttempts \in Nat
      BY <3>1, BudgetTypes
    <3>4. WithinBudget(k)
      BY <3>1 DEF BudgetInv
    <3>5. CASE k = j
      <4>1. status = "failed" => jobs[j].attempts < MaxAttempts
        BY <1>3, <3>3, <3>5 DEF Exhausted
      <4>2. jobs[k].attempts <= MaxAttempts + e
        BY <3>2, <3>4 DEF WithinBudget
      <4>3. status = "failed" => jobs[j].attempts < MaxAttempts + e
        BY <3>2, <3>3, <3>5, <4>1
      <4>4. status # "queued" /\ status # "claimed"
        OBVIOUS
      <4> QED  BY <2>1, <3>2, <3>5, <4>2, <4>3, <4>4 DEF WithinBudget
    <3>6. CASE k # j
      <4>1. jobs'[k] = jobs[k]
        BY <2>1, <3>1, <3>6 DEF OnlyRow
      <4> QED  BY <1>5, <3>1, <3>2, <3>4, <3>6, <4>1 DEF WithinBudget
    <3> QED  BY <3>5, <3>6
  <2> QED  BY <2>3, <2>4, <2>7, <2>8 DEF BudgetInv
<1> QED  BY <1>6, <1>7

LEMMA StopStep ==
  ASSUME IInv
  PROVE  /\ \A s \in Slots : ResultDropped(s) \/ ResultNotRecorded(s) => IInv'
         /\ \A w \in Workers : Terminate(w) \/ Drained(w) \/ Crash(w) => IInv'
<1> USE SlotsAssumption DEF IInv
<1>1. ASSUME NEW s \in Slots, ResultDropped(s)  PROVE IInv'
  <2>1. /\ Running(s) /\ Release(s) /\ worker[Owner[s]] = "draining"
        /\ UNCHANGED <<jobs, worker, lost, overtaken, retries>>
    BY <1>1 DEF ResultDropped, Running
  <2>2. /\ run' \in [Slots -> SlotState] /\ run'[s].pc = "idle"
        /\ \A t \in Slots \ {s} : run'[t] = run[t] /\ (Running(t)' <=> Running(t))
    BY <2>1, Freed DEF Running
  <2>3. ASSUME NEW j \in DOMAIN jobs  PROVE WithinBudget(j)'
    <3>1. RunByLive(j) => RunByLive(j)'
      BY <2>1, <2>2 DEF RunByLive
    <3> QED  BY <2>1, <3>1 DEF BudgetInv, WithinBudget, Excess
  <2> QED  BY <2>1, <2>2, <2>3, TableStands DEF TypeOK
<1>2. ASSUME NEW s \in Slots, ResultNotRecorded(s)  PROVE IInv'
  <2>1. /\ Running(s) /\ Release(s) /\ lost' = lost + 1 /\ UNCHANGED <<jobs, worker, overtaken, retries>>
    BY <1>2 DEF ResultNotRecorded, Running
  <2>2. /\ run' \in [Slots -> SlotState] /\ run'[s].pc = "idle"
        /\ \A t \in Slots \ {s} : run'[t] = run[t]
    BY <2>1, Freed DEF Running
  <2> QED  BY <2>1, <2>2, LossMakesRoom, TableStands DEF TypeOK
<1>3. ASSUME NEW w \in Workers, Terminate(w)  PROVE IInv'
  BY <1>3, LossMakesRoom, TableStands DEF Terminate, TypeOK
<1>4. ASSUME NEW w \in Workers, Drained(w)  PROVE IInv'
  <2>1. ASSUME NEW j \in DOMAIN jobs  PROVE WithinBudget(j)'
    <3>1. RunByLive(j) => RunByLive(j)'
      BY <1>4 DEF Drained, RunByLive, Running, TypeOK
    <3> QED  BY <1>4, <3>1 DEF Drained, BudgetInv, WithinBudget, Excess
  <2> QED  BY <1>4, <2>1, TableStands DEF Drained, TypeOK
<1>5. ASSUME NEW w \in Workers, Crash(w)  PROVE IInv'
  BY <1>5, LossMakesRoom, TableStands, IdleTyped DEF Crash, TypeOK
<1> QED  BY <1>1, <1>2, <1>3, <1>4, <1>5

LEMMA RetryStep ==
  ASSUME IInv, NEW j \in DOMAIN jobs, RetryJob(j)
  PROVE  IInv'
<1> USE DEF IInv
<1>1. /\ OnlyRow(j) /\ jobs'[j].status = "queued" /\ jobs'[j].attempts = 0
      /\ jobs[j].status \in {"dead", "failed"}
      /\ UNCHANGED <<worker, run, lost, overtaken>> /\ retries' \in Nat
  <2>1. jobs' = [jobs EXCEPT ![j].status = "queued", ![j].attempts = 0,
                             ![j].lockedBy = None, ![j].age = 0]
    BY DEF RetryJob
  <2>2. retries' \in Nat /\ jobs[j].status \in {"dead", "failed"} /\ UNCHANGED <<worker, run, lost, overtaken>>
    BY DEF RetryJob, TypeOK
  <2> QED  BY <2>1, <2>2, RetryEffect
<1>2. \A s \in Slots : Bounded(s) => run[s].job # j
  BY <1>1 DEF RunnersHoldClaims
<1>3. TypeOK'
  BY <1>1 DEF TypeOK, OnlyRow
<1>4. RunnersHoldClaims' /\ AgeInv'
  <2>1. ASSUME NEW t \in Slots, Bounded(t)'
        PROVE  jobs'[run[t].job] = jobs[run[t].job] /\ Bounded(t)
    <3>1. Running(t) /\ run[t].job \in DOMAIN jobs
      BY <1>1, <2>1 DEF Bounded, Running, TypeOK
    <3>2. Bounded(t)
      BY <1>1, <2>1, <3>1 DEF Bounded, OnlyRow
    <3> QED  BY <1>1, <1>2, <3>1, <3>2 DEF OnlyRow
  <2> QED  BY <1>1, <2>1 DEF RunnersHoldClaims, AgeInv
<1>5. \A k \in DOMAIN jobs : jobs'[k].kind = jobs[k].kind /\ (HasLaterSweep(k) => HasLaterSweep(k)')
  BY <1>1 DEF HasLaterSweep, OnlyRow
<1>6. ChainInv'
  BY <1>1, <1>5 DEF ChainInv, TypeOK, Running, OnlyRow
<1>7. ASSUME NEW k \in DOMAIN jobs'  PROVE WithinBudget(k)'
  <2>1. CASE k = j
    <3>1. PICK e \in Nat : e = Excess(jobs[j].kind)'
      BY <1>1, BudgetTypes DEF Excess, OnlyRow
    <3>2. 0 < MaxAttempts + e /\ 0 <= MaxAttempts + e
      BY <3>1, AttemptsAssumption
    <3> QED  BY <1>1, <2>1, <3>1, <3>2 DEF WithinBudget
  <2>2. CASE k # j
    <3>1. k \in DOMAIN jobs /\ jobs'[k] = jobs[k]
      BY <1>1, <1>7, <2>2 DEF OnlyRow
    <3>2. RunByLive(k) => RunByLive(k)'
      BY <1>1 DEF RunByLive, Running
    <3> QED  BY <1>1, <3>1, <3>2 DEF BudgetInv, WithinBudget, Excess
  <2> QED  BY <2>1, <2>2
<1> QED  BY <1>3, <1>4, <1>6, <1>7 DEF BudgetInv

LEMMA TickStep ==
  ASSUME IInv, Tick
  PROVE  IInv'
<1> USE SlotsAssumption, StaleAssumption DEF IInv
<1> DEFINE row(j) == [jobs[j] EXCEPT !.age = Older(@)]
<1>1. ASSUME NEW j \in DOMAIN jobs
      PROVE  /\ row(j) \in JobRow /\ row(j).age = Older(jobs[j].age) /\ row(j).kind = jobs[j].kind
             /\ row(j).status = jobs[j].status /\ row(j).attempts = jobs[j].attempts
             /\ row(j).lockedBy = jobs[j].lockedBy
  <2>1. jobs[j] \in JobRow /\ jobs[j].age \in 0..StaleThreshold
    BY <1>1, RowFields DEF TypeOK
  <2>2. Older(jobs[j].age) \in 0..StaleThreshold
    BY <2>1 DEF Older
  <2> DEFINE a == Older(jobs[j].age)
  <2>3. row(j) = [jobs[j] EXCEPT !.age = a]
    OBVIOUS
  <2> HIDE DEF a, row
  <2>4. a \in 0..StaleThreshold
    BY <2>2 DEF a
  <2>5. /\ row(j) \in JobRow /\ row(j).age = a /\ row(j).kind = jobs[j].kind
        /\ row(j).status = jobs[j].status /\ row(j).attempts = jobs[j].attempts
        /\ row(j).lockedBy = jobs[j].lockedBy
    BY <2>1, <2>3, <2>4 DEF JobRow
  <2> QED  BY <2>5 DEF a
<1>2. jobs' = [j \in DOMAIN jobs |-> IF jobs[j].status = "claimed" THEN row(j) ELSE jobs[j]]
  BY DEF Tick
<1> HIDE DEF row
<1>3. /\ jobs' \in Seq(JobRow) /\ DOMAIN jobs' = DOMAIN jobs
      /\ \A j \in DOMAIN jobs : /\ jobs'[j].kind = jobs[j].kind /\ jobs'[j].status = jobs[j].status
                                /\ jobs'[j].attempts = jobs[j].attempts
                                /\ jobs'[j].lockedBy = jobs[j].lockedBy
                                /\ jobs[j].status = "claimed" => jobs'[j].age = Older(jobs[j].age)
  <2>1. \A j \in DOMAIN jobs : jobs[j] \in JobRow
    BY RowFields DEF TypeOK
  <2>2. DOMAIN jobs = 1..Len(jobs) /\ Len(jobs) \in Nat
    BY DEF TypeOK
  <2> QED  BY <1>1, <1>2, <2>1, <2>2
<1>4. ASSUME NEW s \in Slots
      PROVE  /\ run'[s] \in SlotState /\ run'[s].pc = run[s].pc /\ run'[s].job = run[s].job
             /\ Bounded(s) => run'[s].ran = run[s].ran + 1 /\ run[s].ran < HandlerDeadline
  <2>1. run[s] \in SlotState /\ run[s].ran \in 0..HandlerDeadline
    BY DEF TypeOK, SlotState
  <2>2. CASE ~Running(s)
    BY <2>1, <2>2 DEF Tick, Bounded
  <2>3. CASE Running(s)
    <3>1. PICK n : n = Longer(run[s].ran)
      OBVIOUS
    <3>2. n \in 0..HandlerDeadline /\ (run[s].ran < HandlerDeadline => n = run[s].ran + 1)
      BY <2>1, <3>1 DEF Longer
    <3>3. Bounded(s) => run[s].ran < HandlerDeadline
      BY DEF Tick, WithinDeadline
    <3>4. run'[s] = [run[s] EXCEPT !.ran = n]
      BY <2>3, <3>1 DEF Tick
    <3>5. /\ run'[s] \in SlotState /\ run'[s].pc = run[s].pc /\ run'[s].job = run[s].job
          /\ run'[s].ran = n
      BY <2>1, <3>2, <3>4 DEF SlotState
    <3> QED  BY <3>2, <3>3, <3>5
  <2> QED  BY <2>2, <2>3
<1>5. run' \in [Slots -> SlotState] /\ UNCHANGED <<worker, lost, overtaken, retries>>
  <2>1. run' = [s \in Slots |-> run'[s]]
    BY DEF Tick
  <2> QED  BY <1>4, <2>1 DEF Tick
<1>6. TypeOK'
  BY <1>3, <1>4, <1>5 DEF TypeOK
<1>7. \A s \in Slots : /\ Running(s)' <=> Running(s)
                       /\ Running(s) => run[s].job \in DOMAIN jobs
                       /\ Bounded(s)' <=> Bounded(s)
  <2> SUFFICES ASSUME NEW s \in Slots
               PROVE  /\ Running(s)' <=> Running(s)
                      /\ Running(s) => run[s].job \in DOMAIN jobs
                      /\ Bounded(s)' <=> Bounded(s)
    OBVIOUS
  <2>1. /\ Running(s)' <=> Running(s)
        /\ Running(s) => run[s].job \in DOMAIN jobs
    BY <1>4 DEF Running, TypeOK
  <2>2. Running(s) => jobs'[run'[s].job].kind = jobs[run[s].job].kind
    BY <1>3, <1>4, <2>1
  <2> QED  BY <2>1, <2>2 DEF Bounded
<1>8. RunnersHoldClaims'
  <2>1. \A s \in Slots : Bounded(s) => Running(s)
    BY DEF Bounded
  <2> QED  BY <1>3, <1>4, <1>7, <2>1 DEF RunnersHoldClaims
<1>9. AgeInv'
  <2>1. SUFFICES ASSUME NEW s \in Slots, Bounded(s)  PROVE jobs'[run'[s].job].age = run'[s].ran
    BY <1>7 DEF AgeInv
  <2>2. /\ run[s].job \in DOMAIN jobs /\ jobs[run[s].job].status = "claimed"
        /\ jobs[run[s].job].age = run[s].ran
    BY <1>7, <2>1 DEF RunnersHoldClaims, AgeInv, Bounded
  <2>3. run[s].ran \in Nat
    BY DEF TypeOK, SlotState
  <2> QED  BY <1>3, <1>4, <2>1, <2>2, <2>3 DEF Older
<1>10. ChainInv'
  <2>1. \A j \in DOMAIN jobs : HasLaterSweep(j) => HasLaterSweep(j)'
    BY <1>3 DEF HasLaterSweep
  <2> QED  BY <1>3, <1>4, <1>7, <2>1 DEF ChainInv, Running
<1>11. BudgetInv'
  <2>1. \A j : RunByLive(j) => RunByLive(j)'
    BY <1>4, <1>5, <1>7 DEF RunByLive
  <2>2. \A j \in DOMAIN jobs : Excess(jobs[j].kind)' = Excess(jobs[j].kind)
    BY <1>3, <1>5 DEF Excess
  <2> QED  BY <1>3, <2>1, <2>2 DEF BudgetInv, WithinBudget
<1> QED  BY <1>6, <1>8, <1>9, <1>10, <1>11

LEMMA NextHolds ==
  ASSUME IInv, [Next]_vars
  PROVE  IInv'
<1>1. CASE Enqueue
  <2>1. PICK kind \in {"once", "mail"} : EnqueueJob(kind)
    BY <1>1 DEF Enqueue
  <2>2. Grows(kind)
    BY <2>1, EnqueueEffect DEF IInv, Kinds
  <2>3. UNCHANGED <<worker, run, lost, overtaken, retries>>
    BY <1>1 DEF Enqueue
  <2> QED  BY <2>2, <2>3, GrowStep DEF IInv, TypeOK
<1>2. ASSUME NEW w \in Workers, StartWorker(w)  PROVE IInv'
  <2>1. Grows("sweep") \/ jobs' = jobs
    BY <1>2, EnqueueEffect DEF StartWorker, IInv, Kinds
  <2>2. /\ worker' = [worker EXCEPT ![w] = "up"] /\ UNCHANGED <<run, lost, overtaken, retries>>
        /\ worker \in [Workers -> {"down", "up", "draining"}]
    BY <1>2 DEF StartWorker, IInv, TypeOK
  <2>3. /\ worker' \in [Workers -> {"down", "up", "draining"}]
        /\ \A v \in Workers : worker[v] = "up" => worker'[v] = "up"
    BY <2>2
  <2> QED  BY <2>1, <2>2, <2>3, GrowStep
<1>3. ASSUME NEW w \in Workers, Terminate(w) \/ Drained(w) \/ Crash(w)  PROVE IInv'
  BY <1>3, StopStep
<1>4. ASSUME NEW s \in Slots, Poll(s) \/ Continue(s) \/ ResultNotRecorded(s)  PROVE IInv'
  BY <1>4, PollStep, WorkStep, RescheduleStep, ResultStep, StopStep DEF Continue
<1>5. ASSUME NEW j \in DOMAIN jobs, RetryJob(j)  PROVE IInv'
  BY <1>5, RetryStep
<1>6. CASE Tick  BY <1>6, TickStep
<1>7. CASE UNCHANGED vars
  BY <1>7 DEF vars, IInv, TypeOK, RunnersHoldClaims, AgeInv, ChainInv, HasLaterSweep, BudgetInv,
     WithinBudget, RunByLive, Running, Bounded, Excess
<1> QED  BY <1>1, <1>2, <1>3, <1>4, <1>5, <1>6, <1>7 DEF Next

LEMMA Invariance == Spec => []IInv
BY InitHolds, NextHolds, PTL DEF Spec

-----------------------------------------------------------------------------

(***************************************************************************)
(* Every reachable state has the declared shape (TypeOK); in particular a  *)
(* goroutine is only ever at work on a row of the table.                   *)
(***************************************************************************)
THEOREM TypeCorrect == Spec => []TypeOK
<1>1. IInv => TypeOK
  BY DEF IInv
<1> QED  BY <1>1, Invariance, PTL

(***************************************************************************)
(* A job whose handler heeds its context is executed by the goroutine that *)
(* holds its claim and by no other (RunnersHoldClaims), for any number of  *)
(* workers and any pool sizes, whatever the senders of mails do, who heed  *)
(* nothing and may run for ever.  Nothing of the kind holds for a mail.    *)
(***************************************************************************)
THEOREM ClaimsExclusive == Spec => []RunnersHoldClaims
<1>1. IInv => RunnersHoldClaims
  BY DEF IInv
<1> QED  BY <1>1, Invariance, PTL

(***************************************************************************)
(* Crashes, stops, lost results and retries never break the chain of       *)
(* sweeps (SweepChain).                                                    *)
(***************************************************************************)
THEOREM ChainUnbroken == Spec => []SweepChain
<1>1. IInv => SweepChain
  BY DEF IInv, ChainInv, HasLaterSweep, SweepChain
<1> QED  BY <1>1, Invariance, PTL

(***************************************************************************)
(* A job overruns max_attempts at most once per event that lost a result,  *)
(* and a mail once more per claim taken over from a live handler           *)
(* (AttemptsAccounted).                                                    *)
(***************************************************************************)
THEOREM BudgetKept == Spec => []AttemptsAccounted
<1>1. IInv => AttemptsAccounted
  BY DEF IInv, BudgetInv, WithinBudget, AttemptsAccounted
<1> QED  BY <1>1, Invariance, PTL

=============================================================================
