------------------------------- MODULE AiJobs -------------------------------
(***************************************************************************)
(* Asynchronous generation jobs, ai/jobs.rs: a request reserves money,     *)
(* submits a job to the provider and stores it in ai_generation_jobs; a    *)
(* worker claims due jobs under a lease (next_poll_at), polls the          *)
(* provider, caches the assets and captures or releases the hold; the back *)
(* office and the customer's own back end retry, cancel, fail or refund    *)
(* jobs at any time.                                                       *)
(*                                                                         *)
(* Every mark_job_* statement is an unconditional update by id, so a       *)
(* worker whose lease has run out still writes.  A worker here is one job  *)
(* of one batch of one process: a batch of several jobs is several workers *)
(* that claim together.  A job has the id of its usage record.             *)
(***************************************************************************)
EXTENDS AiWallet

CONSTANTS
    IdemKeys,     \* triples of server key, job type and Idempotency-Key header
    NoIdem,       \* a request without the header
    Holds,        \* amounts estimate_generation_hold_minor may return
    Workers,      \* jobs being processed at the same time
    Operators,    \* operator requests being handled at the same time
    OpKinds,      \* the operator requests that are made
    MaxAttempts,  \* DEFAULT_MAX_ATTEMPTS
    MaxErrors,    \* bound on failed steps, stopped processes and lost submissions
    MaxOps        \* bound on operator requests

VARIABLES
    call,      \* the handler that creates a job, per job
    provider,  \* the provider's side of a job
    job,       \* ai_generation_jobs
    worker,    \* the worker's locals
    op,        \* the locals of an operator request
    billed,    \* per usage, what capture entries took less what refund entries gave
    errors,    \* how many steps have failed
    ops        \* how many operator requests were made

vars == <<walletVars, call, provider, job, worker, op, billed, errors, ops>>

Jobs == Usages

None == "none"

ASSUME JobsAssumption ==
    /\ Customers /= {} /\ Models /= {}
    /\ NoIdem \notin IdemKeys /\ None \notin Jobs
    /\ Holds \subseteq Nat
    /\ OpKinds \subseteq {"retry_poll", "retry_cache", "fail_release", "refund", "cancel"}
    /\ MaxAttempts \in Nat \ {0} /\ MaxErrors \in Nat /\ MaxOps \in Nat

JobStatus == {"none", "submitted", "running", "caching", "succeeded",
              "provider_failed", "failed", "cancelled", "timeout_review"}

\* What the provider says of a job, and what provider_result_response holds.
Answer == {"none", "pending", "ok", "failed"}

\* next_poll_at: null, in the future, or due.
Schedule == {"null", "later", "due"}

\* attempts is only compared with MaxAttempts and is kept up to it.
JobRow == [status : JobStatus, attempts : 0 .. MaxAttempts, next : Schedule,
           charged : Nat, refunded : Nat, result : Answer]

CallState == [pc : {"new", "reserving", "submitting", "inserting", "ended"},
              customer : Customers, idem : IdemKeys \cup {NoIdem},
              model : Models, hold : Nat]

WorkerState == [pc : {"idle", "polling", "polled", "caching", "succeeding", "erring"},
                job : Jobs \cup {None}, attempts : 0 .. MaxAttempts, poll : Answer]

OpState == [pc : {"idle", "retry_poll", "retry_cache", "fail_release", "refund",
                  "caching", "succeeding"},
            job : Jobs \cup {None}, seen : JobRow]

TypeOK ==
    /\ WalletTypeOK
    /\ call \in [Jobs -> CallState]
    /\ provider \in [Jobs -> Answer]
    /\ job \in [Jobs -> JobRow]
    /\ worker \in [Workers -> WorkerState]
    /\ op \in [Operators -> OpState]
    /\ billed \in [Jobs -> Int]
    /\ errors \in Nat /\ ops \in Nat

NoJob == [status |-> "none", attempts |-> 0, next |-> "null", charged |-> 0,
          refunded |-> 0, result |-> "none"]

IdleWorker == [pc |-> "idle", job |-> None, attempts |-> 0, poll |-> "none"]

IdleOp == [pc |-> "idle", job |-> None, seen |-> NoJob]

Init ==
    /\ WalletInit
    /\ call = [j \in Jobs |-> [pc |-> "new", customer |-> CHOOSE c \in Customers : TRUE,
                               idem |-> NoIdem, model |-> CHOOSE m \in Models : TRUE,
                               hold |-> 0]]
    /\ provider = [j \in Jobs |-> "none"]
    /\ job = [j \in Jobs |-> NoJob]
    /\ worker = [w \in Workers |-> IdleWorker]
    /\ op = [o \in Operators |-> IdleOp]
    /\ billed = [j \in Jobs |-> 0]
    /\ errors = 0 /\ ops = 0

-----------------------------------------------------------------------------
(***************************************************************************)
(* Statements on ai_generation_jobs.                                       *)
(***************************************************************************)

MarkJobRunning(j) ==
    job' = [job EXCEPT ![j].status = "running", ![j].result = "pending",
                       ![j].next = "later"]

MarkJobProviderSucceeded(j, result) ==
    job' = [job EXCEPT ![j].status = "caching", ![j].result = result,
                       ![j].next = "later"]

MarkJobSucceeded(j, result) ==
    job' = [job EXCEPT ![j].status = "succeeded", ![j].result = result,
                       ![j].charged = call[j].hold, ![j].next = "null"]

MarkJobCachingFailed(j) ==
    job' = [job EXCEPT ![j].status = "caching", ![j].result = "ok",
                       ![j].next = "later"]

UpdateJobFailed(j, status, result, refunded) ==
    job' = [job EXCEPT ![j].status = status, ![j].result = result,
                       ![j].refunded = refunded, ![j].next = "null"]

MarkJobPollError(j, attempts) ==
    job' = [job EXCEPT ![j].status = IF attempts >= MaxAttempts
                                     THEN "timeout_review" ELSE "running",
                       ![j].next = IF attempts >= MaxAttempts
                                   THEN "null" ELSE "later"]

-----------------------------------------------------------------------------
(***************************************************************************)
(* Transactions on the usage record and the wallet.                        *)
(***************************************************************************)

Owner(j) == call[j].customer

\* Mutant: a capture does not look at the status of the usage record.
CaptureUsageAlways(j) ==
    /\ Capture(Owner(j), j, call[j].hold)
    /\ billed' = [billed EXCEPT ![j] = @ + usage'[j].charged]

\* capture_usage: a record that was captured already is left alone.
CaptureUsage(j) ==
    \/ /\ usage[j].status = "succeeded"
       /\ UNCHANGED <<walletVars, billed>>
    \/ /\ usage[j].status /= "succeeded"
       /\ Capture(Owner(j), j, call[j].hold)
       /\ billed' = [billed EXCEPT ![j] = @ + usage'[j].charged]

\* The check constraint of ai_wallets refuses the update of capture_usage.
CaptureRefused(j) ==
    /\ usage[j].status /= "succeeded"
    /\ ~RowAllowed(CapturedRow(Owner(j), j, call[j].hold))

Unsettled(j) == usage[j].status \notin {"failed", "succeeded"}

\* Mutant: the hold is released whatever the status of the record.
ReleaseAlways(j, body) == Release(Owner(j), j, body)

\* The release that fail_job_and_release_usage, fail_admin_job_and_release_usage
\* and cancel_server_job_and_release_usage have in common.
ReleaseUnsettled(j, body) ==
    \/ /\ Unsettled(j)
       /\ Release(Owner(j), j, body)
    \/ /\ ~Unsettled(j)
       /\ UNCHANGED walletVars

\* The check constraint refuses the update of a release.
ReleaseRefused(j) == Unsettled(j) /\ ~RowAllowed(ReleasedRow(Owner(j), j))

-----------------------------------------------------------------------------
(***************************************************************************)
(* create_server_generation_job.                                           *)
(***************************************************************************)

\* find_idempotent_job: a stored job with the same key is the answer.
BeginCall(j) ==
    /\ call[j].pc = "new"
    /\ \E c \in Customers, i \in IdemKeys \cup {NoIdem}, m \in Models, h \in Holds :
         LET stored == \E k \in Jobs : /\ job[k].status /= "none" /\ i /= NoIdem
                                       /\ call[k].customer = c /\ call[k].idem = i
         IN  call' = [call EXCEPT ![j] = [pc |-> IF stored THEN "ended" ELSE "reserving",
                                          customer |-> c, idem |-> i, model |-> m,
                                          hold |-> h]]
    /\ UNCHANGED <<walletVars, provider, job, worker, op, billed, errors, ops>>

SameKey(j) == {u \in Usages : /\ usage[u].status /= "none"
                              /\ call[j].idem /= NoIdem
                              /\ call[u].idem = call[j].idem
                              /\ Owner(u) = Owner(j)}

UsagesOf(c) == {u \in Usages : usage[u].status /= "none" /\ Owner(u) = c}
UsagesOfModel(m) == {u \in Usages : usage[u].status /= "none" /\ call[u].model = m}

\* Mutant: the usage record is not unique per idempotency key.
MayReserveAgain(j) ==
    LET w == wallet[Owner(j)] IN
    /\ w.enabled
    /\ w.balance - w.held >= call[j].hold

\* reserve_wallet_and_create_usage of jobs.rs: the same transaction as the
\* gateway's, without a limit per API key.
MayReserve(j) ==
    LET w == wallet[Owner(j)] IN
    /\ w.enabled
    /\ w.balance - w.held >= call[j].hold
    /\ WithinDailyLimit(w.limit, DailySpend(UsagesOf(Owner(j)), day), call[j].hold)
    /\ WithinDailyLimit(ModelLimit[call[j].model],
                        DailySpend(UsagesOfModel(call[j].model), day), call[j].hold)
    /\ SameKey(j) = {}

ReserveCall(j) ==
    /\ call[j].pc = "reserving"
    /\ \/ /\ MayReserve(j)
          /\ Reserve(Owner(j), j, call[j].hold, day)
          /\ call' = [call EXCEPT ![j].pc = "submitting"]
       \/ /\ ~MayReserve(j)
          /\ call' = [call EXCEPT ![j].pc = "ended"]
          /\ UNCHANGED walletVars
    /\ UNCHANGED <<provider, job, worker, op, billed, errors, ops>>

\* submit_provider_generation_job succeeds.
SubmitOk(j) ==
    /\ call[j].pc = "submitting"
    /\ call' = [call EXCEPT ![j].pc = "inserting"]
    /\ provider' = [provider EXCEPT ![j] = "pending"]
    /\ UNCHANGED <<walletVars, job, worker, op, billed, errors, ops>>

\* It fails: release_usage of the handler.
SubmitFail(j) ==
    /\ call[j].pc = "submitting"
    /\ Release(Owner(j), j, FALSE)
    /\ call' = [call EXCEPT ![j].pc = "ended"]
    /\ UNCHANGED <<provider, job, worker, op, billed, errors, ops>>

InsertSubmittedJob(j) ==
    /\ call[j].pc = "inserting"
    /\ call' = [call EXCEPT ![j].pc = "ended"]
    /\ job' = [job EXCEPT ![j].status = "submitted", ![j].next = "later"]
    /\ UNCHANGED <<walletVars, provider, worker, op, billed, errors, ops>>

\* The handler stops, or its insert fails, after the reservation.
LoseCall(j) ==
    /\ call[j].pc \in {"submitting", "inserting"}
    /\ errors < MaxErrors
    /\ errors' = errors + 1
    /\ call' = [call EXCEPT ![j].pc = "ended"]
    /\ UNCHANGED <<walletVars, provider, job, worker, op, billed, ops>>

\* The provider reaches a final state and stays there.
ProviderFinish(j) ==
    /\ provider[j] = "pending"
    /\ \E answer \in {"ok", "failed"} : provider' = [provider EXCEPT ![j] = answer]
    /\ UNCHANGED <<walletVars, call, job, worker, op, billed, errors, ops>>

\* next_poll_at passes, whoever has a lease on the job.
BecomeDue(j) ==
    /\ job[j].next = "later"
    /\ job' = [job EXCEPT ![j].next = "due"]
    /\ UNCHANGED <<walletVars, call, provider, worker, op, billed, errors, ops>>

-----------------------------------------------------------------------------
(***************************************************************************)
(* process_generation_job_batch and process_generation_job.                *)
(***************************************************************************)

\* Mutant: only jobs nobody has claimed yet are claimed.
ClaimSubmittedOnly(w, j) ==
    /\ worker[w].pc = "idle"
    /\ job[j].status = "submitted"
    /\ job[j].next \in {"null", "due"}
    /\ job' = [job EXCEPT ![j].status = "running", ![j].attempts = 1, ![j].next = "later"]
    /\ worker' = [worker EXCEPT ![w] = [pc |-> "polling", job |-> j, attempts |-> 1,
                                        poll |-> "none"]]
    /\ UNCHANGED <<walletVars, call, provider, op, billed, errors, ops>>

\* claim_pollable_generation_jobs: the claim is a lease until next_poll_at.
Claim(w, j) ==
    /\ worker[w].pc = "idle"
    /\ job[j].status \in {"submitted", "running", "caching"}
    /\ job[j].next \in {"null", "due"}
    /\ LET n == Smaller(job[j].attempts + 1, MaxAttempts) IN
       /\ job' = [job EXCEPT ![j].status = IF @ = "submitted" THEN "running" ELSE @,
                             ![j].attempts = n,
                             ![j].next = "later"]
       /\ worker' = [worker EXCEPT ![w] = [pc |-> "polling", job |-> j, attempts |-> n,
                                           poll |-> "none"]]
    /\ UNCHANGED <<walletVars, call, provider, op, billed, errors, ops>>

\* poll_provider_generation_job.
Poll(w) ==
    /\ worker[w].pc = "polling"
    /\ worker' = [worker EXCEPT ![w].pc = "polled", ![w].poll = provider[worker[w].job]]
    /\ UNCHANGED <<walletVars, call, provider, job, op, billed, errors, ops>>

WorkerGoto(w, pc) == worker' = [worker EXCEPT ![w].pc = pc]
WorkerDone(w)     == worker' = [worker EXCEPT ![w] = IdleWorker]

StillRunning(w) ==
    /\ worker[w].pc = "polled" /\ worker[w].poll = "pending"
    /\ MarkJobRunning(worker[w].job)
    /\ WorkerDone(w)
    /\ UNCHANGED <<walletVars, call, provider, op, billed, errors, ops>>

\* fail_job_and_release_usage.
FailJobAndReleaseUsage(w) ==
    LET j == worker[w].job IN
    /\ worker[w].pc = "polled" /\ worker[w].poll = "failed"
    /\ \/ /\ ReleaseUnsettled(j, TRUE)
          /\ UpdateJobFailed(j, "provider_failed", "failed", usage[j].held)
          /\ WorkerDone(w)
       \/ /\ ReleaseRefused(j)
          /\ WorkerGoto(w, "erring")
          /\ UNCHANGED <<walletVars, job>>
    /\ UNCHANGED <<call, provider, op, billed, errors, ops>>

ProviderSucceeded(w) ==
    /\ worker[w].pc = "polled" /\ worker[w].poll = "ok"
    /\ MarkJobProviderSucceeded(worker[w].job, "ok")
    /\ WorkerGoto(w, "caching")
    /\ UNCHANGED <<walletVars, call, provider, op, billed, errors, ops>>

\* cache_generation_assets fails: mark_job_caching_failed.
CachingFailed(w) ==
    /\ worker[w].pc = "caching"
    /\ errors < MaxErrors
    /\ errors' = errors + 1
    /\ MarkJobCachingFailed(worker[w].job)
    /\ WorkerDone(w)
    /\ UNCHANGED <<walletVars, call, provider, op, billed, ops>>

\* It succeeds: capture_usage.
CaptureJob(w) ==
    LET j == worker[w].job IN
    /\ worker[w].pc = "caching"
    /\ \/ CaptureUsage(j) /\ WorkerGoto(w, "succeeding")
       \/ CaptureRefused(j) /\ WorkerGoto(w, "erring") /\ UNCHANGED <<walletVars, billed>>
    /\ UNCHANGED <<call, provider, job, op, errors, ops>>

Succeed(w) ==
    /\ worker[w].pc = "succeeding"
    /\ MarkJobSucceeded(worker[w].job, "ok")
    /\ WorkerDone(w)
    /\ UNCHANGED <<walletVars, call, provider, op, billed, errors, ops>>

\* Any statement or call of process_generation_job fails, the deadlock with a
\* cancellation that takes the row locks in the other order included.
StepFails(w) ==
    /\ worker[w].pc \in {"polling", "polled", "caching", "succeeding"}
    /\ errors < MaxErrors
    /\ errors' = errors + 1
    /\ WorkerGoto(w, "erring")
    /\ UNCHANGED <<walletVars, call, provider, job, op, billed, ops>>

MarkError(w) ==
    /\ worker[w].pc = "erring"
    /\ MarkJobPollError(worker[w].job, worker[w].attempts)
    /\ WorkerDone(w)
    /\ UNCHANGED <<walletVars, call, provider, op, billed, errors, ops>>

\* The process dies: what it committed stays, what it meant to write is lost.
WorkerCrash(w) ==
    /\ worker[w].pc /= "idle"
    /\ errors < MaxErrors
    /\ errors' = errors + 1
    /\ WorkerDone(w)
    /\ UNCHANGED <<walletVars, call, provider, job, op, billed, ops>>

-----------------------------------------------------------------------------
(***************************************************************************)
(* Requests of operators.  Except for a cancellation, the handler reads    *)
(* the job row, checks it, and acts in a later statement on what it saw.   *)
(***************************************************************************)

EnsureJobCanRetryPoll(row) ==
    row.status \in {"submitted", "running", "caching", "timeout_review"}

EnsureJobCanCancel(row) ==
    row.status \in {"submitted", "running", "caching", "timeout_review"}

EnsureJobCanRetryCache(row) ==
    /\ row.charged = 0
    /\ row.status \in {"caching", "timeout_review", "failed", "provider_failed"}

EnsureJobCanFailRelease(row) ==
    /\ row.charged = 0
    /\ row.status \in {"submitted", "running", "caching", "timeout_review",
                       "provider_failed", "failed"}

EnsureJobCanRefund(row) == row.status = "succeeded" /\ row.charged > row.refunded

\* retry_ai_generation_job_poll (and web_retry_job), retry_ai_generation_job_cache,
\* fail_ai_generation_job_release, refund_ai_generation_job: load and check.
Accepts(kind, row) ==
    CASE kind = "retry_poll"   -> EnsureJobCanRetryPoll(row)
      [] kind = "retry_cache"  -> EnsureJobCanRetryCache(row) /\ row.result = "ok"
      [] kind = "fail_release" -> EnsureJobCanFailRelease(row)
      [] kind = "refund"       -> EnsureJobCanRefund(row)

LoadAdminJob(o, j, kind) ==
    /\ op[o].pc = "idle" /\ ops < MaxOps
    /\ Accepts(kind, job[j])
    /\ op' = [op EXCEPT ![o] = [pc |-> kind, job |-> j, seen |-> job[j]]]
    /\ ops' = ops + 1
    /\ UNCHANGED <<walletVars, call, provider, job, worker, billed, errors>>

OpDone(o) == op' = [op EXCEPT ![o] = IdleOp]

\* mark_job_for_poll_retry.
RetryPoll(o) ==
    /\ op[o].pc = "retry_poll"
    /\ job' = [job EXCEPT ![op[o].job].status = "running", ![op[o].job].next = "due"]
    /\ OpDone(o)
    /\ UNCHANGED <<walletVars, call, provider, worker, billed, errors, ops>>

\* fail_admin_job_and_release_usage.
FailRelease(o) ==
    LET j == op[o].job IN
    /\ op[o].pc = "fail_release"
    /\ \/ /\ ReleaseUnsettled(j, op[o].seen.result /= "none")
          /\ UpdateJobFailed(j, "failed", op[o].seen.result,
                             IF Unsettled(j) THEN usage[j].held ELSE op[o].seen.refunded)
       \/ ReleaseRefused(j) /\ UNCHANGED <<walletVars, job>>
    /\ OpDone(o)
    /\ UNCHANGED <<call, provider, worker, billed, errors, ops>>

\* Mutant: the refund trusts the job row the handler read.
RefundUnchecked(o) ==
    LET j      == op[o].job
        amount == op[o].seen.charged - op[o].seen.refunded
        w      == UpdateWalletBalance(wallet[Owner(j)], amount)
    IN
    /\ op[o].pc = "refund"
    /\ wallet' = [wallet EXCEPT ![Owner(j)] = w]
    /\ ledger' = InsertLedgerEntry(Owner(j), w, amount)
    /\ usage'  = [usage EXCEPT ![j].status = "refunded", ![j].refunded = @ + amount]
    /\ job'    = [job EXCEPT ![j].status = "failed", ![j].refunded = @ + amount,
                             ![j].next = "null"]
    /\ billed' = [billed EXCEPT ![j] = @ - amount]
    /\ OpDone(o)
    /\ UNCHANGED <<day, call, provider, worker, errors, ops>>

\* refund_admin_job.  The amount is that of the job row the handler read.
Refund(o) ==
    LET j      == op[o].job
        amount == op[o].seen.charged - op[o].seen.refunded
        w      == UpdateWalletBalance(wallet[Owner(j)], amount)
    IN
    /\ op[o].pc = "refund"
    /\ \/ /\ usage[j].status = "succeeded"
          /\ wallet' = [wallet EXCEPT ![Owner(j)] = w]
          /\ ledger' = InsertLedgerEntry(Owner(j), w, amount)
          /\ usage'  = [usage EXCEPT ![j].status = "refunded", ![j].refunded = @ + amount]
          /\ job'    = [job EXCEPT ![j].status = "failed", ![j].refunded = @ + amount,
                                   ![j].next = "null"]
          /\ billed' = [billed EXCEPT ![j] = @ - amount]
          /\ UNCHANGED day
       \/ usage[j].status /= "succeeded" /\ UNCHANGED <<walletVars, job, billed>>
    /\ OpDone(o)
    /\ UNCHANGED <<call, provider, worker, errors, ops>>

\* retry_cache_admin_job marks the job before it downloads the assets.
RetryCache(o) ==
    /\ op[o].pc = "retry_cache"
    /\ MarkJobProviderSucceeded(op[o].job, op[o].seen.result)
    /\ op' = [op EXCEPT ![o].pc = "caching"]
    /\ UNCHANGED <<walletVars, call, provider, worker, billed, errors, ops>>

RetryCacheCapture(o) ==
    LET j == op[o].job IN
    /\ op[o].pc = "caching"
    /\ \/ CaptureUsage(j) /\ op' = [op EXCEPT ![o].pc = "succeeding"]
       \/ CaptureRefused(j) /\ OpDone(o) /\ UNCHANGED <<walletVars, billed>>
    /\ UNCHANGED <<call, provider, job, worker, errors, ops>>

RetryCacheSucceed(o) ==
    /\ op[o].pc = "succeeding"
    /\ MarkJobSucceeded(op[o].job, op[o].seen.result)
    /\ OpDone(o)
    /\ UNCHANGED <<walletVars, call, provider, worker, billed, errors, ops>>

\* The handler fails or stops between two steps.
OpFails(o) ==
    /\ op[o].pc /= "idle"
    /\ errors < MaxErrors
    /\ errors' = errors + 1
    /\ OpDone(o)
    /\ UNCHANGED <<walletVars, call, provider, job, worker, billed, ops>>

\* cancel_server_job_and_release_usage: one transaction that locks the job row.
Cancel(j) ==
    /\ "cancel" \in OpKinds /\ ops < MaxOps
    /\ ops' = ops + 1
    /\ EnsureJobCanCancel(job[j])
    /\ LET released == Unsettled(j) /\ usage[j].held > 0 IN
       /\ \/ released /\ Release(Owner(j), j, FALSE)
          \/ ~released /\ UNCHANGED walletVars
       /\ job' = [job EXCEPT ![j].status = "cancelled", ![j].next = "null",
                             ![j].refunded = @ + IF released THEN usage[j].held ELSE 0]
    /\ UNCHANGED <<call, provider, worker, op, billed, errors>>

-----------------------------------------------------------------------------
CallStep(j) ==
    \/ ReserveCall(j) \/ SubmitOk(j) \/ SubmitFail(j) \/ InsertSubmittedJob(j)

WorkerStep(w) ==
    \/ \E j \in Jobs : Claim(w, j)
    \/ Poll(w) \/ StillRunning(w) \/ FailJobAndReleaseUsage(w) \/ ProviderSucceeded(w)
    \/ CaptureJob(w) \/ Succeed(w) \/ MarkError(w)

OpStep(o) ==
    \/ RetryPoll(o) \/ FailRelease(o) \/ Refund(o)
    \/ RetryCache(o) \/ RetryCacheCapture(o) \/ RetryCacheSucceed(o)

Next ==
    \/ \E j \in Jobs : \/ BeginCall(j) \/ CallStep(j) \/ LoseCall(j)
                       \/ ProviderFinish(j) \/ BecomeDue(j) \/ Cancel(j)
    \/ \E w \in Workers : WorkerStep(w) \/ CachingFailed(w) \/ StepFails(w) \/ WorkerCrash(w)
    \/ \E o \in Operators :
         \/ \E j \in Jobs, kind \in OpKinds \ {"cancel"} : LoadAdminJob(o, j, kind)
         \/ OpStep(o) \/ OpFails(o)

Spec == Init /\ [][Next]_vars

\* Workers tick for ever and time passes; handlers that have started go on.
FairSpec ==
    /\ Spec
    /\ \A j \in Jobs : WF_vars(CallStep(j)) /\ WF_vars(BecomeDue(j))
    /\ \A w \in Workers : WF_vars(WorkerStep(w))
    /\ \A o \in Operators : WF_vars(OpStep(o))

-----------------------------------------------------------------------------
(***************************************************************************)
(* Properties.                                                             *)
(***************************************************************************)

\* No sequence of captures and refunds, however stale the rows the handlers act
\* on, gives a customer back more than was captured for the job.
RefundsNeverExceedCaptures == \A j \in Jobs : billed[j] >= 0

\* That, and the ledger adds up to the wallet, whatever the operators do to a
\* job that a worker is at work on (refund_ai_generation_job, refund_admin_job).
RefundsAreCovered == LedgerReconciles /\ RefundsNeverExceedCaptures

\* Workers that lost their lease, retries and crashes never make a job's hold
\* be captured or released twice: the wallet holds what running records hold.
HeldIsRunningHolds ==
    \A c \in Customers : wallet[c].held = HoldsOf(usage, UsagesOf(c))

\* A job is paid for at most once, whichever workers finish it.
BilledAtMostOnce == \A j \in Jobs : billed[j] <= usage[j].held

\* A job that shows as succeeded has been paid for.
SucceededIsBilled ==
    \A j \in Jobs : job[j].status = "succeeded" => usage[j].status = "succeeded"

\* Both, for jobs that workers take from each other
\* (capture_usage, mark_job_succeeded).
PaidOnce == TypeOK /\ BilledAtMostOnce /\ SucceededIsBilled

\* Of the requests that carry the same Idempotency-Key at most one reaches the
\* provider: requests that overlap, and a retry after the first one's answer
\* was lost, find either the stored job or the unique usage record.
OneSubmissionPerKey ==
    \A j, k \in Jobs :
        /\ j /= k
        /\ call[j].idem = call[k].idem /\ call[j].idem /= NoIdem
        /\ Owner(j) = Owner(k)
        => provider[j] = "none" \/ provider[k] = "none"

\* Once the provider is done with a stored job, its hold does not stay for ever:
\* it is captured or released, unless the job waits for a human.
FinishedIsSettled ==
    \A j \in Jobs :
        (job[j].status /= "none" /\ provider[j] \in {"ok", "failed"})
            ~> (usage[j].status /= "running" \/ job[j].status = "timeout_review")
=============================================================================
