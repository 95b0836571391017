---------------------------- MODULE AiJobsProofs ----------------------------
(***************************************************************************)
(* Proofs about the asynchronous jobs, for any number of customers, jobs,  *)
(* workers, operators, failures and requests and any amounts.              *)
(*                                                                         *)
(* Whatever operators do: the ledger explains the wallets, refunds never   *)
(* exceed captures, and an Idempotency-Key reaches the provider once.      *)
(* While operators only retry (polls and caching): a job is paid for once  *)
(* and the wallets hold what running jobs hold.  Cancellations, releases   *)
(* and refunds by hand break the latter (the run MCAiJobsLateCapture), so    *)
(* the theorem says which requests it needs to be absent.                  *)
(***************************************************************************)
EXTENDS AiJobs, AiWalletProofs

-----------------------------------------------------------------------------
(***************************************************************************)
(* The invariant, whatever operators do.                                   *)
(***************************************************************************)

\* A usage record is that of its call: it is inserted by the reservation, holds
\* what the call asked for, and is running until the job is stored.
RecordsFollowCalls ==
    \A j \in Jobs :
        /\ call[j].pc \in {"new", "reserving"} => usage[j].status = "none"
        /\ call[j].pc \in {"submitting", "inserting"} => usage[j].status = "running"
        /\ usage[j].status /= "none" => usage[j].held = call[j].hold
        /\ usage[j].status = "none" \/ call[j].pc = "submitting" => provider[j] = "none"

\* A stored job has a record and a call that has ended, and shows no other charge
\* than the hold.
StoredJobs ==
    \A j \in Jobs :
        /\ job[j].status /= "none" => call[j].pc = "ended" /\ usage[j].status /= "none"
        /\ job[j].status = "none" => job[j].charged = 0
        /\ job[j].charged <= call[j].hold

\* Whoever works on a job works on a stored one.
Stored(j) == j \in Jobs /\ job[j].status /= "none"

\* The amount a refund has read is one the job was charged.
RefundRead(o) ==
    /\ op[o].seen.charged > op[o].seen.refunded
    /\ op[o].seen.charged <= call[op[o].job].hold

HandlersHaveJobs ==
    /\ \A w \in Workers : worker[w].pc /= "idle" => Stored(worker[w].job)
    /\ \A o \in Operators : op[o].pc /= "idle" => Stored(op[o].job)
    /\ \A o \in Operators : op[o].pc = "refund" => RefundRead(o)

\* A record that shows as succeeded has been billed, and not given back since.
SucceededCoversHold ==
    \A j \in Jobs : /\ billed[j] >= 0
                    /\ usage[j].status = "succeeded" => billed[j] >= usage[j].held

\* The unique index on the Idempotency-Key of a customer's records.
RecordsHaveOwnKeys ==
    \A j, k \in Jobs :
        /\ usage[j].status /= "none" /\ usage[k].status /= "none"
        /\ call[j].idem = call[k].idem /\ call[j].idem /= NoIdem
        /\ Owner(j) = Owner(k)
        => j = k

IInv ==
    /\ TypeOK /\ LedgerReconciles
    /\ RecordsFollowCalls /\ StoredJobs /\ HandlersHaveJobs
    /\ SucceededCoversHold /\ RecordsHaveOwnKeys

-----------------------------------------------------------------------------
(***************************************************************************)
(* The invariant while operators only retry.                               *)
(***************************************************************************)

RetriesOnly == OpKinds \subseteq {"retry_poll", "retry_cache"}

Recorded == {j \in Jobs : usage[j].status /= "none"}

\* The provider's final answer decides: a record that was released is not that
\* of a job that may still succeed, and a record is billed when it succeeded.
OutcomesAgree ==
    \A j \in Jobs :
        /\ usage[j].status /= "refunded"
        /\ usage[j].status = "failed" => provider[j] \in {"none", "failed"}
        /\ job[j].result = "ok" => provider[j] = "ok"
        /\ job[j].status = "succeeded" => usage[j].status = "succeeded"
        /\ billed[j] = IF usage[j].status = "succeeded" THEN usage[j].held ELSE 0

\* A worker acts on what the provider really said ...
WorkersKnow ==
    \A w \in Workers :
        /\ worker[w].pc /= "idle" /\ worker[w].poll \in {"ok", "failed"} =>
             provider[worker[w].job] = worker[w].poll
        /\ worker[w].pc \in {"caching", "succeeding"} => worker[w].poll = "ok"
        /\ worker[w].pc = "succeeding" => usage[worker[w].job].status = "succeeded"

\* ... and so does an operator who has the assets cached again.
OperatorsKnow ==
    \A o \in Operators :
        /\ op[o].pc \in {"idle", "retry_poll", "retry_cache", "caching", "succeeding"}
        /\ op[o].pc \in {"retry_cache", "caching", "succeeding"} =>
             op[o].seen.result = "ok" /\ provider[op[o].job] = "ok"
        /\ op[o].pc = "succeeding" => usage[op[o].job].status = "succeeded"

RInv ==
    /\ IsFiniteSet(Recorded) /\ HeldIsRunningHolds
    /\ OutcomesAgree /\ WorkersKnow /\ OperatorsKnow

-----------------------------------------------------------------------------
(***************************************************************************)
(* What the statements write.                                              *)
(***************************************************************************)

LEMMA TablesSound == IInv => Sound
  BY DEF IInv, TypeOK, Sound

\* A row of ai_generation_jobs is written.
Wrote(j, status, charged, result) ==
    /\ job' \in [Jobs -> JobRow]
    /\ job'[j].status = status /\ job'[j].charged = charged /\ job'[j].result = result
    /\ \A k \in Jobs \ {j} : job'[k] = job[k]

LEMMA RowWritten ==
    ASSUME IInv, NEW j \in Jobs, NEW row \in JobRow, job' = [job EXCEPT ![j] = row]
    PROVE  Wrote(j, row.status, row.charged, row.result)
  BY DEF IInv, TypeOK, Wrote

LEMMA MarkJobRunningWrites ==
    ASSUME IInv, NEW j \in Jobs, MarkJobRunning(j)
    PROVE  Wrote(j, "running", job[j].charged, "pending")
<1>1. PICK old \in JobRow : old = job[j]
  BY DEF IInv, TypeOK
<1> DEFINE row == [old EXCEPT !.status = "running", !.result = "pending", !.next = "later"]
<1>2. /\ row \in JobRow /\ row.status = "running" /\ row.charged = old.charged
      /\ row.result = "pending"
  BY DEF JobRow, JobStatus, Answer, Schedule
<1>3. job' = [job EXCEPT ![j] = row]
  BY <1>1 DEF MarkJobRunning
<1> HIDE DEF row
<1> QED
  BY <1>1, <1>2, <1>3, RowWritten

LEMMA MarkJobProviderSucceededWrites ==
    ASSUME IInv, NEW j \in Jobs, NEW result \in Answer, MarkJobProviderSucceeded(j, result)
    PROVE  Wrote(j, "caching", job[j].charged, result)
<1>1. PICK old \in JobRow : old = job[j]
  BY DEF IInv, TypeOK
<1> DEFINE row == [old EXCEPT !.status = "caching", !.result = result, !.next = "later"]
<1>2. /\ row \in JobRow /\ row.status = "caching" /\ row.charged = old.charged
      /\ row.result = result
  BY DEF JobRow, JobStatus, Schedule
<1>3. job' = [job EXCEPT ![j] = row]
  BY <1>1 DEF MarkJobProviderSucceeded
<1> HIDE DEF row
<1> QED
  BY <1>1, <1>2, <1>3, RowWritten

LEMMA MarkJobSucceededWrites ==
    ASSUME IInv, NEW j \in Jobs, NEW result \in Answer, MarkJobSucceeded(j, result)
    PROVE  Wrote(j, "succeeded", call[j].hold, result)
<1>1. PICK old \in JobRow, hold \in Nat : old = job[j] /\ hold = call[j].hold
  BY DEF IInv, TypeOK, CallState
<1> DEFINE row == [old EXCEPT !.status = "succeeded", !.result = result, !.charged = hold,
                              !.next = "null"]
<1>2. /\ row \in JobRow /\ row.status = "succeeded" /\ row.charged = hold
      /\ row.result = result
  BY DEF JobRow, JobStatus, Schedule
<1>3. job' = [job EXCEPT ![j] = row]
  BY <1>1 DEF MarkJobSucceeded
<1> HIDE DEF row
<1> QED
  BY <1>1, <1>2, <1>3, RowWritten

LEMMA MarkJobCachingFailedWrites ==
    ASSUME IInv, NEW j \in Jobs, MarkJobCachingFailed(j)
    PROVE  Wrote(j, "caching", job[j].charged, "ok")
<1>1. PICK old \in JobRow : old = job[j]
  BY DEF IInv, TypeOK
<1> DEFINE row == [old EXCEPT !.status = "caching", !.result = "ok", !.next = "later"]
<1>2. /\ row \in JobRow /\ row.status = "caching" /\ row.charged = old.charged
      /\ row.result = "ok"
  BY DEF JobRow, JobStatus, Schedule, Answer
<1>3. job' = [job EXCEPT ![j] = row]
  BY <1>1 DEF MarkJobCachingFailed
<1> HIDE DEF row
<1> QED
  BY <1>1, <1>2, <1>3, RowWritten

LEMMA UpdateJobFailedWrites ==
    ASSUME IInv, NEW j \in Jobs, NEW status \in JobStatus, NEW result \in Answer,
           NEW refunded \in Nat, UpdateJobFailed(j, status, result, refunded)
    PROVE  Wrote(j, status, job[j].charged, result)
<1>1. PICK old \in JobRow : old = job[j]
  BY DEF IInv, TypeOK
<1> DEFINE row == [old EXCEPT !.status = status, !.result = result, !.refunded = refunded,
                              !.next = "null"]
<1>2. /\ row \in JobRow /\ row.status = status /\ row.charged = old.charged
      /\ row.result = result
  BY DEF JobRow, Schedule
<1>3. job' = [job EXCEPT ![j] = row]
  BY <1>1 DEF UpdateJobFailed
<1> HIDE DEF row
<1> QED
  BY <1>1, <1>2, <1>3, RowWritten

\* A row of which the schedule and the status are written.
LEMMA RescheduleWrites ==
    ASSUME IInv, NEW j \in Jobs, NEW status \in JobStatus, NEW next \in Schedule,
           job' = [job EXCEPT ![j].status = status, ![j].next = next]
    PROVE  Wrote(j, status, job[j].charged, job[j].result)
<1>1. PICK old \in JobRow : old = job[j]
  BY DEF IInv, TypeOK
<1> DEFINE row == [old EXCEPT !.status = status, !.next = next]
<1>2. /\ row \in JobRow /\ row.status = status /\ row.charged = old.charged
      /\ row.result = old.result
  BY DEF JobRow
<1>3. job' = [job EXCEPT ![j] = row]
  BY <1>1
<1> HIDE DEF row
<1> QED
  BY <1>1, <1>2, <1>3, RowWritten

\* The locals of one worker change.
WorkerMoves(w, pc, j, poll) ==
    /\ worker' \in [Workers -> WorkerState]
    /\ worker'[w].pc = pc /\ worker'[w].job = j /\ worker'[w].poll = poll
    /\ \A v \in Workers \ {w} : worker'[v] = worker[v]

LEMMA WorkerGotoMoves ==
    ASSUME IInv, NEW w \in Workers,
           NEW pc \in {"idle", "polling", "polled", "caching", "succeeding", "erring"},
           WorkerGoto(w, pc)
    PROVE  WorkerMoves(w, pc, worker[w].job, worker[w].poll)
<1>1. PICK old \in WorkerState : old = worker[w]
  BY DEF IInv, TypeOK
<1> DEFINE row == [old EXCEPT !.pc = pc]
<1>2. row \in WorkerState /\ row.pc = pc /\ row.job = old.job /\ row.poll = old.poll
  BY DEF WorkerState
<1>3. worker' = [worker EXCEPT ![w] = row]
  BY <1>1 DEF WorkerGoto
<1> HIDE DEF row
<1> QED
  BY <1>1, <1>2, <1>3 DEF IInv, TypeOK, WorkerMoves

LEMMA WorkerDoneMoves ==
    ASSUME IInv, NEW w \in Workers, WorkerDone(w)
    PROVE  WorkerMoves(w, "idle", None, "none")
<1>1. /\ IdleWorker \in WorkerState /\ IdleWorker.pc = "idle" /\ IdleWorker.job = None
      /\ IdleWorker.poll = "none"
  BY JobsAssumption DEF IdleWorker, WorkerState, Answer
<1> QED
  BY <1>1 DEF WorkerDone, IInv, TypeOK, WorkerMoves

\* The locals of one operator's request change.
OpMoves(o, pc, j, seen) ==
    /\ op' \in [Operators -> OpState]
    /\ op'[o].pc = pc /\ op'[o].job = j /\ op'[o].seen = seen
    /\ \A p \in Operators \ {o} : op'[p] = op[p]

LEMMA OpDoneMoves ==
    ASSUME IInv, NEW o \in Operators, OpDone(o)
    PROVE  OpMoves(o, "idle", None, NoJob)
<1>1. NoJob \in JobRow
  BY JobsAssumption DEF NoJob, JobRow, JobStatus, Schedule, Answer
<1>2. /\ IdleOp \in OpState /\ IdleOp.pc = "idle" /\ IdleOp.job = None
      /\ IdleOp.seen = NoJob
  BY <1>1 DEF IdleOp, OpState
<1> QED
  BY <1>2 DEF OpDone, IInv, TypeOK, OpMoves

LEMMA OpGotoMoves ==
    ASSUME IInv, NEW o \in Operators, NEW pc \in {"caching", "succeeding"},
           op' = [op EXCEPT ![o].pc = pc]
    PROVE  OpMoves(o, pc, op[o].job, op[o].seen)
<1>1. PICK old \in OpState : old = op[o]
  BY DEF IInv, TypeOK
<1> DEFINE row == [old EXCEPT !.pc = pc]
<1>2. row \in OpState /\ row.pc = pc /\ row.job = old.job /\ row.seen = old.seen
  BY DEF OpState
<1>3. op' = [op EXCEPT ![o] = row]
  BY <1>1
<1> HIDE DEF row
<1> QED
  BY <1>1, <1>2, <1>3 DEF IInv, TypeOK, OpMoves

-----------------------------------------------------------------------------
(***************************************************************************)
(* Steps on stored jobs.  They leave the calls alone, keep every job that  *)
(* is stored, and let handlers name only stored jobs.                      *)
(***************************************************************************)

JobsStay ==
    \A j \in Jobs : /\ job'[j].status = "none" <=> job[j].status = "none"
                    /\ job[j].status = "none" => job'[j].charged = 0
                    /\ job'[j].charged <= call[j].hold

WorkersStay == \A w \in Workers : worker'[w].pc = "idle" \/ Stored(worker'[w].job)

OpsStay ==
    \A o \in Operators :
        /\ op'[o].pc = "idle" \/ Stored(op'[o].job)
        /\ op'[o].pc = "refund" => /\ op'[o].seen.charged > op'[o].seen.refunded
                                   /\ op'[o].seen.charged <= call[op'[o].job].hold

\* One row is written, none, or the locals of one handler.
LEMMA WroteStays ==
    ASSUME IInv, NEW j, Stored(j), NEW status, status /= "none", NEW charged,
           charged \in {job[j].charged, call[j].hold}, NEW result, Wrote(j, status, charged, result)
    PROVE  JobsStay
<1>1. call[j].hold \in Nat /\ job[j].charged <= call[j].hold
  BY DEF IInv, TypeOK, CallState, StoredJobs, Stored
<1>2. charged <= call[j].hold
  BY <1>1
<1> QED
  BY <1>2 DEF IInv, StoredJobs, JobsStay, Wrote, Stored

LEMMA SameJobsStay ==
    ASSUME IInv, job' = job PROVE JobsStay
  BY DEF IInv, StoredJobs, JobsStay

LEMMA MovesStay ==
    ASSUME IInv, NEW w \in Workers, NEW pc, NEW j, NEW poll, WorkerMoves(w, pc, j, poll),
           pc = "idle" \/ Stored(j)
    PROVE  WorkersStay
  BY DEF IInv, HandlersHaveJobs, WorkersStay, WorkerMoves

LEMMA SameWorkersStay ==
    ASSUME IInv, worker' = worker PROVE WorkersStay
  BY DEF IInv, HandlersHaveJobs, WorkersStay

LEMMA OpMovesStay ==
    ASSUME IInv, NEW o \in Operators, NEW pc, NEW j, NEW seen, OpMoves(o, pc, j, seen),
           pc = "idle" \/ Stored(j),
           pc = "refund" => seen.charged > seen.refunded /\ seen.charged <= call[j].hold
    PROVE  OpsStay
  BY DEF IInv, HandlersHaveJobs, RefundRead, OpsStay, OpMoves

LEMMA SameOpsStay ==
    ASSUME IInv, op' = op PROVE OpsStay
  BY DEF IInv, HandlersHaveJobs, RefundRead, OpsStay

LEMMA LaterStep ==
    ASSUME IInv, TypeOK', LedgerReconciles', UNCHANGED call,
           \A j \in Jobs :
             /\ usage'[j].held = usage[j].held
             /\ usage'[j].status = "none" <=> usage[j].status = "none"
             /\ call[j].pc /= "ended" => usage'[j].status = usage[j].status
             /\ usage'[j].status = "none" \/ call[j].pc = "submitting" => provider'[j] = "none",
           SucceededCoversHold', JobsStay, WorkersStay, OpsStay
    PROVE  IInv'
<1>1. call' = call
  OBVIOUS
<1>2. RecordsFollowCalls'
  BY <1>1 DEF IInv, RecordsFollowCalls
<1>3. StoredJobs'
  BY <1>1 DEF IInv, StoredJobs, JobsStay
<1>4. HandlersHaveJobs'
  <2>1. \A j : Stored(j) => Stored(j)'
    BY DEF Stored, JobsStay
  <2> QED
    BY <1>1, <2>1 DEF HandlersHaveJobs, RefundRead, WorkersStay, OpsStay
<1>5. RecordsHaveOwnKeys'
  BY <1>1 DEF IInv, RecordsHaveOwnKeys, Owner
<1> QED
  BY <1>2, <1>3, <1>4, <1>5 DEF IInv

\* Steps that do not touch the billing tables.
LEMMA QuietStep ==
    ASSUME IInv, UNCHANGED <<walletVars, call, billed>>,
           provider' \in [Jobs -> Answer], job' \in [Jobs -> JobRow],
           worker' \in [Workers -> WorkerState], op' \in [Operators -> OpState],
           errors' \in Nat, ops' \in Nat,
           \A j \in Jobs : provider[j] = "none" => provider'[j] = "none",
           JobsStay, WorkersStay, OpsStay
    PROVE  IInv'
<1>1. /\ wallet' = wallet /\ usage' = usage /\ ledger' = ledger /\ day' = day /\ call' = call
      /\ billed' = billed
  BY DEF walletVars
<1>2. TypeOK'
  BY <1>1 DEF IInv, TypeOK, WalletTypeOK
<1>3. LedgerReconciles' /\ SucceededCoversHold'
  BY <1>1 DEF IInv, LedgerReconciles, SucceededCoversHold
<1> QED
  BY <1>1, <1>2, <1>3, LaterStep DEF IInv, RecordsFollowCalls

\* Steps that settle, or refund, the record of one stored job.
LEMMA SettledStep ==
    ASSUME IInv, NEW j, Stored(j), Sound', UNCHANGED <<call, provider>>,
           usage'[j].status \in {"succeeded", "failed", "refunded"}, usage'[j].held = usage[j].held,
           \A k \in Jobs \ {j} : usage'[k] = usage[k],
           billed' \in [Jobs -> Int], \A k \in Jobs \ {j} : billed'[k] = billed[k],
           billed'[j] >= 0, usage'[j].status = "succeeded" => billed'[j] >= usage'[j].held,
           job' \in [Jobs -> JobRow],
           worker' \in [Workers -> WorkerState], op' \in [Operators -> OpState],
           errors' \in Nat, ops' \in Nat,
           JobsStay, WorkersStay, OpsStay
    PROVE  IInv'
<1>1. call' = call /\ provider' = provider
  OBVIOUS
<1>2. TypeOK' /\ LedgerReconciles'
  BY <1>1 DEF IInv, TypeOK, Sound
<1>3. SucceededCoversHold'
  BY DEF IInv, SucceededCoversHold
<1>4. j \in Jobs /\ call[j].pc = "ended" /\ usage[j].status /= "none"
  BY DEF IInv, StoredJobs, Stored
<1>5. \A k \in Jobs :
        /\ usage'[k].held = usage[k].held
        /\ usage'[k].status = "none" <=> usage[k].status = "none"
        /\ call[k].pc /= "ended" => usage'[k].status = usage[k].status
        /\ usage'[k].status = "none" \/ call[k].pc = "submitting" => provider'[k] = "none"
  BY <1>1, <1>4 DEF IInv, RecordsFollowCalls
<1> QED
  BY <1>2, <1>3, <1>5, LaterStep

\* While operators only retry.
LEMMA RetryStep ==
    ASSUME IInv, RInv, IsFiniteSet(Recorded)', HeldIsRunningHolds',
           \A j \in Jobs :
             /\ provider[j] \in {"ok", "failed"} => provider'[j] = provider[j]
             /\ usage[j].status = "succeeded" => usage'[j].status = "succeeded"
             /\ usage'[j].status /= "refunded"
             /\ usage'[j].status = "failed" => provider'[j] \in {"none", "failed"}
             /\ billed'[j] = (IF usage'[j].status = "succeeded" THEN usage'[j].held ELSE 0),
           \A j \in Jobs :
             \/ job'[j] = job[j]
             \/ /\ job'[j].result = "ok" => provider'[j] = "ok"
                /\ job'[j].status = "succeeded" => usage'[j].status = "succeeded",
           \A w \in Workers :
             \/ worker'[w] = worker[w]
             \/ worker'[w].pc = "idle"
             \/ /\ worker'[w].poll \in {"ok", "failed"} =>
                     provider'[worker'[w].job] = worker'[w].poll
                /\ worker'[w].pc \in {"caching", "succeeding"} => worker'[w].poll = "ok"
                /\ worker'[w].pc = "succeeding" => usage'[worker'[w].job].status = "succeeded",
           \A o \in Operators :
             \/ op'[o] = op[o]
             \/ op'[o].pc \in {"idle", "retry_poll"}
             \/ /\ op'[o].pc \in {"retry_cache", "caching", "succeeding"}
                /\ op'[o].seen.result = "ok" /\ provider'[op'[o].job] = "ok"
                /\ op'[o].pc = "succeeding" => usage'[op'[o].job].status = "succeeded"
    PROVE  RInv'
<1>1. OutcomesAgree'
  BY DEF RInv, OutcomesAgree
<1>2. WorkersKnow'
  <2>1. ASSUME NEW w \in Workers, worker'[w] = worker[w], worker[w].pc /= "idle"
        PROVE  worker[w].job \in Jobs
    BY <2>1 DEF IInv, HandlersHaveJobs, Stored
  <2> QED
    BY <2>1 DEF RInv, WorkersKnow
<1>3. OperatorsKnow'
  <2>1. ASSUME NEW o \in Operators, op'[o] = op[o], op[o].pc /= "idle"
        PROVE  op[o].job \in Jobs
    BY <2>1 DEF IInv, HandlersHaveJobs, Stored
  <2> QED
    BY <2>1 DEF RInv, OperatorsKnow
<1> QED
  BY <1>1, <1>2, <1>3 DEF RInv

\* When records and their owners stay, so do the holds.
LEMMA SameHolds ==
    ASSUME RInv, UNCHANGED <<walletVars, call>>
    PROVE  IsFiniteSet(Recorded)' /\ HeldIsRunningHolds'
<1>1. wallet' = wallet /\ usage' = usage /\ call' = call
  BY DEF walletVars
<1> QED
  BY <1>1 DEF RInv, Recorded, HeldIsRunningHolds, UsagesOf, Owner

\* Steps that do not touch the billing tables, while operators only retry.
LEMMA QuietRetryStep ==
    ASSUME IInv, RInv, UNCHANGED <<walletVars, call, billed>>,
           \A j \in Jobs : provider[j] /= "pending" => provider'[j] = provider[j],
           \A j \in Jobs :
             \/ job'[j] = job[j]
             \/ /\ job'[j].result = "ok" => provider[j] = "ok"
                /\ job'[j].status = "succeeded" => usage[j].status = "succeeded",
           \A w \in Workers :
             \/ worker'[w] = worker[w]
             \/ worker'[w].pc = "idle"
             \/ /\ worker'[w].poll \in {"ok", "failed"} =>
                     provider[worker'[w].job] = worker'[w].poll
                /\ worker'[w].pc \in {"caching", "succeeding"} => worker'[w].poll = "ok"
                /\ worker'[w].pc = "succeeding" => usage[worker'[w].job].status = "succeeded",
           \A o \in Operators :
             \/ op'[o] = op[o]
             \/ op'[o].pc \in {"idle", "retry_poll"}
             \/ /\ op'[o].pc \in {"retry_cache", "caching", "succeeding"}
                /\ op'[o].seen.result = "ok" /\ provider[op'[o].job] = "ok"
                /\ op'[o].pc = "succeeding" => usage[op'[o].job].status = "succeeded",
           WorkersStay, OpsStay
    PROVE  RInv'
<1>1. wallet' = wallet /\ usage' = usage /\ call' = call /\ billed' = billed
  BY DEF walletVars
<1>2. IsFiniteSet(Recorded)' /\ HeldIsRunningHolds'
  BY SameHolds
<1>3. \A j \in Jobs :
        /\ provider[j] \in {"ok", "failed"} => provider'[j] = provider[j]
        /\ usage[j].status = "succeeded" => usage'[j].status = "succeeded"
        /\ usage'[j].status /= "refunded"
        /\ usage'[j].status = "failed" => provider'[j] \in {"none", "failed"}
        /\ billed'[j] = (IF usage'[j].status = "succeeded" THEN usage'[j].held ELSE 0)
  BY <1>1 DEF RInv, OutcomesAgree
<1>4. \A w \in Workers : worker'[w].pc = "idle" \/ worker'[w].job \in Jobs
  BY DEF WorkersStay, Stored
<1>5. \A o \in Operators : op'[o].pc = "idle" \/ op'[o].job \in Jobs
  BY DEF OpsStay, Stored
<1>6. \A j \in Jobs :
        \/ job'[j] = job[j]
        \/ /\ job'[j].result = "ok" => provider'[j] = "ok"
           /\ job'[j].status = "succeeded" => usage'[j].status = "succeeded"
  BY <1>1, <1>3
<1>7. \A w \in Workers :
        \/ worker'[w] = worker[w]
        \/ worker'[w].pc = "idle"
        \/ /\ worker'[w].poll \in {"ok", "failed"} => provider'[worker'[w].job] = worker'[w].poll
           /\ worker'[w].pc \in {"caching", "succeeding"} => worker'[w].poll = "ok"
           /\ worker'[w].pc = "succeeding" => usage'[worker'[w].job].status = "succeeded"
  BY <1>1, <1>3, <1>4
<1>8. \A o \in Operators :
        \/ op'[o] = op[o]
        \/ op'[o].pc \in {"idle", "retry_poll"}
        \/ /\ op'[o].pc \in {"retry_cache", "caching", "succeeding"}
           /\ op'[o].seen.result = "ok" /\ provider'[op'[o].job] = "ok"
           /\ op'[o].pc = "succeeding" => usage'[op'[o].job].status = "succeeded"
  BY <1>1, <1>3, <1>5
<1> QED
  BY <1>2, <1>3, <1>6, <1>7, <1>8, RetryStep

-----------------------------------------------------------------------------
(***************************************************************************)
(* The provider, time, and the steps of a worker that do not settle.       *)
(***************************************************************************)

LEMMA ProviderFinishKeeps ==
    ASSUME IInv, NEW j \in Jobs, ProviderFinish(j)
    PROVE  IInv' /\ (RInv => RInv')
<1>1. PICK answer \in {"ok", "failed"} : provider' = [provider EXCEPT ![j] = answer]
  BY DEF ProviderFinish
<1>2. /\ provider[j] = "pending" /\ UNCHANGED <<walletVars, call, billed>>
      /\ job' = job /\ worker' = worker /\ op' = op /\ errors' = errors /\ ops' = ops
  BY DEF ProviderFinish
<1>3. /\ provider' \in [Jobs -> Answer]
      /\ \A k \in Jobs : provider[k] /= "pending" => provider'[k] = provider[k]
  BY <1>1, <1>2 DEF IInv, TypeOK, Answer
<1>4. JobsStay /\ WorkersStay /\ OpsStay
  BY <1>2, SameJobsStay, SameWorkersStay, SameOpsStay
<1>5. IInv'
  BY <1>2, <1>3, <1>4, QuietStep DEF IInv, TypeOK
<1>6. RInv => RInv'
  BY <1>2, <1>3, <1>4, QuietRetryStep
<1> QED
  BY <1>5, <1>6

LEMMA BecomeDueKeeps ==
    ASSUME IInv, NEW j \in Jobs, BecomeDue(j)
    PROVE  IInv' /\ (RInv => RInv')
<1>1. PICK old \in JobRow : old = job[j]
  BY DEF IInv, TypeOK
<1> DEFINE row == [old EXCEPT !.next = "due"]
<1>2. /\ row \in JobRow /\ row.status = old.status /\ row.charged = old.charged
      /\ row.result = old.result
  BY DEF JobRow, Schedule
<1>3. /\ job' = [job EXCEPT ![j] = row] /\ UNCHANGED <<walletVars, call, billed>>
      /\ provider' = provider /\ worker' = worker /\ op' = op /\ errors' = errors /\ ops' = ops
  BY <1>1 DEF BecomeDue
<1> HIDE DEF row
<1>4. Wrote(j, old.status, old.charged, old.result)
  BY <1>2, <1>3, RowWritten
<1>5. JobsStay
  BY <1>1, <1>4 DEF IInv, StoredJobs, JobsStay, Wrote
<1>6. WorkersStay /\ OpsStay
  BY <1>3, SameWorkersStay, SameOpsStay
<1>7. IInv'
  BY <1>3, <1>4, <1>5, <1>6, QuietStep DEF IInv, TypeOK, Wrote
<1>8. ASSUME RInv PROVE RInv'
  BY <1>1, <1>3, <1>4, <1>6, <1>8, QuietRetryStep DEF Wrote, RInv, OutcomesAgree
<1> QED
  BY <1>7, <1>8

\* A step of a worker that writes a row and leaves the billing tables alone.
LEMMA WorkerQuiet ==
    ASSUME IInv, NEW w \in Workers, NEW j, Stored(j),
           NEW pc, NEW at, NEW poll, WorkerMoves(w, pc, at, poll), pc = "idle" \/ at = j,
           NEW status, NEW charged, NEW result,
           job' = job \/ (Wrote(j, status, charged, result) /\ status /= "none"
                          /\ charged \in {job[j].charged, call[j].hold}),
           UNCHANGED <<walletVars, call, provider, op, billed, ops>>, errors' \in Nat
    PROVE  /\ IInv'
           /\ RInv /\ (job' = job \/ /\ result = "ok" => provider[j] = "ok"
                                     /\ status = "succeeded" => usage[j].status = "succeeded")
                   /\ (pc = "idle" \/ /\ poll \in {"ok", "failed"} => provider[j] = poll
                                      /\ pc \in {"caching", "succeeding"} => poll = "ok"
                                      /\ pc = "succeeding" => usage[j].status = "succeeded")
              => RInv'
<1>1. /\ UNCHANGED <<walletVars, call, billed>> /\ provider' = provider /\ op' = op /\ ops' = ops
      /\ j \in Jobs
  BY DEF Stored
<1>2. JobsStay
  BY WroteStays, SameJobsStay
<1>3. WorkersStay /\ OpsStay
  BY <1>1, MovesStay, SameOpsStay
<1>4. IInv'
  BY <1>1, <1>2, <1>3, QuietStep DEF IInv, TypeOK, Wrote, WorkerMoves
<1>5. ASSUME RInv,
             job' = job \/ /\ result = "ok" => provider[j] = "ok"
                           /\ status = "succeeded" => usage[j].status = "succeeded",
             pc = "idle" \/ /\ poll \in {"ok", "failed"} => provider[j] = poll
                            /\ pc \in {"caching", "succeeding"} => poll = "ok"
                            /\ pc = "succeeding" => usage[j].status = "succeeded"
      PROVE  RInv'
  BY <1>1, <1>3, <1>5, QuietRetryStep DEF Wrote, WorkerMoves
<1> QED
  BY <1>4, <1>5

\* A worker and its job.
LEMMA WorkersJob ==
    ASSUME IInv, NEW w \in Workers, worker[w].pc /= "idle"
    PROVE  Stored(worker[w].job)
  BY DEF IInv, HandlersHaveJobs

LEMMA ClaimKeeps ==
    ASSUME IInv, NEW w \in Workers, NEW j \in Jobs, Claim(w, j)
    PROVE  IInv' /\ (RInv => RInv')
<1>1. PICK old \in JobRow : old = job[j]
  BY DEF IInv, TypeOK
<1>2. PICK n \in 0 .. MaxAttempts : n = Smaller(old.attempts + 1, MaxAttempts)
  BY JobsAssumption DEF Smaller, JobRow
<1>3. PICK status \in JobStatus : status = IF old.status = "submitted" THEN "running" ELSE old.status
  BY DEF JobRow, JobStatus
<1> DEFINE row == [old EXCEPT !.status = status, !.attempts = n, !.next = "later"]
           loc == [pc |-> "polling", job |-> j, attempts |-> n, poll |-> "none"]
<1>4. /\ row \in JobRow /\ row.status = status /\ row.charged = old.charged
      /\ row.result = old.result
      /\ loc \in WorkerState /\ loc.pc = "polling" /\ loc.job = j /\ loc.poll = "none"
  BY DEF JobRow, Schedule, WorkerState, Answer
<1>5. /\ job' = [job EXCEPT ![j] = row] /\ worker' = [worker EXCEPT ![w] = loc]
      /\ old.status \in {"submitted", "running", "caching"}
      /\ UNCHANGED <<walletVars, call, provider, op, billed, ops>> /\ errors' = errors
  BY <1>1, <1>2, <1>3 DEF Claim
<1> HIDE DEF row, loc
<1>6. Wrote(j, status, old.charged, old.result) /\ status \notin {"none", "succeeded"} /\ Stored(j)
  BY <1>1, <1>3, <1>4, <1>5, RowWritten DEF Stored
<1>7. WorkerMoves(w, "polling", j, "none")
  BY <1>4, <1>5 DEF IInv, TypeOK, WorkerMoves
<1>8. RInv => (old.result = "ok" => provider[j] = "ok")
  BY <1>1 DEF RInv, OutcomesAgree
<1> QED
  BY <1>1, <1>5, <1>6, <1>7, <1>8, WorkerQuiet DEF IInv, TypeOK

LEMMA PollKeeps ==
    ASSUME IInv, NEW w \in Workers, Poll(w)
    PROVE  IInv' /\ (RInv => RInv')
<1>1. Stored(worker[w].job)
  BY WorkersJob DEF Poll
<1>2. PICK old \in WorkerState, j \in Jobs, poll \in Answer :
        old = worker[w] /\ j = old.job /\ poll = provider[j]
  BY <1>1 DEF IInv, TypeOK, Stored
<1> DEFINE loc == [old EXCEPT !.pc = "polled", !.poll = poll]
<1>3. loc \in WorkerState /\ loc.pc = "polled" /\ loc.job = j /\ loc.poll = poll
  BY <1>2 DEF WorkerState
<1>4. /\ worker' = [worker EXCEPT ![w] = loc] /\ job' = job /\ errors' = errors
      /\ UNCHANGED <<walletVars, call, provider, op, billed, ops>>
  BY <1>2 DEF Poll
<1> HIDE DEF loc
<1>5. WorkerMoves(w, "polled", j, poll)
  BY <1>3, <1>4 DEF IInv, TypeOK, WorkerMoves
<1> QED
  BY <1>1, <1>2, <1>4, <1>5, WorkerQuiet DEF IInv, TypeOK

LEMMA StillRunningKeeps ==
    ASSUME IInv, NEW w \in Workers, StillRunning(w)
    PROVE  IInv' /\ (RInv => RInv')
<1>1. PICK j : j = worker[w].job
  OBVIOUS
<1>2. Stored(j) /\ j \in Jobs
  BY <1>1, WorkersJob DEF StillRunning, Stored
<1>3. /\ MarkJobRunning(j) /\ WorkerDone(w) /\ errors' = errors
      /\ UNCHANGED <<walletVars, call, provider, op, billed, ops>>
  BY <1>1 DEF StillRunning
<1>4. Wrote(j, "running", job[j].charged, "pending") /\ WorkerMoves(w, "idle", None, "none")
  BY <1>2, <1>3, MarkJobRunningWrites, WorkerDoneMoves
<1> QED
  BY <1>2, <1>3, <1>4, WorkerQuiet DEF IInv, TypeOK

LEMMA ProviderSucceededKeeps ==
    ASSUME IInv, NEW w \in Workers, ProviderSucceeded(w)
    PROVE  IInv' /\ (RInv => RInv')
<1>1. PICK j : j = worker[w].job
  OBVIOUS
<1>2. Stored(j) /\ j \in Jobs
  BY <1>1, WorkersJob DEF ProviderSucceeded, Stored
<1>3. /\ MarkJobProviderSucceeded(j, "ok") /\ WorkerGoto(w, "caching") /\ errors' = errors
      /\ worker[w].pc = "polled" /\ worker[w].poll = "ok"
      /\ UNCHANGED <<walletVars, call, provider, op, billed, ops>>
  BY <1>1 DEF ProviderSucceeded
<1>4. Wrote(j, "caching", job[j].charged, "ok")
  BY <1>2, <1>3, MarkJobProviderSucceededWrites DEF Answer
<1>5. WorkerMoves(w, "caching", j, "ok")
  BY <1>1, <1>3, WorkerGotoMoves
<1>6. RInv => provider[j] = "ok"
  BY <1>1, <1>3 DEF RInv, WorkersKnow
<1> QED
  BY <1>2, <1>3, <1>4, <1>5, <1>6, WorkerQuiet DEF IInv, TypeOK

LEMMA CachingFailedKeeps ==
    ASSUME IInv, NEW w \in Workers, CachingFailed(w)
    PROVE  IInv' /\ (RInv => RInv')
<1>1. PICK j : j = worker[w].job
  OBVIOUS
<1>2. Stored(j) /\ j \in Jobs
  BY <1>1, WorkersJob DEF CachingFailed, Stored
<1>3. /\ MarkJobCachingFailed(j) /\ WorkerDone(w) /\ errors' \in Nat
      /\ worker[w].pc = "caching"
      /\ UNCHANGED <<walletVars, call, provider, op, billed, ops>>
  BY <1>1 DEF CachingFailed, IInv, TypeOK
<1>4. Wrote(j, "caching", job[j].charged, "ok") /\ WorkerMoves(w, "idle", None, "none")
  BY <1>2, <1>3, MarkJobCachingFailedWrites, WorkerDoneMoves
<1>6. RInv => provider[j] = "ok"
  BY <1>1, <1>3 DEF RInv, WorkersKnow
<1> QED
  BY <1>2, <1>3, <1>4, <1>6, WorkerQuiet

LEMMA SucceedKeeps ==
    ASSUME IInv, NEW w \in Workers, Succeed(w)
    PROVE  IInv' /\ (RInv => RInv')
<1>1. PICK j : j = worker[w].job
  OBVIOUS
<1>2. Stored(j) /\ j \in Jobs
  BY <1>1, WorkersJob DEF Succeed, Stored
<1>3. /\ MarkJobSucceeded(j, "ok") /\ WorkerDone(w) /\ errors' = errors
      /\ worker[w].pc = "succeeding"
      /\ UNCHANGED <<walletVars, call, provider, op, billed, ops>>
  BY <1>1 DEF Succeed
<1>4. Wrote(j, "succeeded", call[j].hold, "ok") /\ WorkerMoves(w, "idle", None, "none")
  BY <1>2, <1>3, MarkJobSucceededWrites, WorkerDoneMoves DEF Answer
<1>6. RInv => provider[j] = "ok" /\ usage[j].status = "succeeded"
  BY <1>1, <1>3 DEF RInv, WorkersKnow
<1> QED
  BY <1>2, <1>3, <1>4, <1>6, WorkerQuiet DEF IInv, TypeOK

LEMMA StepFailsKeeps ==
    ASSUME IInv, NEW w \in Workers, StepFails(w)
    PROVE  IInv' /\ (RInv => RInv')
<1>1. PICK j, poll : j = worker[w].job /\ poll = worker[w].poll
  OBVIOUS
<1>2. Stored(j)
  BY <1>1, WorkersJob DEF StepFails
<1>3. /\ WorkerGoto(w, "erring") /\ errors' \in Nat /\ job' = job /\ worker[w].pc /= "idle"
      /\ UNCHANGED <<walletVars, call, provider, op, billed, ops>>
  BY DEF StepFails, IInv, TypeOK
<1>4. WorkerMoves(w, "erring", j, poll)
  BY <1>1, <1>3, WorkerGotoMoves
<1>5. RInv => (poll \in {"ok", "failed"} => provider[j] = poll)
  BY <1>1, <1>3 DEF RInv, WorkersKnow
<1> QED
  BY <1>2, <1>3, <1>4, <1>5, WorkerQuiet

LEMMA MarkErrorKeeps ==
    ASSUME IInv, NEW w \in Workers, MarkError(w)
    PROVE  IInv' /\ (RInv => RInv')
<1>1. PICK j, n : j = worker[w].job /\ n = worker[w].attempts
  OBVIOUS
<1>2. Stored(j) /\ j \in Jobs
  BY <1>1, WorkersJob DEF MarkError, Stored
<1>3. /\ MarkJobPollError(j, n) /\ WorkerDone(w) /\ errors' = errors
      /\ UNCHANGED <<walletVars, call, provider, op, billed, ops>>
  BY <1>1 DEF MarkError
<1>4. PICK status \in {"timeout_review", "running"}, next \in Schedule :
        /\ status = IF n >= MaxAttempts THEN "timeout_review" ELSE "running"
        /\ next = IF n >= MaxAttempts THEN "null" ELSE "later"
  BY DEF Schedule
<1>5. Wrote(j, status, job[j].charged, job[j].result)
  BY <1>2, <1>3, <1>4, RescheduleWrites DEF MarkJobPollError, JobStatus
<1>6. WorkerMoves(w, "idle", None, "none")
  BY <1>3, WorkerDoneMoves
<1>7. RInv => (job[j].result = "ok" => provider[j] = "ok")
  BY <1>2 DEF RInv, OutcomesAgree
<1> QED
  BY <1>2, <1>3, <1>4, <1>5, <1>6, <1>7, WorkerQuiet DEF IInv, TypeOK

LEMMA WorkerCrashKeeps ==
    ASSUME IInv, NEW w \in Workers, WorkerCrash(w)
    PROVE  IInv' /\ (RInv => RInv')
<1>2. Stored(worker[w].job)
  BY WorkersJob DEF WorkerCrash
<1>3. /\ WorkerDone(w) /\ errors' \in Nat /\ job' = job
      /\ UNCHANGED <<walletVars, call, provider, op, billed, ops>>
  BY DEF WorkerCrash, IInv, TypeOK
<1>4. WorkerMoves(w, "idle", None, "none")
  BY <1>3, WorkerDoneMoves
<1> QED
  BY <1>2, <1>3, <1>4, WorkerQuiet

-----------------------------------------------------------------------------
(***************************************************************************)
(* The steps of operators that do not settle.                              *)
(***************************************************************************)

LEMMA OpQuiet ==
    ASSUME IInv, NEW o \in Operators, NEW j, Stored(j),
           NEW pc, NEW at, NEW seen, OpMoves(o, pc, at, seen), pc = "idle" \/ at = j,
           pc = "refund" => seen.charged > seen.refunded /\ seen.charged <= call[j].hold,
           NEW status, NEW charged, NEW result,
           job' = job \/ (Wrote(j, status, charged, result) /\ status /= "none"
                          /\ charged \in {job[j].charged, call[j].hold}),
           UNCHANGED <<walletVars, call, provider, worker, billed>>, errors' \in Nat, ops' \in Nat
    PROVE  /\ IInv'
           /\ RInv /\ (job' = job \/ /\ result = "ok" => provider[j] = "ok"
                                     /\ status = "succeeded" => usage[j].status = "succeeded")
                   /\ (\/ pc \in {"idle", "retry_poll"}
                       \/ /\ pc \in {"retry_cache", "caching", "succeeding"}
                          /\ seen.result = "ok" /\ provider[j] = "ok"
                          /\ pc = "succeeding" => usage[j].status = "succeeded")
              => RInv'
<1>1. /\ UNCHANGED <<walletVars, call, billed>> /\ provider' = provider /\ worker' = worker
      /\ j \in Jobs
  BY DEF Stored
<1>2. JobsStay
  BY WroteStays, SameJobsStay
<1>3. WorkersStay /\ OpsStay
  BY <1>1, OpMovesStay, SameWorkersStay
<1>4. IInv'
  BY <1>1, <1>2, <1>3, QuietStep DEF IInv, TypeOK, Wrote, OpMoves
<1>5. ASSUME RInv,
             job' = job \/ /\ result = "ok" => provider[j] = "ok"
                           /\ status = "succeeded" => usage[j].status = "succeeded",
             \/ pc \in {"idle", "retry_poll"}
             \/ /\ pc \in {"retry_cache", "caching", "succeeding"}
                /\ seen.result = "ok" /\ provider[j] = "ok"
                /\ pc = "succeeding" => usage[j].status = "succeeded"
      PROVE  RInv'
  BY <1>1, <1>3, <1>5, QuietRetryStep DEF Wrote, OpMoves
<1> QED
  BY <1>4, <1>5

LEMMA OperatorsJob ==
    ASSUME IInv, NEW o \in Operators, op[o].pc /= "idle"
    PROVE  Stored(op[o].job)
  BY DEF IInv, HandlersHaveJobs

\* A handler loads the row of a job that is stored, and accepts it.
LEMMA LoadAdminJobKeeps ==
    ASSUME IInv, NEW o \in Operators, NEW j \in Jobs, NEW kind \in OpKinds \ {"cancel"},
           LoadAdminJob(o, j, kind)
    PROVE  IInv' /\ (RInv /\ RetriesOnly => RInv')
<1>1. PICK seen \in JobRow : seen = job[j]
  BY DEF IInv, TypeOK
<1>2. kind \in {"retry_poll", "retry_cache", "fail_release", "refund"}
  BY JobsAssumption
<1> DEFINE loc == [pc |-> kind, job |-> j, seen |-> seen]
<1>3. loc \in OpState /\ loc.pc = kind /\ loc.job = j /\ loc.seen = seen
  BY <1>2 DEF OpState
<1>4. /\ Accepts(kind, seen) /\ op' = [op EXCEPT ![o] = loc] /\ ops' \in Nat
      /\ job' = job /\ errors' = errors
      /\ UNCHANGED <<walletVars, call, provider, worker, billed>>
  BY <1>1 DEF LoadAdminJob, IInv, TypeOK
<1> HIDE DEF loc
<1>5. OpMoves(o, kind, j, seen)
  BY <1>3, <1>4 DEF IInv, TypeOK, OpMoves
<1>6. /\ seen.status /= "none"
      /\ kind = "refund" => seen.charged > seen.refunded
      /\ kind = "retry_cache" => seen.result = "ok"
  BY <1>2, <1>4 DEF Accepts, EnsureJobCanRetryPoll, EnsureJobCanRetryCache,
       EnsureJobCanFailRelease, EnsureJobCanRefund
<1>7. Stored(j) /\ seen.charged <= call[j].hold
  BY <1>1, <1>6 DEF Stored, IInv, StoredJobs
<1>8. RInv /\ RetriesOnly =>
        \/ kind \in {"idle", "retry_poll"}
        \/ kind = "retry_cache" /\ seen.result = "ok" /\ provider[j] = "ok"
  BY <1>1, <1>6 DEF RetriesOnly, RInv, OutcomesAgree
<1>9. errors' \in Nat
  BY <1>4 DEF IInv, TypeOK
<1> QED
  BY <1>4, <1>5, <1>6, <1>7, <1>8, <1>9, OpQuiet

LEMMA RetryPollKeeps ==
    ASSUME IInv, NEW o \in Operators, RetryPoll(o)
    PROVE  IInv' /\ (RInv => RInv')
<1>1. PICK j : j = op[o].job
  OBVIOUS
<1>2. Stored(j) /\ j \in Jobs
  BY <1>1, OperatorsJob DEF RetryPoll, Stored
<1>3. /\ job' = [job EXCEPT ![j].status = "running", ![j].next = "due"] /\ OpDone(o)
      /\ errors' = errors /\ ops' = ops /\ UNCHANGED <<walletVars, call, provider, worker, billed>>
  BY <1>1 DEF RetryPoll
<1>4. Wrote(j, "running", job[j].charged, job[j].result)
  BY <1>2, <1>3, RescheduleWrites DEF JobStatus, Schedule
<1>5. OpMoves(o, "idle", None, NoJob)
  BY <1>3, OpDoneMoves
<1>6. RInv => (job[j].result = "ok" => provider[j] = "ok")
  BY <1>2 DEF RInv, OutcomesAgree
<1> QED
  BY <1>2, <1>3, <1>4, <1>5, <1>6, OpQuiet DEF IInv, TypeOK

LEMMA RetryCacheKeeps ==
    ASSUME IInv, NEW o \in Operators, RetryCache(o)
    PROVE  IInv' /\ (RInv => RInv')
<1>1. PICK j, seen : j = op[o].job /\ seen = op[o].seen
  OBVIOUS
<1>2. Stored(j) /\ j \in Jobs /\ seen.result \in Answer
  BY <1>1, OperatorsJob DEF RetryCache, Stored, IInv, TypeOK, OpState, JobRow
<1>3. /\ MarkJobProviderSucceeded(j, seen.result) /\ op' = [op EXCEPT ![o].pc = "caching"]
      /\ op[o].pc = "retry_cache"
      /\ errors' = errors /\ ops' = ops /\ UNCHANGED <<walletVars, call, provider, worker, billed>>
  BY <1>1 DEF RetryCache
<1>4. Wrote(j, "caching", job[j].charged, seen.result)
  BY <1>2, <1>3, MarkJobProviderSucceededWrites
<1>5. OpMoves(o, "caching", j, seen)
  BY <1>1, <1>3, OpGotoMoves
<1>6. RInv => provider[j] = "ok" /\ seen.result = "ok"
  BY <1>1, <1>3 DEF RInv, OperatorsKnow
<1> QED
  BY <1>2, <1>3, <1>4, <1>5, <1>6, OpQuiet DEF IInv, TypeOK

LEMMA RetryCacheSucceedKeeps ==
    ASSUME IInv, NEW o \in Operators, RetryCacheSucceed(o)
    PROVE  IInv' /\ (RInv => RInv')
<1>1. PICK j, seen : j = op[o].job /\ seen = op[o].seen
  OBVIOUS
<1>2. Stored(j) /\ j \in Jobs /\ seen.result \in Answer
  BY <1>1, OperatorsJob DEF RetryCacheSucceed, Stored, IInv, TypeOK, OpState, JobRow
<1>3. /\ MarkJobSucceeded(j, seen.result) /\ OpDone(o) /\ op[o].pc = "succeeding"
      /\ errors' = errors /\ ops' = ops /\ UNCHANGED <<walletVars, call, provider, worker, billed>>
  BY <1>1 DEF RetryCacheSucceed
<1>4. Wrote(j, "succeeded", call[j].hold, seen.result)
  BY <1>2, <1>3, MarkJobSucceededWrites
<1>5. OpMoves(o, "idle", None, NoJob)
  BY <1>3, OpDoneMoves
<1>6. RInv => provider[j] = "ok" /\ usage[j].status = "succeeded"
  BY <1>1, <1>3 DEF RInv, OperatorsKnow
<1> QED
  BY <1>2, <1>3, <1>4, <1>5, <1>6, OpQuiet DEF IInv, TypeOK

LEMMA OpFailsKeeps ==
    ASSUME IInv, NEW o \in Operators, OpFails(o)
    PROVE  IInv' /\ (RInv => RInv')
<1>2. Stored(op[o].job)
  BY OperatorsJob DEF OpFails
<1>3. /\ OpDone(o) /\ errors' \in Nat /\ ops' = ops /\ job' = job
      /\ UNCHANGED <<walletVars, call, provider, worker, billed>>
  BY DEF OpFails, IInv, TypeOK
<1>4. OpMoves(o, "idle", None, NoJob)
  BY <1>3, OpDoneMoves
<1> QED
  BY <1>2, <1>3, <1>4, OpQuiet DEF IInv, TypeOK

-----------------------------------------------------------------------------
(***************************************************************************)
(* Steps that settle.                                                      *)
(***************************************************************************)

\* capture_usage charges a job exactly its hold, whatever the wallet has.
LEMMA CaptureBills ==
    ASSUME IInv, NEW j, Stored(j), Capture(Owner(j), j, call[j].hold),
           billed' = [billed EXCEPT ![j] = @ + usage'[j].charged]
    PROVE  /\ Sound'
           /\ usage'[j].status = "succeeded" /\ usage'[j].held = usage[j].held
           /\ \A k \in Jobs \ {j} : usage'[k] = usage[k]
           /\ billed' \in [Jobs -> Int]
           /\ \A k \in Jobs \ {j} : billed'[k] = billed[k]
           /\ billed'[j] = billed[j] + usage[j].held
<1>1. PICK c \in Customers, hold \in Nat : c = Owner(j) /\ hold = call[j].hold
  BY DEF IInv, TypeOK, CallState, Owner, Stored
<1>2. j \in Usages /\ usage[j].held = hold
  BY <1>1 DEF IInv, StoredJobs, RecordsFollowCalls, Stored, Jobs
<1>3. Sound /\ Capture(c, j, hold)
  BY <1>1, TablesSound
<1>4. /\ Sound' /\ usage'[j].status = "succeeded" /\ usage'[j].held = usage[j].held
      /\ \A k \in Usages \ {j} : usage'[k] = usage[k]
  BY <1>2, <1>3, CaptureSound
<1>5. usage'[j].charged = SettleCharge(hold, hold, wallet[c])
  BY <1>2, <1>3, CaptureWrites
<1>6. SettleCharge(hold, hold, wallet[c]) = hold
  <2>1. wallet[c].balance - wallet[c].held \in Int
    BY <1>3 DEF Sound, WalletTypeOK, WalletRow
  <2> QED
    BY <2>1 DEF SettleCharge, Larger, Smaller
<1>7. PICK b \in Int : b = billed[j]
  BY DEF IInv, TypeOK, Stored
<1>8. billed' = [billed EXCEPT ![j] = b + hold]
  BY <1>5, <1>6, <1>7
<1> QED
  BY <1>2, <1>4, <1>7, <1>8 DEF IInv, TypeOK, Jobs

\* A release of an unsettled record leaves what was billed alone.
LEMMA ReleaseSettles ==
    ASSUME IInv, NEW j, Stored(j), NEW body \in BOOLEAN, Release(Owner(j), j, body)
    PROVE  /\ Sound'
           /\ usage'[j].status = "failed" /\ usage'[j].held = usage[j].held
           /\ \A k \in Jobs \ {j} : usage'[k] = usage[k]
<1>1. PICK c \in Customers : c = Owner(j)
  BY DEF IInv, TypeOK, CallState, Owner, Stored
<1>2. j \in Usages /\ Release(c, j, body)
  BY <1>1 DEF Stored, Jobs
<1> QED
  BY <1>2, TablesSound, ReleaseSound DEF Jobs

\* The records of a customer can be added up.
LEMMA RecordsSummable ==
    ASSUME IInv, RInv, NEW c
    PROVE  Summable(usage, UsagesOf(c))
<1>1. UsagesOf(c) \subseteq Recorded /\ IsFiniteSet(Recorded)
  BY DEF UsagesOf, Recorded, RInv, Jobs
<1>2. IsFiniteSet(UsagesOf(c))
  BY <1>1, FS_Subset
<1>3. \A u \in UsagesOf(c) : usage[u].held \in Nat
  BY DEF IInv, TypeOK, WalletTypeOK, UsageRow, UsagesOf
<1> QED
  BY <1>2, <1>3 DEF Summable

\* The settlement of a running record takes its hold from the wallet and from
\* what running records hold.
LEMMA HoldsSettled ==
    ASSUME IInv, RInv, NEW j \in Jobs, usage[j].status = "running",
           \/ Capture(Owner(j), j, call[j].hold)
           \/ \E body \in BOOLEAN : Release(Owner(j), j, body),
           \A k \in Jobs : Owner(k)' = Owner(k)
    PROVE  IsFiniteSet(Recorded)' /\ HeldIsRunningHolds'
<1>1. PICK c \in Customers, hold \in Nat : c = Owner(j) /\ hold = call[j].hold
  BY DEF IInv, TypeOK, CallState, Owner
<1>2. /\ wallet'[c].held = wallet[c].held - usage[j].held
      /\ \A e \in Customers \ {c} : wallet'[e] = wallet[e]
      /\ usage'[j].status \in {"succeeded", "failed"}
      /\ \A v \in Usages \ {j} : usage'[v] = usage[v]
  BY <1>1, TablesSound, SettleWrites DEF Jobs
<1>3. Recorded' = Recorded
  BY <1>2 DEF Recorded, Jobs
<1>4. \A e : UsagesOf(e)' = UsagesOf(e)
  BY <1>2 DEF UsagesOf, Jobs
<1>5. ASSUME NEW e \in Customers PROVE wallet'[e].held = HoldsOf(usage', UsagesOf(e)')
  <2>1. PICK U : U = UsagesOf(e)
    OBVIOUS
  <2>2. Summable(usage, U) /\ wallet[e].held = HoldsOf(usage, U) /\ UsagesOf(e)' = U
    BY <1>4, <2>1, RecordsSummable DEF RInv, HeldIsRunningHolds
  <2>3. CASE e = c
    <3>1. j \in U /\ U \subseteq Usages
      BY <1>1, <2>1, <2>3 DEF UsagesOf, Jobs
    <3>2. HoldsOf(usage', U) = HoldsOf(usage, U) - usage[j].held
      BY <1>2, <2>2, <3>1, HoldsSettle
    <3> QED
      BY <1>2, <2>2, <2>3, <3>2
  <2>4. CASE e /= c
    <3>1. j \notin U /\ U \subseteq Usages
      BY <1>1, <2>1, <2>4 DEF UsagesOf
    <3>2. HoldsOf(usage', U) = HoldsOf(usage, U)
      BY <1>2, <2>2, <3>1, HoldsSame
    <3> QED
      BY <1>2, <2>2, <2>4, <3>2
  <2> QED
    BY <2>3, <2>4
<1>6. HeldIsRunningHolds'
  BY <1>5 DEF HeldIsRunningHolds
<1> QED
  BY <1>3, <1>6 DEF RInv

\* A record of a job the provider finished is running when it is captured.
LEMMA CapturedIsRunning ==
    ASSUME IInv, RInv, NEW j, Stored(j), provider[j] = "ok", usage[j].status /= "succeeded"
    PROVE  usage[j].status = "running"
  BY DEF RInv, OutcomesAgree, IInv, StoredJobs, Stored, TypeOK, WalletTypeOK, UsageRow, UsageStatus, Jobs

\* capture_usage by whoever has cached the assets, a worker or an operator.
LEMMA CaptureStep ==
    ASSUME IInv, NEW j, Stored(j), CaptureUsage(j),
           UNCHANGED <<call, provider, job>>, errors' \in Nat, ops' \in Nat,
           worker' \in [Workers -> WorkerState], op' \in [Operators -> OpState],
           WorkersStay, OpsStay
    PROVE  /\ IInv'
           /\ usage'[j].status = "succeeded"
           /\ RInv /\ provider[j] = "ok"
                /\ (\A w \in Workers :
                     \/ worker'[w] = worker[w]
                     \/ worker'[w].pc = "succeeding" /\ worker'[w].poll = "ok" /\ worker'[w].job = j)
                /\ (\A o \in Operators :
                     \/ op'[o] = op[o]
                     \/ op'[o].pc = "succeeding" /\ op'[o].seen.result = "ok" /\ op'[o].job = j)
              => RInv'
<1>1. call' = call /\ provider' = provider /\ job' = job /\ j \in Jobs
  BY DEF Stored
<1>2. JobsStay
  BY <1>1, SameJobsStay
<1>3. CASE usage[j].status = "succeeded"
  <2>1. UNCHANGED <<walletVars, billed>>
    BY <1>3 DEF CaptureUsage
  <2>2. wallet' = wallet /\ usage' = usage /\ billed' = billed /\ UNCHANGED <<walletVars, call, billed>>
    BY <1>1, <2>1 DEF walletVars
  <2>3. IInv'
    BY <1>1, <1>2, <2>2, QuietStep DEF IInv, TypeOK
  <2>4. ASSUME RInv, provider[j] = "ok",
               \A w \in Workers :
                 \/ worker'[w] = worker[w]
                 \/ worker'[w].pc = "succeeding" /\ worker'[w].poll = "ok" /\ worker'[w].job = j,
               \A o \in Operators :
                 \/ op'[o] = op[o]
                 \/ op'[o].pc = "succeeding" /\ op'[o].seen.result = "ok" /\ op'[o].job = j
        PROVE  RInv'
    BY <1>1, <1>3, <2>2, <2>4, QuietRetryStep
  <2> QED
    BY <1>3, <2>2, <2>3, <2>4
<1>4. CASE usage[j].status /= "succeeded"
  <2>1. /\ Capture(Owner(j), j, call[j].hold)
        /\ billed' = [billed EXCEPT ![j] = @ + usage'[j].charged]
    BY <1>4 DEF CaptureUsage
  <2>2. /\ Sound'
        /\ usage'[j].status = "succeeded" /\ usage'[j].held = usage[j].held
        /\ \A k \in Jobs \ {j} : usage'[k] = usage[k]
        /\ billed' \in [Jobs -> Int]
        /\ \A k \in Jobs \ {j} : billed'[k] = billed[k]
        /\ billed'[j] = billed[j] + usage[j].held
    BY <2>1, CaptureBills
  <2>3. usage[j].held \in Nat /\ billed[j] \in Int /\ billed[j] >= 0
    BY <1>1 DEF IInv, TypeOK, WalletTypeOK, UsageRow, SucceededCoversHold, Jobs
  <2>4. billed'[j] >= 0 /\ billed'[j] >= usage'[j].held
    BY <2>2, <2>3
  <2>5. IInv'
    BY <1>1, <1>2, <2>2, <2>4, SettledStep DEF IInv, TypeOK
  <2>6. ASSUME RInv, provider[j] = "ok",
               \A w \in Workers :
                 \/ worker'[w] = worker[w]
                 \/ worker'[w].pc = "succeeding" /\ worker'[w].poll = "ok" /\ worker'[w].job = j,
               \A o \in Operators :
                 \/ op'[o] = op[o]
                 \/ op'[o].pc = "succeeding" /\ op'[o].seen.result = "ok" /\ op'[o].job = j
        PROVE  RInv'
    <3>1. usage[j].status = "running"
      BY <1>4, <2>6, CapturedIsRunning
    <3>2. \A k \in Jobs : Owner(k)' = Owner(k)
      BY <1>1 DEF Owner
    <3>3. IsFiniteSet(Recorded)' /\ HeldIsRunningHolds'
      BY <1>1, <2>1, <2>6, <3>1, <3>2, HoldsSettled
    <3>4. \A k \in Jobs :
            /\ provider[k] \in {"ok", "failed"} => provider'[k] = provider[k]
            /\ usage[k].status = "succeeded" => usage'[k].status = "succeeded"
            /\ usage'[k].status /= "refunded"
            /\ usage'[k].status = "failed" => provider'[k] \in {"none", "failed"}
            /\ billed'[k] = (IF usage'[k].status = "succeeded" THEN usage'[k].held ELSE 0)
      BY <1>1, <2>2, <2>3, <2>6, <3>1 DEF RInv, OutcomesAgree
    <3> QED
      BY <1>1, <2>2, <2>6, <3>3, <3>4, RetryStep
  <2> QED
    BY <2>2, <2>5, <2>6
<1> QED
  BY <1>3, <1>4

LEMMA CaptureJobKeeps ==
    ASSUME IInv, NEW w \in Workers, CaptureJob(w)
    PROVE  IInv' /\ (RInv => RInv')
<1>1. PICK j, poll : j = worker[w].job /\ poll = worker[w].poll
  OBVIOUS
<1>2. /\ worker[w].pc = "caching"
      /\ UNCHANGED <<call, provider, job, op, ops>> /\ op' = op /\ ops' = ops /\ errors' = errors
      /\ \/ CaptureUsage(j) /\ WorkerGoto(w, "succeeding")
         \/ WorkerGoto(w, "erring") /\ UNCHANGED <<walletVars, billed>>
  BY <1>1 DEF CaptureJob
<1>3. Stored(j)
  BY <1>1, <1>2, WorkersJob
<1>4. RInv => poll = "ok" /\ provider[j] = "ok"
  BY <1>1, <1>2 DEF RInv, WorkersKnow
<1>5. CASE CaptureUsage(j) /\ WorkerGoto(w, "succeeding")
  <2>1. WorkerMoves(w, "succeeding", j, poll)
    BY <1>1, <1>5, WorkerGotoMoves
  <2>2. WorkersStay /\ OpsStay
    BY <1>2, <1>3, <2>1, MovesStay, SameOpsStay
  <2>3. worker' \in [Workers -> WorkerState]
    BY <2>1 DEF WorkerMoves
  <2>4. RInv => \A v \in Workers :
                  \/ worker'[v] = worker[v]
                  \/ worker'[v].pc = "succeeding" /\ worker'[v].poll = "ok" /\ worker'[v].job = j
    BY <1>4, <2>1 DEF WorkerMoves
  <2> QED
    BY <1>2, <1>3, <1>4, <1>5, <2>2, <2>3, <2>4, CaptureStep DEF IInv, TypeOK
<1>6. CASE WorkerGoto(w, "erring") /\ UNCHANGED <<walletVars, billed>>
  <2>1. WorkerMoves(w, "erring", j, poll)
    BY <1>1, <1>6, WorkerGotoMoves
  <2> QED
    BY <1>2, <1>3, <1>4, <1>6, <2>1, WorkerQuiet DEF IInv, TypeOK
<1> QED
  BY <1>2, <1>5, <1>6

LEMMA RetryCacheCaptureKeeps ==
    ASSUME IInv, NEW o \in Operators, RetryCacheCapture(o)
    PROVE  IInv' /\ (RInv => RInv')
<1>1. PICK j, seen : j = op[o].job /\ seen = op[o].seen
  OBVIOUS
<1>2. /\ op[o].pc = "caching"
      /\ UNCHANGED <<call, provider, job, worker>> /\ worker' = worker /\ ops' = ops /\ errors' = errors
      /\ \/ CaptureUsage(j) /\ op' = [op EXCEPT ![o].pc = "succeeding"]
         \/ OpDone(o) /\ UNCHANGED <<walletVars, billed>>
  BY <1>1 DEF RetryCacheCapture
<1>3. Stored(j)
  BY <1>1, <1>2, OperatorsJob
<1>4. RInv => seen.result = "ok" /\ provider[j] = "ok"
  BY <1>1, <1>2 DEF RInv, OperatorsKnow
<1>5. CASE CaptureUsage(j) /\ op' = [op EXCEPT ![o].pc = "succeeding"]
  <2>1. OpMoves(o, "succeeding", j, seen)
    BY <1>1, <1>5, OpGotoMoves
  <2>2. WorkersStay /\ OpsStay
    BY <1>2, <1>3, <2>1, OpMovesStay, SameWorkersStay
  <2>3. op' \in [Operators -> OpState]
    BY <2>1 DEF OpMoves
  <2>4. RInv => \A p \in Operators :
                  \/ op'[p] = op[p]
                  \/ op'[p].pc = "succeeding" /\ op'[p].seen.result = "ok" /\ op'[p].job = j
    BY <1>4, <2>1 DEF OpMoves
  <2> QED
    BY <1>2, <1>3, <1>4, <1>5, <2>2, <2>3, <2>4, CaptureStep DEF IInv, TypeOK
<1>6. CASE OpDone(o) /\ UNCHANGED <<walletVars, billed>>
  <2>1. OpMoves(o, "idle", None, NoJob)
    BY <1>6, OpDoneMoves
  <2> QED
    BY <1>2, <1>3, <1>6, <2>1, OpQuiet DEF IInv, TypeOK
<1> QED
  BY <1>2, <1>5, <1>6

\* A stored job is failed or cancelled, and its record released if need be.
LEMMA ReleaseStep ==
    ASSUME IInv, NEW j, Stored(j),
           (\E body \in BOOLEAN : Release(Owner(j), j, body)) \/ UNCHANGED walletVars,
           UNCHANGED <<call, provider, billed>>, errors' \in Nat, ops' \in Nat,
           job' \in [Jobs -> JobRow], worker' \in [Workers -> WorkerState],
           op' \in [Operators -> OpState], JobsStay, WorkersStay, OpsStay
    PROVE  IInv'
<1>1. call' = call /\ provider' = provider /\ billed' = billed /\ j \in Jobs
  BY DEF Stored
<1>2. billed' \in [Jobs -> Int] /\ billed'[j] >= 0
  BY <1>1 DEF IInv, TypeOK, SucceededCoversHold
<1>3. ASSUME NEW body \in BOOLEAN, Release(Owner(j), j, body) PROVE IInv'
  <2>1. /\ Sound' /\ usage'[j].status = "failed" /\ usage'[j].held = usage[j].held
        /\ \A k \in Jobs \ {j} : usage'[k] = usage[k]
    BY <1>3, ReleaseSettles
  <2> QED
    BY <1>1, <1>2, <2>1, SettledStep
<1>4. ASSUME UNCHANGED walletVars PROVE IInv'
  BY <1>1, <1>4, QuietStep DEF IInv, TypeOK
<1> QED
  BY <1>3, <1>4

LEMMA FailJobAndReleaseUsageKeeps ==
    ASSUME IInv, NEW w \in Workers, FailJobAndReleaseUsage(w)
    PROVE  IInv' /\ (RInv => RInv')
<1>1. PICK j, poll : j = worker[w].job /\ poll = worker[w].poll
  OBVIOUS
<1>2. /\ worker[w].pc = "polled" /\ poll = "failed"
      /\ UNCHANGED <<call, provider, op, billed, ops>> /\ op' = op /\ ops' = ops /\ errors' = errors
      /\ provider' = provider /\ call' = call /\ billed' = billed
      /\ \/ /\ ReleaseUnsettled(j, TRUE) /\ WorkerDone(w)
            /\ UpdateJobFailed(j, "provider_failed", "failed", usage[j].held)
         \/ WorkerGoto(w, "erring") /\ UNCHANGED walletVars /\ job' = job
  BY <1>1 DEF FailJobAndReleaseUsage
<1>3. Stored(j) /\ j \in Jobs
  BY <1>1, <1>2, WorkersJob DEF Stored
<1>4. RInv => provider[j] = "failed"
  BY <1>1, <1>2 DEF RInv, WorkersKnow
<1>5. CASE /\ ReleaseUnsettled(j, TRUE) /\ WorkerDone(w)
           /\ UpdateJobFailed(j, "provider_failed", "failed", usage[j].held)
  <2>1. WorkerMoves(w, "idle", None, "none")
    BY <1>5, WorkerDoneMoves
  <2>2. PICK held \in Nat : held = usage[j].held
    BY <1>3 DEF IInv, TypeOK, WalletTypeOK, UsageRow, Jobs
  <2>3. Wrote(j, "provider_failed", job[j].charged, "failed")
    BY <1>3, <1>5, <2>2, UpdateJobFailedWrites DEF JobStatus, Answer
  <2>4. JobsStay /\ WorkersStay /\ OpsStay
    BY <1>2, <1>3, <2>1, <2>3, WroteStays, MovesStay, SameOpsStay
  <2>5. /\ worker' \in [Workers -> WorkerState] /\ job' \in [Jobs -> JobRow]
        /\ op' \in [Operators -> OpState] /\ errors' \in Nat /\ ops' \in Nat
    BY <1>2, <2>1, <2>3 DEF WorkerMoves, Wrote, IInv, TypeOK
  <2>6. (\E body \in BOOLEAN : Release(Owner(j), j, body)) \/ UNCHANGED walletVars
    BY <1>5 DEF ReleaseUnsettled
  <2>7. IInv'
    BY <1>2, <1>3, <2>4, <2>5, <2>6, ReleaseStep
  <2>8. ASSUME RInv PROVE RInv'
    <3>1. CASE Unsettled(j) /\ Release(Owner(j), j, TRUE)
      <4>1. usage[j].status = "running"
        BY <1>3, <2>8, <3>1 DEF Unsettled, RInv, OutcomesAgree, IInv, StoredJobs, Stored, TypeOK,
             WalletTypeOK, UsageRow, UsageStatus, Jobs
      <4>2. /\ usage'[j].status = "failed" /\ usage'[j].held = usage[j].held
            /\ \A k \in Jobs \ {j} : usage'[k] = usage[k]
        BY <1>3, <3>1, ReleaseSettles
      <4>3. \A k \in Jobs : Owner(k)' = Owner(k)
        BY <1>2 DEF Owner
      <4>4. IsFiniteSet(Recorded)' /\ HeldIsRunningHolds'
        BY <1>3, <2>8, <3>1, <4>1, <4>3, HoldsSettled
      <4>5. \A k \in Jobs :
              /\ provider[k] \in {"ok", "failed"} => provider'[k] = provider[k]
              /\ usage[k].status = "succeeded" => usage'[k].status = "succeeded"
              /\ usage'[k].status /= "refunded"
              /\ usage'[k].status = "failed" => provider'[k] \in {"none", "failed"}
              /\ billed'[k] = (IF usage'[k].status = "succeeded" THEN usage'[k].held ELSE 0)
        BY <1>2, <1>4, <2>8, <4>1, <4>2 DEF RInv, OutcomesAgree
      <4> QED
        BY <1>2, <2>1, <2>3, <2>8, <4>4, <4>5, RetryStep DEF WorkerMoves, Wrote
    <3>2. CASE UNCHANGED walletVars
      BY <1>2, <2>1, <2>3, <2>4, <2>8, <3>2, QuietRetryStep DEF WorkerMoves, Wrote
    <3> QED
      BY <1>5, <3>1, <3>2 DEF ReleaseUnsettled
  <2> QED
    BY <2>7, <2>8
<1>6. CASE WorkerGoto(w, "erring") /\ UNCHANGED walletVars /\ job' = job
  <2>1. WorkerMoves(w, "erring", j, poll)
    BY <1>1, <1>6, WorkerGotoMoves
  <2> QED
    BY <1>2, <1>3, <1>4, <1>6, <2>1, WorkerQuiet DEF IInv, TypeOK
<1> QED
  BY <1>2, <1>5, <1>6

\* An operator fails a job by hand.
LEMMA FailReleaseKeeps ==
    ASSUME IInv, NEW o \in Operators, FailRelease(o)
    PROVE  IInv' /\ ~RInv
<1>1. PICK seen \in JobRow, j \in Jobs \cup {None} : j = op[o].job /\ seen = op[o].seen
  BY DEF IInv, TypeOK, OpState
<1>2. /\ op[o].pc = "fail_release" /\ OpDone(o)
      /\ UNCHANGED <<call, provider, worker, billed>> /\ worker' = worker /\ ops' = ops
      /\ errors' = errors
      /\ \/ /\ ReleaseUnsettled(j, seen.result /= "none")
            /\ UpdateJobFailed(j, "failed", seen.result,
                               IF Unsettled(j) THEN usage[j].held ELSE seen.refunded)
         \/ UNCHANGED walletVars /\ job' = job
  BY <1>1 DEF FailRelease
<1>3. Stored(j) /\ j \in Jobs
  BY <1>1, <1>2, OperatorsJob DEF Stored
<1>4. ~RInv
  BY <1>2 DEF RInv, OperatorsKnow
<1>5. OpMoves(o, "idle", None, NoJob)
  BY <1>2, OpDoneMoves
<1>6. WorkersStay /\ OpsStay
  BY <1>2, <1>3, <1>5, OpMovesStay, SameWorkersStay
<1>7. PICK refunded \in Nat : refunded = IF Unsettled(j) THEN usage[j].held ELSE seen.refunded
  BY <1>3 DEF IInv, TypeOK, WalletTypeOK, UsageRow, Jobs, JobRow
<1>8. (Wrote(j, "failed", job[j].charged, seen.result) /\ job' \in [Jobs -> JobRow]) \/ job' = job
  BY <1>2, <1>3, <1>7, UpdateJobFailedWrites DEF JobStatus, JobRow, Wrote
<1>9. JobsStay /\ job' \in [Jobs -> JobRow]
  BY <1>3, <1>8, WroteStays, SameJobsStay DEF IInv, TypeOK
<1>10. (\E body \in BOOLEAN : Release(Owner(j), j, body)) \/ UNCHANGED walletVars
  BY <1>2 DEF ReleaseUnsettled
<1>11. /\ worker' \in [Workers -> WorkerState] /\ op' \in [Operators -> OpState]
       /\ errors' \in Nat /\ ops' \in Nat
  BY <1>2, <1>5 DEF OpMoves, IInv, TypeOK
<1> QED
  BY <1>2, <1>3, <1>4, <1>6, <1>9, <1>10, <1>11, ReleaseStep

\* A customer's back end cancels a job.
LEMMA CancelKeeps ==
    ASSUME IInv, NEW j \in Jobs, Cancel(j)
    PROVE  IInv' /\ ~RetriesOnly
<1>1. PICK old \in JobRow, held \in Nat : old = job[j] /\ held = usage[j].held
  BY DEF IInv, TypeOK, WalletTypeOK, UsageRow, Jobs
<1>2. PICK n \in Nat : n = old.refunded + IF Unsettled(j) /\ usage[j].held > 0 THEN held ELSE 0
  BY DEF JobRow
<1> DEFINE row == [old EXCEPT !.status = "cancelled", !.next = "null", !.refunded = n]
<1>3. row \in JobRow /\ row.status = "cancelled" /\ row.charged = old.charged /\ row.result = old.result
  BY DEF JobRow, JobStatus, Schedule
<1>4. /\ EnsureJobCanCancel(old) /\ "cancel" \in OpKinds
      /\ UNCHANGED <<call, provider, billed>> /\ worker' = worker /\ op' = op /\ errors' = errors
      /\ ops' = ops + 1
      /\ (\E body \in BOOLEAN : Release(Owner(j), j, body)) \/ UNCHANGED walletVars
  BY <1>1 DEF Cancel
<1>5. job' = [job EXCEPT ![j] = row]
  BY <1>1, <1>2 DEF Cancel
<1> HIDE DEF row
<1>6. Stored(j) /\ Wrote(j, "cancelled", old.charged, old.result)
  BY <1>1, <1>3, <1>4, <1>5, RowWritten DEF Stored, EnsureJobCanCancel
<1>7. JobsStay /\ WorkersStay /\ OpsStay
  BY <1>1, <1>4, <1>6, WroteStays, SameWorkersStay, SameOpsStay
<1>8. /\ worker' \in [Workers -> WorkerState] /\ op' \in [Operators -> OpState]
      /\ errors' \in Nat /\ ops' \in Nat /\ job' \in [Jobs -> JobRow]
  BY <1>4, <1>6 DEF Wrote, IInv, TypeOK
<1>9. ~RetriesOnly
  BY <1>4 DEF RetriesOnly
<1> QED
  BY <1>4, <1>6, <1>7, <1>8, <1>9, ReleaseStep

\* An operator refunds a job: the amount the handler has read is at most the
\* hold, and a record that still shows as succeeded was billed that much.
LEMMA RefundKeeps ==
    ASSUME IInv, NEW o \in Operators, Refund(o)
    PROVE  IInv' /\ ~RInv
<1>1. /\ op[o].pc = "refund" /\ OpDone(o) /\ call' = call /\ provider' = provider
      /\ worker' = worker /\ errors' = errors /\ ops' = ops
  BY DEF Refund
<1>2. PICK seen \in JobRow, j \in Jobs : j = op[o].job /\ seen = op[o].seen
  BY <1>1, OperatorsJob DEF IInv, TypeOK, OpState, Stored
<1>3. Stored(j) /\ seen.charged > seen.refunded /\ seen.charged <= call[j].hold
  BY <1>1, <1>2, OperatorsJob DEF IInv, HandlersHaveJobs, RefundRead
<1>4. PICK amount \in Nat : amount = seen.charged - seen.refunded /\ amount <= call[j].hold
  <2>1. seen.charged \in Nat /\ seen.refunded \in Nat /\ call[j].hold \in Nat
    BY <1>2 DEF JobRow, IInv, TypeOK, CallState
  <2> QED
    BY <1>3, <2>1
<1>5. ~RInv
  BY <1>1 DEF RInv, OperatorsKnow
<1>6. OpMoves(o, "idle", None, NoJob)
  BY <1>1, OpDoneMoves
<1>7. WorkersStay /\ OpsStay
  BY <1>1, <1>3, <1>6, OpMovesStay, SameWorkersStay
<1>8. /\ worker' \in [Workers -> WorkerState] /\ op' \in [Operators -> OpState]
      /\ errors' \in Nat /\ ops' \in Nat
  BY <1>1, <1>6 DEF OpMoves, IInv, TypeOK
<1>9. CASE usage[j].status = "succeeded"
  <2>1. PICK c \in Customers, row \in UsageRow, old \in JobRow, b \in Int :
          c = Owner(j) /\ row = usage[j] /\ old = job[j] /\ b = billed[j]
    BY DEF IInv, TypeOK, WalletTypeOK, CallState, Owner, Jobs
  <2>2. PICK n \in Nat, p \in Nat : n = row.refunded + amount /\ p = old.refunded + amount
    BY DEF UsageRow, JobRow
  <2> DEFINE w == UpdateWalletBalance(wallet[c], amount)
             rec == [row EXCEPT !.status = "refunded", !.refunded = n]
             new == [old EXCEPT !.status = "failed", !.refunded = p, !.next = "null"]
  <2>3. /\ w \in WalletRow /\ w.balance = wallet[c].balance + amount /\ w.held = wallet[c].held
    <3>1. wallet[c] \in WalletRow /\ wallet[c].balance + amount >= 0
      BY DEF IInv, TypeOK, WalletTypeOK, WalletRow
    <3> QED
      BY <3>1, BalanceRow
  <2>4. /\ rec \in UsageRow /\ rec.status = "refunded" /\ rec.held = row.held
        /\ new \in JobRow /\ new.status = "failed" /\ new.charged = old.charged
    BY DEF UsageRow, UsageStatus, JobRow, JobStatus, Schedule
  <2>5. /\ wallet' = [wallet EXCEPT ![c] = w]
        /\ ledger' = InsertLedgerEntry(c, w, amount)
        /\ billed' = [billed EXCEPT ![j] = b - amount]
        /\ day' = day
    BY <1>2, <1>4, <1>9, <2>1 DEF Refund
  <2>6. usage' = [usage EXCEPT ![j] = rec]
    BY <1>2, <1>4, <1>9, <2>1, <2>2 DEF Refund
  <2>7. job' = [job EXCEPT ![j] = new]
    BY <1>2, <1>4, <1>9, <2>1, <2>2 DEF Refund
  <2> HIDE DEF w, rec, new
  <2>8. /\ wallet' \in [Customers -> WalletRow] /\ ledger' \in [Customers -> LedgerSummary]
        /\ LedgerReconciles'
    <3>1. amount \in Int /\ Sound
      BY TablesSound
    <3> QED
      BY <2>3, <2>5, <3>1, RecordedChange
  <2>9. usage' \in [Usages -> UsageRow] /\ usage'[j] = rec /\ \A k \in Jobs \ {j} : usage'[k] = usage[k]
    BY <2>4, <2>6 DEF IInv, TypeOK, WalletTypeOK, Jobs
  <2>10. Sound'
    BY <2>5, <2>8, <2>9 DEF Sound, WalletTypeOK, IInv, TypeOK
  <2>11. JobsStay /\ job' \in [Jobs -> JobRow]
    <3>1. Wrote(j, "failed", old.charged, new.result)
      BY <2>4, <2>7, RowWritten
    <3> QED
      BY <1>3, <2>1, <3>1, WroteStays DEF Wrote
  <2>12. b >= row.held /\ row.held = call[j].hold /\ row.held \in Nat
    BY <1>9, <2>1 DEF IInv, SucceededCoversHold, RecordsFollowCalls, UsageRow
  <2>13. /\ billed' \in [Jobs -> Int] /\ billed'[j] = b - amount
         /\ \A k \in Jobs \ {j} : billed'[k] = billed[k]
    BY <2>5 DEF IInv, TypeOK
  <2>14. billed'[j] >= 0
    BY <1>4, <2>12, <2>13
  <2> QED
    BY <1>1, <1>3, <1>5, <1>7, <1>8, <2>1, <2>4, <2>9, <2>10, <2>11, <2>13, <2>14, SettledStep
<1>10. CASE usage[j].status /= "succeeded"
  <2>1. UNCHANGED <<walletVars, job, billed>>
    BY <1>2, <1>10 DEF Refund
  <2> QED
    BY <1>1, <1>3, <1>5, <1>6, <1>8, <2>1, OpQuiet
<1> QED
  BY <1>9, <1>10

-----------------------------------------------------------------------------
(***************************************************************************)
(* The call that creates a job.                                            *)
(***************************************************************************)

\* A call is written whose record, if there is one, stays its record.
CallMoves(j, pc) ==
    /\ call' \in [Jobs -> CallState]
    /\ call'[j].pc = pc /\ call'[j].customer = call[j].customer /\ call'[j].idem = call[j].idem
    /\ call'[j].model = call[j].model /\ call'[j].hold = call[j].hold
    /\ \A k \in Jobs \ {j} : call'[k] = call[k]

LEMMA CallGoto ==
    ASSUME IInv, NEW j \in Jobs, NEW pc \in {"new", "reserving", "submitting", "inserting", "ended"},
           call' = [call EXCEPT ![j].pc = pc]
    PROVE  CallMoves(j, pc)
<1>1. PICK old \in CallState : old = call[j]
  BY DEF IInv, TypeOK
<1> DEFINE row == [old EXCEPT !.pc = pc]
<1>2. /\ row \in CallState /\ row.pc = pc /\ row.customer = old.customer /\ row.idem = old.idem
      /\ row.model = old.model /\ row.hold = old.hold
  BY DEF CallState
<1>3. call' = [call EXCEPT ![j] = row]
  BY <1>1
<1> HIDE DEF row
<1> QED
  BY <1>1, <1>2, <1>3 DEF IInv, TypeOK, CallMoves

\* A job that is not stored has no handler.
LEMMA NobodyHas ==
    ASSUME IInv, NEW j \in Jobs, call[j].pc /= "ended"
    PROVE  /\ job[j].status = "none"
           /\ \A w \in Workers : worker[w].pc /= "idle" => worker[w].job /= j
           /\ \A o \in Operators : op[o].pc /= "idle" => op[o].job /= j
  BY DEF IInv, StoredJobs, HandlersHaveJobs, Stored

\* What is left to show of a step of the call of j.
LEMMA CallStepKeeps ==
    ASSUME IInv, NEW j \in Jobs, call[j].pc /= "ended",
           TypeOK', LedgerReconciles', UNCHANGED <<worker, op, billed>>,
           \A k \in Jobs \ {j} : call'[k] = call[k] /\ usage'[k] = usage[k] /\ job'[k] = job[k]
                                 /\ provider'[k] = provider[k],
           usage'[j].status \notin {"succeeded"},
           call'[j].pc \in {"new", "reserving"} => usage'[j].status = "none",
           call'[j].pc \in {"submitting", "inserting"} => usage'[j].status = "running",
           usage'[j].status /= "none" => usage'[j].held = call'[j].hold,
           usage'[j].status = "none" \/ call'[j].pc = "submitting" => provider'[j] = "none",
           job'[j].status /= "none" => call'[j].pc = "ended" /\ usage'[j].status /= "none",
           job'[j].charged = job[j].charged,
           \A k \in Jobs \ {j} :
             usage'[j].status /= "none" /\ usage[k].status /= "none" /\ call'[j].idem /= NoIdem =>
               ~(call'[j].idem = call[k].idem /\ call'[j].customer = call[k].customer)
    PROVE  IInv'
<1>1. worker' = worker /\ op' = op /\ billed' = billed
  OBVIOUS
<1>2. RecordsFollowCalls'
  BY DEF IInv, RecordsFollowCalls
<1>3. job[j].status = "none" /\ job[j].charged = 0
  BY NobodyHas DEF IInv, StoredJobs
<1>4. call'[j].hold \in Nat
  BY DEF TypeOK, CallState
<1>5. StoredJobs'
  BY <1>3, <1>4 DEF IInv, StoredJobs
<1>6. HandlersHaveJobs'
  BY <1>1, NobodyHas DEF IInv, HandlersHaveJobs, Stored, RefundRead
<1>7. SucceededCoversHold'
  BY <1>1 DEF IInv, SucceededCoversHold
<1>8. RecordsHaveOwnKeys'
  <2>1. ASSUME NEW k \in Jobs, NEW l \in Jobs, k /= l,
               usage'[k].status /= "none", usage'[l].status /= "none",
               call'[k].idem = call'[l].idem, call'[k].idem /= NoIdem,
               call'[k].customer = call'[l].customer
        PROVE  FALSE
    <3>1. CASE k = j
      BY <2>1, <3>1
    <3>2. CASE l = j
      BY <2>1, <3>2
    <3>3. CASE k /= j /\ l /= j
      BY <2>1, <3>3 DEF IInv, RecordsHaveOwnKeys, Owner
    <3> QED
      BY <3>1, <3>2, <3>3
  <2> QED
    BY <2>1 DEF RecordsHaveOwnKeys, Owner
<1> QED
  BY <1>2, <1>5, <1>6, <1>7, <1>8 DEF IInv

\* The same while operators only retry.
LEMMA CallRetryStep ==
    ASSUME IInv, RInv, NEW j \in Jobs, call[j].pc /= "ended",
           IsFiniteSet(Recorded)', HeldIsRunningHolds', UNCHANGED <<worker, op, billed>>,
           \A k \in Jobs \ {j} : usage'[k] = usage[k] /\ job'[k] = job[k] /\ provider'[k] = provider[k],
           usage'[j].status \notin {"succeeded", "refunded"},
           usage'[j].status = "failed" => provider'[j] \in {"none", "failed"},
           provider[j] \in {"ok", "failed"} => provider'[j] = provider[j],
           job'[j].status /= "succeeded", job'[j].result = job[j].result
    PROVE  RInv'
<1>1. worker' = worker /\ op' = op /\ billed' = billed
  OBVIOUS
<1>2. usage[j].status /= "succeeded"
  BY DEF IInv, RecordsFollowCalls, TypeOK, CallState
<1>3. \A k \in Jobs :
        /\ provider[k] \in {"ok", "failed"} => provider'[k] = provider[k]
        /\ usage[k].status = "succeeded" => usage'[k].status = "succeeded"
        /\ usage'[k].status /= "refunded"
        /\ usage'[k].status = "failed" => provider'[k] \in {"none", "failed"}
        /\ billed'[k] = (IF usage'[k].status = "succeeded" THEN usage'[k].held ELSE 0)
  BY <1>1, <1>2 DEF RInv, OutcomesAgree
<1>4. \A k \in Jobs :
        \/ job'[k] = job[k]
        \/ /\ job'[k].result = "ok" => provider'[k] = "ok"
           /\ job'[k].status = "succeeded" => usage'[k].status = "succeeded"
  BY <1>3 DEF RInv, OutcomesAgree
<1> QED
  BY <1>1, <1>3, <1>4, RetryStep

\* Records stay, and so do their owners.
LEMMA SameOwners ==
    ASSUME RInv, UNCHANGED walletVars,
           \A k \in Jobs : usage[k].status /= "none" => call'[k].customer = call[k].customer
    PROVE  IsFiniteSet(Recorded)' /\ HeldIsRunningHolds'
<1>1. wallet' = wallet /\ usage' = usage
  BY DEF walletVars
<1>2. Recorded' = Recorded
  BY <1>1 DEF Recorded
<1>3. \A c : UsagesOf(c)' = UsagesOf(c)
  BY <1>1 DEF UsagesOf, Owner, Jobs
<1> QED
  BY <1>1, <1>2, <1>3 DEF RInv, HeldIsRunningHolds

LEMMA BeginCallKeeps ==
    ASSUME IInv, NEW j \in Jobs, BeginCall(j)
    PROVE  IInv' /\ (RInv => RInv')
<1>1. PICK c \in Customers, i \in IdemKeys \cup {NoIdem}, m \in Models, h \in Nat,
           pc \in {"ended", "reserving"} :
        call' = [call EXCEPT ![j] = [pc |-> pc, customer |-> c, idem |-> i, model |-> m, hold |-> h]]
  <2>1. PICK c \in Customers, i \in IdemKeys \cup {NoIdem}, m \in Models, h \in Holds :
          LET stored == \E k \in Jobs : /\ job[k].status /= "none" /\ i /= NoIdem
                                        /\ call[k].customer = c /\ call[k].idem = i
          IN  call' = [call EXCEPT ![j] = [pc |-> IF stored THEN "ended" ELSE "reserving",
                                           customer |-> c, idem |-> i, model |-> m, hold |-> h]]
    BY DEF BeginCall
  <2>2. PICK pc \in {"ended", "reserving"} :
          pc = IF \E k \in Jobs : /\ job[k].status /= "none" /\ i /= NoIdem
                                  /\ call[k].customer = c /\ call[k].idem = i
               THEN "ended" ELSE "reserving"
    OBVIOUS
  <2>3. h \in Nat
    BY JobsAssumption
  <2> QED
    BY <2>1, <2>2, <2>3
<1> DEFINE row == [pc |-> pc, customer |-> c, idem |-> i, model |-> m, hold |-> h]
<1>2. row \in CallState /\ row.pc = pc
  BY DEF CallState
<1> HIDE DEF row
<1>3. /\ call' \in [Jobs -> CallState] /\ call'[j] = row /\ \A k \in Jobs \ {j} : call'[k] = call[k]
  BY <1>1, <1>2 DEF IInv, TypeOK, row
<1>4. /\ call[j].pc = "new" /\ UNCHANGED walletVars /\ wallet' = wallet /\ usage' = usage
      /\ ledger' = ledger /\ day' = day /\ job' = job /\ provider' = provider
      /\ UNCHANGED <<worker, op, billed>> /\ errors' = errors /\ ops' = ops
  BY DEF BeginCall, walletVars
<1>5. usage[j].status = "none" /\ provider[j] = "none" /\ job[j].status = "none"
  BY <1>4, NobodyHas DEF IInv, RecordsFollowCalls
<1>6. TypeOK' /\ LedgerReconciles'
  BY <1>3, <1>4 DEF IInv, TypeOK, WalletTypeOK, LedgerReconciles
<1>7. IInv'
  BY <1>2, <1>3, <1>4, <1>5, <1>6, CallStepKeeps
<1>8. ASSUME RInv PROVE RInv'
  <2>1. IsFiniteSet(Recorded)' /\ HeldIsRunningHolds'
    BY <1>3, <1>4, <1>5, <1>8, SameOwners
  <2> QED
    BY <1>4, <1>5, <1>8, <2>1, CallRetryStep
<1> QED
  BY <1>7, <1>8

\* A call that writes neither the billing tables nor the jobs.
LEMMA QuietCall ==
    ASSUME IInv, NEW j \in Jobs, call[j].pc \in {"reserving", "submitting", "inserting"},
           NEW pc \in {"inserting", "ended"}, CallMoves(j, pc),
           pc = "inserting" => call[j].pc = "submitting",
           UNCHANGED <<walletVars, job, worker, op, billed, ops>>, errors' \in Nat,
           provider' \in [Jobs -> Answer], \A k \in Jobs \ {j} : provider'[k] = provider[k],
           usage[j].status = "none" => provider'[j] = "none",
           provider[j] \in {"ok", "failed"} => provider'[j] = provider[j]
    PROVE  IInv' /\ (RInv => RInv')
<1>1. /\ wallet' = wallet /\ usage' = usage /\ ledger' = ledger /\ day' = day /\ job' = job
      /\ UNCHANGED <<worker, op, billed>> /\ ops' = ops /\ call[j].pc /= "ended"
  BY DEF walletVars
<1>2. job[j].status = "none" /\ usage[j].status \in {"none", "running"}
  BY <1>1, NobodyHas DEF IInv, RecordsFollowCalls
<1>3. TypeOK' /\ LedgerReconciles'
  BY <1>1 DEF IInv, TypeOK, WalletTypeOK, LedgerReconciles, CallMoves
<1>4. \A k \in Jobs \ {j} :
        usage'[j].status /= "none" /\ usage[k].status /= "none" /\ call'[j].idem /= NoIdem =>
          ~(call'[j].idem = call[k].idem /\ call'[j].customer = call[k].customer)
  BY <1>1 DEF IInv, RecordsHaveOwnKeys, Owner, CallMoves
<1>5. /\ call'[j].pc \in {"new", "reserving"} => usage'[j].status = "none"
      /\ call'[j].pc \in {"submitting", "inserting"} => usage'[j].status = "running"
      /\ usage'[j].status /= "none" => usage'[j].held = call'[j].hold
      /\ usage'[j].status = "none" \/ call'[j].pc = "submitting" => provider'[j] = "none"
  BY <1>1 DEF IInv, RecordsFollowCalls, CallMoves
<1>6. \A k \in Jobs \ {j} : call'[k] = call[k] /\ usage'[k] = usage[k] /\ job'[k] = job[k]
                            /\ provider'[k] = provider[k]
  BY <1>1 DEF CallMoves
<1>7. IInv'
  BY <1>1, <1>2, <1>3, <1>4, <1>5, <1>6, CallStepKeeps
<1>8. ASSUME RInv PROVE RInv'
  <2>1. IsFiniteSet(Recorded)' /\ HeldIsRunningHolds'
    BY <1>8, SameOwners DEF CallMoves
  <2> QED
    BY <1>1, <1>2, <1>6, <1>8, <2>1, CallRetryStep
<1> QED
  BY <1>7, <1>8

LEMMA SubmitOkKeeps ==
    ASSUME IInv, NEW j \in Jobs, SubmitOk(j)
    PROVE  IInv' /\ (RInv => RInv')
<1>1. /\ call[j].pc = "submitting" /\ call' = [call EXCEPT ![j].pc = "inserting"]
      /\ provider' = [provider EXCEPT ![j] = "pending"] /\ errors' = errors
      /\ UNCHANGED <<walletVars, job, worker, op, billed, ops>>
  BY DEF SubmitOk
<1>2. CallMoves(j, "inserting")
  BY <1>1, CallGoto
<1>3. /\ provider' \in [Jobs -> Answer] /\ provider'[j] = "pending"
      /\ \A k \in Jobs \ {j} : provider'[k] = provider[k]
  BY <1>1 DEF IInv, TypeOK, Answer
<1>4. provider[j] = "none" /\ usage[j].status = "running"
  BY <1>1 DEF IInv, RecordsFollowCalls
<1> QED
  BY <1>1, <1>2, <1>3, <1>4, QuietCall DEF IInv, TypeOK

LEMMA LoseCallKeeps ==
    ASSUME IInv, NEW j \in Jobs, LoseCall(j)
    PROVE  IInv' /\ (RInv => RInv')
<1>1. /\ call[j].pc \in {"submitting", "inserting"} /\ call' = [call EXCEPT ![j].pc = "ended"]
      /\ provider' = provider /\ errors' = errors + 1
      /\ UNCHANGED <<walletVars, job, worker, op, billed, ops>>
  BY DEF LoseCall
<1>2. CallMoves(j, "ended")
  BY <1>1, CallGoto
<1>3. /\ provider' \in [Jobs -> Answer] /\ errors' \in Nat
      /\ usage[j].status = "none" => provider'[j] = "none"
  BY <1>1 DEF IInv, TypeOK, RecordsFollowCalls
<1> QED
  BY <1>1, <1>2, <1>3, QuietCall

LEMMA InsertSubmittedJobKeeps ==
    ASSUME IInv, NEW j \in Jobs, InsertSubmittedJob(j)
    PROVE  IInv' /\ (RInv => RInv')
<1>1. /\ call[j].pc = "inserting" /\ call' = [call EXCEPT ![j].pc = "ended"]
      /\ job' = [job EXCEPT ![j].status = "submitted", ![j].next = "later"]
      /\ UNCHANGED walletVars /\ wallet' = wallet /\ usage' = usage /\ ledger' = ledger /\ day' = day
      /\ UNCHANGED <<worker, op, billed>> /\ provider' = provider /\ errors' = errors /\ ops' = ops
  BY DEF InsertSubmittedJob, walletVars
<1>2. CallMoves(j, "ended")
  BY <1>1, CallGoto
<1>3. Wrote(j, "submitted", job[j].charged, job[j].result)
  BY <1>1, RescheduleWrites DEF JobStatus, Schedule
<1>4. usage[j].status = "running" /\ usage[j].held = call[j].hold
  BY <1>1 DEF IInv, RecordsFollowCalls
<1>5. TypeOK' /\ LedgerReconciles'
  BY <1>1, <1>2, <1>3 DEF IInv, TypeOK, WalletTypeOK, LedgerReconciles, CallMoves, Wrote
<1>6. \A k \in Jobs \ {j} :
        usage'[j].status /= "none" /\ usage[k].status /= "none" /\ call'[j].idem /= NoIdem =>
          ~(call'[j].idem = call[k].idem /\ call'[j].customer = call[k].customer)
  BY <1>1, <1>2 DEF IInv, RecordsHaveOwnKeys, Owner, CallMoves
<1>7. \A k \in Jobs \ {j} : call'[k] = call[k] /\ usage'[k] = usage[k] /\ job'[k] = job[k]
                            /\ provider'[k] = provider[k]
  BY <1>1, <1>2, <1>3 DEF CallMoves, Wrote
<1>8. /\ job'[j].status = "submitted" /\ job'[j].charged = job[j].charged
      /\ job'[j].result = job[j].result /\ call'[j].pc = "ended" /\ call'[j].hold = call[j].hold
  BY <1>2, <1>3 DEF CallMoves, Wrote
<1>9. IInv'
  BY <1>1, <1>4, <1>5, <1>6, <1>7, <1>8, CallStepKeeps
<1>10. ASSUME RInv PROVE RInv'
  <2>1. IsFiniteSet(Recorded)' /\ HeldIsRunningHolds'
    BY <1>1, <1>2, <1>10, SameOwners DEF CallMoves
  <2> QED
    BY <1>1, <1>4, <1>7, <1>8, <1>10, <2>1, CallRetryStep
<1> QED
  BY <1>9, <1>10

\* The submission failed: the hold of the call is released.
LEMMA SubmitFailKeeps ==
    ASSUME IInv, NEW j \in Jobs, SubmitFail(j)
    PROVE  IInv' /\ (RInv => RInv')
<1>1. /\ call[j].pc = "submitting" /\ call' = [call EXCEPT ![j].pc = "ended"]
      /\ Release(Owner(j), j, FALSE) /\ job' = job
      /\ UNCHANGED <<worker, op, billed>> /\ provider' = provider /\ errors' = errors /\ ops' = ops
  BY DEF SubmitFail
<1>2. CallMoves(j, "ended")
  BY <1>1, CallGoto
<1>3. PICK c \in Customers : c = Owner(j)
  BY DEF IInv, TypeOK, CallState, Owner
<1>4. /\ usage[j].status = "running" /\ usage[j].held = call[j].hold /\ provider[j] = "none"
      /\ job[j].status = "none"
  BY <1>1, NobodyHas DEF IInv, RecordsFollowCalls
<1>5. /\ Sound' /\ usage'[j].status = "failed" /\ usage'[j].held = usage[j].held
      /\ \A k \in Jobs \ {j} : usage'[k] = usage[k]
  BY <1>1, <1>3, TablesSound, ReleaseSound DEF Jobs
<1>6. TypeOK' /\ LedgerReconciles'
  BY <1>1, <1>2, <1>5 DEF IInv, TypeOK, Sound, CallMoves
<1>7. \A k \in Jobs \ {j} :
        usage'[j].status /= "none" /\ usage[k].status /= "none" /\ call'[j].idem /= NoIdem =>
          ~(call'[j].idem = call[k].idem /\ call'[j].customer = call[k].customer)
  BY <1>2, <1>4 DEF IInv, RecordsHaveOwnKeys, Owner, CallMoves
<1>8. \A k \in Jobs \ {j} : call'[k] = call[k] /\ usage'[k] = usage[k] /\ job'[k] = job[k]
                            /\ provider'[k] = provider[k]
  BY <1>1, <1>2, <1>5 DEF CallMoves
<1>9. call'[j].pc = "ended" /\ call'[j].hold = call[j].hold
  BY <1>2 DEF CallMoves
<1>10. IInv'
  BY <1>1, <1>4, <1>5, <1>6, <1>7, <1>8, <1>9, CallStepKeeps
<1>11. ASSUME RInv PROVE RInv'
  <2>1. \A k \in Jobs : Owner(k)' = Owner(k)
    BY <1>2 DEF CallMoves, Owner
  <2>2. IsFiniteSet(Recorded)' /\ HeldIsRunningHolds'
    BY <1>1, <1>4, <1>11, <2>1, HoldsSettled
  <2> QED
    BY <1>1, <1>4, <1>5, <1>8, <1>11, <2>2, CallRetryStep
<1> QED
  BY <1>10, <1>11

\* A reservation adds its hold to the wallet and to what running records hold.
LEMMA HoldsReserved ==
    ASSUME IInv, RInv, NEW j \in Jobs, usage[j].status = "none",
           Reserve(Owner(j), j, call[j].hold, day), \A k \in Jobs : Owner(k)' = Owner(k)
    PROVE  IsFiniteSet(Recorded)' /\ HeldIsRunningHolds'
<1>1. PICK c \in Customers, hold \in Nat : c = Owner(j) /\ hold = call[j].hold
  BY DEF IInv, TypeOK, CallState, Owner
<1>2. /\ wallet'[c].held = wallet[c].held + hold
      /\ \A e \in Customers \ {c} : wallet'[e] = wallet[e]
      /\ usage'[j].status = "running" /\ usage'[j].held = hold
      /\ \A v \in Usages \ {j} : usage'[v] = usage[v]
  <2>1. Sound /\ j \in Usages /\ day \in Nat /\ Reserve(c, j, hold, day)
    BY <1>1, TablesSound DEF IInv, TypeOK, WalletTypeOK, Jobs
  <2>2. usage'[j].status = "running" /\ usage'[j].held = hold
    BY <2>1, ReserveSound
  <2>3. /\ wallet'[c].held = wallet[c].held + hold
        /\ \A e \in Customers \ {c} : wallet'[e] = wallet[e]
        /\ \A v \in Usages \ {j} : usage'[v] = usage[v]
    BY <2>1, ReserveWrites
  <2> QED
    BY <2>2, <2>3
<1>3. Recorded' = Recorded \cup {j}
  BY <1>2 DEF Recorded, Jobs
<1>4. IsFiniteSet(Recorded')
  BY <1>3, FS_AddElement DEF RInv
<1>5. ASSUME NEW e \in Customers PROVE wallet'[e].held = HoldsOf(usage', UsagesOf(e)')
  <2>1. PICK U : U = UsagesOf(e)
    OBVIOUS
  <2>2. /\ Summable(usage, U) /\ wallet[e].held = HoldsOf(usage, U)
        /\ j \notin U /\ U \subseteq Usages
    BY <2>1, RecordsSummable DEF RInv, HeldIsRunningHolds, UsagesOf
  <2>3. CASE e = c
    <3>1. UsagesOf(e)' = U \cup {j}
      BY <1>1, <1>2, <2>1, <2>3 DEF UsagesOf, Jobs
    <3>2. HoldsOf(usage', U \cup {j}) = HoldsOf(usage, U) + usage'[j].held
      BY <1>2, <2>2, HoldsAdd
    <3> QED
      BY <1>2, <2>2, <2>3, <3>1, <3>2
  <2>4. CASE e /= c
    <3>1. UsagesOf(e)' = U
      BY <1>1, <1>2, <2>1, <2>4 DEF UsagesOf, Jobs
    <3>2. HoldsOf(usage', U) = HoldsOf(usage, U)
      BY <1>2, <2>2, HoldsSame
    <3> QED
      BY <1>2, <2>2, <2>4, <3>1, <3>2
  <2> QED
    BY <2>3, <2>4
<1>6. HeldIsRunningHolds'
  BY <1>5 DEF HeldIsRunningHolds
<1> QED
  BY <1>4, <1>6

LEMMA ReserveCallKeeps ==
    ASSUME IInv, NEW j \in Jobs, ReserveCall(j)
    PROVE  IInv' /\ (RInv => RInv')
<1>1. /\ call[j].pc = "reserving" /\ provider' = provider /\ job' = job
      /\ UNCHANGED <<worker, op, billed>> /\ errors' = errors /\ ops' = ops
  BY DEF ReserveCall
<1>2. usage[j].status = "none" /\ provider[j] = "none" /\ job[j].status = "none"
  BY <1>1, NobodyHas DEF IInv, RecordsFollowCalls
<1>3. CASE call' = [call EXCEPT ![j].pc = "ended"] /\ UNCHANGED walletVars
  <2>1. CallMoves(j, "ended")
    BY <1>3, CallGoto
  <2> QED
    BY <1>1, <1>2, <1>3, <2>1, QuietCall DEF IInv, TypeOK
<1>4. CASE /\ MayReserve(j) /\ Reserve(Owner(j), j, call[j].hold, day)
           /\ call' = [call EXCEPT ![j].pc = "submitting"]
  <2>1. CallMoves(j, "submitting")
    BY <1>4, CallGoto
  <2>2. PICK c \in Customers, hold \in Nat : c = Owner(j) /\ hold = call[j].hold
    BY DEF IInv, TypeOK, CallState, Owner
  <2>3. /\ Sound' /\ usage'[j].status = "running" /\ usage'[j].held = hold
        /\ \A v \in Usages \ {j} : usage'[v] = usage[v]
    <3>1. Sound /\ j \in Usages /\ day \in Nat /\ Reserve(c, j, hold, day)
      BY <1>4, <2>2, TablesSound DEF IInv, TypeOK, WalletTypeOK, Jobs
    <3> QED
      BY <3>1, ReserveSound
  <2>4. TypeOK' /\ LedgerReconciles'
    BY <1>1, <2>1, <2>3 DEF IInv, TypeOK, Sound, CallMoves
  <2>5. \A k \in Jobs \ {j} : usage[k].status /= "none" /\ call[j].idem /= NoIdem =>
          ~(call[j].idem = call[k].idem /\ call[j].customer = call[k].customer)
    BY <1>4 DEF MayReserve, SameKey, Owner, Jobs
  <2>6. \A k \in Jobs \ {j} :
          usage'[j].status /= "none" /\ usage[k].status /= "none" /\ call'[j].idem /= NoIdem =>
            ~(call'[j].idem = call[k].idem /\ call'[j].customer = call[k].customer)
    BY <2>1, <2>5 DEF CallMoves
  <2>7. \A k \in Jobs \ {j} : call'[k] = call[k] /\ usage'[k] = usage[k] /\ job'[k] = job[k]
                              /\ provider'[k] = provider[k]
    BY <1>1, <2>1, <2>3 DEF CallMoves, Jobs
  <2>8. call'[j].pc = "submitting" /\ call'[j].hold = hold
    BY <2>1, <2>2 DEF CallMoves
  <2>9. IInv'
    BY <1>1, <1>2, <2>3, <2>4, <2>6, <2>7, <2>8, CallStepKeeps
  <2>10. ASSUME RInv PROVE RInv'
    <3>1. \A k \in Jobs : Owner(k)' = Owner(k)
      BY <2>1 DEF CallMoves, Owner
    <3>2. IsFiniteSet(Recorded)' /\ HeldIsRunningHolds'
      BY <1>2, <1>4, <2>10, <3>1, HoldsReserved
    <3> QED
      BY <1>1, <1>2, <2>3, <2>7, <2>10, <3>2, CallRetryStep
  <2> QED
    BY <2>9, <2>10
<1> QED
  BY <1>3, <1>4 DEF ReserveCall

-----------------------------------------------------------------------------
(***************************************************************************)
(* The invariants hold.                                                    *)
(***************************************************************************)

LEMMA InitIInv == Init => IInv
<1> SUFFICES ASSUME Init PROVE IInv
  OBVIOUS
<1>1. /\ \A j \in Jobs : /\ call[j].pc = "new" /\ usage[j].status = "none" /\ provider[j] = "none"
                         /\ job[j].status = "none" /\ job[j].charged = 0 /\ call[j].hold = 0
                         /\ billed[j] = 0
      /\ \A w \in Workers : worker[w].pc = "idle"
      /\ \A o \in Operators : op[o].pc = "idle"
  BY DEF Init, WalletInit, NoUsage, NoJob, IdleWorker, IdleOp, Jobs
<1>2. WalletTypeOK /\ LedgerReconciles
  BY WalletAssumption DEF Init, WalletInit, WalletTypeOK, LedgerReconciles, WalletRow, Limit, NoUsage,
     UsageRow, UsageStatus, LedgerSummary
<1>3. call \in [Jobs -> CallState]
  <2>1. PICK c \in Customers, m \in Models :
          c = (CHOOSE x \in Customers : TRUE) /\ m = (CHOOSE x \in Models : TRUE)
    BY JobsAssumption
  <2> QED
    BY <2>1 DEF Init, CallState
<1>4. NoJob \in JobRow
  BY JobsAssumption DEF NoJob, JobRow, JobStatus, Schedule, Answer
<1>5. IdleWorker \in WorkerState /\ IdleOp \in OpState
  BY <1>4, JobsAssumption DEF IdleWorker, WorkerState, Answer, IdleOp, OpState
<1>6. TypeOK
  BY <1>2, <1>3, <1>4, <1>5 DEF Init, TypeOK, Answer
<1> QED
  BY <1>1, <1>2, <1>6 DEF IInv, RecordsFollowCalls, StoredJobs, HandlersHaveJobs, SucceededCoversHold,
     RecordsHaveOwnKeys

LEMMA InitRInv == Init => RInv
<1> SUFFICES ASSUME Init PROVE RInv
  OBVIOUS
<1>1. /\ \A j \in Jobs : /\ usage[j].status = "none" /\ provider[j] = "none" /\ billed[j] = 0
                         /\ job[j].status = "none" /\ job[j].result = "none"
      /\ \A w \in Workers : worker[w].pc = "idle"
      /\ \A o \in Operators : op[o].pc = "idle"
      /\ \A c \in Customers : wallet[c].held = 0
  BY DEF Init, WalletInit, NoUsage, NoJob, IdleWorker, IdleOp, Jobs
<1>2. Recorded = {} /\ \A c \in Customers : UsagesOf(c) = {}
  BY <1>1 DEF Recorded, UsagesOf, Jobs
<1>3. HoldsOf(usage, {}) = 0
  <2>1. {u \in {} : usage[u].status = "running"} = {}
    OBVIOUS
  <2> QED
    BY <2>1, SumEmpty DEF HoldsOf
<1>4. IsFiniteSet(Recorded)
  BY <1>2, FS_EmptySet
<1>5. HeldIsRunningHolds
  BY <1>1, <1>2, <1>3 DEF HeldIsRunningHolds
<1> QED
  BY <1>1, <1>4, <1>5 DEF RInv, OutcomesAgree, WorkersKnow, OperatorsKnow

\* Every step keeps the invariants.
LEMMA NextKeeps ==
    ASSUME IInv, [Next]_vars
    PROVE  IInv' /\ (RetriesOnly /\ RInv => RInv')
<1>1. CASE UNCHANGED vars
  <2>1. /\ UNCHANGED <<walletVars, call, billed>> /\ provider' = provider /\ job' = job
        /\ worker' = worker /\ op' = op /\ errors' = errors /\ ops' = ops
    BY <1>1 DEF vars
  <2>2. JobsStay /\ WorkersStay /\ OpsStay
    BY <2>1, SameJobsStay, SameWorkersStay, SameOpsStay
  <2>3. IInv'
    BY <2>1, <2>2, QuietStep DEF IInv, TypeOK
  <2>4. RInv => RInv'
    BY <2>1, <2>2, QuietRetryStep
  <2> QED
    BY <2>3, <2>4
<1>2. CASE \E j \in Jobs : \/ BeginCall(j) \/ CallStep(j) \/ LoseCall(j)
                           \/ ProviderFinish(j) \/ BecomeDue(j) \/ Cancel(j)
  BY <1>2, BeginCallKeeps, ReserveCallKeeps, SubmitOkKeeps, SubmitFailKeeps,
     InsertSubmittedJobKeeps, LoseCallKeeps, ProviderFinishKeeps, BecomeDueKeeps, CancelKeeps
     DEF CallStep
<1>3. CASE \E w \in Workers : WorkerStep(w) \/ CachingFailed(w) \/ StepFails(w) \/ WorkerCrash(w)
  BY <1>3, ClaimKeeps, PollKeeps, StillRunningKeeps, FailJobAndReleaseUsageKeeps,
     ProviderSucceededKeeps, CaptureJobKeeps, SucceedKeeps, MarkErrorKeeps, CachingFailedKeeps,
     StepFailsKeeps, WorkerCrashKeeps DEF WorkerStep
<1>4. CASE \E o \in Operators :
             \/ \E j \in Jobs, kind \in OpKinds \ {"cancel"} : LoadAdminJob(o, j, kind)
             \/ OpStep(o) \/ OpFails(o)
  BY <1>4, LoadAdminJobKeeps, RetryPollKeeps, FailReleaseKeeps, RefundKeeps, RetryCacheKeeps,
     RetryCacheCaptureKeeps, RetryCacheSucceedKeeps, OpFailsKeeps DEF OpStep
<1> QED
  BY <1>1, <1>2, <1>3, <1>4 DEF Next

LEMMA Invariance == Spec => []IInv
  BY InitIInv, NextKeeps, PTL DEF Spec

LEMMA RetryInvariance ==
    ASSUME RetriesOnly PROVE Spec => []RInv
<1>1. IInv /\ RInv /\ [Next]_vars => RInv'
  BY NextKeeps
<1> QED
  BY <1>1, InitRInv, Invariance, PTL DEF Spec

-----------------------------------------------------------------------------
(***************************************************************************)
(* What the runs check, for every value of the constants.                  *)
(***************************************************************************)

\* Whatever operators do to jobs that workers are at work on, and however old
\* the rows they act on (refund_ai_generation_job, refund_admin_job,
\* cancel_server_job_and_release_usage): the ledger adds up to the wallet and
\* no job gives back more than was captured for it.
THEOREM RefundsCovered == Spec => []RefundsAreCovered
<1>1. IInv => RefundsAreCovered
  BY DEF IInv, SucceededCoversHold, RefundsAreCovered, RefundsNeverExceedCaptures
<1> QED
  BY <1>1, Invariance, PTL

\* Of any number of requests with one Idempotency-Key, overlapping or repeated
\* after a lost answer, at most one reaches the provider
\* (create_server_generation_job, reserve_wallet_and_create_usage).
THEOREM KeyReachesProviderOnce == Spec => []OneSubmissionPerKey
<1>1. IInv => OneSubmissionPerKey
  BY DEF IInv, RecordsHaveOwnKeys, RecordsFollowCalls, OneSubmissionPerKey
<1> QED
  BY <1>1, Invariance, PTL

\* While operators only retry, any number of workers that lose their leases,
\* fail and are started again bill a job at most once, and a job shows as
\* succeeded only when it was billed (capture_usage, mark_job_succeeded).
THEOREM JobsPaidOnce ==
    ASSUME RetriesOnly PROVE Spec => []PaidOnce
<1>1. IInv /\ RInv => PaidOnce
  <2> SUFFICES ASSUME IInv, RInv PROVE PaidOnce
    OBVIOUS
  <2>1. \A j \in Jobs : usage[j].held \in Nat
    BY DEF IInv, TypeOK, WalletTypeOK, UsageRow, Jobs
  <2>2. BilledAtMostOnce
    BY <2>1 DEF RInv, OutcomesAgree, BilledAtMostOnce
  <2>3. SucceededIsBilled
    BY DEF RInv, OutcomesAgree, SucceededIsBilled
  <2> QED
    BY <2>2, <2>3 DEF IInv, PaidOnce
<1> QED
  BY <1>1, Invariance, RetryInvariance, PTL

\* Under the same condition a wallet has on hold exactly what its running jobs
\* hold: no hold is captured or released twice, and none is forgotten once its
\* record is settled.
THEOREM JobHoldsAreRunning ==
    ASSUME RetriesOnly PROVE Spec => []HeldIsRunningHolds
<1>1. RInv => HeldIsRunningHolds
  BY DEF RInv
<1> QED
  BY <1>1, RetryInvariance, PTL
=============================================================================
