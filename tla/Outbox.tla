------------------------------- MODULE Outbox -------------------------------
(***************************************************************************)
(* The e-mail outbox, outbox/worker.rs and outbox/admin.rs.  Transactions  *)
(* of other modules insert events into outbox_events; a worker in every    *)
(* process claims a batch of due events under a lease (next_run_at), sends *)
(* them one after the other and marks each one; an operator may retry an   *)
(* event that has failed.  The marks are updates by id without a condition *)
(* on the status, so a worker that has lost its lease still writes.        *)
(*                                                                         *)
(* One worker of the model is the loop of one process.  Mail settings are  *)
(* taken to be present: without them the loop does nothing.                *)
(***************************************************************************)
EXTENDS Integers, Sequences, SequencesExt, FiniteSets

CONSTANTS
    Events,       \* rows of outbox_events with an email.* type
    Workers,      \* processes
    BatchSize,    \* EMAIL_OUTBOX_BATCH_SIZE
    MaxAttempts,  \* EMAIL_OUTBOX_MAX_ATTEMPTS
    MaxFaults,    \* bound on failed sends, failed updates and stopped processes
    MaxRetries    \* bound on the operators' retries

ASSUME OutboxAssumption ==
    /\ BatchSize \in Nat \ {0} /\ MaxAttempts \in Nat \ {0}
    /\ MaxFaults \in Nat /\ MaxRetries \in Nat

VARIABLES
    event,    \* outbox_events
    worker,   \* the loop of a process: the claimed jobs it has yet to finish
    sent,     \* how often the mail server took the mail of an event
    causes,   \* per event, how often something happened that may send it again
    faults,   \* how many faults there have been
    retries   \* how many retries there have been

outboxVars == <<event, worker, sent, causes, faults, retries>>

\* due is next_run_at <= now().  attempts is only compared with MaxAttempts and
\* is kept up to it.
EventRow == [status : {"none", "pending", "processing", "processed", "failed"},
             attempts : 0 .. MaxAttempts, due : BOOLEAN]

\* EmailOutboxJob.
Job == [event : Events, attempts : 0 .. MaxAttempts]

WorkerState == [pc : {"idle", "sending", "sent", "failing"}, jobs : Seq(Job)]

OutboxTypeOK ==
    /\ event \in [Events -> EventRow]
    /\ worker \in [Workers -> WorkerState]
    /\ \A w \in Workers : /\ Len(worker[w].jobs) <= BatchSize
                          /\ worker[w].pc = "idle" <=> worker[w].jobs = <<>>
    /\ sent \in [Events -> Nat] /\ causes \in [Events -> Nat]
    /\ faults \in Nat /\ retries \in Nat

IdleWorker == [pc |-> "idle", jobs |-> <<>>]

OutboxInit ==
    /\ event = [e \in Events |-> [status |-> "none", attempts |-> 0, due |-> FALSE]]
    /\ worker = [w \in Workers |-> IdleWorker]
    /\ sent = [e \in Events |-> 0] /\ causes = [e \in Events |-> 0]
    /\ faults = 0 /\ retries = 0

-----------------------------------------------------------------------------
\* A worker has claimed e and has yet to finish with it.
Holds(w, e) == \E i \in DOMAIN worker[w].jobs : worker[w].jobs[i].event = e

\* The event of the job a worker is busy with.
Current(w) == Head(worker[w].jobs).event

\* The next job of the batch, or the next tick of the loop.
NextJob(w) ==
    worker' = [worker EXCEPT ![w] = IF Len(worker[w].jobs) = 1 THEN IdleWorker
                                    ELSE [pc |-> "sending", jobs |-> Tail(worker[w].jobs)]]

Goto(w, pc) == worker' = [worker EXCEPT ![w].pc = pc]

Fault == faults < MaxFaults /\ faults' = faults + 1

\* Something happened to the events in E after which they may be sent again.
Excuse(E) == causes' = [e \in Events |-> IF e \in E THEN causes[e] + 1 ELSE causes[e]]

-----------------------------------------------------------------------------
\* enqueue_token_email, as part of another module's transaction.
Enqueue(e) ==
    /\ event[e].status = "none"
    /\ event' = [event EXCEPT ![e] = [status |-> "pending", attempts |-> 0, due |-> TRUE]]
    /\ UNCHANGED <<worker, sent, causes, faults, retries>>

\* next_run_at passes: the delay of a retry, or the lease of a worker, which
\* may still be at work on the event.
BecomeDue(e) ==
    /\ event[e].status \in {"pending", "processing"} /\ ~event[e].due
    /\ event' = [event EXCEPT ![e].due = TRUE]
    /\ Excuse(IF \E w \in Workers : Holds(w, e) THEN {e} ELSE {})
    /\ UNCHANGED <<worker, sent, faults, retries>>

\* Mutant: next_run_at is left as it is, so the claim is no lease.
ClaimedRowNoLease(row) ==
    [row EXCEPT !.status = "processing",
                !.attempts = IF @ < MaxAttempts THEN @ + 1 ELSE @]

\* The columns claim_pending_email_jobs sets.
ClaimedRow(row) ==
    [status   |-> "processing",
     attempts |-> IF row.attempts < MaxAttempts THEN row.attempts + 1 ELSE row.attempts,
     due      |-> FALSE]

\* Mutant: events whose worker died are not picked up again.
ClaimablePendingOnly(e) == event[e].due /\ event[e].status = "pending"

Claimable(e) == event[e].due /\ event[e].status \in {"pending", "processing"}

\* claim_pending_email_jobs.  The statement skips rows another claim has
\* locked, and returns the rows in no particular order.
ClaimPendingEmailJobs(w) ==
    /\ worker[w].pc = "idle"
    /\ \E E \in SUBSET {e \in Events : Claimable(e)} :
         /\ E /= {} /\ Cardinality(E) <= BatchSize
         /\ event' = [e \in Events |-> IF e \in E THEN ClaimedRow(event[e]) ELSE event[e]]
         /\ \E order \in SetToSeqs(E) :
              worker' = [worker EXCEPT ![w] =
                [pc |-> "sending",
                 jobs |-> [i \in DOMAIN order |->
                             [event |-> order[i],
                              attempts |-> ClaimedRow(event[order[i]]).attempts]]]]
    /\ UNCHANGED <<sent, causes, faults, retries>>

\* send_email returns Ok.
SendOk(w) ==
    /\ worker[w].pc = "sending"
    /\ sent' = [sent EXCEPT ![Current(w)] = @ + 1]
    /\ Goto(w, "sent")
    /\ UNCHANGED <<event, causes, faults, retries>>

\* It returns an error, or the payload cannot be read; the mail may have been
\* taken all the same.
SendFails(w) ==
    /\ worker[w].pc = "sending"
    /\ Fault
    /\ \/ UNCHANGED <<sent, causes>>
       \/ /\ sent' = [sent EXCEPT ![Current(w)] = @ + 1]
          /\ Excuse({Current(w)})
    /\ Goto(w, "failing")
    /\ UNCHANGED <<event, retries>>

\* mark_job_processed.
MarkJobProcessed(w) ==
    /\ worker[w].pc = "sent"
    /\ event' = [event EXCEPT ![Current(w)].status = "processed"]
    /\ NextJob(w)
    /\ UNCHANGED <<sent, causes, faults, retries>>

\* mark_job_processed fails, which process_pending_email_batch takes for a
\* failed job.
MarkProcessedFails(w) ==
    /\ worker[w].pc = "sent"
    /\ Fault
    /\ Excuse({Current(w)})
    /\ Goto(w, "failing")
    /\ UNCHANGED <<event, sent, retries>>

\* mark_job_failed: the number of attempts is the one the claim returned.
MarkJobFailed(w) ==
    /\ worker[w].pc = "failing"
    /\ LET e == Current(w) IN
       \/ /\ Head(worker[w].jobs).attempts >= MaxAttempts
          /\ event' = [event EXCEPT ![e].status = "failed"]
       \/ /\ Head(worker[w].jobs).attempts < MaxAttempts
          /\ event' = [event EXCEPT ![e].status = "pending", ![e].due = FALSE]
    /\ NextJob(w)
    /\ UNCHANGED <<sent, causes, faults, retries>>

\* mark_job_failed fails: the error is logged and the batch goes on.
MarkFailedFails(w) ==
    /\ worker[w].pc = "failing"
    /\ Fault
    /\ NextJob(w)
    /\ UNCHANGED <<event, sent, causes, retries>>

\* The process stops in the middle of a batch.
Crash(w) ==
    /\ worker[w].pc /= "idle"
    /\ Fault
    /\ Excuse(IF worker[w].pc = "sent" THEN {Current(w)} ELSE {})
    /\ worker' = [worker EXCEPT ![w] = IdleWorker]
    /\ UNCHANGED <<event, sent, retries>>

\* retry_outbox_event: one transaction that locks the row.
RetryOutboxEvent(e) ==
    /\ retries < MaxRetries
    /\ event[e].status = "failed"
    /\ event' = [event EXCEPT ![e] = [status |-> "pending", attempts |-> 0, due |-> TRUE]]
    /\ retries' = retries + 1
    /\ UNCHANGED <<worker, sent, causes, faults>>

-----------------------------------------------------------------------------
WorkerStep(w) ==
    \/ ClaimPendingEmailJobs(w) \/ SendOk(w) \/ MarkJobProcessed(w) \/ MarkJobFailed(w)

OutboxNext ==
    \/ \E e \in Events : Enqueue(e) \/ BecomeDue(e) \/ RetryOutboxEvent(e)
    \/ \E w \in Workers : \/ WorkerStep(w)
                          \/ SendFails(w) \/ MarkProcessedFails(w)
                          \/ MarkFailedFails(w) \/ Crash(w)

\* The loops tick for ever and time passes.  As every event is claimed a bounded
\* number of times, it is enough that some worker or some clock goes on.
OutboxFairness == WF_outboxVars((\E w \in Workers : WorkerStep(w)) \/ (\E e \in Events : BecomeDue(e)))

-----------------------------------------------------------------------------
(***************************************************************************)
(* Properties.                                                             *)
(***************************************************************************)

\* A mail is sent a second time only for a reason: its worker never learned or
\* could not record that the first was sent (the answer of the mail server or
\* the update was lost, the process stopped), or a lease ran out under a worker
\* still at work.  Each of these accounts for one more mail, and nothing else
\* does: neither failed sends nor the retries of operators add any.
DuplicatesHaveACause == \A e \in Events : sent[e] <= 1 + causes[e]

\* An event that shows as processed has been sent, whichever workers held it.
ProcessedWasSent == \A e \in Events : event[e].status = "processed" => sent[e] > 0

\* No event is forgotten: once it is queued it is processed or fails for good,
\* and workers that lost their lease stop bringing it back.
EventSettles ==
    <>[](\A e \in Events : event[e].status \in {"none", "processed", "failed"})
=============================================================================
