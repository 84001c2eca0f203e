--------------------------- MODULE TriageJobStore ---------------------------
(***************************************************************************)
(* The durable record of one triage job and the conditional writes of the  *)
(* job store (collab/server/src/modules/triage-runs/store.ts).  Every      *)
(* write of the store is a single-row compare-and-set: a guard on the row  *)
(* found, and the row written.  The guards and the written rows are the    *)
(* operators below; TriageRuns makes the steps of the service from them.   *)
(*                                                                         *)
(* Time is relative: a lease is the time that remains until it expires on  *)
(* the slowest of the clocks, 0 once it has.  "now" is how far the clock   *)
(* that judges the lease runs ahead of the slowest one, so that the        *)
(* source's "lease > now" stays lease > now.                               *)
(***************************************************************************)
EXTENDS Integers, TriageLifecycle

CONSTANTS Lanes,     \* the candidates every job of the model is created with
          Attempts,  \* request fingerprint plus declared parent, as one identity
          Modes,     \* execution modes requested: "gateway", "mock"
          Workers,   \* worker ids
          StoreClock \* how far the database's clock runs ahead of the slowest

\* A job no worker has claimed, and a job without a lease.
NoWorker == "no_worker"
NoLease == -1

ASSUME StoreAssumption ==
  /\ NoWorker \notin Workers
  /\ StoreClock \in Nat
  /\ Lanes # {}
  /\ Attempts # {}
  /\ Modes # {} /\ Modes \subseteq {"gateway", "mock"}

StoppedReasons ==
  {"none", "cancel_requested", "worker_lease_expired", "runner_error", "refused"}

Leases == Nat \union {NoLease}

\* A row of triage_jobs; "absent" stands for no row under that id.
Row ==
  [status : TRIAGE_JOB_STATUSES \union {"absent"},
   worker : Workers \union {NoWorker},
   lease : Leases,
   cancelRequested : BOOLEAN,
   reason : StoppedReasons,
   lanes : [Lanes -> TRIAGE_JOB_STATUSES],
   mode : Modes,
   attempt : Attempts]

queuedJob(attempt, mode) ==
  [status |-> "queued", worker |-> NoWorker, lease |-> NoLease,
   cancelRequested |-> FALSE, reason |-> "none",
   lanes |-> [l \in Lanes |-> "queued"], mode |-> mode, attempt |-> attempt]

absentJob ==
  [queuedJob(CHOOSE a \in Attempts : TRUE, CHOOSE m \in Modes : TRUE) EXCEPT !.status = "absent"]

triageWorkerHoldsLiveLease(job, worker, now) ==
  /\ job.status = "running"
  /\ job.worker = worker
  /\ job.lease # NoLease
  /\ job.lease > now

\* Mutant: a lease is given up one tick before it expires.
triageRunningLeaseExpired_Early(job, now) ==
  /\ job.status = "running"
  /\ job.lease = NoLease \/ job.lease <= now + 1

triageRunningLeaseExpired(job, now) ==
  /\ job.status = "running"
  /\ job.lease = NoLease \/ job.lease <= now

laterLeaseExpiresAt(existing, incoming) ==
  IF existing = NoLease THEN incoming
  ELSE IF incoming = NoLease \/ existing >= incoming THEN existing
  ELSE incoming

\* Mutant: a job that another worker runs can be claimed again.
claimable_Running(job) == job.status \in {"queued", "running"}

\* claimQueued: the guard and the row.
claimable(job) == job.status = "queued"

claimed(job, worker, lease) ==
  [job EXCEPT !.status = "running", !.worker = worker, !.lease = lease]

\* renewLease judges the lease by the database clock.
renewable(job, worker) == triageWorkerHoldsLiveLease(job, worker, StoreClock)

\* recoverStale judges the lease by the clock of the recovering server.
recoverable(existing, job, now) ==
  /\ triageRunningLeaseExpired(existing, now)
  /\ existing.worker = job.worker

\* Mutant: the owner may write whatever the status of the job is.
updatable_AnyStatus(existing, job) == existing.worker = job.worker

\* Mutant: the owner may write a running job after its lease has expired.
updatable_NoLease(existing, job) ==
  /\ existing.worker = job.worker
  /\ existing.status \in {"queued", "running"}

\* update: leaseAllowsTriageUpdate, by the database clock.
updatable(existing, job) ==
  /\ existing.worker = job.worker
  /\ existing.status = "queued" \/ triageWorkerHoldsLiveLease(existing, existing.worker, StoreClock)

\* Mutant: the lease of the row being written replaces a renewed one.
updated_StaleLease(existing, job) == job

updated(existing, job) ==
  IF existing.status = "running" /\ job.status = "running"
    THEN [job EXCEPT !.lease = laterLeaseExpiresAt(existing.lease, job.lease)]
    ELSE job

\* The row that closes a job: a terminal status, why, and no lease.
closed(job, status, lanes, reason) ==
  [job EXCEPT !.status = status, !.lanes = lanes, !.reason = reason, !.lease = NoLease]

=============================================================================
