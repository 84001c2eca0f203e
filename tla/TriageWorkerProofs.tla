------------------------ MODULE TriageWorkerProofs ------------------------
(***************************************************************************)
(* Proofs about TriageRuns that need to know what the worker of a running  *)
(* job may rely on: that there is one, that the row it read a moment ago   *)
(* is still the row but for its lease, and which lanes are settled at each *)
(* point of execute().  From this follow the lifecycle rule, the fence     *)
(* that the lease is, and that the service implements TriageJobContract.   *)
(*                                                                         *)
(* Some of the results need the clocks of the servers to agree with the    *)
(* clock of the database, ClocksAgree; each says so.                       *)
(***************************************************************************)
EXTENDS TriageRunsProofs

\* Clocks are measured from the slowest one, so if they agree none is ahead of it.
ClocksAgree == StoreClock = 0 /\ \A s \in Servers : Skew[s] = 0

-----------------------------------------------------------------------------
(* The inductive invariant, one job at a time.                             *)

Settled(j, l) == isTriageSettledStatus(jobs[j].lanes[l])

\* Nothing has been done for the job.
Untouched(j) ==
  /\ timeline[j].started = 0
  /\ \A l \in Lanes : jobs[j].lanes[l] = "queued" /\ timeline[j].reports[l] = 0

\* While a job is open, its timeline has the reports of the settled lanes and no more.
ReportsExact(j) ==
  \A l \in Lanes : /\ timeline[j].reports[l] = IF Settled(j, l) THEN 1 ELSE 0
                   /\ Settled(j, l) => timeline[j].reported[l] = jobs[j].lanes[l]

Waiting(j) ==
  /\ Untouched(j)
  /\ jobs[j].worker = NoWorker /\ jobs[j].reason = "none" /\ ~jobs[j].cancelRequested

\* The task is about to record a result for the lane.
Settling(t, l) == t.write.active /\ t.write.lane = l /\ isTriageSettledStatus(t.write.status)

\* The lanes for which the executor has delivered a result are settled or about to be.
GotSettled(j, t) == \A l \in t.got : Settled(j, l) \/ Settling(t, l)

AllSettled(j) == \A l \in Lanes : Settled(j, l)

SameButLease(row, other) == row = [other EXCEPT !.lease = row.lease]

\* A write in flight was made from the row as it is, for a lane still open.
WriteCurrent(j, t) ==
  t.write.active => /\ SameButLease(t.write.row, jobs[j])
                    /\ ~Settled(j, t.write.lane)
                    /\ isTriageSettledStatus(t.write.status) => t.write.lane \in t.got

\* No result is missing that the executor has delivered.
NothingLost(j, t) ==
  ClocksAgree /\ jobs[j].lease > 0 /\ ~t.leaseLost =>
    /\ t.pc = "final" => AllSettled(j)
    /\ t.pc = "sweep" \/ (t.pc = "batch" /\ ~t.broken) => GotSettled(j, t)

\* What the worker of a running job may rely on, t being its run of execute().
WorkerInv(s, j, t) ==
  /\ jobs[j].worker = WorkerId[s]
  /\ jobs[j].cancelRequested => t.leaseLost
  /\ t.pc = "refuse" => Untouched(j)
  /\ t.pc \in {"prepare", "batch"} => \A l \in Lanes : Settled(j, l) => l \in t.got
  /\ t.broken => jobs[j].mode = "gateway"
  /\ WriteCurrent(j, t)
  /\ NothingLost(j, t)

RecordInv(j) ==
  /\ jobs[j].worker \in Workers /\ jobs[j].reason = "none"
  /\ timeline[j].started <= 1
  /\ ReportsExact(j)

WorkersInv(j) == \A s \in Servers : task[s][j].pc \in Working => WorkerInv(s, j, task[s][j])

RunningInv(j) == RecordInv(j) /\ WorkersInv(j)

ClosedInv(j) ==
  /\ jobs[j].reason # "runner_error"
       => jobs[j].status = resolveTriageJobStatus(jobs[j].lanes, jobs[j].reason = "cancel_requested")
  /\ jobs[j].reason = "refused"
       => timeline[j].started = 0 /\ \A l \in Lanes : timeline[j].reports[l] = 0
  /\ timeline[j].started <= 1
  /\ \A l \in Lanes : timeline[j].reports[l] <= 1
  /\ ClocksAgree =>
       /\ AllSettled(j)
       /\ \A l \in Lanes : timeline[j].reports[l] = 1 /\ timeline[j].cancelRequested = 0
                             => jobs[j].lanes[l] = timeline[j].reported[l]

\* Before the executor has run nothing has come of it, and an abort means a lost lease
\* or a closed job.
TaskInv(j, t) ==
  /\ t.pc \in {"resume", "claim", "prepare"} => t.got = {} /\ ~t.broken
  /\ t.aborted => t.leaseLost \/ isTerminal(jobs[j].status)

\* One worker per job.
TasksInv(j) ==
  /\ \A r, s \in Servers : task[r][j].pc \in Working /\ task[s][j].pc \in Working => r = s
  /\ \A s \in Servers : TaskInv(j, task[s][j])

JobInv(j) ==
  /\ TasksInv(j)
  /\ jobs[j].status \in {"absent", "queued"} => Waiting(j)
  /\ jobs[j].status = "running" => RunningInv(j)
  /\ isTerminal(jobs[j].status) => ClosedInv(j)

\* A cancel carries the row it read, with every lane that was open cancelled; no lane
\* that was settled then has changed while the job is open.
CancelInv(c) ==
  LET row == cancels[c].row
      j == cancels[c].job
  IN  cancels[c].pc = "read" =>
        /\ row.reason = "cancel_requested" /\ row.status = resolveTriageJobStatus(row.lanes, TRUE)
        /\ \A l \in Lanes : isTriageSettledStatus(row.lanes[l])
        /\ ~isTerminal(jobs[j].status) =>
             \A l \in Lanes : \/ row.lanes[l] = "cancelled"
                              \/ Settled(j, l) /\ row.lanes[l] = jobs[j].lanes[l]

\* When the clocks agree, a job listed as stale is still the job that was listed.
StaleInv(s, j) ==
  pending[s].stale[j].status = "running" =>
    \/ isTerminal(jobs[j].status)
    \/ pending[s].stale[j] = jobs[j] /\ jobs[j].lease <= 0

WorkInv ==
  /\ IInv
  /\ \A j \in Jobs : JobInv(j)
  /\ \A c \in Cancels : CancelInv(c)
  /\ ClocksAgree => \A s \in Servers, j \in Jobs : StaleInv(s, j)

-----------------------------------------------------------------------------
(* The fields of the rows and events that steps write.                     *)

\* The open statuses are none of the settled ones.
LEMMA OpenStatuses ==
  /\ ~isTerminal("absent") /\ ~isTerminal("queued") /\ ~isTerminal("running")
  /\ isTriageSettledStatus("failed") /\ isTriageSettledStatus("cancelled")
  BY DEF isTerminal, isTriageSettledStatus, TRIAGE_SETTLED_CANDIDATE_STATUSES,
         TRIAGE_PRODUCING_CANDIDATE_STATUSES

\* A row of the store is absent, queued, running or terminal.
LEMMA RowStatus ==
  ASSUME NEW row \in Row
  PROVE  row.status \in {"absent", "queued", "running"} \/ isTerminal(row.status)
  BY DEF Row, TRIAGE_JOB_STATUSES, isTerminal, isTriageSettledStatus

\* Settling keeps the settled lanes and leaves none open.
LEMMA SettledLanes ==
  ASSUME NEW lanes \in [Lanes -> TRIAGE_JOB_STATUSES],
         NEW status \in TRIAGE_SETTLED_CANDIDATE_STATUSES
  PROVE  /\ settleOpenLanes(lanes, status) \in [Lanes -> TRIAGE_SETTLED_CANDIDATE_STATUSES]
         /\ \A l \in Lanes : settleOpenLanes(lanes, status)[l] =
                               IF isTriageSettledStatus(lanes[l]) THEN lanes[l] ELSE status
  BY DEF settleOpenLanes, isTriageSettledStatus

\* The row that closes a job.
LEMMA ClosedFields ==
  ASSUME NEW row \in Row, NEW status \in TRIAGE_SETTLED_CANDIDATE_STATUSES,
         NEW lanes \in [Lanes -> TRIAGE_JOB_STATUSES], NEW reason \in StoppedReasons
  PROVE  /\ closed(row, status, lanes, reason).status = status
         /\ closed(row, status, lanes, reason).lanes = lanes
         /\ closed(row, status, lanes, reason).reason = reason
         /\ closed(row, status, lanes, reason).worker = row.worker
  BY DEF closed, Row

\* What a refusal writes.
LEMMA RefusedFields ==
  ASSUME NEW row \in Row
  PROVE  /\ refusedRow(row).lanes = settleOpenLanes(row.lanes, "failed")
         /\ refusedRow(row).reason = "refused" /\ refusedRow(row).status = "failed"
         /\ refusedRow(row).worker = row.worker
<1>1. /\ row.lanes \in [Lanes -> TRIAGE_JOB_STATUSES]
      /\ "failed" \in TRIAGE_SETTLED_CANDIDATE_STATUSES /\ "refused" \in StoppedReasons
  BY DEF Row, TRIAGE_SETTLED_CANDIDATE_STATUSES, StoppedReasons
<1>2. settleOpenLanes(row.lanes, "failed") \in [Lanes -> TRIAGE_JOB_STATUSES]
  BY <1>1, SettledLanesType
<1> QED
  BY <1>1, <1>2, ClosedFields DEF refusedRow, closeAs

\* What failOwnedRunningJob writes.
LEMMA FailedFields ==
  ASSUME NEW row \in Row
  PROVE  /\ failedRow(row).lanes = settleOpenLanes(row.lanes, "failed")
         /\ failedRow(row).reason = "runner_error"
<1>1. /\ row.lanes \in [Lanes -> TRIAGE_JOB_STATUSES]
      /\ "failed" \in TRIAGE_SETTLED_CANDIDATE_STATUSES /\ "runner_error" \in StoppedReasons
  BY DEF Row, TRIAGE_SETTLED_CANDIDATE_STATUSES, StoppedReasons
<1>2. settleOpenLanes(row.lanes, "failed") \in [Lanes -> TRIAGE_JOB_STATUSES]
  BY <1>1, SettledLanesType
<1> QED
  BY <1>1, <1>2, ClosedFields DEF failedRow, closeAs

\* What the recovery of an abandoned job writes.
LEMMA RecoveredFields ==
  ASSUME NEW row \in Row
  PROVE  /\ recoveredRow(row).lanes = settleOpenLanes(row.lanes, "failed")
         /\ recoveredRow(row).status = resolveTriageJobStatus(recoveredRow(row).lanes, FALSE)
         /\ recoveredRow(row).reason = "worker_lease_expired"
<1> DEFINE lanes == settleOpenLanes(row.lanes, "failed")
           status == resolveTriageJobStatus(lanes, FALSE)
<1>1. /\ row.lanes \in [Lanes -> TRIAGE_JOB_STATUSES]
      /\ "failed" \in TRIAGE_SETTLED_CANDIDATE_STATUSES
      /\ "worker_lease_expired" \in StoppedReasons
  BY DEF Row, TRIAGE_SETTLED_CANDIDATE_STATUSES, StoppedReasons
<1>2. status \in TRIAGE_SETTLED_CANDIDATE_STATUSES /\ lanes \in [Lanes -> TRIAGE_JOB_STATUSES]
  BY <1>1, SettledLanesType, ResolvedTerminal
<1>3. recoveredRow(row) = closed(row, status, lanes, "worker_lease_expired")
  BY DEF recoveredRow
<1>4. /\ recoveredRow(row).status = status /\ recoveredRow(row).lanes = lanes
      /\ recoveredRow(row).reason = "worker_lease_expired"
  <2> HIDE DEF status, lanes
  <2> QED
    BY <1>1, <1>2, <1>3, ClosedFields
<1> QED
  BY <1>4

\* What the worker writes when its lanes are done.
LEMMA FinishedFields ==
  ASSUME NEW row \in Row
  PROVE  /\ finishedRow(row).lanes = row.lanes
         /\ finishedRow(row).status = resolveTriageJobStatus(row.lanes, row.cancelRequested)
         /\ finishedRow(row).reason = (IF row.cancelRequested THEN "cancel_requested" ELSE "none")
<1>1. /\ row.lanes \in [Lanes -> TRIAGE_JOB_STATUSES]
      /\ "none" \in StoppedReasons /\ "cancel_requested" \in StoppedReasons
  BY DEF Row, StoppedReasons
<1> QED
  BY <1>1, ClosedFields, ResolvedTerminal DEF finishedRow

\* What a cancel prepares from the row it has read.
LEMMA CancelledFields ==
  ASSUME NEW row \in Row
  PROVE  /\ cancelledRow(row).lanes = settleOpenLanes(row.lanes, "cancelled")
         /\ cancelledRow(row).status = resolveTriageJobStatus(cancelledRow(row).lanes, TRUE)
         /\ cancelledRow(row).reason = "cancel_requested"
<1> DEFINE lanes == settleOpenLanes(row.lanes, "cancelled")
           status == resolveTriageJobStatus(lanes, TRUE)
           shut == closed(row, status, lanes, "cancel_requested")
<1>1. /\ row.lanes \in [Lanes -> TRIAGE_JOB_STATUSES]
      /\ "cancelled" \in TRIAGE_SETTLED_CANDIDATE_STATUSES
      /\ "cancel_requested" \in StoppedReasons
  BY DEF Row, TRIAGE_SETTLED_CANDIDATE_STATUSES, StoppedReasons
<1>2. status \in TRIAGE_SETTLED_CANDIDATE_STATUSES /\ lanes \in [Lanes -> TRIAGE_JOB_STATUSES]
  BY <1>1, SettledLanesType, ResolvedTerminal
<1>3. cancelledRow(row) = [shut EXCEPT !.cancelRequested = TRUE]
  BY DEF cancelledRow
<1> HIDE DEF lanes, status
<1>4. shut \in Row
  BY <1>1, <1>2, ClosedType
<1>5. shut.status = status /\ shut.lanes = lanes /\ shut.reason = "cancel_requested"
  BY <1>1, <1>2, ClosedFields
<1> HIDE DEF shut
<1>6. /\ cancelledRow(row).status = shut.status /\ cancelledRow(row).lanes = shut.lanes
      /\ cancelledRow(row).reason = shut.reason
  BY <1>3, <1>4 DEF Row
<1> QED
  BY <1>5, <1>6 DEF lanes, status

\* Time takes from a lease and from nothing else.
LEMMA AgedFields ==
  ASSUME NEW row \in Row
  PROVE  /\ aged(row) \in Row
         /\ aged(row) = [row EXCEPT !.lease = aged(row).lease]
         /\ aged(row).status = row.status /\ aged(row).lanes = row.lanes
         /\ aged(row).worker = row.worker /\ aged(row).reason = row.reason
         /\ aged(row).cancelRequested = row.cancelRequested
         /\ aged(row).lease > 0 => row.lease > 0
         /\ row.lease <= 0 => aged(row) = row
<1>1. aged(row) \in Row
  BY OpenRows
<1>2. /\ aged(row) = [row EXCEPT !.lease = aged(row).lease]
      /\ aged(row).status = row.status /\ aged(row).lanes = row.lanes
      /\ aged(row).worker = row.worker /\ aged(row).reason = row.reason
      /\ aged(row).cancelRequested = row.cancelRequested
  BY DEF aged, Row
<1>3. row.lease \in Int /\ row \in Row
  BY DEF Row, Leases, NoLease
<1>4. aged(row).lease > 0 => row.lease > 0
  BY <1>3 DEF aged, Row
<1>5. row.lease <= 0 => aged(row) = row
  BY <1>3 DEF aged, Row
<1> QED
  BY <1>1, <1>2, <1>4, <1>5

\* The closing events leave the rest of the timeline alone.
LEMMA EventFields ==
  ASSUME TypeOK, NEW j \in Jobs
  PROVE  /\ \A status : /\ finishedEvent(j, status).started = timeline[j].started
                        /\ finishedEvent(j, status).reports = timeline[j].reports
                        /\ finishedEvent(j, status).reported = timeline[j].reported
                        /\ finishedEvent(j, status).finished = timeline[j].finished + 1
                        /\ finishedEvent(j, status).cancelRequested = timeline[j].cancelRequested
         /\ [timeline[j] EXCEPT !.cancelRequested = @ + 1].started = timeline[j].started
         /\ [timeline[j] EXCEPT !.cancelRequested = @ + 1].reports = timeline[j].reports
         /\ [timeline[j] EXCEPT !.cancelRequested = @ + 1].cancelRequested
              = timeline[j].cancelRequested + 1
         /\ [timeline[j] EXCEPT !.cancelRequested = @ + 1].finished = timeline[j].finished
<1>1. timeline[j] \in Timeline
  BY DEF TypeOK
<1>2. ASSUME NEW status
      PROVE  /\ finishedEvent(j, status).started = timeline[j].started
             /\ finishedEvent(j, status).reports = timeline[j].reports
             /\ finishedEvent(j, status).reported = timeline[j].reported
             /\ finishedEvent(j, status).finished = timeline[j].finished + 1
             /\ finishedEvent(j, status).cancelRequested = timeline[j].cancelRequested
  BY <1>1 DEF finishedEvent, Timeline
<1> QED
  BY <1>1, <1>2 DEF Timeline

\* A lane's report is counted for that lane alone.
LEMMA ReportFields ==
  ASSUME TypeOK, NEW j \in Jobs, NEW l \in Lanes, NEW status \in TRIAGE_JOB_STATUSES
  PROVE  /\ reportEvent(j, l, status).started = timeline[j].started
         /\ reportEvent(j, l, status).finished = timeline[j].finished
         /\ reportEvent(j, l, status).cancelRequested = timeline[j].cancelRequested
         /\ ~isTriageSettledStatus(status) => reportEvent(j, l, status) = timeline[j]
         /\ isTriageSettledStatus(status) =>
              /\ reportEvent(j, l, status).reports
                   = [timeline[j].reports EXCEPT ![l] = timeline[j].reports[l] + 1]
              /\ reportEvent(j, l, status).reported = [timeline[j].reported EXCEPT ![l] = status]
<1>1. timeline[j] \in Timeline
  BY DEF TypeOK
<1> DEFINE e == timeline[j]
           counts == [e.reports EXCEPT ![l] = e.reports[l] + 1]
           verdicts == [e.reported EXCEPT ![l] = status]
<1>2. [e EXCEPT !.reports[l] = @ + 1, !.reported[l] = status]
        = [e EXCEPT !.reports = counts, !.reported = verdicts]
  BY <1>1 DEF Timeline
<1>3. CASE isTriageSettledStatus(status)
  <2>1. reportEvent(j, l, status) = [e EXCEPT !.reports = counts, !.reported = verdicts]
    BY <1>2, <1>3 DEF reportEvent
  <2>2. /\ reportEvent(j, l, status).started = e.started
        /\ reportEvent(j, l, status).finished = e.finished
        /\ reportEvent(j, l, status).cancelRequested = e.cancelRequested
        /\ reportEvent(j, l, status).reports = counts
        /\ reportEvent(j, l, status).reported = verdicts
    <3> HIDE DEF counts, verdicts
    <3> QED
      BY <1>1, <2>1 DEF Timeline
  <2> QED
    BY <1>3, <2>2
<1>4. CASE ~isTriageSettledStatus(status)
  BY <1>4 DEF reportEvent
<1> QED
  BY <1>3, <1>4

-----------------------------------------------------------------------------
(* What one step may do to the row and the timeline of one job.            *)

Live(j) == jobs[j].status = "running" /\ jobs[j].lease > 0

RowKept(j) == jobs'[j] = jobs[j] /\ timeline'[j] = timeline[j]

RowAged(j) == jobs'[j] = aged(jobs[j]) /\ timeline'[j] = timeline[j]

RowAdmitted(j) ==
  /\ jobs[j].status = "absent"
  /\ \E a \in Attempts, m \in Modes : jobs'[j] = queuedJob(a, m)
  /\ timeline'[j] = [timeline[j] EXCEPT !.created = @ + 1]

RowClaimed(j) ==
  /\ jobs[j].status = "queued"
  /\ \E s \in Servers : jobs'[j] = claimed(jobs[j], WorkerId[s], Lease + Skew[s])
  /\ timeline'[j] = startedEvent(j)

RowRenewed(j) ==
  /\ Live(j)
  /\ \E lease \in Nat : jobs'[j] = [jobs[j] EXCEPT !.lease = lease]
  /\ timeline'[j] = timeline[j]

\* A lane write changes one lane that was open.
RowReported(j) ==
  /\ Live(j)
  /\ \E l \in Lanes, status \in TRIAGE_JOB_STATUSES :
       /\ ~Settled(j, l)
       /\ jobs'[j].lanes = [jobs[j].lanes EXCEPT ![l] = status]
       /\ timeline'[j] = reportEvent(j, l, status)
  /\ jobs'[j].status = "running" /\ jobs'[j].lease >= jobs[j].lease
  /\ jobs'[j].worker = jobs[j].worker /\ jobs'[j].reason = jobs[j].reason

RowRefused(j) ==
  /\ jobs[j].status = "queued" \/ Live(j)
  /\ Untouched(j)
  /\ jobs'[j] = refusedRow(jobs[j]) /\ timeline'[j] = finishedEvent(j, "failed")

RowFailed(j) ==
  /\ Live(j)
  /\ jobs'[j] = failedRow(jobs[j]) /\ timeline'[j] = finishedEvent(j, "failed")

RowFinished(j) ==
  /\ Live(j)
  /\ ClocksAgree => AllSettled(j)
  /\ jobs'[j] = finishedRow(jobs[j])
  /\ timeline'[j] = finishedEvent(j, finishedRow(jobs[j]).status)

RowRecovered(j) ==
  \E row \in Row, s \in Servers :
    /\ triageRunningLeaseExpired(jobs[j], Skew[s])
    /\ ClocksAgree => row = jobs[j]
    /\ jobs'[j] = recoveredRow(row)
    /\ timeline'[j] = finishedEvent(j, recoveredRow(row).status)

RowCancelled(j) ==
  /\ jobs[j].status = "queued" \/ Live(j)
  /\ \E c \in Cancels : /\ cancels[c].pc = "read" /\ cancels[c].job = j
                        /\ jobs'[j] = cancels[c].row
  /\ timeline'[j] = [timeline[j] EXCEPT !.cancelRequested = @ + 1]

RowCloses(j) ==
  \/ RowRefused(j) \/ RowFailed(j) \/ RowFinished(j) \/ RowRecovered(j) \/ RowCancelled(j)

RowStep(j) ==
  \/ RowKept(j) \/ RowAged(j) \/ RowAdmitted(j) \/ RowClaimed(j) \/ RowRenewed(j)
  \/ RowReported(j) \/ RowCloses(j)

\* A transaction writes one job, or nothing.
LEMMA CommitRow ==
  ASSUME TypeOK, NEW j \in Jobs, NEW row, NEW events, NEW o, Commit(o, j, row, events)
  PROVE  /\ \A k \in Jobs : k # j => RowKept(k)
         /\ landed(o) => jobs'[j] = row /\ timeline'[j] = events
         /\ ~landed(o) => RowKept(j)
  BY DEF Commit, TypeOK, RowKept

\* It lands only if the store allows it.
LEMMA LandsIfAllowed ==
  ASSUME NEW allowed, NEW o \in CommitOutcomes(allowed), landed(o)
  PROVE  allowed
  BY DEF CommitOutcomes, landed

\* A lease that is live by the database's clock has not run out by the slowest one.
LEMMA LiveByStore ==
  ASSUME TypeOK, NEW j \in Jobs, NEW w, triageWorkerHoldsLiveLease(jobs[j], w, StoreClock)
  PROVE  Live(j)
<1>1. jobs[j].lease \in Int /\ StoreClock \in Nat
  BY StoreAssumption DEF TypeOK, Row, Leases, NoLease
<1> QED
  BY <1>1 DEF triageWorkerHoldsLiveLease, Live

\* The store lets an owner update a queued job, or a running one whose lease is live.
LEMMA UpdatableRow ==
  ASSUME TypeOK, NEW j \in Jobs, NEW row, updatable(jobs[j], row)
  PROVE  /\ jobs[j].status = "queued" \/ Live(j)
         /\ jobs[j].worker = row.worker
  BY LiveByStore DEF updatable

\* Changing the owner of a row to its owner changes nothing.
LEMMA SameWorker ==
  ASSUME NEW row \in Row, NEW w, row.worker = w
  PROVE  [row EXCEPT !.worker = w] = row
  BY DEF Row

\* The later of two leases is no earlier than either.
LEMMA LaterLease ==
  ASSUME NEW x \in Leases, NEW y \in Leases, x > 0
  PROVE  laterLeaseExpiresAt(x, y) \in Nat /\ laterLeaseExpiresAt(x, y) >= x
  BY DEF laterLeaseExpiresAt, Leases, NoLease

\* What is known of a worker whose job runs.
LEMMA WorkerKnows ==
  ASSUME WorkInv, NEW s \in Servers, NEW j \in Jobs, task[s][j].pc \in Working,
         jobs[j].status = "running"
  PROVE  RunningInv(j) /\ WorkerInv(s, j, task[s][j])
  BY DEF WorkInv, JobInv, RunningInv, WorkersInv

\* The row with one lane changed as the task has prepared it.
LaneWritten(j, t, row) ==
  /\ row.lanes = [jobs[j].lanes EXCEPT ![t.write.lane] = t.write.status]
  /\ row.cancelRequested => jobs[j].cancelRequested \/ t.aborted
  /\ row.lease >= jobs[j].lease /\ row.status = "running"
  /\ row.worker = jobs[j].worker /\ row.reason = jobs[j].reason /\ row.mode = jobs[j].mode

\* A lane write that the store accepts changes one open lane of the row as it is.
LEMMA LaneRow ==
  ASSUME WorkInv, NEW s \in Servers, NEW j \in Jobs, task[s][j].write.active,
         NEW sawAbort \in {FALSE, task[s][j].aborted},
         updatable(jobs[j], writtenRow(task[s][j], sawAbort))
  PROVE  /\ Live(j) /\ task[s][j].pc \in {"batch", "sweep"}
         /\ ~Settled(j, task[s][j].write.lane)
         /\ LaneWritten(j, task[s][j], updated(jobs[j], writtenRow(task[s][j], sawAbort)))
<1> DEFINE t == task[s][j]
           r == jobs[j]
           w == t.write.row
           written == writtenRow(t, sawAbort)
           lanes == [r.lanes EXCEPT ![t.write.lane] = t.write.status]
           stamp == r.cancelRequested \/ (sawAbort /\ isTriageSettledStatus(t.write.status))
           lease == laterLeaseExpiresAt(r.lease, written.lease)
<1>1. /\ TypeOK /\ t \in Task /\ r \in Row /\ w \in Row
      /\ t.write.lane \in Lanes /\ t.write.status \in TRIAGE_JOB_STATUSES
  BY DEF WorkInv, IInv, TypeOK, Task, Write
<1>2. t.pc \in {"batch", "sweep"}
  BY DEF WorkInv, IInv, Prepared, WritePrepared
<1>3. r.status \notin {"absent", "queued"}
  BY <1>2 DEF WorkInv, IInv, Prepared, WorkerClaimed
<1>4. Live(j)
  BY <1>1, <1>3, UpdatableRow
<1>5. w = [r EXCEPT !.lease = w.lease] /\ ~Settled(j, t.write.lane)
  <2>1. WorkerInv(s, j, t)
    BY <1>2, <1>4, WorkerKnows DEF Live, Working
  <2> QED
    BY <2>1 DEF WorkerInv, WriteCurrent, SameButLease
<1>6. written \in Row /\ written.status = w.status
  <2>1. sawAbort \in BOOLEAN
    BY <1>1 DEF Task
  <2> QED
    BY <1>1, <2>1, LaneRows
<1>7. w.status = "running" /\ w.lanes = r.lanes /\ w.cancelRequested = r.cancelRequested
  <2>1. r.status = "running"
    BY <1>4 DEF Live
  <2> HIDE DEF r, w
  <2> QED
    BY <1>1, <1>5, <2>1 DEF Row
<1>8. written = [w EXCEPT !.lanes = lanes, !.cancelRequested = stamp]
  BY <1>1, <1>7 DEF writtenRow, Row
<1>9. updated(r, written) = [written EXCEPT !.lease = lease]
  BY <1>4, <1>6, <1>7 DEF updated, Live
<1>10. lease \in Nat /\ lease >= r.lease
  <2>1. r.lease \in Leases /\ written.lease \in Leases
    BY <1>1, <1>6 DEF Row
  <2> QED
    BY <1>4, <2>1, LaterLease DEF Live
<1>11. [written EXCEPT !.lease = lease]
         = [r EXCEPT !.lanes = lanes, !.cancelRequested = stamp, !.lease = lease]
  <2> HIDE DEF r, w, written, lanes, stamp, lease
  <2>1. [[w EXCEPT !.lanes = lanes, !.cancelRequested = stamp] EXCEPT !.lease = lease]
          = [r EXCEPT !.lanes = lanes, !.cancelRequested = stamp, !.lease = lease]
    BY <1>1, <1>5 DEF Row
  <2> QED
    BY <1>8, <2>1
<1>12. stamp \in BOOLEAN /\ (stamp => r.cancelRequested \/ t.aborted)
  <2>1. r.cancelRequested \in BOOLEAN
    BY <1>1 DEF Row
  <2> QED
    BY <2>1
<1>13. lanes \in [Lanes -> TRIAGE_JOB_STATUSES] /\ r.status = "running"
  BY <1>1, <1>4 DEF Row, Live
<1> DEFINE next == updated(r, written)
<1>14. /\ next.lanes = lanes /\ next.cancelRequested = stamp /\ next.lease = lease
       /\ next.status = r.status /\ next.worker = r.worker /\ next.reason = r.reason
       /\ next.mode = r.mode
  <2>1. next = [r EXCEPT !.lanes = lanes, !.cancelRequested = stamp, !.lease = lease]
    BY <1>9, <1>11
  <2>2. r \in Row
    BY <1>1
  <2> HIDE DEF next, r, lanes, stamp, lease
  <2> QED
    BY <2>1, <2>2 DEF Row
<1>15. LaneWritten(j, t, next)
  <2>1. next.cancelRequested => r.cancelRequested \/ t.aborted
    BY <1>12, <1>14, Zenon
  <2> QED
    BY <1>10, <1>13, <1>14, <2>1 DEF LaneWritten
<1> QED
  BY <1>2, <1>4, <1>5, <1>15

\* One job at a time: no step changes two rows, but for the passage of time.
OneRow ==
  \/ \A k \in Jobs : RowKept(k)
  \/ \A k \in Jobs : RowAged(k)
  \/ \E j \in Jobs : RowStep(j) /\ \A k \in Jobs : k # j => RowKept(k)

\* A transaction on one job is such a step if what it writes when it lands is.
LEMMA CommitOne ==
  ASSUME TypeOK, NEW j \in Jobs, NEW row, NEW events, NEW o, Commit(o, j, row, events),
         landed(o) => RowStep(j)
  PROVE  OneRow
<1>1. CASE landed(o)
  BY <1>1, CommitRow DEF OneRow
<1>2. CASE ~landed(o)
  BY <1>2, CommitRow DEF OneRow
<1> QED
  BY <1>1, <1>2

\* Refusals close a job for which nothing has been done.
LEMMA RefusalRow ==
  ASSUME WorkInv, NEW j \in Jobs, NEW w, updatable(jobs[j], refusedRow([jobs[j] EXCEPT !.worker = w])),
         w \in Workers \union {NoWorker},
         w = NoWorker \/ (jobs[j].status # "queued" /\ (Live(j) => Untouched(j)))
  PROVE  /\ updated(jobs[j], refusedRow([jobs[j] EXCEPT !.worker = w])) = refusedRow(jobs[j])
         /\ jobs[j].status = "queued" \/ Live(j)
         /\ Untouched(j)
<1> DEFINE next == refusedRow([jobs[j] EXCEPT !.worker = w])
<1>1. TypeOK /\ jobs[j] \in Row /\ [jobs[j] EXCEPT !.worker = w] \in Row
  BY OpenRows DEF WorkInv, IInv, TypeOK
<1>2. [jobs[j] EXCEPT !.worker = w].worker = w
  BY <1>1 DEF Row
<1>3. /\ jobs[j].status = "queued" \/ Live(j)
      /\ jobs[j].worker = w
  <2>1. next.worker = w
    BY <1>1, <1>2, RefusedFields
  <2> HIDE DEF next
  <2>2. updatable(jobs[j], next)
    BY DEF next
  <2> QED
    BY <1>1, <2>1, <2>2, UpdatableRow
<1>4. next = refusedRow(jobs[j])
  BY <1>1, <1>3, SameWorker
<1>5. updated(jobs[j], next) = refusedRow(jobs[j])
  BY <1>1, <1>4, ClosingRows, ClosingUpdated
<1>6. jobs[j].status = "queued" => Untouched(j)
  BY DEF WorkInv, JobInv, Waiting
<1>7. Live(j) => jobs[j].worker # NoWorker
  BY StoreAssumption DEF WorkInv, JobInv, RunningInv, RecordInv, Live
<1> QED
  BY <1>3, <1>5, <1>6, <1>7

\* Every step treats the rows so.
LEMMA StepOneRow ==
  ASSUME WorkInv, Next
  PROVE  OneRow
<1>0. TypeOK /\ Prepared
  BY DEF WorkInv, IInv
<1>q. ASSUME UNCHANGED <<jobs, timeline>>
      PROVE  OneRow
  BY <1>q DEF OneRow, RowKept
<1>1. ASSUME NEW s \in Servers, NEW j \in Jobs,
             \/ ClaimMissed(s, j) \/ Prepare(s, j) \/ PrepareFails(s, j) \/ BatchReturns(s, j)
             \/ BatchFails(s, j) \/ LeaseLostReturn(s, j) \/ SweepDone(s, j) \/ MockDone(s, j)
             \/ FinishNotOwned(s, j) \/ FailNotOwned(s, j) \/ RecoverResume(s, j) \/ Resume(s, j)
             \/ \E l \in Lanes : \/ CandidateStarted(s, j, l) \/ CandidateFinished(s, j, l)
                                 \/ MockStart(s, j, l)
      PROVE  UNCHANGED <<jobs, timeline>>
  BY <1>1 DEF ClaimMissed, Prepare, PrepareFails, BatchReturns, BatchFails, LeaseLostReturn,
              SweepDone, MockDone, FinishNotOwned, FailNotOwned, RecoverResume, Resume,
              CandidateStarted, CandidateFinished, MockStart, storeUnchanged
<1>2. ASSUME NEW s \in Servers, ListQueued(s) \/ ListStaleRunning(s) \/ Listen(s) \/ Crash(s)
      PROVE  UNCHANGED <<jobs, timeline>>
  BY <1>2 DEF ListQueued, ListStaleRunning, Listen, Crash
<1>3. ASSUME \/ \E j \in Jobs : Revoke(j)
             \/ \E s \in Servers, j \in Jobs, a \in Attempts, m \in Modes : CreateCheck(s, j, a, m)
             \/ \E c \in Cancels, s \in Servers, j \in Jobs : CancelRead(c, s, j)
      PROVE  UNCHANGED <<jobs, timeline>>
  BY <1>3 DEF Revoke, CreateCheck, CancelRead
<1>4. ASSUME NEW j \in Jobs, CreateInsert(j)
      PROVE  OneRow
  <2>1. PICK o \in CommitOutcomes(TRUE) :
          Commit(o, j, queuedJob(launches[j].attempt, launches[j].mode),
                 [timeline[j] EXCEPT !.created = @ + 1])
    BY <1>4 DEF CreateInsert
  <2>2. /\ launches[j].attempt \in Attempts /\ launches[j].mode \in Modes
        /\ launches[j].pc = "checked"
    BY <1>0, <1>4 DEF TypeOK, Launch, CreateInsert
  <2>3. jobs[j].status = "absent"
    BY <1>0, <2>2 DEF Prepared, LaunchFresh
  <2>4. landed(o) => RowAdmitted(j)
    BY <1>0, <2>1, <2>2, <2>3, CommitRow DEF RowAdmitted
  <2> QED
    BY <1>0, <2>1, <2>4, CommitOne DEF RowStep
<1>5. ASSUME NEW c \in Cancels, CancelCommit(c)
      PROVE  OneRow
  <2> DEFINE j == cancels[c].job
             row == cancels[c].row
  <2>1. PICK o \in CommitOutcomes(updatable(jobs[j], row)) :
          Commit(o, j, updated(jobs[j], row), [timeline[j] EXCEPT !.cancelRequested = @ + 1])
    BY <1>5 DEF CancelCommit
  <2>2. j \in Jobs /\ cancels[c].pc = "read" /\ Closing(row)
    BY <1>0, <1>5 DEF TypeOK, Cancel, CancelCommit, Prepared, CancelPrepared
  <2>3. updated(jobs[j], row) = row
    BY <1>0, <2>2, ClosingUpdated
  <2>4. ASSUME landed(o)
        PROVE  RowCancelled(j)
    <3>1. jobs[j].status = "queued" \/ Live(j)
      BY <1>0, <2>1, <2>2, <2>4, LandsIfAllowed, UpdatableRow
    <3>2. /\ jobs'[j] = row
          /\ timeline'[j] = [timeline[j] EXCEPT !.cancelRequested = @ + 1]
      BY <1>0, <2>1, <2>2, <2>3, <2>4, CommitRow
    <3> QED
      BY <2>2, <3>1, <3>2 DEF RowCancelled
  <2> QED
    BY <1>0, <2>1, <2>2, <2>4, CommitOne DEF RowStep, RowCloses
<1>6. ASSUME NEW s \in Servers, NEW j \in Jobs, Claim(s, j)
      PROVE  OneRow
  <2>1. PICK o \in CommitOutcomes(TRUE) :
          Commit(o, j, claimed(jobs[j], WorkerId[s], Lease + Skew[s]), startedEvent(j))
    BY <1>6 DEF Claim
  <2>2. jobs[j].status = "queued"
    BY <1>6 DEF Claim, claimable
  <2>3. landed(o) => RowClaimed(j)
    BY <1>0, <2>1, <2>2, CommitRow DEF RowClaimed
  <2> QED
    BY <1>0, <2>1, <2>3, CommitOne DEF RowStep
<1>7. ASSUME NEW s \in Servers, NEW j \in Jobs, Heartbeat(s, j)
      PROVE  OneRow
  <2>1. PICK o \in CommitOutcomes(renewable(jobs[j], WorkerId[s])) :
          Commit(o, j, [jobs[j] EXCEPT !.lease = Lease + Skew[s]], timeline[j])
    BY <1>7 DEF Heartbeat
  <2>2. Lease + Skew[s] \in Nat
    BY ConstantsAssumption
  <2>3. landed(o) => Live(j)
    BY <1>0, <2>1, LandsIfAllowed, LiveByStore DEF renewable
  <2>4. landed(o) => RowRenewed(j)
    BY <1>0, <2>1, <2>2, <2>3, CommitRow DEF RowRenewed
  <2> QED
    BY <1>0, <2>1, <2>4, CommitOne DEF RowStep
<1>8. ASSUME NEW s \in Servers, NEW j \in Jobs, CommitLane(s, j)
      PROVE  OneRow
  <2> DEFINE t == task[s][j]
  <2>1. PICK sawAbort \in {FALSE, t.aborted} :
          \E o \in CommitOutcomes(updatable(jobs[j], writtenRow(t, sawAbort))) :
            Commit(o, j, updated(jobs[j], writtenRow(t, sawAbort)),
                   reportEvent(j, t.write.lane, t.write.status))
    BY <1>8 DEF CommitLane
  <2>2. PICK o \in CommitOutcomes(updatable(jobs[j], writtenRow(t, sawAbort))) :
            Commit(o, j, updated(jobs[j], writtenRow(t, sawAbort)),
                   reportEvent(j, t.write.lane, t.write.status))
    BY <2>1
  <2>3. /\ t.write.active /\ sawAbort \in BOOLEAN /\ jobs[j].cancelRequested \in BOOLEAN
        /\ t.write.lane \in Lanes /\ t.write.status \in TRIAGE_JOB_STATUSES
    <3>1. t \in Task /\ jobs[j] \in Row
      BY <1>0 DEF TypeOK
    <3>2. t.write.active
      BY <1>8 DEF CommitLane
    <3>3. t.aborted \in BOOLEAN /\ t.write \in Write /\ jobs[j].cancelRequested \in BOOLEAN
      BY <3>1 DEF Task, Row
    <3> QED
      BY <2>1, <3>2, <3>3 DEF Write
  <2>4. ASSUME landed(o)
        PROVE  RowReported(j)
    <3>1. updatable(jobs[j], writtenRow(t, sawAbort))
      BY <2>2, <2>4, LandsIfAllowed
    <3>2. /\ jobs'[j] = updated(jobs[j], writtenRow(t, sawAbort))
          /\ timeline'[j] = reportEvent(j, t.write.lane, t.write.status)
      BY <1>0, <2>2, <2>4, CommitRow
    <3>3. /\ Live(j) /\ ~Settled(j, t.write.lane)
          /\ LaneWritten(j, t, updated(jobs[j], writtenRow(t, sawAbort)))
      BY <2>3, <3>1, LaneRow
    <3> QED
      BY <2>3, <3>2, <3>3 DEF RowReported, LaneWritten
  <2> QED
    BY <1>0, <2>2, <2>4, CommitOne DEF RowStep
<1>9. ASSUME NEW s \in Servers, NEW j \in Jobs, RefuseClaimed(s, j)
      PROVE  OneRow
  <2> DEFINE next == refusedRow([jobs[j] EXCEPT !.worker = WorkerId[s]])
  <2>1. PICK o \in CommitOutcomes(updatable(jobs[j], next)) :
          Commit(o, j, updated(jobs[j], next), finishedEvent(j, "failed"))
    BY <1>9 DEF RefuseClaimed
  <2>2. task[s][j].pc = "refuse" /\ WorkerId[s] \in Workers
    BY <1>9, ConstantsAssumption DEF RefuseClaimed
  <2>3. jobs[j].status # "queued"
    BY <1>0, <2>2 DEF Prepared, WorkerClaimed
  <2>4. Live(j) => Untouched(j)
    BY <2>2, WorkerKnows DEF WorkerInv, Live, Working
  <2>5. landed(o) => RowRefused(j)
    <3> SUFFICES ASSUME landed(o) PROVE RowRefused(j)
      OBVIOUS
    <3>1. /\ updated(jobs[j], next) = refusedRow(jobs[j])
          /\ jobs[j].status = "queued" \/ Live(j)
          /\ Untouched(j)
      BY <2>1, <2>2, <2>3, <2>4, LandsIfAllowed, RefusalRow
    <3>2. jobs'[j] = updated(jobs[j], next) /\ timeline'[j] = finishedEvent(j, "failed")
      BY <1>0, <2>1, CommitRow
    <3> QED
      BY <3>1, <3>2 DEF RowRefused
  <2> QED
    BY <1>0, <2>1, <2>5, CommitOne DEF RowStep, RowCloses
<1>10. ASSUME NEW s \in Servers, NEW j \in Jobs, RecoverRefuse(s, j) \/ ResumeRefuse(s, j)
       PROVE  OneRow
  <2> DEFINE next == refusedRow([jobs[j] EXCEPT !.worker = NoWorker])
  <2>1. PICK o \in CommitOutcomes(updatable(jobs[j], next)) :
          Commit(o, j, updated(jobs[j], next), finishedEvent(j, "failed"))
    BY <1>10 DEF RecoverRefuse, ResumeRefuse
  <2>2. landed(o) => RowRefused(j)
    <3> SUFFICES ASSUME landed(o) PROVE RowRefused(j)
      OBVIOUS
    <3>1. /\ updated(jobs[j], next) = refusedRow(jobs[j])
          /\ jobs[j].status = "queued" \/ Live(j)
          /\ Untouched(j)
      BY <2>1, LandsIfAllowed, RefusalRow
    <3>2. jobs'[j] = updated(jobs[j], next) /\ timeline'[j] = finishedEvent(j, "failed")
      BY <1>0, <2>1, CommitRow
    <3> QED
      BY <3>1, <3>2 DEF RowRefused
  <2> QED
    BY <1>0, <2>1, <2>2, CommitOne DEF RowStep, RowCloses
<1>11. ASSUME NEW s \in Servers, NEW j \in Jobs, Finish(s, j)
       PROVE  OneRow
  <2> DEFINE next == finishedRow(jobs[j])
  <2>1. PICK o \in CommitOutcomes(updatable(jobs[j], next)) :
          Commit(o, j, updated(jobs[j], next), finishedEvent(j, next.status))
    BY <1>11 DEF Finish
  <2>2. task[s][j].pc = "final" /\ ~task[s][j].leaseLost /\ jobs[j].status = "running"
    BY <1>11 DEF Finish, triageWorkerHoldsLiveLease
  <2>3. updated(jobs[j], next) = next
    BY <1>0, ClosingRows, ClosingUpdated DEF TypeOK
  <2>4. landed(o) => RowFinished(j)
    <3> SUFFICES ASSUME landed(o) PROVE RowFinished(j)
      OBVIOUS
    <3>1. Live(j)
      BY <1>0, <2>1, <2>2, LandsIfAllowed, UpdatableRow
    <3>2. ClocksAgree => AllSettled(j)
      BY <2>2, <3>1, WorkerKnows DEF WorkerInv, NothingLost, Live, Working
    <3>3. jobs'[j] = next /\ timeline'[j] = finishedEvent(j, next.status)
      BY <1>0, <2>1, <2>3, CommitRow
    <3> QED
      BY <3>1, <3>2, <3>3 DEF RowFinished
  <2> QED
    BY <1>0, <2>1, <2>4, CommitOne DEF RowStep, RowCloses
<1>12. ASSUME NEW s \in Servers, NEW j \in Jobs, FailOwned(s, j)
       PROVE  OneRow
  <2> DEFINE next == failedRow(jobs[j])
  <2>1. PICK o \in CommitOutcomes(updatable(jobs[j], next)) :
          Commit(o, j, updated(jobs[j], next), finishedEvent(j, "failed"))
    BY <1>12 DEF FailOwned
  <2>2. jobs[j].status = "running"
    BY <1>12 DEF FailOwned, triageWorkerHoldsLiveLease
  <2>3. updated(jobs[j], next) = next
    BY <1>0, ClosingRows, ClosingUpdated DEF TypeOK
  <2>4. landed(o) => RowFailed(j)
    <3> SUFFICES ASSUME landed(o) PROVE RowFailed(j)
      OBVIOUS
    <3>1. Live(j)
      BY <1>0, <2>1, <2>2, LandsIfAllowed, UpdatableRow
    <3>2. jobs'[j] = next /\ timeline'[j] = finishedEvent(j, "failed")
      BY <1>0, <2>1, <2>3, CommitRow
    <3> QED
      BY <3>1, <3>2 DEF RowFailed
  <2> QED
    BY <1>0, <2>1, <2>4, CommitOne DEF RowStep, RowCloses
<1>13. ASSUME NEW s \in Servers, NEW j \in Jobs, RecoverStale(s, j)
       PROVE  OneRow
  <2> DEFINE row == pending[s].stale[j]
             next == recoveredRow(row)
  <2>1. PICK o \in CommitOutcomes(recoverable(jobs[j], next, Skew[s])) :
          Commit(o, j, next, finishedEvent(j, next.status))
    BY <1>13 DEF RecoverStale
  <2>2. row \in Row /\ row.status = "running"
    BY <1>0, <1>13 DEF TypeOK, Pending, RecoverStale, staleJobs
  <2>3. landed(o) => RowRecovered(j)
    <3> SUFFICES ASSUME landed(o) PROVE RowRecovered(j)
      OBVIOUS
    <3>1. triageRunningLeaseExpired(jobs[j], Skew[s])
      BY <2>1, LandsIfAllowed DEF recoverable
    <3>2. ClocksAgree => row = jobs[j]
      <4>1. ClocksAgree => StaleInv(s, j)
        BY DEF WorkInv
      <4>2. ~isTerminal(jobs[j].status)
        BY <3>1, OpenStatuses DEF triageRunningLeaseExpired
      <4> QED
        BY <2>2, <4>1, <4>2 DEF StaleInv
    <3>3. jobs'[j] = next /\ timeline'[j] = finishedEvent(j, next.status)
      BY <1>0, <2>1, CommitRow
    <3> QED
      BY <2>2, <3>1, <3>2, <3>3 DEF RowRecovered
  <2> QED
    BY <1>0, <2>1, <2>3, CommitOne DEF RowStep, RowCloses
<1>14. ASSUME Tick
       PROVE  OneRow
  BY <1>14 DEF Tick, OneRow, RowAged
<1> QED
  BY <1>q, <1>1, <1>2, <1>3, <1>4, <1>5, <1>6, <1>7, <1>8, <1>9, <1>10, <1>11, <1>12, <1>13,
     <1>14
  DEF Next, Executing, Recovering

\* So every row takes one of these steps.
LEMMA StepRows ==
  ASSUME WorkInv, Next
  PROVE  \A k \in Jobs : RowStep(k)
  BY StepOneRow DEF OneRow, RowStep

-----------------------------------------------------------------------------
(* What such a step makes of the record of the job.                        *)

\* A renewal changes the lease and nothing else.
LEMMA RenewedFields ==
  ASSUME NEW row \in Row, NEW lease \in Nat, NEW next, next = [row EXCEPT !.lease = lease]
  PROVE  /\ next.lanes = row.lanes /\ next.cancelRequested = row.cancelRequested
         /\ next.lease = lease
         /\ next.status = row.status /\ next.worker = row.worker /\ next.reason = row.reason
  BY DEF Row

\* The claim makes the job run, under a live lease.
LEMMA ClaimedFields ==
  ASSUME NEW row \in Row, NEW s \in Servers, NEW next,
         next = claimed(row, WorkerId[s], Lease + Skew[s])
  PROVE  /\ next.lanes = row.lanes /\ next.cancelRequested = row.cancelRequested
         /\ next.lease > 0 /\ next.status = "running" /\ next.worker = WorkerId[s]
         /\ next.worker \in Workers /\ next.reason = row.reason
<1>1. Lease + Skew[s] \in Nat /\ Lease + Skew[s] > 0 /\ WorkerId[s] \in Workers
  BY ConstantsAssumption
<1> QED
  BY <1>1 DEF claimed, Row

\* A job whose row closes is terminal.
LEMMA ClosingIsTerminal ==
  ASSUME WorkInv, NEW j \in Jobs, RowCloses(j)
  PROVE  isTerminal(jobs'[j].status)
<1>1. jobs[j] \in Row /\ TypeOK
  BY DEF WorkInv, IInv, TypeOK
<1>2. CASE RowRefused(j)
  BY <1>1, <1>2, ClosingRows DEF RowRefused, Closing
<1>3. CASE RowFailed(j)
  BY <1>1, <1>3, ClosingRows DEF RowFailed, Closing
<1>4. CASE RowFinished(j)
  BY <1>1, <1>4, ClosingRows DEF RowFinished, Closing
<1>5. CASE RowRecovered(j)
  BY <1>5, ClosingRows DEF RowRecovered, Closing
<1>6. CASE RowCancelled(j)
  BY <1>6 DEF RowCancelled, WorkInv, IInv, Prepared, CancelPrepared, Closing
<1> QED
  BY <1>2, <1>3, <1>4, <1>5, <1>6 DEF RowCloses

\* The status each kind of step leaves.
LEMMA StatusAfter ==
  ASSUME WorkInv, NEW j \in Jobs
  PROVE  /\ RowKept(j) \/ RowAged(j) => jobs'[j].status = jobs[j].status
         /\ RowAdmitted(j) => jobs'[j].status = "queued"
         /\ RowClaimed(j) \/ RowRenewed(j) \/ RowReported(j) => jobs'[j].status = "running"
         /\ RowCloses(j) => isTerminal(jobs'[j].status)
<1>1. jobs[j] \in Row /\ TypeOK
  BY DEF WorkInv, IInv, TypeOK
<1>2. RowKept(j) \/ RowAged(j) => jobs'[j].status = jobs[j].status
  BY <1>1, AgedFields DEF RowKept, RowAged
<1>3. RowAdmitted(j) => jobs'[j].status = "queued"
  BY DEF RowAdmitted, queuedJob
<1>4. RowClaimed(j) => jobs'[j].status = "running"
  BY <1>1, ClaimedFields DEF RowClaimed
<1>5. RowRenewed(j) => jobs'[j].status = "running"
  BY <1>1, RenewedFields DEF RowRenewed, Live
<1>6. RowReported(j) => jobs'[j].status = "running"
  BY DEF RowReported
<1> QED
  BY <1>2, <1>3, <1>4, <1>5, <1>6, ClosingIsTerminal

\* Before its claim nothing has been done for a job.
LEMMA WaitingStep ==
  ASSUME WorkInv, NEW j \in Jobs, RowStep(j), jobs'[j].status \in {"absent", "queued"}
  PROVE  Waiting(j)'
<1>1. jobs[j] \in Row /\ TypeOK
  BY DEF WorkInv, IInv, TypeOK
<1>2. RowKept(j) \/ RowAged(j) \/ RowAdmitted(j)
  BY StatusAfter, OpenStatuses DEF RowStep
<1>3. CASE RowKept(j)
  BY <1>3 DEF RowKept, WorkInv, JobInv, Waiting, Untouched
<1>4. CASE RowAged(j)
  BY <1>1, <1>4, AgedFields DEF RowAged, WorkInv, JobInv, Waiting, Untouched
<1>5. CASE RowAdmitted(j)
  <2>1. Waiting(j)
    BY <1>5 DEF RowAdmitted, WorkInv, JobInv
  <2>2. /\ jobs'[j].worker = NoWorker /\ jobs'[j].reason = "none" /\ ~jobs'[j].cancelRequested
        /\ \A l \in Lanes : jobs'[j].lanes[l] = "queued"
    BY <1>5 DEF RowAdmitted, queuedJob
  <2>3. timeline[j] \in Timeline
    BY <1>1 DEF TypeOK
  <2>4. timeline'[j].started = timeline[j].started /\ timeline'[j].reports = timeline[j].reports
    BY <1>5, <2>3 DEF RowAdmitted, Timeline
  <2> QED
    BY <2>1, <2>2, <2>4 DEF Waiting, Untouched
<1> QED
  BY <1>2, <1>3, <1>4, <1>5

\* The record of a running job.
LEMMA RecordStep ==
  ASSUME WorkInv, NEW j \in Jobs, RowStep(j), jobs'[j].status = "running"
  PROVE  RecordInv(j)'
<1>1. jobs[j] \in Row /\ TypeOK /\ timeline[j] \in Timeline
  BY DEF WorkInv, IInv, TypeOK
<1>2. \/ RowKept(j) \/ RowAged(j) \/ RowClaimed(j) \/ RowRenewed(j) \/ RowReported(j)
  BY StatusAfter, OpenStatuses DEF RowStep
<1>r. jobs[j].status = "running" => RecordInv(j)
  BY DEF WorkInv, JobInv, RunningInv
<1>3. CASE RowKept(j)
  BY <1>r, <1>3 DEF RowKept, RecordInv, ReportsExact, Settled
<1>4. CASE RowAged(j)
  BY <1>1, <1>r, <1>4, AgedFields DEF RowAged, RecordInv, ReportsExact, Settled
<1>5. CASE RowRenewed(j)
  <2>1. RecordInv(j)
    BY <1>r, <1>5 DEF RowRenewed, Live
  <2>2. /\ jobs'[j].lanes = jobs[j].lanes /\ jobs'[j].worker = jobs[j].worker
        /\ jobs'[j].reason = jobs[j].reason /\ timeline'[j] = timeline[j]
    BY <1>1, <1>5, RenewedFields DEF RowRenewed
  <2> QED
    BY <2>1, <2>2 DEF RecordInv, ReportsExact, Settled
<1>6. CASE RowClaimed(j)
  <2>1. Waiting(j)
    BY <1>6 DEF RowClaimed, WorkInv, JobInv
  <2>2. /\ jobs'[j].lanes = jobs[j].lanes /\ jobs'[j].worker \in Workers
        /\ jobs'[j].reason = jobs[j].reason
    BY <1>1, <1>6, ClaimedFields DEF RowClaimed
  <2>3. timeline'[j].reports = timeline[j].reports /\ timeline'[j].started <= 1
    BY <1>1, <1>6, <2>1 DEF RowClaimed, startedEvent, Timeline, Waiting, Untouched
  <2>4. ~isTriageSettledStatus("queued")
    BY OpenStatuses DEF isTerminal
  <2> QED
    BY <2>1, <2>2, <2>3, <2>4 DEF RecordInv, ReportsExact, Settled, Waiting, Untouched
<1>7. CASE RowReported(j)
  <2>1. PICK l \in Lanes, status \in TRIAGE_JOB_STATUSES :
          /\ ~Settled(j, l)
          /\ jobs'[j].lanes = [jobs[j].lanes EXCEPT ![l] = status]
          /\ timeline'[j] = reportEvent(j, l, status)
    BY <1>7 DEF RowReported
  <2>2. RecordInv(j)
    BY <1>r, <1>7 DEF RowReported, Live
  <2>3. jobs'[j].worker \in Workers /\ jobs'[j].reason = "none"
    BY <1>7, <2>2 DEF RowReported, RecordInv
  <2>4. timeline'[j].started <= 1
    <3>1. reportEvent(j, l, status).started = timeline[j].started
      BY <1>1, ReportFields
    <3> QED
      BY <2>1, <2>2, <3>1 DEF RecordInv
  <2>5. /\ jobs[j].lanes \in [Lanes -> TRIAGE_JOB_STATUSES]
        /\ timeline[j].reports \in [Lanes -> Nat]
        /\ timeline[j].reported \in [Lanes -> TRIAGE_SETTLED_CANDIDATE_STATUSES \union {"none"}]
    BY <1>1 DEF Row, Timeline
  <2>6. ReportsExact(j)'
    <3> SUFFICES ASSUME NEW m \in Lanes
                 PROVE  /\ timeline'[j].reports[m]
                             = IF isTriageSettledStatus(jobs'[j].lanes[m]) THEN 1 ELSE 0
                        /\ isTriageSettledStatus(jobs'[j].lanes[m])
                             => timeline'[j].reported[m] = jobs'[j].lanes[m]
      BY DEF ReportsExact, Settled
    <3>1. /\ timeline[j].reports[m] = IF isTriageSettledStatus(jobs[j].lanes[m]) THEN 1 ELSE 0
          /\ isTriageSettledStatus(jobs[j].lanes[m])
               => timeline[j].reported[m] = jobs[j].lanes[m]
          /\ timeline[j].reports[l] = 0
      BY <2>1, <2>2 DEF RecordInv, ReportsExact, Settled
    <3>2. CASE ~isTriageSettledStatus(status)
      <4>1. timeline'[j] = timeline[j]
        <5>1. reportEvent(j, l, status) = timeline[j]
          BY <1>1, <3>2, ReportFields
        <5> QED
          BY <2>1, <5>1
      <4> QED
        BY <2>1, <2>5, <3>1, <3>2, <4>1 DEF Settled
    <3>3. CASE isTriageSettledStatus(status)
      <4>1. /\ timeline'[j].reports = [timeline[j].reports EXCEPT ![l] = timeline[j].reports[l] + 1]
            /\ timeline'[j].reported = [timeline[j].reported EXCEPT ![l] = status]
        BY <1>1, <2>1, <3>3, ReportFields
      <4> QED
        BY <2>1, <2>5, <3>1, <3>3, <4>1
    <3> QED
      BY <3>2, <3>3
  <2> QED
    BY <2>3, <2>4, <2>6 DEF RecordInv
<1> QED
  BY <1>2, <1>3, <1>4, <1>5, <1>6, <1>7

\* A job for which nothing was done resolves to a failure once its lanes are failed.
LEMMA UntouchedFails ==
  ASSUME NEW lanes \in [Lanes -> TRIAGE_JOB_STATUSES], \A l \in Lanes : lanes[l] = "queued"
  PROVE  resolveTriageJobStatus(settleOpenLanes(lanes, "failed"), FALSE) = "failed"
<1> DEFINE settled == settleOpenLanes(lanes, "failed")
<1>1. "failed" \in TRIAGE_SETTLED_CANDIDATE_STATUSES /\ ~isTriageSettledStatus("queued")
  BY OpenStatuses DEF isTerminal, isTriageSettledStatus
<1>2. settled \in [Lanes -> TRIAGE_SETTLED_CANDIDATE_STATUSES]
  BY <1>1, SettledLanes
<1>3. \A l \in Lanes : settled[l] = "failed"
  BY <1>1, SettledLanes
<1>4. DOMAIN settled = Lanes /\ Lanes # {}
  BY <1>2, StoreAssumption
<1> HIDE DEF settled
<1>5. lanesIn(settled, TRIAGE_PRODUCING_CANDIDATE_STATUSES) = {}
  BY <1>3, <1>4 DEF lanesIn, TRIAGE_PRODUCING_CANDIDATE_STATUSES
<1>6. resolveTriageJobStatus(settled, FALSE) = "failed"
  BY <1>3, <1>4, <1>5 DEF resolveTriageJobStatus
<1> QED
  BY <1>6 DEF settled

\* What is known of the reports of a job that closes.
LEMMA OpenReports ==
  ASSUME WorkInv, NEW j \in Jobs, jobs[j].status \in {"queued", "running"}
  PROVE  /\ timeline[j].started <= 1
         /\ ReportsExact(j)
         /\ \A l \in Lanes : timeline[j].reports[l] <= 1
<1>1. ~isTriageSettledStatus("queued")
  BY OpenStatuses DEF isTerminal
<1>2. CASE jobs[j].status = "queued"
  <2>1. Untouched(j)
    BY <1>2 DEF WorkInv, JobInv, Waiting
  <2> QED
    BY <1>1, <2>1 DEF Untouched, ReportsExact, Settled
<1>3. CASE jobs[j].status = "running"
  <2>1. RecordInv(j)
    BY <1>3 DEF WorkInv, JobInv, RunningInv
  <2> QED
    BY <2>1 DEF RecordInv, ReportsExact
<1> QED
  BY <1>2, <1>3

\* Closing with the settled lanes kept and the others settled honours the reports.
LEMMA ClosedReports ==
  ASSUME WorkInv, NEW j \in Jobs, jobs[j].status \in {"queued", "running"},
         NEW status, timeline'[j] = finishedEvent(j, status),
         \A l \in Lanes : Settled(j, l) => jobs'[j].lanes[l] = jobs[j].lanes[l]
  PROVE  /\ timeline'[j].started = timeline[j].started /\ timeline'[j].started <= 1
         /\ timeline'[j].reports = timeline[j].reports
         /\ \A l \in Lanes : timeline'[j].reports[l] <= 1
         /\ \A l \in Lanes : timeline'[j].reports[l] = 1
                               => jobs'[j].lanes[l] = timeline'[j].reported[l]
<1>1. TypeOK
  BY DEF WorkInv, IInv
<1>2. /\ timeline'[j].started = timeline[j].started
      /\ timeline'[j].reports = timeline[j].reports
      /\ timeline'[j].reported = timeline[j].reported
  BY <1>1, EventFields
<1>3. /\ timeline[j].started <= 1
      /\ ReportsExact(j)
      /\ \A l \in Lanes : timeline[j].reports[l] <= 1
  BY OpenReports
<1>4. ASSUME NEW l \in Lanes, timeline'[j].reports[l] = 1
      PROVE  jobs'[j].lanes[l] = timeline'[j].reported[l]
  <2>1. Settled(j, l)
    BY <1>2, <1>3, <1>4 DEF ReportsExact
  <2> QED
    BY <1>2, <1>3, <2>1 DEF ReportsExact
<1> QED
  BY <1>2, <1>3, <1>4

\* The record of a closed job.
LEMMA ClosedStep ==
  ASSUME WorkInv, NEW j \in Jobs, RowStep(j), isTerminal(jobs'[j].status)
  PROVE  ClosedInv(j)'
<1>1. jobs[j] \in Row /\ TypeOK /\ timeline[j] \in Timeline
  BY DEF WorkInv, IInv, TypeOK
<1>2. RowKept(j) \/ RowAged(j) \/ RowCloses(j)
  BY StatusAfter, OpenStatuses DEF RowStep
<1>l. /\ jobs[j].lanes \in [Lanes -> TRIAGE_JOB_STATUSES]
      /\ "failed" \in TRIAGE_SETTLED_CANDIDATE_STATUSES
  BY <1>1 DEF Row, TRIAGE_SETTLED_CANDIDATE_STATUSES
<1>f. \A l \in Lanes : /\ isTriageSettledStatus(settleOpenLanes(jobs[j].lanes, "failed")[l])
                       /\ Settled(j, l) => settleOpenLanes(jobs[j].lanes, "failed")[l]
                                             = jobs[j].lanes[l]
  BY <1>l, SettledLanes DEF Settled, isTriageSettledStatus
<1>3. CASE RowKept(j) \/ RowAged(j)
  <2>1. jobs[j].status = jobs'[j].status
    BY <1>3, StatusAfter
  <2>2. jobs[j].lease <= 0
    BY <2>1, OpenStatuses DEF WorkInv, IInv, Prepared, LeaseReleased, NoLease
  <2>3. jobs'[j] = jobs[j] /\ timeline'[j] = timeline[j]
    BY <1>1, <1>3, <2>2, AgedFields DEF RowKept, RowAged
  <2>4. ClosedInv(j)
    BY <2>1 DEF WorkInv, JobInv
  <2> QED
    BY <2>3, <2>4 DEF ClosedInv, AllSettled, Settled
<1>4. CASE RowRefused(j)
  <2>1. /\ jobs'[j].lanes = settleOpenLanes(jobs[j].lanes, "failed")
        /\ jobs'[j].reason = "refused" /\ jobs'[j].status = "failed"
    <3>1. jobs'[j] = refusedRow(jobs[j])
      BY <1>4 DEF RowRefused
    <3> QED
      BY <1>1, <3>1, RefusedFields
  <2>2. jobs[j].status \in {"queued", "running"} /\ timeline'[j] = finishedEvent(j, "failed")
    BY <1>4 DEF RowRefused, Live
  <2>3. /\ timeline'[j].started = timeline[j].started /\ timeline'[j].started <= 1
        /\ timeline'[j].reports = timeline[j].reports
        /\ \A l \in Lanes : timeline'[j].reports[l] <= 1
        /\ \A l \in Lanes : timeline'[j].reports[l] = 1
                              => jobs'[j].lanes[l] = timeline'[j].reported[l]
    BY <1>f, <2>1, <2>2, ClosedReports
  <2>4. jobs'[j].status = resolveTriageJobStatus(jobs'[j].lanes, FALSE)
    BY <1>l, <1>4, <2>1, UntouchedFails DEF RowRefused, Untouched
  <2>5. timeline'[j].started = 0 /\ \A l \in Lanes : timeline'[j].reports[l] = 0
    BY <1>4, <2>3 DEF RowRefused, Untouched
  <2> QED
    BY <1>f, <2>1, <2>3, <2>4, <2>5 DEF ClosedInv, AllSettled, Settled
<1>5. CASE RowFailed(j)
  <2>1. /\ jobs'[j].lanes = settleOpenLanes(jobs[j].lanes, "failed")
        /\ jobs'[j].reason = "runner_error"
    <3>1. jobs'[j] = failedRow(jobs[j])
      BY <1>5 DEF RowFailed
    <3> QED
      BY <1>1, <3>1, FailedFields
  <2>2. jobs[j].status \in {"queued", "running"} /\ timeline'[j] = finishedEvent(j, "failed")
    BY <1>5 DEF RowFailed, Live
  <2>3. /\ timeline'[j].started = timeline[j].started /\ timeline'[j].started <= 1
        /\ timeline'[j].reports = timeline[j].reports
        /\ \A l \in Lanes : timeline'[j].reports[l] <= 1
        /\ \A l \in Lanes : timeline'[j].reports[l] = 1
                              => jobs'[j].lanes[l] = timeline'[j].reported[l]
    BY <1>f, <2>1, <2>2, ClosedReports
  <2> QED
    BY <1>f, <2>1, <2>3 DEF ClosedInv, AllSettled, Settled
<1>6. CASE RowFinished(j)
  <2>1. /\ jobs'[j].lanes = jobs[j].lanes
        /\ jobs'[j].status = resolveTriageJobStatus(jobs[j].lanes, jobs[j].cancelRequested)
        /\ jobs'[j].reason = (IF jobs[j].cancelRequested THEN "cancel_requested" ELSE "none")
    <3>1. jobs'[j] = finishedRow(jobs[j])
      BY <1>6 DEF RowFinished
    <3> QED
      BY <1>1, <3>1, FinishedFields
  <2>2. /\ jobs[j].status \in {"queued", "running"}
        /\ timeline'[j] = finishedEvent(j, finishedRow(jobs[j]).status)
    BY <1>6 DEF RowFinished, Live
  <2>3. /\ timeline'[j].started = timeline[j].started /\ timeline'[j].started <= 1
        /\ timeline'[j].reports = timeline[j].reports
        /\ \A l \in Lanes : timeline'[j].reports[l] <= 1
        /\ \A l \in Lanes : timeline'[j].reports[l] = 1
                              => jobs'[j].lanes[l] = timeline'[j].reported[l]
    BY <2>1, <2>2, ClosedReports
  <2>4. jobs'[j].status
          = resolveTriageJobStatus(jobs'[j].lanes, jobs'[j].reason = "cancel_requested")
    <3>1. CASE jobs[j].cancelRequested
      BY <2>1, <3>1 DEF resolveTriageJobStatus
    <3>2. CASE ~jobs[j].cancelRequested
      BY <2>1, <3>2 DEF resolveTriageJobStatus
    <3> QED
      BY <3>1, <3>2
  <2>5. ClocksAgree => AllSettled(j)'
    BY <1>6, <2>1 DEF RowFinished, AllSettled, Settled
  <2>6. jobs'[j].reason # "refused"
    BY <2>1
  <2> QED
    BY <2>3, <2>4, <2>5, <2>6 DEF ClosedInv
<1>7. CASE RowRecovered(j)
  <2>1. PICK row \in Row : /\ jobs[j].status = "running"
                           /\ ClocksAgree => row = jobs[j]
                           /\ jobs'[j] = recoveredRow(row)
                           /\ timeline'[j] = finishedEvent(j, recoveredRow(row).status)
    BY <1>7 DEF RowRecovered, triageRunningLeaseExpired
  <2>2. /\ jobs'[j].lanes = settleOpenLanes(row.lanes, "failed")
        /\ jobs'[j].status = resolveTriageJobStatus(jobs'[j].lanes, FALSE)
        /\ jobs'[j].reason = "worker_lease_expired"
    BY <2>1, RecoveredFields
  <2>3. /\ timeline'[j].started = timeline[j].started
        /\ timeline'[j].reports = timeline[j].reports
    BY <1>1, <2>1, EventFields
  <2>4. /\ timeline[j].started <= 1
        /\ \A l \in Lanes : timeline[j].reports[l] <= 1
    BY <2>1, OpenReports
  <2>5. ASSUME ClocksAgree
        PROVE  /\ AllSettled(j)'
               /\ \A l \in Lanes : timeline'[j].reports[l] = 1
                                     => jobs'[j].lanes[l] = timeline'[j].reported[l]
    <3>1. jobs'[j].lanes = settleOpenLanes(jobs[j].lanes, "failed")
      BY <2>1, <2>2, <2>5
    <3>2. \A l \in Lanes : timeline'[j].reports[l] = 1
                             => jobs'[j].lanes[l] = timeline'[j].reported[l]
      BY <1>f, <2>1, <3>1, ClosedReports
    <3> QED
      BY <1>f, <3>1, <3>2 DEF AllSettled, Settled
  <2> QED
    BY <2>2, <2>3, <2>4, <2>5 DEF ClosedInv
<1>8. CASE RowCancelled(j)
  <2>1. PICK c \in Cancels : /\ cancels[c].pc = "read" /\ cancels[c].job = j
                             /\ jobs'[j] = cancels[c].row
    BY <1>8 DEF RowCancelled
  <2>2. /\ jobs'[j].reason = "cancel_requested"
        /\ jobs'[j].status = resolveTriageJobStatus(jobs'[j].lanes, TRUE)
        /\ \A l \in Lanes : isTriageSettledStatus(jobs'[j].lanes[l])
    BY <2>1 DEF WorkInv, CancelInv
  <2>3. /\ timeline'[j].started = timeline[j].started
        /\ timeline'[j].reports = timeline[j].reports
        /\ timeline'[j].cancelRequested = timeline[j].cancelRequested + 1
    BY <1>1, <1>8, EventFields DEF RowCancelled
  <2>4. /\ timeline[j].started <= 1
        /\ \A l \in Lanes : timeline[j].reports[l] <= 1
    BY <1>8, OpenReports DEF RowCancelled, Live
  <2>5. timeline'[j].cancelRequested # 0
    <3>1. timeline[j].cancelRequested \in Nat
      BY <1>1 DEF Timeline
    <3> QED
      BY <2>3, <3>1
  <2>6. jobs'[j].status
          = resolveTriageJobStatus(jobs'[j].lanes, jobs'[j].reason = "cancel_requested")
    BY <2>2
  <2> QED
    BY <2>2, <2>3, <2>4, <2>5, <2>6 DEF ClosedInv, AllSettled, Settled
<1> QED
  BY <1>2, <1>3, <1>4, <1>5, <1>6, <1>7, <1>8 DEF RowCloses

-----------------------------------------------------------------------------
(* What such a step makes of the tasks.                                    *)

\* What is known of the task of one server for one job.
Fits(s, j) ==
  /\ TaskInv(j, task[s][j])
  /\ jobs[j].status = "running" /\ task[s][j].pc \in Working => WorkerInv(s, j, task[s][j])

\* What is known of all of them.
Crew(j) ==
  /\ TasksInv(j)
  /\ jobs[j].status = "running" => WorkersInv(j)

\* The invariant says it of every job and every task.
LEMMA CrewFits ==
  ASSUME WorkInv, NEW j \in Jobs
  PROVE  Crew(j) /\ \A s \in Servers : Fits(s, j)
  BY DEF WorkInv, JobInv, RunningInv, Crew, Fits, TasksInv, WorkersInv

\* No task starts to work and every task fits.
LEMMA CrewStays ==
  ASSUME WorkInv, NEW j \in Jobs,
         \A s \in Servers : task'[s][j].pc \in Working => task[s][j].pc \in Working,
         \A s \in Servers : Fits(s, j)'
  PROVE  Crew(j)'
  BY CrewFits DEF Crew, Fits, TasksInv, WorkersInv

\* A task that nothing touches.
LEMMA FitsKept ==
  ASSUME WorkInv, NEW s \in Servers, NEW j \in Jobs, RowKept(j), task'[s][j] = task[s][j]
  PROVE  Fits(s, j)'
<1>1. Fits(s, j)
  BY CrewFits
<1> QED
  BY <1>1 DEF RowKept, Fits, TaskInv, WorkerInv, Untouched, WriteCurrent, SameButLease,
              NothingLost, AllSettled, GotSettled, Settling, Settled, ClocksAgree

\* A step that replaces one task and either closes its job or leaves the row alone.
LEMMA CrewMoved ==
  ASSUME WorkInv, NEW s \in Servers, NEW j \in Jobs, NEW t, task' = [task EXCEPT ![s][j] = t],
         \A k \in Jobs : k # j => RowKept(k),
         t.pc \in Working => task[s][j].pc \in Working,
         t.pc \in {"resume", "claim", "prepare"} => t.got = {} /\ ~t.broken,
         \/ isTerminal(jobs'[j].status)
         \/ /\ RowKept(j)
            /\ t.aborted => t.leaseLost \/ isTerminal(jobs[j].status)
            /\ jobs[j].status = "running" /\ t.pc \in Working => WorkerInv(s, j, t)
  PROVE  \A k \in Jobs : Crew(k)'
<1> SUFFICES ASSUME NEW k \in Jobs
             PROVE  Crew(k)'
  OBVIOUS
<1>1. task \in [Servers -> [Jobs -> Task]]
  BY DEF WorkInv, IInv, TypeOK
<1>2. \A r \in Servers : r # s \/ k # j => task'[r][k] = task[r][k]
  BY <1>1
<1>3. task'[s][j] = t
  BY <1>1
<1>4. \A r \in Servers : task'[r][k].pc \in Working => task[r][k].pc \in Working
  BY <1>2, <1>3
<1>5. CASE k # j
  BY <1>2, <1>4, <1>5, FitsKept, CrewStays
<1>6. CASE k = j /\ isTerminal(jobs'[j].status)
  <2>1. ASSUME NEW r \in Servers
        PROVE  Fits(r, j)'
    <3>1. jobs'[j].status # "running"
      BY <1>6, OpenStatuses
    <3>2. task'[r][j].pc \in {"resume", "claim", "prepare"}
            => task'[r][j].got = {} /\ ~task'[r][j].broken
      <4>1. Fits(r, j)
        BY CrewFits
      <4> QED
        BY <1>2, <1>3, <1>6, <4>1 DEF Fits, TaskInv
    <3> QED
      BY <1>6, <3>1, <3>2 DEF Fits, TaskInv
  <2> QED
    BY <1>4, <1>6, <2>1, CrewStays
<1>7. CASE k = j /\ RowKept(j) /\ ~isTerminal(jobs'[j].status)
  <2>1. Fits(s, j)'
    <3>1. /\ t.aborted => t.leaseLost \/ isTerminal(jobs[j].status)
          /\ jobs[j].status = "running" /\ t.pc \in Working => WorkerInv(s, j, t)
      BY <1>7
    <3> QED
      BY <1>3, <1>7, <3>1
         DEF RowKept, Fits, TaskInv, WorkerInv, Untouched, WriteCurrent, SameButLease,
             NothingLost, AllSettled, GotSettled, Settling, Settled, ClocksAgree
  <2>2. \A r \in Servers : r # s => Fits(r, j)'
    BY <1>2, <1>7, FitsKept
  <2> QED
    BY <1>4, <1>7, <2>1, <2>2, CrewStays
<1> QED
  BY <1>5, <1>6, <1>7

\* A step that touches no task and at most closes a job.
LEMMA CrewUntouched ==
  ASSUME WorkInv, UNCHANGED task, NEW j \in Jobs, \A k \in Jobs : k # j => RowKept(k),
         RowKept(j) \/ isTerminal(jobs'[j].status)
  PROVE  \A k \in Jobs : Crew(k)'
<1>1. PICK s \in Servers : TRUE
  BY ConstantsAssumption
<1>2. task' = [task EXCEPT ![s][j] = task[s][j]]
  BY DEF WorkInv, IInv, TypeOK
<1>3. Fits(s, j)
  BY CrewFits
<1> QED
  BY <1>2, <1>3, CrewMoved DEF Fits, TaskInv

\* execute() is over, or not yet past the claim.
LEMMA FreshTask ==
  ASSUME NEW pc
  PROVE  /\ newTask(pc).pc = pc /\ newTask(pc).got = {}
         /\ newTask(pc).broken = FALSE /\ newTask(pc).aborted = FALSE
         /\ newTask(pc).leaseLost = FALSE /\ newTask(pc).write = noWrite
         /\ newTask(pc).write.active = FALSE
  BY DEF newTask, noWrite

\* A step that starts or ends a run of execute().
LEMMA CrewFresh ==
  ASSUME WorkInv, NEW s \in Servers, NEW j \in Jobs, NEW pc \in {"none", "resume", "claim", "done"},
         task' = [task EXCEPT ![s][j] = newTask(pc)],
         \A k \in Jobs : k # j => RowKept(k),
         RowKept(j) \/ isTerminal(jobs'[j].status)
  PROVE  \A k \in Jobs : Crew(k)'
<1>1. pc \notin Working
  BY DEF Working
<1> QED
  BY <1>1, FreshTask, CrewMoved

\* A move changes the program counter of one task.
LEMMA MovedFields ==
  ASSUME TypeOK, NEW s \in Servers, NEW j \in Jobs, NEW pc, pc # "done", moveTask(s, j, pc)
  PROVE  \E t : /\ task' = [task EXCEPT ![s][j] = t]
                /\ t.pc = pc /\ t.got = task[s][j].got /\ t.write = task[s][j].write
                /\ t.broken = task[s][j].broken /\ t.aborted = task[s][j].aborted
                /\ t.leaseLost = task[s][j].leaseLost
<1> DEFINE t == [task[s][j] EXCEPT !.pc = pc]
<1>1. task[s][j] \in Task
  BY DEF TypeOK
<1>2. task' = [task EXCEPT ![s][j] = t]
  BY DEF moveTask
<1>3. /\ t.pc = pc /\ t.got = task[s][j].got /\ t.write = task[s][j].write
      /\ t.broken = task[s][j].broken /\ t.aborted = task[s][j].aborted
      /\ t.leaseLost = task[s][j].leaseLost
  BY <1>1 DEF Task
<1> HIDE DEF t
<1> QED
  BY <1>2, <1>3

\* What a transaction that would close the job leaves.
LEMMA ClosesOrKeeps ==
  ASSUME WorkInv, NEW j \in Jobs, NEW row, Closing(row), NEW events, NEW o,
         Commit(o, j, updated(jobs[j], row), events)
  PROVE  /\ \A k \in Jobs : k # j => RowKept(k)
         /\ RowKept(j) \/ isTerminal(jobs'[j].status)
<1>1. TypeOK /\ jobs[j] \in Row
  BY DEF WorkInv, IInv, TypeOK
<1>2. updated(jobs[j], row) = row
  BY <1>1, ClosingUpdated
<1> QED
  BY <1>1, <1>2, CommitRow DEF Closing

\* A job that a step does not touch.
LEMMA CrewOther ==
  ASSUME WorkInv, NEW k \in Jobs, RowKept(k), \A r \in Servers : task'[r][k] = task[r][k]
  PROVE  Crew(k)'
  BY FitsKept, CrewStays

\* The worker gives up: its task moves to the catch of execute().
LEMMA FailingWorker ==
  ASSUME WorkInv, NEW s \in Servers, NEW j \in Jobs, NEW t,
         task[s][j].pc \in Working, jobs[j].status = "running",
         t.pc = "fail", ~t.write.active, t.leaseLost = task[s][j].leaseLost,
         t.broken = task[s][j].broken
  PROVE  WorkerInv(s, j, t)
<1>1. WorkerInv(s, j, task[s][j])
  BY WorkerKnows
<1> QED
  BY <1>1 DEF WorkerInv, WriteCurrent, NothingLost

\* A worker that is still running its lanes moves on to its end when none is missing.
LEMMA FinalWorker ==
  ASSUME WorkInv, NEW s \in Servers, NEW j \in Jobs, NEW t,
         task[s][j].pc \in {"batch", "sweep"}, jobs[j].status = "running",
         task[s][j].pc = "batch" => ~task[s][j].broken,
         ~task[s][j].leaseLost => task[s][j].got = Lanes,
         ~task[s][j].write.active,
         t.pc = "final", t.write = task[s][j].write, t.leaseLost = task[s][j].leaseLost,
         t.broken = task[s][j].broken
  PROVE  WorkerInv(s, j, t)
<1>1. WorkerInv(s, j, task[s][j])
  BY WorkerKnows DEF Working
<1>2. ClocksAgree /\ jobs[j].lease > 0 /\ ~t.leaseLost => AllSettled(j)
  BY <1>1 DEF WorkerInv, NothingLost, GotSettled, AllSettled, Settling
<1> QED
  BY <1>1, <1>2 DEF WorkerInv, WriteCurrent, NothingLost

\* The store lets no one past it, or the lane is settled already.
LEMMA LaneRefused ==
  ASSUME WorkInv, NEW s \in Servers, NEW j \in Jobs, NEW l \in Lanes,
         task[s][j].pc \in Working, jobs[j].status = "running",
         ~mayWriteLane(s, j, l, {"queued", "running"}),
         ClocksAgree, jobs[j].lease > 0, ~task[s][j].leaseLost
  PROVE  Settled(j, l)
<1>1. jobs[j].worker = WorkerId[s]
  BY WorkerKnows DEF WorkerInv
<1>2. Skew[s] = 0 /\ jobs[j].lease # NoLease
  BY DEF ClocksAgree, NoLease
<1>3. triageWorkerHoldsLiveLease(jobs[j], WorkerId[s], Skew[s])
  BY <1>1, <1>2 DEF triageWorkerHoldsLiveLease
<1>4. jobs[j].lanes[l] \in TRIAGE_JOB_STATUSES
  BY DEF WorkInv, IInv, TypeOK, Row
<1> QED
  BY <1>3, <1>4 DEF mayWriteLane, Settled, isTriageSettledStatus, TRIAGE_JOB_STATUSES

\* A lane may be written only while it is open.
LEMMA LaneOpen ==
  /\ ~isTriageSettledStatus("queued") /\ ~isTriageSettledStatus("running")
  BY OpenStatuses DEF isTerminal

\* The row of a write is the row it was read from.
LEMMA ReadNow ==
  ASSUME WorkInv, NEW j \in Jobs
  PROVE  SameButLease(jobs[j], jobs[j])
<1>1. jobs[j] \in Row
  BY DEF WorkInv, IInv, TypeOK
<1> QED
  BY <1>1 DEF SameButLease, Row

\* The task of a worker that prepares a write for a lane, or finds it may not.
LEMMA WritingWorker ==
  ASSUME WorkInv, NEW s \in Servers, NEW j \in Jobs, NEW t, NEW l \in Lanes,
         task[s][j].pc \in {"batch", "sweep"}, ~task[s][j].write.active,
         jobs[j].status = "running",
         t.pc = task[s][j].pc, t.leaseLost = task[s][j].leaseLost, t.broken = task[s][j].broken,
         t.write.active => /\ t.write.row = jobs[j] /\ t.write.lane = l /\ ~Settled(j, l)
                           /\ isTriageSettledStatus(t.write.status) => l \in t.got,
         \/ t.got = task[s][j].got
         \/ /\ t.got = task[s][j].got \union {l}
            /\ \/ Settling(t, l)
               \/ ~t.write.active /\ ~mayWriteLane(s, j, l, {"queued", "running"})
  PROVE  WorkerInv(s, j, t)
<1>1. WorkerInv(s, j, task[s][j])
  BY WorkerKnows DEF Working
<1>2. WriteCurrent(j, t)
  BY ReadNow DEF WriteCurrent
<1>3. NothingLost(j, t)
  <2> SUFFICES ASSUME ClocksAgree, jobs[j].lease > 0, ~t.leaseLost,
                      t.pc = "sweep" \/ (t.pc = "batch" /\ ~t.broken),
                      NEW m \in t.got
               PROVE  Settled(j, m) \/ Settling(t, m)
    BY DEF NothingLost, GotSettled
  <2>1. m \in task[s][j].got => Settled(j, m)
    BY <1>1 DEF WorkerInv, NothingLost, GotSettled, Settling
  <2>2. t.got # task[s][j].got /\ m = l => Settled(j, m) \/ Settling(t, m)
    BY LaneRefused DEF Working
  <2> QED
    BY <2>1, <2>2
<1> QED
  BY <1>1, <1>2, <1>3 DEF WorkerInv

\* Rows that differ in their lease alone.
LEMMA LeaseApart ==
  ASSUME NEW a \in Row, NEW b \in Row, NEW c \in Row
  PROVE  /\ SameButLease(a, b) => SameButLease(b, a)
         /\ SameButLease(a, b) /\ SameButLease(b, c) => SameButLease(a, c)
<1>1. ASSUME SameButLease(a, b)
      PROVE  SameButLease(b, a)
  BY <1>1 DEF SameButLease, Row
<1>2. ASSUME SameButLease(a, b), SameButLease(b, c)
      PROVE  SameButLease(a, c)
  BY <1>2 DEF SameButLease, Row
<1> QED
  BY <1>1, <1>2

\* Their other fields are the same.
LEMMA LeaseFields ==
  ASSUME NEW a \in Row, NEW b \in Row, SameButLease(a, b)
  PROVE  /\ a.status = b.status /\ a.worker = b.worker /\ a.lanes = b.lanes
         /\ a.mode = b.mode /\ a.reason = b.reason
         /\ a.cancelRequested = b.cancelRequested
  BY DEF SameButLease, Row

\* A step that changes the lease of a running job that has one, or lets it run down.
LEMMA FitsLease ==
  ASSUME WorkInv, NEW s \in Servers, NEW j \in Jobs, NEW t,
         jobs'[j] \in Row, SameButLease(jobs'[j], jobs[j]), timeline'[j] = timeline[j],
         jobs'[j].lease > 0 => jobs[j].lease > 0,
         task'[s][j] = t, t.pc = task[s][j].pc, t.got = task[s][j].got,
         t.broken = task[s][j].broken,
         task[s][j].leaseLost => t.leaseLost,
         t.aborted => task[s][j].aborted \/ t.leaseLost,
         t.write.row \in Row, SameButLease(t.write.row, task[s][j].write.row),
         t.write.active = task[s][j].write.active,
         t.write.lane = task[s][j].write.lane, t.write.status = task[s][j].write.status
  PROVE  Fits(s, j)'
<1>1. Fits(s, j) /\ jobs[j] \in Row /\ task[s][j].write.row \in Row
  BY CrewFits DEF WorkInv, IInv, TypeOK, Task, Write
<1>2. /\ jobs'[j].status = jobs[j].status /\ jobs'[j].worker = jobs[j].worker
      /\ jobs'[j].lanes = jobs[j].lanes /\ jobs'[j].mode = jobs[j].mode
      /\ jobs'[j].cancelRequested = jobs[j].cancelRequested
  BY <1>1, LeaseFields
<1>3. TaskInv(j, task[s][j])'
  <2>1. t.pc \in {"resume", "claim", "prepare"} => t.got = {} /\ ~t.broken
    BY <1>1 DEF Fits, TaskInv
  <2>2. t.aborted => t.leaseLost \/ isTerminal(jobs'[j].status)
    BY <1>1, <1>2, Zenon DEF Fits, TaskInv
  <2> QED
    BY <2>1, <2>2 DEF TaskInv
<1>4. ASSUME jobs'[j].status = "running", t.pc \in Working
      PROVE  WorkerInv(s, j, task[s][j])'
  <2>1. WorkerInv(s, j, task[s][j])
    BY <1>1, <1>2, <1>4 DEF Fits
  <2>2. WriteCurrent(j, task[s][j])'
    <3> SUFFICES ASSUME t.write.active
                 PROVE  /\ SameButLease(t.write.row, jobs'[j])
                        /\ ~isTriageSettledStatus(jobs'[j].lanes[t.write.lane])
                        /\ isTriageSettledStatus(t.write.status) => t.write.lane \in t.got
      BY DEF WriteCurrent, Settled
    <3>1. /\ SameButLease(task[s][j].write.row, jobs[j])
          /\ ~Settled(j, task[s][j].write.lane)
          /\ isTriageSettledStatus(t.write.status) => t.write.lane \in t.got
      BY <2>1 DEF WorkerInv, WriteCurrent
    <3>2. SameButLease(t.write.row, jobs'[j])
      <4>1. t.write.row \in Row /\ SameButLease(t.write.row, task[s][j].write.row)
        OBVIOUS
      <4>2. SameButLease(t.write.row, jobs[j])
        BY <1>1, <3>1, <4>1, LeaseApart
      <4>3. SameButLease(jobs[j], jobs'[j])
        BY <1>1, LeaseApart
      <4> QED
        BY <1>1, <4>1, <4>2, <4>3, LeaseApart
    <3> QED
      BY <1>2, <3>1, <3>2 DEF Settled
  <2>3. NothingLost(j, task[s][j])'
    BY <1>2, <2>1 DEF WorkerInv, NothingLost, AllSettled, GotSettled, Settling, Settled, ClocksAgree
  <2>4. /\ jobs'[j].worker = WorkerId[s]
        /\ jobs'[j].cancelRequested => t.leaseLost
        /\ t.broken => jobs'[j].mode = "gateway"
    BY <1>2, <2>1, Zenon DEF WorkerInv
  <2>5. /\ t.pc = "refuse" => Untouched(j)'
        /\ t.pc \in {"prepare", "batch"} => \A l \in Lanes : Settled(j, l)' => l \in t.got
    BY <1>2, <2>1 DEF WorkerInv, Untouched, Settled
  <2> QED
    BY <2>2, <2>3, <2>4, <2>5 DEF WorkerInv
<1> QED
  BY <1>3, <1>4 DEF Fits

\* The heartbeat changes nothing a worker relies on.
LEMMA FitsBeat ==
  ASSUME WorkInv, NEW s \in Servers, NEW j \in Jobs, RowRenewed(j),
         \/ task'[s][j] = task[s][j]
         \/ task'[s][j] = [task[s][j] EXCEPT !.leaseLost = TRUE, !.aborted = TRUE]
  PROVE  Fits(s, j)'
<1> DEFINE t == task'[s][j]
           old == task[s][j]
<1>1. jobs[j] \in Row /\ old \in Task /\ old.write.row \in Row
  BY DEF WorkInv, IInv, TypeOK, Task, Write
<1>2. PICK lease \in Nat : jobs'[j] = [jobs[j] EXCEPT !.lease = lease]
  BY DEF RowRenewed
<1>3. jobs'[j] \in Row /\ SameButLease(jobs'[j], jobs[j]) /\ timeline'[j] = timeline[j]
  BY <1>1, <1>2, OpenRows DEF SameButLease, Row, RowRenewed
<1>4. /\ t.pc = old.pc /\ t.got = old.got /\ t.broken = old.broken /\ t.write = old.write
      /\ old.leaseLost => t.leaseLost
      /\ t.aborted => old.aborted \/ t.leaseLost
  BY <1>1 DEF Task
<1>5. SameButLease(old.write.row, old.write.row)
  BY <1>1 DEF SameButLease, Row
<1>6. jobs[j].lease > 0
  BY DEF RowRenewed, Live
<1> HIDE DEF t
<1>7. t = task'[s][j]
  BY DEF t
<1> QED
  BY <1>1, <1>3, <1>4, <1>5, <1>6, <1>7, FitsLease

\* Nor does the passage of time.
LEMMA FitsTick ==
  ASSUME WorkInv, NEW s \in Servers, NEW j \in Jobs, Tick
  PROVE  Fits(s, j)' /\ task'[s][j].pc = task[s][j].pc
<1> DEFINE t == task'[s][j]
           old == task[s][j]
<1>1. jobs[j] \in Row /\ old \in Task /\ old.write \in Write /\ old.write.row \in Row
  BY DEF WorkInv, IInv, TypeOK, Task, Write
<1>2. jobs'[j] = aged(jobs[j]) /\ timeline'[j] = timeline[j]
  BY DEF Tick
<1>3. /\ jobs'[j] \in Row /\ SameButLease(jobs'[j], jobs[j])
      /\ jobs'[j].lease > 0 => jobs[j].lease > 0
  BY <1>1, <1>2, AgedFields DEF SameButLease
<1>4. t = [old EXCEPT !.write = [old.write EXCEPT !.row = aged(old.write.row)]]
  BY DEF Tick
<1>5. /\ t.pc = old.pc /\ t.got = old.got /\ t.broken = old.broken
      /\ t.leaseLost = old.leaseLost /\ t.aborted = old.aborted
      /\ t.write = [old.write EXCEPT !.row = aged(old.write.row)]
  BY <1>1, <1>4 DEF Task
<1>6. /\ t.write.active = old.write.active /\ t.write.lane = old.write.lane
      /\ t.write.status = old.write.status /\ t.write.row = aged(old.write.row)
  BY <1>1, <1>5 DEF Write
<1>7. t.write.row \in Row /\ SameButLease(t.write.row, old.write.row)
  BY <1>1, <1>6, AgedFields DEF SameButLease
<1>8. old.leaseLost => t.leaseLost
  BY <1>5
<1>9. t.aborted => old.aborted \/ t.leaseLost
  BY <1>5
<1> HIDE DEF t
<1>10. t = task'[s][j]
  BY DEF t
<1> QED
  BY <1>2, <1>3, <1>5, <1>6, <1>7, <1>8, <1>9, <1>10, FitsLease

\* The only task that works on the job is that of the worker.
LEMMA OneWorker ==
  ASSUME WorkInv, NEW s \in Servers, NEW j \in Jobs, task[s][j].pc \in Working
  PROVE  \A r \in Servers : r # s => task[r][j].pc \notin Working
  BY DEF WorkInv, JobInv, TasksInv

\* A lane write that lands leaves the worker with what it had got.
LEMMA FitsReported ==
  ASSUME WorkInv, NEW s \in Servers, NEW j \in Jobs, NEW t,
         task[s][j].pc \in {"batch", "sweep"}, task[s][j].write.active,
         Live(j), LaneWritten(j, task[s][j], jobs'[j]),
         task'[s][j] = t, ~t.write.active, t.got = task[s][j].got,
         t.leaseLost = task[s][j].leaseLost, t.aborted = task[s][j].aborted,
         \/ t.pc = task[s][j].pc /\ t.broken = task[s][j].broken
         \/ t.pc = task[s][j].pc /\ task[s][j].write.row.mode = "gateway" /\ t.pc = "batch" /\ t.broken
         \/ t.pc = "fail" /\ t.broken = task[s][j].broken
  PROVE  Fits(s, j)'
<1> DEFINE old == task[s][j]
           l == old.write.lane
<1>1. WorkerInv(s, j, old) /\ Fits(s, j)
  BY WorkerKnows, CrewFits DEF Live, Working
<1>2. /\ jobs[j] \in Row /\ old.write.row \in Row /\ l \in Lanes
      /\ old.write.status \in TRIAGE_JOB_STATUSES
      /\ jobs[j].lanes \in [Lanes -> TRIAGE_JOB_STATUSES]
  BY DEF WorkInv, IInv, TypeOK, Task, Write, Row
<1>3. /\ jobs'[j].lanes = [jobs[j].lanes EXCEPT ![l] = old.write.status]
      /\ jobs'[j].cancelRequested => jobs[j].cancelRequested \/ old.aborted
      /\ jobs'[j].worker = jobs[j].worker /\ jobs'[j].mode = jobs[j].mode
      /\ jobs'[j].status = "running"
  BY DEF LaneWritten
<1>4. old.aborted => old.leaseLost
  BY <1>1, OpenStatuses DEF Fits, TaskInv, Live
<1>5. /\ ~Settled(j, l) /\ SameButLease(old.write.row, jobs[j])
      /\ isTriageSettledStatus(old.write.status) => l \in old.got
  BY <1>1 DEF WorkerInv, WriteCurrent
<1>6. \A m \in Lanes : Settled(j, m) \/ Settling(old, m) => Settled(j, m)'
  BY <1>2, <1>3, <1>5 DEF Settled, Settling
<1>7. NothingLost(j, task[s][j])'
  <2> SUFFICES ASSUME ClocksAgree, ~t.leaseLost, t.pc = "sweep" \/ (t.pc = "batch" /\ ~t.broken),
                      NEW m \in t.got
               PROVE  Settled(j, m)'
    BY DEF NothingLost, GotSettled, AllSettled, ClocksAgree
  <2>1. GotSettled(j, old)
    BY <1>1 DEF WorkerInv, NothingLost, Live
  <2>2. m \in Lanes
    BY DEF WorkInv, IInv, TypeOK, Task
  <2> QED
    BY <1>6, <2>1, <2>2 DEF GotSettled
<1>8. t.pc = "batch" => \A m \in Lanes : Settled(j, m)' => m \in t.got
  BY <1>1, <1>2, <1>3, <1>5 DEF WorkerInv, Settled
<1>9. t.broken => jobs'[j].mode = "gateway"
  <2>1. old.write.row.mode = jobs[j].mode
    BY <1>2, <1>5, LeaseFields
  <2>2. old.broken => jobs[j].mode = "gateway"
    BY <1>1 DEF WorkerInv
  <2> QED
    BY <1>3, <2>1, <2>2, Zenon
<1>10. jobs'[j].worker = WorkerId[s] /\ (jobs'[j].cancelRequested => t.leaseLost)
  BY <1>1, <1>3, <1>4, Zenon DEF WorkerInv
<1>11. WorkerInv(s, j, task[s][j])'
  BY <1>7, <1>8, <1>9, <1>10 DEF WorkerInv, WriteCurrent
<1>12. TaskInv(j, task[s][j])'
  BY <1>4 DEF TaskInv
<1> QED
  BY <1>11, <1>12 DEF Fits

\* What a lane write leaves of its task.
LEMMA WrittenTask ==
  ASSUME TypeOK, NEW s \in Servers, NEW j \in Jobs, NEW t,
         t \in {[task[s][j] EXCEPT !.write = noWrite],
                [[task[s][j] EXCEPT !.write = noWrite] EXCEPT !.broken = TRUE],
                [[task[s][j] EXCEPT !.write = noWrite] EXCEPT !.pc = "fail"]}
  PROVE  /\ ~t.write.active /\ t.got = task[s][j].got
         /\ t.leaseLost = task[s][j].leaseLost /\ t.aborted = task[s][j].aborted
<1> DEFINE done == [task[s][j] EXCEPT !.write = noWrite]
<1>1. task[s][j] \in Task /\ ~noWrite.active
  BY DEF TypeOK, noWrite
<1>2. /\ done \in Task /\ done.write = noWrite /\ done.got = task[s][j].got
      /\ done.leaseLost = task[s][j].leaseLost /\ done.aborted = task[s][j].aborted
  BY <1>1, TaskTypes DEF Task
<1>3. t \in {done, [done EXCEPT !.broken = TRUE], [done EXCEPT !.pc = "fail"]}
  OBVIOUS
<1> HIDE DEF done
<1>4. /\ t.write = done.write /\ t.got = done.got
      /\ t.leaseLost = done.leaseLost /\ t.aborted = done.aborted
  BY <1>2, <1>3 DEF Task
<1> QED
  BY <1>1, <1>2, <1>4

\* The lane write of a worker.
LEMMA CrewReported ==
  ASSUME WorkInv, NEW s \in Servers, NEW j \in Jobs, CommitLane(s, j)
  PROVE  \A k \in Jobs : Crew(k)'
<1> DEFINE old == task[s][j]
           done == [old EXCEPT !.write = noWrite]
           next(o) == IF ~threw(o) THEN done
                      ELSE IF old.pc = "batch" /\ old.write.row.mode = "gateway"
                        THEN [done EXCEPT !.broken = TRUE]
                        ELSE [done EXCEPT !.pc = "fail"]
<1>0. TypeOK /\ old \in Task /\ old.write.active
  BY DEF WorkInv, IInv, TypeOK, CommitLane
<1>1. PICK sawAbort \in {FALSE, old.aborted} :
        \E o \in CommitOutcomes(updatable(jobs[j], writtenRow(old, sawAbort))) :
          /\ Commit(o, j, updated(jobs[j], writtenRow(old, sawAbort)),
                    reportEvent(j, old.write.lane, old.write.status))
          /\ task' = [task EXCEPT ![s][j] = next(o)]
  BY DEF CommitLane, setTask
<1>2. PICK o \in CommitOutcomes(updatable(jobs[j], writtenRow(old, sawAbort))) :
          /\ Commit(o, j, updated(jobs[j], writtenRow(old, sawAbort)),
                    reportEvent(j, old.write.lane, old.write.status))
          /\ task' = [task EXCEPT ![s][j] = next(o)]
  BY <1>1
<1> DEFINE t == next(o)
<1>3. old.pc \in {"batch", "sweep"}
  BY <1>0 DEF WorkInv, IInv, Prepared, WritePrepared
<1>4. /\ ~t.write.active /\ t.got = old.got
      /\ t.leaseLost = old.leaseLost /\ t.aborted = old.aborted
  BY <1>0, WrittenTask
<1>5. done.pc = old.pc /\ done.broken = old.broken /\ done \in Task
  BY <1>0, TaskTypes DEF Task
<1>6. /\ [done EXCEPT !.broken = TRUE].pc = old.pc /\ [done EXCEPT !.broken = TRUE].broken = TRUE
      /\ [done EXCEPT !.pc = "fail"].pc = "fail" /\ [done EXCEPT !.pc = "fail"].broken = old.broken
  <2> HIDE DEF done
  <2> QED
    BY <1>5 DEF Task
<1>7. \/ ~threw(o) /\ t.pc = old.pc /\ t.broken = old.broken
      \/ /\ threw(o) /\ t.pc = old.pc /\ old.write.row.mode = "gateway" /\ t.pc = "batch"
         /\ t.broken = TRUE
      \/ threw(o) /\ t.pc = "fail" /\ t.broken = old.broken
  BY <1>5, <1>6
<1>8. \A k \in Jobs : k # j => RowKept(k)
  BY <1>0, <1>2, CommitRow
<1>9. task' = [task EXCEPT ![s][j] = t]
  BY <1>2
<1>10. t.pc \in {"batch", "sweep", "fail"}
  BY <1>3, <1>7
<1> HIDE DEF t, done, next
<1>11. CASE landed(o)
  <2>1. updatable(jobs[j], writtenRow(old, sawAbort))
    BY <1>2, <1>11, LandsIfAllowed
  <2>2. jobs'[j] = updated(jobs[j], writtenRow(old, sawAbort))
    BY <1>0, <1>2, <1>11, CommitRow
  <2>3. Live(j) /\ LaneWritten(j, old, jobs'[j])
    BY <1>0, <1>1, <2>1, <2>2, LaneRow
  <2>4. task'[s][j] = t
    BY <1>0, <1>9 DEF TypeOK
  <2>5. Fits(s, j)'
    BY <1>0, <1>3, <1>4, <1>7, <2>3, <2>4, FitsReported
  <2>6. \A r \in Servers, k \in Jobs : r # s \/ k # j => task'[r][k] = task[r][k]
    BY <1>0, <1>9 DEF TypeOK
  <2>7. ASSUME NEW r \in Servers, r # s
        PROVE  Fits(r, j)' /\ task'[r][j].pc \notin Working
    <3>1. task[r][j].pc \notin Working /\ task'[r][j] = task[r][j]
      BY <1>3, <2>6, <2>7, OneWorker DEF Working
    <3>2. ~isTerminal(jobs[j].status) /\ TaskInv(j, task[r][j])
      BY <2>3, OpenStatuses, CrewFits DEF Live, Fits
    <3> QED
      BY <3>1, <3>2 DEF Fits, TaskInv
  <2>8. Crew(j)'
    BY <1>3, <2>5, <2>7, CrewStays DEF Working
  <2> QED
    BY <1>8, <2>6, <2>8, CrewOther
<1>12. CASE ~landed(o)
  <2>1. RowKept(j) /\ threw(o)
    BY <1>0, <1>2, <1>12, CommitRow DEF landed, threw
  <2>2. t.aborted => t.leaseLost \/ isTerminal(jobs[j].status)
    BY <1>4, CrewFits, Zenon DEF Fits, TaskInv
  <2>3. ASSUME jobs[j].status = "running"
        PROVE  WorkerInv(s, j, t)
    <3>1. CASE t.pc = "fail" /\ t.broken = old.broken
      BY <1>3, <1>4, <2>3, <3>1, FailingWorker DEF Working
    <3>2. CASE t.pc = "batch" /\ old.pc = "batch" /\ t.broken = TRUE /\ old.write.row.mode = "gateway"
      <4>1. WorkerInv(s, j, old)
        BY <1>3, <2>3, WorkerKnows DEF Working
      <4>2. jobs[j].mode = "gateway"
        <5>1. jobs[j] \in Row /\ old.write.row \in Row
          BY <1>0 DEF TypeOK, Task, Write
        <5> QED
          BY <1>0, <3>2, <4>1, <5>1, LeaseFields DEF WorkerInv, WriteCurrent
      <4> QED
        BY <1>4, <3>2, <4>1, <4>2 DEF WorkerInv, WriteCurrent, NothingLost
    <3> QED
      BY <1>7, <2>1, <3>1, <3>2
  <2> QED
    BY <1>3, <1>8, <1>9, <1>10, <2>1, <2>2, <2>3, CrewMoved DEF Working
<1> QED
  BY <1>11, <1>12

\* The claim gives the job its worker.
LEMMA CrewClaimed ==
  ASSUME WorkInv, NEW s \in Servers, NEW j \in Jobs, Claim(s, j)
  PROVE  \A k \in Jobs : Crew(k)'
<1> DEFINE old == task[s][j]
           pc(o) == IF threw(o) THEN "unclaimed" ELSE IF j \in authorized THEN "prepare" ELSE "refuse"
<1>0. TypeOK /\ jobs[j] \in Row
  BY DEF WorkInv, IInv, TypeOK
<1>1. PICK o \in CommitOutcomes(TRUE) :
        /\ Commit(o, j, claimed(jobs[j], WorkerId[s], Lease + Skew[s]), startedEvent(j))
        /\ moveTask(s, j, pc(o))
  BY DEF Claim
<1>2. old.pc = "claim" /\ jobs[j].status = "queued"
  BY DEF Claim, claimable
<1>3. PICK t : /\ task' = [task EXCEPT ![s][j] = t]
               /\ t.pc = pc(o) /\ t.got = old.got /\ t.write = old.write
               /\ t.broken = old.broken /\ t.aborted = old.aborted
               /\ t.leaseLost = old.leaseLost
  <2>1. pc(o) # "done"
    OBVIOUS
  <2> HIDE DEF pc
  <2> QED
    BY <1>0, <1>1, <2>1, MovedFields
<1>4. /\ t.got = {} /\ ~t.broken /\ ~t.write.active
      /\ t.aborted => t.leaseLost
  <2>1. Fits(s, j) /\ ~isTerminal(jobs[j].status)
    BY <1>2, OpenStatuses, CrewFits
  <2>2. ~old.write.active
    BY <1>2 DEF WorkInv, IInv, Prepared, WritePrepared
  <2>3. old.got = {} /\ ~old.broken /\ (old.aborted => old.leaseLost)
    BY <1>2, <2>1 DEF Fits, TaskInv
  <2> QED
    BY <1>3, <2>2, <2>3, Zenon
<1>5. \A k \in Jobs : k # j => RowKept(k)
  BY <1>0, <1>1, CommitRow
<1>6. \A r \in Servers : task[r][j].pc \notin Working
  BY <1>2 DEF WorkInv, IInv, Prepared, WorkerClaimed, Working
<1>7. /\ \A r \in Servers, k \in Jobs : r # s \/ k # j => task'[r][k] = task[r][k]
      /\ task'[s][j] = t
  BY <1>0, <1>3 DEF TypeOK
<1>8. CASE ~landed(o)
  <2>1. RowKept(j) /\ t.pc = "unclaimed"
    BY <1>0, <1>1, <1>3, <1>8, CommitRow DEF landed, threw
  <2> QED
    BY <1>3, <1>4, <1>5, <2>1, CrewMoved DEF Working
<1>9. CASE landed(o)
  <2>1. /\ jobs'[j] = claimed(jobs[j], WorkerId[s], Lease + Skew[s])
        /\ timeline'[j] = startedEvent(j)
    BY <1>0, <1>1, <1>9, CommitRow
  <2>2. /\ jobs'[j].lanes = jobs[j].lanes /\ jobs'[j].cancelRequested = jobs[j].cancelRequested
        /\ jobs'[j].status = "running" /\ jobs'[j].worker = WorkerId[s]
    BY <1>0, <2>1, ClaimedFields
  <2>3. Waiting(j)
    BY <1>2 DEF WorkInv, JobInv
  <2>4. ~jobs'[j].cancelRequested /\ \A l \in Lanes : ~Settled(j, l)'
    <3>1. ~jobs[j].cancelRequested
      BY <2>3 DEF Waiting
    <3>2. \A l \in Lanes : jobs'[j].lanes[l] = "queued"
      BY <2>2, <2>3 DEF Waiting, Untouched
    <3> QED
      BY <2>2, <3>1, <3>2, LaneOpen DEF Settled
  <2>5. t.pc = "refuse" => Untouched(j)'
    <3> SUFFICES ASSUME t.pc = "refuse" PROVE Untouched(j)'
      OBVIOUS
    <3>1. timeline'[j] = timeline[j]
      BY <1>3, <2>1 DEF startedEvent
    <3> QED
      BY <2>2, <2>3, <3>1 DEF Waiting, Untouched
  <2>6. t.pc \in {"unclaimed", "prepare", "refuse"}
    BY <1>3
  <2>7. Fits(s, j)'
    <3>1. TaskInv(j, task[s][j])'
      BY <1>4, <1>7 DEF TaskInv
    <3>2. t.pc \in Working => WorkerInv(s, j, task[s][j])'
      BY <1>4, <1>7, <2>2, <2>4, <2>5, <2>6 DEF WorkerInv, WriteCurrent, NothingLost, Working
    <3> QED
      BY <1>7, <3>1, <3>2 DEF Fits
  <2>8. ASSUME NEW r \in Servers, r # s
        PROVE  Fits(r, j)' /\ task'[r][j].pc \notin Working
    <3>1. task'[r][j] = task[r][j] /\ task[r][j].pc \notin Working
      BY <1>6, <1>7, <2>8
    <3>2. ~isTerminal(jobs[j].status) /\ TaskInv(j, task[r][j])
      BY <1>2, OpenStatuses, CrewFits DEF Fits
    <3> QED
      BY <3>1, <3>2 DEF Fits, TaskInv
  <2>9. Crew(j)'
    BY <2>7, <2>8 DEF Crew, Fits, TasksInv, WorkersInv
  <2> QED
    BY <1>5, <1>7, <2>9, CrewOther
<1> QED
  BY <1>8, <1>9

\* Nobody works on a job before its insert, nor right after it.
LEMMA CrewInserted ==
  ASSUME WorkInv, NEW j \in Jobs, CreateInsert(j)
  PROVE  \A k \in Jobs : Crew(k)'
<1> DEFINE s == launches[j].server
<1>0. TypeOK /\ s \in Servers /\ task \in [Servers -> [Jobs -> Task]]
  BY DEF WorkInv, IInv, TypeOK, Launch
<1>1. PICK o \in CommitOutcomes(TRUE) :
        Commit(o, j, queuedJob(launches[j].attempt, launches[j].mode),
               [timeline[j] EXCEPT !.created = @ + 1])
  BY DEF CreateInsert
<1>2. task' = task \/ task' = [task EXCEPT ![s][j] = newTask("claim")]
  BY DEF CreateInsert
<1>3. jobs[j].status = "absent"
  BY DEF WorkInv, IInv, Prepared, LaunchFresh, CreateInsert
<1>4. \A k \in Jobs : k # j => RowKept(k)
  BY <1>0, <1>1, CommitRow
<1> HIDE DEF s
<1>5. \A r \in Servers, k \in Jobs :
        \/ task'[r][k] = task[r][k]
        \/ k = j /\ task'[r][k] = newTask("claim")
  BY <1>0, <1>2
<1>6. jobs'[j].status \in {"absent", "queued"}
  BY <1>0, <1>1, <1>3, CommitRow DEF RowKept, queuedJob
<1>7. ASSUME NEW r \in Servers
      PROVE  Fits(r, j)' /\ task'[r][j].pc \notin Working
  <2>1. /\ task[r][j].pc \notin Working /\ TaskInv(j, task[r][j])
        /\ ~isTerminal(jobs[j].status)
    BY <1>3, CrewFits, OpenStatuses DEF Fits, WorkInv, IInv, Prepared, WorkerClaimed, Working
  <2>2. CASE task'[r][j] = task[r][j]
    BY <1>6, <2>1, <2>2 DEF Fits, TaskInv
  <2>3. CASE task'[r][j] = newTask("claim")
    <3>1. /\ task'[r][j].pc = "claim" /\ task'[r][j].got = {}
          /\ task'[r][j].broken = FALSE /\ task'[r][j].aborted = FALSE
      BY <2>3 DEF newTask
    <3>2. jobs'[j].status # "running" /\ "claim" \notin Working
      BY <1>6 DEF Working
    <3> QED
      BY <3>1, <3>2 DEF Fits, TaskInv
  <2> QED
    BY <1>5, <2>2, <2>3
<1>8. Crew(j)'
  BY <1>7, CrewStays
<1> QED
  BY <1>4, <1>5, <1>8, CrewOther

\* A cancel aborts the controller of a job it has closed.
LEMMA CrewCancelled ==
  ASSUME WorkInv, NEW c \in Cancels, CancelCommit(c)
  PROVE  \A k \in Jobs : Crew(k)'
<1> DEFINE s == cancels[c].server
           j == cancels[c].job
           row == cancels[c].row
           t == [task[s][j] EXCEPT !.aborted = TRUE]
<1>0. TypeOK /\ s \in Servers /\ j \in Jobs
  BY DEF WorkInv, IInv, TypeOK, Cancel
<1>1. PICK o \in CommitOutcomes(updatable(jobs[j], row)) :
        /\ Commit(o, j, updated(jobs[j], row), [timeline[j] EXCEPT !.cancelRequested = @ + 1])
        /\ task' = IF ~threw(o) /\ hasController(task[s][j])
                     THEN [task EXCEPT ![s][j].aborted = TRUE] ELSE task
  BY DEF CancelCommit
<1>2. Closing(row)
  BY DEF WorkInv, IInv, Prepared, CancelPrepared, CancelCommit
<1>3. /\ \A k \in Jobs : k # j => RowKept(k)
      /\ RowKept(j) \/ isTerminal(jobs'[j].status)
  BY <1>0, <1>1, <1>2, ClosesOrKeeps
<1>4. CASE task' = task
  BY <1>0, <1>3, <1>4, CrewUntouched
<1>5. CASE task' = [task EXCEPT ![s][j] = t] /\ ~threw(o)
  <2>1. isTerminal(jobs'[j].status)
    <3>1. landed(o)
      BY <1>5 DEF landed, threw
    <3>2. jobs'[j] = row
      BY <1>0, <1>1, <1>2, <3>1, CommitRow, ClosingUpdated
    <3> QED
      BY <1>2, <3>2 DEF Closing
  <2>2. t.pc = task[s][j].pc /\ t.got = task[s][j].got /\ t.broken = task[s][j].broken
    BY <1>0 DEF TypeOK, Task
  <2>3. Fits(s, j)
    BY <1>0, CrewFits
  <2>4. /\ t.pc \in Working => task[s][j].pc \in Working
        /\ t.pc \in {"resume", "claim", "prepare"} => t.got = {} /\ ~t.broken
    BY <2>2, <2>3 DEF Fits, TaskInv
  <2> HIDE DEF s, j, t
  <2> QED
    BY <1>0, <1>3, <1>5, <2>1, <2>4, CrewMoved
<1> QED
  BY <1>1, <1>4, <1>5

\* The heartbeat.
LEMMA CrewBeat ==
  ASSUME WorkInv, NEW s \in Servers, NEW j \in Jobs, Heartbeat(s, j)
  PROVE  \A k \in Jobs : Crew(k)'
<1> DEFINE old == task[s][j]
           t == [old EXCEPT !.leaseLost = TRUE, !.aborted = TRUE]
<1>0. TypeOK /\ old \in Task /\ task \in [Servers -> [Jobs -> Task]]
  BY DEF WorkInv, IInv, TypeOK
<1>1. PICK o \in CommitOutcomes(renewable(jobs[j], WorkerId[s])) :
        /\ Commit(o, j, [jobs[j] EXCEPT !.lease = Lease + Skew[s]], timeline[j])
        /\ task' = IF threw(o) THEN [task EXCEPT ![s][j] = t] ELSE task
  BY DEF Heartbeat
<1>2. \A k \in Jobs : k # j => RowKept(k)
  BY <1>0, <1>1, CommitRow
<1>3. /\ \A r \in Servers, k \in Jobs : r # s \/ k # j => task'[r][k] = task[r][k]
      /\ task'[s][j] \in {old, t}
  BY <1>0, <1>1
<1>4. /\ t.pc = old.pc /\ t.got = old.got /\ t.broken = old.broken /\ t.write = old.write
      /\ t.leaseLost = TRUE
  BY <1>0 DEF Task
<1>5. CASE landed(o)
  <2>1. Live(j)
    <3>1. renewable(jobs[j], WorkerId[s])
      BY <1>5, LandsIfAllowed
    <3> QED
      BY <1>0, <3>1, LiveByStore DEF renewable
  <2>2. Lease + Skew[s] \in Nat
    BY ConstantsAssumption
  <2>3. RowRenewed(j)
    BY <1>0, <1>1, <1>5, <2>1, <2>2, CommitRow DEF RowRenewed
  <2>4. \A r \in Servers : Fits(r, j)' /\ task'[r][j].pc = task[r][j].pc
    BY <1>3, <1>4, <2>3, FitsBeat
  <2>5. Crew(j)'
    BY <2>4, CrewStays
  <2> QED
    BY <1>2, <1>3, <2>5, CrewOther
<1>6. CASE ~landed(o)
  <2>1. RowKept(j)
    BY <1>0, <1>1, <1>6, CommitRow
  <2>2. Fits(s, j)
    BY CrewFits
  <2>3. task' = [task EXCEPT ![s][j] = t]
    BY <1>1, <1>6 DEF landed, threw
  <2>4. /\ t.pc \in Working => old.pc \in Working
        /\ t.pc \in {"resume", "claim", "prepare"} => t.got = {} /\ ~t.broken
        /\ t.aborted => t.leaseLost \/ isTerminal(jobs[j].status)
    BY <1>4, <2>2 DEF Fits, TaskInv
  <2>5. jobs[j].status = "running" /\ t.pc \in Working => WorkerInv(s, j, t)
    <3> SUFFICES ASSUME jobs[j].status = "running", t.pc \in Working
                 PROVE  WorkerInv(s, j, t)
      OBVIOUS
    <3>1. WorkerInv(s, j, old)
      BY <1>4, WorkerKnows
    <3> HIDE DEF t
    <3> QED
      BY <1>4, <3>1 DEF WorkerInv, WriteCurrent, NothingLost
  <2> HIDE DEF t
  <2> QED
    BY <1>2, <2>1, <2>3, <2>4, <2>5, CrewMoved
<1> QED
  BY <1>5, <1>6

\* The tasks of a process end with it.
LEMMA CrewCrashed ==
  ASSUME WorkInv, NEW s \in Servers, Crash(s), NEW k \in Jobs
  PROVE  Crew(k)'
<1>1. task \in [Servers -> [Jobs -> Task]] /\ RowKept(k)
  BY DEF WorkInv, IInv, TypeOK, Crash, RowKept
<1>2. \A r \in Servers : task'[r][k] = task[r][k] \/ task'[r][k] = newTask("none")
  BY <1>1 DEF Crash
<1>3. ASSUME NEW r \in Servers
      PROVE  Fits(r, k)' /\ (task'[r][k].pc \in Working => task[r][k].pc \in Working)
  <2>1. CASE task'[r][k] = task[r][k]
    BY <1>1, <2>1, FitsKept
  <2>2. CASE task'[r][k] = newTask("none")
    <3>1. task'[r][k].pc = "none" /\ task'[r][k].aborted = FALSE
      BY <2>2 DEF newTask
    <3> QED
      BY <3>1 DEF Fits, TaskInv, Working
  <2> QED
    BY <1>2, <2>1, <2>2
<1> QED
  BY <1>3, CrewStays

\* The moves of a worker through execute() that change no row.
LEMMA CrewMoves ==
  ASSUME WorkInv, NEW s \in Servers, NEW j \in Jobs, UNCHANGED <<jobs, timeline>>,
         \/ Prepare(s, j) \/ PrepareFails(s, j) \/ BatchReturns(s, j) \/ SweepDone(s, j)
         \/ MockDone(s, j) \/ Resume(s, j)
  PROVE  \A k \in Jobs : Crew(k)'
<1> DEFINE old == task[s][j]
<1>0. TypeOK /\ \A k \in Jobs : RowKept(k)
  BY DEF WorkInv, IInv, RowKept
<1>f. /\ Fits(s, j)
      /\ old.pc \notin {"batch", "sweep"} => ~old.write.active
  BY CrewFits DEF WorkInv, IInv, Prepared, WritePrepared
<1>m. ASSUME NEW pc, pc # "done", moveTask(s, j, pc),
             pc \in Working => old.pc \in Working,
             pc \in {"resume", "claim", "prepare"} => old.got = {} /\ ~old.broken,
             ASSUME NEW t, t.pc = pc, t.got = old.got, t.write = old.write,
                    t.broken = old.broken, t.leaseLost = old.leaseLost,
                    jobs[j].status = "running", pc \in Working
             PROVE  WorkerInv(s, j, t)
      PROVE  \A k \in Jobs : Crew(k)'
  <2>1. PICK t : /\ task' = [task EXCEPT ![s][j] = t]
                 /\ t.pc = pc /\ t.got = old.got /\ t.write = old.write
                 /\ t.broken = old.broken /\ t.aborted = old.aborted
                 /\ t.leaseLost = old.leaseLost
    BY <1>0, <1>m, MovedFields
  <2>2. jobs[j].status = "running" /\ t.pc \in Working => WorkerInv(s, j, t)
    BY <1>m, <2>1
  <2>3. t.aborted => t.leaseLost \/ isTerminal(jobs[j].status)
    BY <1>f, <2>1, Zenon DEF Fits, TaskInv
  <2>4. t.pc \in {"resume", "claim", "prepare"} => t.got = {} /\ ~t.broken
    BY <1>m, <2>1
  <2> QED
    BY <1>0, <1>m, <2>1, <2>2, <2>3, <2>4, CrewMoved
<1>1. CASE Prepare(s, j)
  <2>1. old.pc = "prepare" /\ moveTask(s, j, "batch") /\ ~old.write.active
    BY <1>f, <1>1 DEF Prepare
  <2>2. ASSUME NEW t, t.pc = "batch", t.got = old.got, t.write = old.write,
               t.broken = old.broken, t.leaseLost = old.leaseLost,
               jobs[j].status = "running", "batch" \in Working
        PROVE  WorkerInv(s, j, t)
    <3>1. WorkerInv(s, j, old) /\ t.got = {}
      BY <1>f, <2>1, <2>2 DEF Fits, TaskInv, Working
    <3> QED
      BY <2>1, <2>2, <3>1 DEF WorkerInv, WriteCurrent, NothingLost, GotSettled
  <2> QED
    BY <1>m, <2>1, <2>2 DEF Working
<1>2. CASE PrepareFails(s, j)
  <2>1. old.pc = "prepare" /\ moveTask(s, j, "fail") /\ ~old.write.active
    BY <1>f, <1>2 DEF PrepareFails
  <2>2. ASSUME NEW t, t.pc = "fail", t.got = old.got, t.write = old.write,
               t.broken = old.broken, t.leaseLost = old.leaseLost,
               jobs[j].status = "running", "fail" \in Working
        PROVE  WorkerInv(s, j, t)
    BY <2>1, <2>2, FailingWorker DEF Working
  <2> QED
    BY <1>m, <2>1, <2>2 DEF Working
<1>3. CASE BatchReturns(s, j) \/ SweepDone(s, j) \/ MockDone(s, j)
  <2>1. /\ old.pc \in {"batch", "sweep"} /\ moveTask(s, j, "final") /\ ~old.write.active
    BY <1>3 DEF BatchReturns, SweepDone, MockDone, idle
  <2>2. ASSUME jobs[j].status = "running"
        PROVE  /\ old.pc = "batch" => ~old.broken
               /\ ~old.leaseLost => old.got = Lanes
    <3>1. WorkerInv(s, j, old) /\ ~isTerminal(jobs[j].status)
      BY <2>1, <2>2, WorkerKnows, OpenStatuses DEF Working
    <3>2. CASE BatchReturns(s, j) \/ SweepDone(s, j)
      BY <3>2 DEF BatchReturns, SweepDone
    <3>3. CASE MockDone(s, j)
      <4>1. jobs[j].mode = "mock" /\ (old.got = Lanes \/ old.aborted \/ jobs[j].cancelRequested)
        BY <3>3 DEF MockDone
      <4>2. ~old.broken
        BY <3>1, <4>1 DEF WorkerInv
      <4>3. old.aborted => old.leaseLost
        BY <1>f, <3>1 DEF Fits, TaskInv
      <4>4. jobs[j].cancelRequested => old.leaseLost
        BY <3>1 DEF WorkerInv
      <4> QED
        BY <4>1, <4>2, <4>3, <4>4, Zenon
    <3> QED
      BY <1>3, <3>2, <3>3
  <2>3. ASSUME NEW t, t.pc = "final", t.got = old.got, t.write = old.write,
               t.broken = old.broken, t.leaseLost = old.leaseLost,
               jobs[j].status = "running", "final" \in Working
        PROVE  WorkerInv(s, j, t)
    BY <2>1, <2>2, <2>3, FinalWorker
  <2> QED
    BY <1>m, <2>1, <2>3 DEF Working
<1>4. CASE Resume(s, j)
  <2>1. old.pc = "resume" /\ (moveTask(s, j, "claim") \/ moveTask(s, j, "done"))
    BY <1>4 DEF Resume
  <2>2. CASE moveTask(s, j, "done")
    <3>1. task' = [task EXCEPT ![s][j] = newTask("done")]
      BY <2>2 DEF moveTask
    <3> QED
      BY <1>0, <3>1, CrewFresh
  <2>3. CASE moveTask(s, j, "claim")
    <3>1. "claim" \notin Working /\ old.got = {} /\ ~old.broken
      BY <1>f, <2>1 DEF Working, Fits, TaskInv
    <3> QED
      BY <1>m, <2>3, <3>1
  <2> QED
    BY <2>1, <2>2, <2>3
<1> QED
  BY <1>1, <1>2, <1>3, <1>4

\* The callbacks of the executor, and the end of a batch that failed.
LEMMA CrewCallbacks ==
  ASSUME WorkInv, NEW s \in Servers, NEW j \in Jobs, UNCHANGED <<jobs, timeline>>,
         \/ BatchFails(s, j)
         \/ \E l \in Lanes : \/ CandidateStarted(s, j, l) \/ CandidateFinished(s, j, l)
                             \/ MockStart(s, j, l)
  PROVE  \A k \in Jobs : Crew(k)'
<1> DEFINE old == task[s][j]
<1>0. TypeOK /\ old \in Task /\ \A k \in Jobs : RowKept(k)
  BY DEF WorkInv, IInv, TypeOK, RowKept
<1>f. Fits(s, j)
  BY CrewFits
<1>m. ASSUME NEW t, task' = [task EXCEPT ![s][j] = t],
             old.pc \in {"batch", "sweep"}, t.pc \in {"batch", "sweep"},
             t.aborted = old.aborted, t.leaseLost = old.leaseLost,
             jobs[j].status = "running" => WorkerInv(s, j, t)
      PROVE  \A k \in Jobs : Crew(k)'
  <2>1. t.aborted => t.leaseLost \/ isTerminal(jobs[j].status)
    BY <1>f, <1>m, Zenon DEF Fits, TaskInv
  <2> QED
    BY <1>0, <1>m, <2>1, CrewMoved DEF Working
<1>1. ASSUME NEW l \in Lanes, CandidateStarted(s, j, l) \/ MockStart(s, j, l)
      PROVE  \A k \in Jobs : Crew(k)'
  <2>1. PICK w : /\ task' = [task EXCEPT ![s][j] = [old EXCEPT !.begun = @ \union {l}, !.write = w]]
                 /\ \/ w = noWrite
                    \/ w = laneWrite(l, "running", jobs[j]) /\ (mayWriteLane(s, j, l, {"queued"}) \/ MockStart(s, j, l))
    BY <1>1 DEF CandidateStarted, MockStart, setTask
  <2> DEFINE t == [old EXCEPT !.begun = @ \union {l}, !.write = w]
  <2>2. old.pc = "batch" /\ ~old.write.active
    BY <1>1 DEF CandidateStarted, MockStart
  <2>3. /\ t.pc = old.pc /\ t.got = old.got /\ t.write = w /\ t.broken = old.broken
        /\ t.aborted = old.aborted /\ t.leaseLost = old.leaseLost
    BY <1>0 DEF Task
  <2>4. task' = [task EXCEPT ![s][j] = t]
    BY <2>1
  <2> HIDE DEF t
  <2>5. w.active => w.row = jobs[j] /\ w.lane = l /\ w.status = "running"
    BY <2>1 DEF noWrite, laneWrite
  <2>6. ASSUME jobs[j].status = "running", w.active
        PROVE  ~Settled(j, l)
    <3>1. CASE mayWriteLane(s, j, l, {"queued"})
      BY <3>1, LaneOpen DEF mayWriteLane, Settled
    <3>2. CASE MockStart(s, j, l)
      <4>1. old.got = old.begun /\ l \notin old.begun
        BY <3>2 DEF MockStart
      <4> QED
        BY <1>f, <2>2, <2>6, <4>1 DEF Fits, WorkerInv, Working
    <3>3. ~noWrite.active
      BY DEF noWrite
    <3> QED
      BY <2>1, <2>6, <3>1, <3>2, <3>3
  <2>7. ASSUME jobs[j].status = "running"
        PROVE  WorkerInv(s, j, t)
    <3>1. w.active => /\ w.row = jobs[j] /\ w.lane = l /\ ~Settled(j, l)
                      /\ isTriageSettledStatus(w.status) => l \in t.got
      BY <2>5, <2>6, <2>7, LaneOpen
    <3> QED
      BY <2>2, <2>3, <2>7, <3>1, WritingWorker
  <2> QED
    BY <1>m, <2>2, <2>3, <2>4, <2>7
<1>2. ASSUME NEW l \in Lanes, CandidateFinished(s, j, l)
      PROVE  \A k \in Jobs : Crew(k)'
  <2>1. PICK status \in IF old.pc = "sweep" THEN {old.verdict} ELSE Outcomes :
          task' = [task EXCEPT ![s][j] =
                     [old EXCEPT !.got = @ \union {l},
                                 !.write = IF mayWriteLane(s, j, l, {"queued", "running"})
                                             THEN laneWrite(l, status, jobs[j]) ELSE noWrite]]
    BY <1>2 DEF CandidateFinished, setTask
  <2> DEFINE w == IF mayWriteLane(s, j, l, {"queued", "running"})
                    THEN laneWrite(l, status, jobs[j]) ELSE noWrite
             t == [old EXCEPT !.got = @ \union {l}, !.write = w]
  <2>2. old.pc \in {"batch", "sweep"} /\ ~old.write.active
    BY <1>2 DEF CandidateFinished
  <2>3. isTriageSettledStatus(status)
    <3>1. old.verdict \in TRIAGE_SETTLED_CANDIDATE_STATUSES
      BY <1>0 DEF Task
    <3> QED
      BY <2>1, <3>1, ConstantsAssumption DEF isTriageSettledStatus
  <2>4. \/ /\ w.active /\ w.row = jobs[j] /\ w.lane = l /\ w.status = status
           /\ mayWriteLane(s, j, l, {"queued", "running"})
        \/ ~w.active /\ ~mayWriteLane(s, j, l, {"queued", "running"})
    BY DEF noWrite, laneWrite
  <2> HIDE DEF w
  <2>5. /\ t.pc = old.pc /\ t.got = old.got \union {l} /\ t.write = w /\ t.broken = old.broken
        /\ t.aborted = old.aborted /\ t.leaseLost = old.leaseLost
    BY <1>0 DEF Task
  <2>6. task' = [task EXCEPT ![s][j] = t]
    BY <2>1 DEF w
  <2> HIDE DEF t
  <2>7. ASSUME jobs[j].status = "running"
        PROVE  WorkerInv(s, j, t)
    <3>1. mayWriteLane(s, j, l, {"queued", "running"}) => ~Settled(j, l)
      BY LaneOpen DEF mayWriteLane, Settled
    <3>2. t.write.active => /\ t.write.row = jobs[j] /\ t.write.lane = l /\ ~Settled(j, l)
                            /\ isTriageSettledStatus(t.write.status) => l \in t.got
      BY <2>4, <2>5, <3>1
    <3>3. \/ Settling(t, l)
          \/ ~t.write.active /\ ~mayWriteLane(s, j, l, {"queued", "running"})
      BY <2>3, <2>4, <2>5 DEF Settling
    <3> QED
      BY <2>2, <2>5, <2>7, <3>2, <3>3, WritingWorker
  <2> QED
    BY <1>m, <2>2, <2>5, <2>6, <2>7
<1>3. CASE BatchFails(s, j)
  <2>1. PICK v : task' = [task EXCEPT ![s][j] = [old EXCEPT !.pc = "sweep", !.got = {}, !.verdict = v]]
    BY <1>3 DEF BatchFails, setTask
  <2> DEFINE t == [old EXCEPT !.pc = "sweep", !.got = {}, !.verdict = v]
  <2>2. old.pc = "batch" /\ ~old.write.active
    BY <1>3 DEF BatchFails, idle
  <2>3. /\ t.pc = "sweep" /\ t.got = {} /\ t.write = old.write /\ t.broken = old.broken
        /\ t.aborted = old.aborted /\ t.leaseLost = old.leaseLost
    BY <1>0 DEF Task
  <2>4. task' = [task EXCEPT ![s][j] = t]
    BY <2>1
  <2> HIDE DEF t
  <2>5. ASSUME jobs[j].status = "running"
        PROVE  WorkerInv(s, j, t)
    <3>1. WorkerInv(s, j, old)
      BY <2>2, <2>5, WorkerKnows DEF Working
    <3> QED
      BY <2>2, <2>3, <3>1 DEF WorkerInv, WriteCurrent, NothingLost, GotSettled
  <2> QED
    BY <1>m, <2>2, <2>3, <2>4, <2>5
<1> QED
  BY <1>1, <1>2, <1>3

\* Every step leaves every job with the tasks it should have.
LEMMA StepCrew ==
  ASSUME WorkInv, Next
  PROVE  \A k \in Jobs : Crew(k)'
<1>0. TypeOK /\ \A j \in Jobs : jobs[j] \in Row
  BY DEF WorkInv, IInv, TypeOK
<1>u. ASSUME UNCHANGED <<jobs, timeline, task>>
      PROVE  \A k \in Jobs : Crew(k)'
  BY <1>u, CrewOther DEF RowKept
<1>k. ASSUME UNCHANGED <<jobs, timeline>>
      PROVE  \A k \in Jobs : RowKept(k)
  BY <1>k DEF RowKept
<1>d. ASSUME NEW s \in Servers, NEW j \in Jobs, moveTask(s, j, "done"),
             \A k \in Jobs : k # j => RowKept(k), RowKept(j) \/ isTerminal(jobs'[j].status)
      PROVE  \A k \in Jobs : Crew(k)'
  <2>1. task' = [task EXCEPT ![s][j] = newTask("done")]
    BY <1>d DEF moveTask
  <2> QED
    BY <1>d, <2>1, CrewFresh
<1>1. ASSUME NEW s \in Servers, ListQueued(s) \/ ListStaleRunning(s) \/ Listen(s)
      PROVE  UNCHANGED <<jobs, timeline, task>>
  BY <1>1 DEF ListQueued, ListStaleRunning, Listen
<1>2. ASSUME \/ \E j \in Jobs : Revoke(j)
             \/ \E s \in Servers, j \in Jobs, a \in Attempts, m \in Modes : CreateCheck(s, j, a, m)
             \/ \E c \in Cancels, s \in Servers, j \in Jobs : CancelRead(c, s, j)
      PROVE  UNCHANGED <<jobs, timeline, task>>
  BY <1>2 DEF Revoke, CreateCheck, CancelRead
<1>3. ASSUME NEW s \in Servers, NEW j \in Jobs,
             \/ ClaimMissed(s, j) \/ FinishNotOwned(s, j) \/ FailNotOwned(s, j)
             \/ LeaseLostReturn(s, j)
      PROVE  \A k \in Jobs : Crew(k)'
  <2>1. UNCHANGED <<jobs, timeline>> /\ moveTask(s, j, "done")
    BY <1>3 DEF ClaimMissed, FinishNotOwned, FailNotOwned, LeaseLostReturn, storeUnchanged
  <2> QED
    BY <1>d, <1>k, <2>1
<1>4. ASSUME NEW s \in Servers, NEW j \in Jobs, RecoverResume(s, j)
      PROVE  \A k \in Jobs : Crew(k)'
  <2>1. UNCHANGED <<jobs, timeline>> /\ task' = [task EXCEPT ![s][j] = newTask("resume")]
    BY <1>4 DEF RecoverResume, setTask
  <2> QED
    BY <1>k, <2>1, CrewFresh
<1>5. ASSUME NEW s \in Servers, NEW j \in Jobs,
             \/ Prepare(s, j) \/ PrepareFails(s, j) \/ BatchReturns(s, j) \/ SweepDone(s, j)
             \/ MockDone(s, j) \/ Resume(s, j)
      PROVE  \A k \in Jobs : Crew(k)'
  <2>1. UNCHANGED <<jobs, timeline>>
    BY <1>5 DEF Prepare, PrepareFails, BatchReturns, SweepDone, MockDone, Resume, storeUnchanged
  <2> QED
    BY <1>5, <2>1, CrewMoves
<1>6. ASSUME NEW s \in Servers, NEW j \in Jobs,
             \/ BatchFails(s, j)
             \/ \E l \in Lanes : \/ CandidateStarted(s, j, l) \/ CandidateFinished(s, j, l)
                                 \/ MockStart(s, j, l)
      PROVE  \A k \in Jobs : Crew(k)'
  <2>1. UNCHANGED <<jobs, timeline>>
    BY <1>6 DEF BatchFails, CandidateStarted, CandidateFinished, MockStart, storeUnchanged
  <2> QED
    BY <1>6, <2>1, CrewCallbacks
<1>7. ASSUME NEW s \in Servers, NEW j \in Jobs, RefuseClaimed(s, j) \/ ResumeRefuse(s, j)
      PROVE  \A k \in Jobs : Crew(k)'
  <2>1. PICK w \in Workers \union {NoWorker} :
          \E o : Commit(o, j, updated(jobs[j], refusedRow([jobs[j] EXCEPT !.worker = w])),
                        finishedEvent(j, "failed"))
    <3>1. WorkerId[s] \in Workers
      BY ConstantsAssumption
    <3> QED
      BY <1>7, <3>1 DEF RefuseClaimed, ResumeRefuse
  <2>2. Closing(refusedRow([jobs[j] EXCEPT !.worker = w]))
    BY <1>0, OpenRows, ClosingRows
  <2>3. moveTask(s, j, "done")
    BY <1>7 DEF RefuseClaimed, ResumeRefuse
  <2> QED
    BY <1>d, <2>1, <2>2, <2>3, ClosesOrKeeps
<1>8. ASSUME NEW s \in Servers, NEW j \in Jobs, RecoverRefuse(s, j)
      PROVE  \A k \in Jobs : Crew(k)'
  <2>1. PICK o : Commit(o, j, updated(jobs[j], refusedRow([jobs[j] EXCEPT !.worker = NoWorker])),
                        finishedEvent(j, "failed"))
    BY <1>8 DEF RecoverRefuse
  <2>2. Closing(refusedRow([jobs[j] EXCEPT !.worker = NoWorker]))
    BY <1>0, OpenRows, ClosingRows
  <2>3. UNCHANGED task
    BY <1>8 DEF RecoverRefuse
  <2> QED
    BY <2>1, <2>2, <2>3, ClosesOrKeeps, CrewUntouched
<1>9. ASSUME NEW s \in Servers, NEW j \in Jobs, FailOwned(s, j)
      PROVE  \A k \in Jobs : Crew(k)'
  <2>1. PICK o : Commit(o, j, updated(jobs[j], failedRow(jobs[j])), finishedEvent(j, "failed"))
    BY <1>9 DEF FailOwned
  <2>2. Closing(failedRow(jobs[j])) /\ moveTask(s, j, "done")
    BY <1>0, <1>9, ClosingRows DEF FailOwned
  <2> QED
    BY <1>d, <2>1, <2>2, ClosesOrKeeps
<1>10. ASSUME NEW s \in Servers, NEW j \in Jobs, Finish(s, j)
       PROVE  \A k \in Jobs : Crew(k)'
  <2>1. PICK o : /\ Commit(o, j, updated(jobs[j], finishedRow(jobs[j])),
                           finishedEvent(j, finishedRow(jobs[j]).status))
                 /\ moveTask(s, j, "fail") \/ moveTask(s, j, "done")
    BY <1>10 DEF Finish
  <2>2. Closing(finishedRow(jobs[j])) /\ task[s][j].pc = "final"
    BY <1>0, <1>10, ClosingRows DEF Finish
  <2>3. /\ \A k \in Jobs : k # j => RowKept(k)
        /\ RowKept(j) \/ isTerminal(jobs'[j].status)
    BY <2>1, <2>2, ClosesOrKeeps
  <2>4. CASE moveTask(s, j, "done")
    BY <1>d, <2>3, <2>4
  <2>5. CASE moveTask(s, j, "fail")
    <3>1. PICK t : /\ task' = [task EXCEPT ![s][j] = t]
                   /\ t.pc = "fail" /\ t.got = task[s][j].got /\ t.write = task[s][j].write
                   /\ t.broken = task[s][j].broken /\ t.aborted = task[s][j].aborted
                   /\ t.leaseLost = task[s][j].leaseLost
      BY <1>0, <2>5, MovedFields
    <3>2. ~t.write.active
      BY <2>2, <3>1 DEF WorkInv, IInv, Prepared, WritePrepared
    <3>3. jobs[j].status = "running" => WorkerInv(s, j, t)
      BY <2>2, <3>1, <3>2, FailingWorker DEF Working
    <3>4. t.aborted => t.leaseLost \/ isTerminal(jobs[j].status)
      BY <3>1, CrewFits, Zenon DEF Fits, TaskInv
    <3> QED
      BY <2>2, <2>3, <3>1, <3>3, <3>4, CrewMoved DEF Working
  <2> QED
    BY <2>1, <2>4, <2>5
<1>11. ASSUME NEW s \in Servers, NEW j \in Jobs, RecoverStale(s, j)
       PROVE  \A k \in Jobs : Crew(k)'
  <2> DEFINE next == recoveredRow(pending[s].stale[j])
  <2>1. PICK o : Commit(o, j, next, finishedEvent(j, next.status))
    BY <1>11 DEF RecoverStale
  <2>2. Closing(next) /\ UNCHANGED task
    <3>1. pending[s].stale[j] \in Row
      BY <1>0 DEF TypeOK, Pending
    <3> QED
      BY <1>11, <3>1, ClosingRows DEF RecoverStale
  <2>3. /\ \A k \in Jobs : k # j => RowKept(k)
        /\ RowKept(j) \/ isTerminal(jobs'[j].status)
    BY <1>0, <2>1, <2>2, CommitRow DEF Closing
  <2> QED
    BY <2>2, <2>3, CrewUntouched
<1>12. ASSUME Tick
       PROVE  \A k \in Jobs : Crew(k)'
  BY <1>12, FitsTick, CrewStays
<1> QED
  BY <1>u, <1>1, <1>2, <1>3, <1>4, <1>5, <1>6, <1>7, <1>8, <1>9, <1>10, <1>11, <1>12,
     CrewClaimed, CrewInserted, CrewCancelled, CrewBeat, CrewReported, CrewCrashed
  DEF Next, Executing, Recovering

-----------------------------------------------------------------------------
(* What it makes of the requests in flight.                                *)

\* A job that stays open keeps its settled lanes.
LEMMA LanesKept ==
  ASSUME WorkInv, NEW j \in Jobs, RowStep(j), ~isTerminal(jobs'[j].status)
  PROVE  /\ ~isTerminal(jobs[j].status)
         /\ \A l \in Lanes : Settled(j, l) => jobs'[j].lanes[l] = jobs[j].lanes[l]
<1>1. jobs[j] \in Row /\ TypeOK /\ jobs[j].lanes \in [Lanes -> TRIAGE_JOB_STATUSES]
  BY DEF WorkInv, IInv, TypeOK, Row
<1>2. \/ RowKept(j) \/ RowAged(j) \/ RowAdmitted(j) \/ RowClaimed(j) \/ RowRenewed(j)
      \/ RowReported(j)
  BY StatusAfter DEF RowStep
<1>3. CASE RowKept(j)
  BY <1>3 DEF RowKept
<1>4. CASE RowAged(j)
  BY <1>1, <1>4, AgedFields DEF RowAged
<1>5. CASE RowAdmitted(j)
  BY <1>5, OpenStatuses, LaneOpen DEF RowAdmitted, WorkInv, JobInv, Waiting, Untouched, Settled
<1>6. CASE RowClaimed(j)
  <2>1. jobs'[j].lanes = jobs[j].lanes
    BY <1>1, <1>6, ClaimedFields DEF RowClaimed
  <2> QED
    BY <1>6, <2>1, OpenStatuses DEF RowClaimed
<1>7. CASE RowRenewed(j)
  <2>1. jobs'[j].lanes = jobs[j].lanes
    BY <1>1, <1>7, RenewedFields DEF RowRenewed
  <2> QED
    BY <1>7, <2>1, OpenStatuses DEF RowRenewed, Live
<1>8. CASE RowReported(j)
  BY <1>1, <1>8, OpenStatuses DEF RowReported, Live, Settled
<1> QED
  BY <1>2, <1>3, <1>4, <1>5, <1>6, <1>7, <1>8

\* What a step may do to a cancel and to a list of stale jobs.
LEMMA StepLists ==
  ASSUME WorkInv, Next
  PROVE  /\ \A c \in Cancels : \/ cancels'[c] = cancels[c]
                               \/ cancels'[c].pc = "done"
                               \/ \E s \in Servers, j \in Jobs : CancelRead(c, s, j)
         /\ \A s \in Servers, j \in Jobs : \/ pending'[s].stale[j] = pending[s].stale[j]
                                           \/ pending'[s].stale[j] = absentJob
                                           \/ ListStaleRunning(s)
<1> DEFINE Kept == UNCHANGED cancels
           ListsKept == \A s \in Servers : pending'[s].stale = pending[s].stale
<1>0. /\ cancels \in [Cancels -> Cancel] /\ pending \in [Servers -> Pending]
  BY DEF WorkInv, IInv, TypeOK
<1>a. \A c \in Cancels : answered(cancels[c]).pc = "done"
  BY <1>0 DEF answered, Cancel
<1>b. \A j \in Jobs : noPending.stale[j] = absentJob
  BY DEF noPending
<1>1. ASSUME NEW s \in Servers, NEW j \in Jobs, Executing(s, j) \/ Heartbeat(s, j)
      PROVE  UNCHANGED <<cancels, pending>>
  BY <1>1 DEF Executing, Heartbeat, Claim, ClaimMissed, RefuseClaimed, Prepare, PrepareFails,
              CandidateStarted, CandidateFinished, MockStart, CommitLane, BatchReturns, BatchFails,
              LeaseLostReturn, SweepDone, MockDone, Finish, FinishNotOwned, FailOwned,
              FailNotOwned, Resume, ResumeRefuse, storeUnchanged
<1>2. ASSUME \/ \E j \in Jobs : CreateInsert(j) \/ Revoke(j)
             \/ \E s \in Servers, j \in Jobs, a \in Attempts, m \in Modes : CreateCheck(s, j, a, m)
             \/ \E s \in Servers : Listen(s)
             \/ Tick
      PROVE  UNCHANGED <<cancels, pending>>
  BY <1>2 DEF CreateInsert, Revoke, CreateCheck, Listen, Tick
<1>3. ASSUME NEW c \in Cancels, CancelCommit(c)
      PROVE  /\ UNCHANGED pending
             /\ \A d \in Cancels : cancels'[d] = cancels[d] \/ cancels'[d].pc = "done"
  BY <1>0, <1>3, <1>a DEF CancelCommit
<1>4. ASSUME NEW c \in Cancels, NEW s \in Servers, NEW j \in Jobs, CancelRead(c, s, j)
      PROVE  /\ UNCHANGED pending
             /\ \A d \in Cancels : d # c => cancels'[d] = cancels[d]
  BY <1>0, <1>4 DEF CancelRead
<1>5. ASSUME NEW s \in Servers, ListQueued(s) \/ \E j \in Jobs : RecoverResume(s, j) \/ RecoverRefuse(s, j)
      PROVE  Kept /\ ListsKept
  <2>1. PICK queued : pending' = [pending EXCEPT ![s].queued = queued]
    BY <1>5 DEF ListQueued, RecoverResume, RecoverRefuse
  <2>2. ListsKept
    BY <1>0, <2>1 DEF Pending
  <2>3. Kept
    BY <1>5 DEF ListQueued, RecoverResume, RecoverRefuse
  <2> QED
    BY <2>2, <2>3
<1>6. ASSUME NEW s \in Servers, ListStaleRunning(s)
      PROVE  /\ Kept
             /\ \A r \in Servers : r # s => pending'[r] = pending[r]
  BY <1>0, <1>6 DEF ListStaleRunning
<1>7. ASSUME NEW s \in Servers, NEW j \in Jobs, RecoverStale(s, j)
      PROVE  /\ Kept
             /\ \A r \in Servers, k \in Jobs : \/ pending'[r].stale[k] = pending[r].stale[k]
                                               \/ pending'[r].stale[k] = absentJob
  <2>1. \/ pending' = [pending EXCEPT ![s] = noPending]
        \/ pending' = [pending EXCEPT ![s].stale[j] = absentJob]
    BY <1>7 DEF RecoverStale
  <2>2. CASE pending' = [pending EXCEPT ![s] = noPending]
    BY <1>0, <1>7, <1>b, <2>2 DEF RecoverStale
  <2>3. CASE pending' = [pending EXCEPT ![s].stale[j] = absentJob]
    <3> DEFINE stale == [pending[s].stale EXCEPT ![j] = absentJob]
    <3>1. \A k \in Jobs : stale[k] = pending[s].stale[k] \/ stale[k] = absentJob
      BY <1>0 DEF Pending
    <3>2. pending' = [pending EXCEPT ![s] = [pending[s] EXCEPT !.stale = stale]]
      BY <1>0, <2>3 DEF Pending
    <3> HIDE DEF stale
    <3>3. /\ \A r \in Servers : r # s => pending'[r] = pending[r]
          /\ pending'[s].stale = stale
      BY <1>0, <3>2 DEF Pending
    <3> QED
      BY <1>7, <3>1, <3>3 DEF RecoverStale
  <2> QED
    BY <2>1, <2>2, <2>3
<1>8. ASSUME NEW s \in Servers, Crash(s)
      PROVE  /\ \A d \in Cancels : cancels'[d] = cancels[d] \/ cancels'[d].pc = "done"
             /\ \A r \in Servers, k \in Jobs : \/ pending'[r].stale[k] = pending[r].stale[k]
                                               \/ pending'[r].stale[k] = absentJob
  <2>1. \A d \in Cancels : cancels'[d] = cancels[d] \/ cancels'[d].pc = "done"
    BY <1>0, <1>8, <1>a DEF Crash
  <2>2. pending' = [pending EXCEPT ![s] = noPending]
    BY <1>8 DEF Crash
  <2> QED
    BY <1>0, <1>b, <2>1, <2>2
<1>9. CASE \E c \in Cancels, s \in Servers, j \in Jobs : CancelRead(c, s, j)
  BY <1>4, <1>9
<1>10. CASE \E s \in Servers : ListStaleRunning(s)
  BY <1>6, <1>10
<1>11. CASE ~\E c \in Cancels, s \in Servers, j \in Jobs : CancelRead(c, s, j)
  BY <1>1, <1>2, <1>3, <1>5, <1>7, <1>8, <1>10, <1>11 DEF Next, Recovering
<1> QED
  BY <1>9, <1>11

\* A cancel in flight still carries what it read.
LEMMA StepCancel ==
  ASSUME WorkInv, Next, NEW c \in Cancels
  PROVE  CancelInv(c)'
<1>0. TypeOK
  BY DEF WorkInv, IInv
<1>1. CASE cancels'[c] = cancels[c]
  <2> DEFINE j == cancels[c].job
             row == cancels[c].row
  <2> SUFFICES ASSUME cancels[c].pc = "read"
               PROVE  /\ row.reason = "cancel_requested"
                      /\ row.status = resolveTriageJobStatus(row.lanes, TRUE)
                      /\ \A l \in Lanes : isTriageSettledStatus(row.lanes[l])
                      /\ ~isTerminal(jobs'[j].status) =>
                           \A l \in Lanes :
                             \/ row.lanes[l] = "cancelled"
                             \/ /\ isTriageSettledStatus(jobs'[j].lanes[l])
                                /\ row.lanes[l] = jobs'[j].lanes[l]
    BY <1>1 DEF CancelInv, Settled
  <2>1. CancelInv(c) /\ j \in Jobs
    BY <1>0 DEF WorkInv, TypeOK, Cancel
  <2>2. ~isTerminal(jobs'[j].status) =>
          /\ ~isTerminal(jobs[j].status)
          /\ \A l \in Lanes : Settled(j, l) => jobs'[j].lanes[l] = jobs[j].lanes[l]
    BY <2>1, StepRows, LanesKept
  <2> QED
    BY <2>1, <2>2 DEF CancelInv, Settled
<1>2. CASE cancels'[c].pc = "done"
  BY <1>2 DEF CancelInv
<1>3. ASSUME NEW s \in Servers, NEW j \in Jobs, CancelRead(c, s, j)
      PROVE  CancelInv(c)'
  <2>1. /\ cancels'[c].job = j /\ cancels'[c].row = cancelledRow(jobs[j])
        /\ jobs'[j] = jobs[j]
    BY <1>0, <1>3 DEF CancelRead, TypeOK
  <2>2. /\ jobs[j] \in Row /\ jobs[j].lanes \in [Lanes -> TRIAGE_JOB_STATUSES]
        /\ "cancelled" \in TRIAGE_SETTLED_CANDIDATE_STATUSES
    BY <1>0 DEF TypeOK, Row, TRIAGE_SETTLED_CANDIDATE_STATUSES
  <2> DEFINE row == cancelledRow(jobs[j])
  <2>3. /\ row.lanes = settleOpenLanes(jobs[j].lanes, "cancelled")
        /\ row.status = resolveTriageJobStatus(row.lanes, TRUE)
        /\ row.reason = "cancel_requested"
    BY <2>2, CancelledFields
  <2>4. \A l \in Lanes : /\ isTriageSettledStatus(row.lanes[l])
                         /\ \/ row.lanes[l] = "cancelled"
                            \/ Settled(j, l) /\ row.lanes[l] = jobs[j].lanes[l]
    BY <2>2, <2>3, SettledLanes DEF Settled, isTriageSettledStatus
  <2> HIDE DEF row
  <2> QED
    BY <2>1, <2>3, <2>4 DEF CancelInv, Settled, row
<1> QED
  BY <1>1, <1>2, <1>3, StepLists

\* A closed job stays closed.
LEMMA StaysClosed ==
  ASSUME WorkInv, NEW j \in Jobs, RowStep(j), isTerminal(jobs[j].status)
  PROVE  isTerminal(jobs'[j].status)
  BY StatusAfter, OpenStatuses DEF RowStep, RowAdmitted, RowClaimed, RowRenewed, RowReported, Live

\* Nothing but its end changes a job whose lease has expired.
LEMMA ExpiredStays ==
  ASSUME WorkInv, NEW j \in Jobs, RowStep(j), jobs[j].status = "running", jobs[j].lease <= 0
  PROVE  jobs'[j] = jobs[j] \/ (RowCloses(j) /\ isTerminal(jobs'[j].status))
<1>1. jobs[j] \in Row /\ jobs[j].lease \in Int
  BY DEF WorkInv, IInv, TypeOK, Row, Leases, NoLease
<1>2. RowKept(j) \/ RowAged(j) \/ RowCloses(j)
  BY <1>1 DEF RowStep, RowAdmitted, RowClaimed, RowRenewed, RowReported, Live
<1> QED
  BY <1>1, <1>2, AgedFields, ClosingIsTerminal DEF RowKept, RowAged

\* When the clocks agree a list of stale jobs stays true.
LEMMA StepStale ==
  ASSUME WorkInv, Next, ClocksAgree, NEW s \in Servers, NEW j \in Jobs
  PROVE  StaleInv(s, j)'
<1>0. TypeOK /\ RowStep(j) /\ StaleInv(s, j)
  BY StepRows DEF WorkInv, IInv
<1>1. CASE pending'[s].stale[j] = pending[s].stale[j]
  <2>1. isTerminal(jobs[j].status) => isTerminal(jobs'[j].status)
    BY <1>0, StaysClosed
  <2>2. jobs[j].status = "running" /\ jobs[j].lease <= 0
          => jobs'[j] = jobs[j] \/ isTerminal(jobs'[j].status)
    BY <1>0, ExpiredStays
  <2> QED
    BY <1>0, <1>1, <2>1, <2>2 DEF StaleInv
<1>2. CASE pending'[s].stale[j] = absentJob
  BY <1>2 DEF StaleInv, absentJob, queuedJob
<1>3. CASE ListStaleRunning(s)
  <2>1. jobs'[j] = jobs[j]
    BY <1>3 DEF ListStaleRunning
  <2>2. pending'[s].stale[j] = IF triageRunningLeaseExpired(jobs[j], Skew[s])
                                 THEN jobs[j] ELSE absentJob
    BY <1>0, <1>3 DEF ListStaleRunning, TypeOK, Pending
  <2>3. triageRunningLeaseExpired(jobs[j], Skew[s]) => jobs[j].lease <= 0
    BY DEF ClocksAgree, triageRunningLeaseExpired, NoLease
  <2>4. absentJob.status # "running"
    BY DEF absentJob, queuedJob
  <2> QED
    BY <2>1, <2>2, <2>3, <2>4 DEF StaleInv
<1> QED
  BY <1>1, <1>2, <1>3, StepLists

-----------------------------------------------------------------------------
(* The invariant.                                                          *)

\* Every step keeps it.
LEMMA StepWork ==
  ASSUME WorkInv, Next
  PROVE  WorkInv'
<1>1. IInv'
  BY StepInvariant DEF WorkInv
<1>2. ASSUME NEW j \in Jobs
      PROVE  JobInv(j)'
  <2>1. RowStep(j) /\ Crew(j)'
    BY StepRows, StepCrew
  <2>2. TasksInv(j)'
    BY <2>1 DEF Crew
  <2>3. jobs'[j].status \in {"absent", "queued"} => Waiting(j)'
    BY <2>1, WaitingStep
  <2>4. jobs'[j].status = "running" => RunningInv(j)'
    BY <2>1, RecordStep DEF Crew, RunningInv
  <2>5. isTerminal(jobs'[j].status) => ClosedInv(j)'
    BY <2>1, ClosedStep
  <2> QED
    BY <2>2, <2>3, <2>4, <2>5 DEF JobInv
<1>3. \A c \in Cancels : CancelInv(c)'
  BY StepCancel
<1>4. ClocksAgree => \A s \in Servers, j \in Jobs : StaleInv(s, j)'
  BY StepStale
<1> QED
  BY <1>1, <1>2, <1>3, <1>4 DEF WorkInv, ClocksAgree

\* It holds before any server has started.
LEMMA InitWork == Init => WorkInv
<1> SUFFICES ASSUME Init
             PROVE  WorkInv
  OBVIOUS
<1>1. ASSUME NEW j \in Jobs
      PROVE  JobInv(j)
  <2>1. /\ jobs[j].status = "absent" /\ jobs[j].worker = NoWorker /\ jobs[j].reason = "none"
        /\ jobs[j].cancelRequested = FALSE
        /\ \A l \in Lanes : jobs[j].lanes[l] = "queued"
    BY DEF Init, absentJob, queuedJob
  <2>2. timeline[j].started = 0 /\ \A l \in Lanes : timeline[j].reports[l] = 0
    BY DEF Init, emptyTimeline
  <2>3. Waiting(j)
    BY <2>1, <2>2 DEF Waiting, Untouched
  <2>4. \A s \in Servers : task[s][j].pc = "none" /\ task[s][j].aborted = FALSE
    BY DEF Init, newTask
  <2>5. TasksInv(j)
    BY <2>4 DEF TasksInv, TaskInv, Working
  <2> QED
    BY <2>1, <2>3, <2>5, OpenStatuses DEF JobInv
<1>2. \A c \in Cancels : CancelInv(c)
  BY DEF Init, CancelInv
<1>3. \A s \in Servers, j \in Jobs : StaleInv(s, j)
  BY DEF Init, StaleInv, noPending, absentJob, queuedJob
<1> QED
  BY <1>1, <1>2, <1>3, InitInvariant DEF WorkInv

\* A step that changes nothing changes nothing of it.
LEMMA StutterWork ==
  ASSUME WorkInv, UNCHANGED vars
  PROVE  WorkInv'
<1>1. IInv'
  BY DEF WorkInv, IInv, TypeOK, Prepared, ClosedOnce, OutcomePublished, LaunchFresh,
         LeaseReleased, WorkerClaimed, WritePrepared, CancelPrepared, vars
<1>2. ASSUME NEW j \in Jobs
      PROVE  JobInv(j)'
  <2>1. /\ jobs' = jobs /\ timeline' = timeline /\ task' = task
    BY DEF vars
  <2>2. JobInv(j)
    BY DEF WorkInv
  <2> QED
    BY <2>1, <2>2
       DEF JobInv, TasksInv, TaskInv, Waiting, RunningInv, RecordInv, ReportsExact, WorkersInv,
           ClosedInv, WorkerInv, Untouched, WriteCurrent, NothingLost, AllSettled, GotSettled,
           Settling, Settled, SameButLease, ClocksAgree
<1>3. \A c \in Cancels : CancelInv(c)'
  BY DEF WorkInv, CancelInv, Settled, vars
<1>4. ClocksAgree => \A s \in Servers, j \in Jobs : StaleInv(s, j)'
  BY DEF WorkInv, StaleInv, vars
<1> QED
  BY <1>1, <1>2, <1>3, <1>4 DEF WorkInv, ClocksAgree

\* The worker of a running job may rely on all this in every reachable state.
LEMMA WorkInvariant == Spec => []WorkInv
<1>1. WorkInv /\ [Next]_vars => WorkInv'
  BY StepWork, StutterWork
<1> QED
  BY <1>1, InitWork, PTL DEF Spec

\* The rows of a step, stuttering included.
LEMMA AnyRows ==
  ASSUME WorkInv, [Next]_vars, NEW j \in Jobs
  PROVE  RowStep(j)
<1>1. CASE Next
  BY <1>1, StepRows
<1>2. CASE UNCHANGED vars
  BY <1>2 DEF vars, RowStep, RowKept
<1> QED
  BY <1>1, <1>2

\* What holds of the record of a job, whatever its status.
LEMMA AnyRecord ==
  ASSUME WorkInv, NEW j \in Jobs
  PROVE  \/ jobs[j].status \in {"absent", "queued"} /\ Waiting(j)
         \/ jobs[j].status = "running" /\ RunningInv(j)
         \/ isTerminal(jobs[j].status) /\ ClosedInv(j)
<1>1. jobs[j] \in Row
  BY DEF WorkInv, IInv, TypeOK
<1> QED
  BY <1>1, RowStatus DEF WorkInv, JobInv

-----------------------------------------------------------------------------
(* For any clocks.                                                         *)

\* The claim is a fence: however many servers recover, resume or are handed a job, one
\* of them at most gets past claimQueued(), and triage_job_started is appended once.
THEOREM OneExecutor == Spec => []SingleExecutor
<1>1. WorkInv => SingleExecutor
  <2> SUFFICES ASSUME WorkInv, NEW j \in Jobs
               PROVE  /\ timeline[j].started <= 1
                      /\ \A r, s \in Servers :
                           hasHeartbeat(task[r][j]) /\ hasHeartbeat(task[s][j]) => r = s
    BY DEF SingleExecutor
  <2>1. timeline[j].started <= 1
    BY AnyRecord DEF Waiting, Untouched, RunningInv, RecordInv, ClosedInv
  <2>2. \A r, s \in Servers : task[r][j].pc \in Working /\ task[s][j].pc \in Working => r = s
    BY DEF WorkInv, JobInv, TasksInv
  <2>3. \A s \in Servers : hasHeartbeat(task[s][j]) => task[s][j].pc \in Working
    BY DEF hasHeartbeat, Working
  <2> QED
    BY <2>1, <2>2, <2>3
<1> QED
  BY <1>1, WorkInvariant, PTL

\* Worker, refusal, recovery and cancel all close a job with the status that the shared
\* rule of triage-lifecycle.ts gives for the lanes they leave; failOwnedRunningJob alone
\* does not.
THEOREM LifecycleFollowed == Spec => []LifecycleRule
<1>1. WorkInv => LifecycleRule
  <2> SUFFICES ASSUME WorkInv, NEW j \in Jobs, isTerminal(jobs[j].status),
                      jobs[j].reason # "runner_error"
               PROVE  jobs[j].status
                        = resolveTriageJobStatus(jobs[j].lanes, jobs[j].reason = "cancel_requested")
    BY DEF LifecycleRule
  <2>1. ClosedInv(j)
    BY DEF WorkInv, JobInv
  <2> QED
    BY <2>1 DEF ClosedInv
<1> QED
  BY <1>1, WorkInvariant, PTL

\* A job refused at the claim, on resume or on recovery was never started and no lane of
\* it ever reported.
THEOREM RefusedUntouched == Spec => []RefusedDidNoWork
<1>1. WorkInv => RefusedDidNoWork
  <2> SUFFICES ASSUME WorkInv, NEW j \in Jobs, jobs[j].reason = "refused"
               PROVE  timeline[j].started = 0 /\ \A l \in Lanes : timeline[j].reports[l] = 0
    BY DEF RefusedDidNoWork
  <2>1. ClosedInv(j)
    BY AnyRecord DEF Waiting, RunningInv, RecordInv
  <2> QED
    BY <2>1 DEF ClosedInv
<1> QED
  BY <1>1, WorkInvariant, PTL

\* The row a lane write carries is older than the heartbeats since; update() keeps the
\* later lease.
THEOREM LeaseKept == Spec => LeaseNotShortened
<1>1. WorkInv /\ [Next]_vars =>
        [\A j \in Jobs : /\ jobs[j].status = "running" /\ jobs'[j].status = "running"
                         /\ jobs'[j].lanes # jobs[j].lanes
           => jobs'[j].lease >= jobs[j].lease]_vars
  <2> SUFFICES ASSUME WorkInv, [Next]_vars, NEW j \in Jobs, jobs[j].status = "running",
                      jobs'[j].status = "running", jobs'[j].lanes # jobs[j].lanes
               PROVE  jobs'[j].lease >= jobs[j].lease
    OBVIOUS
  <2>1. RowStep(j) /\ jobs[j] \in Row
    BY AnyRows DEF WorkInv, IInv, TypeOK
  <2>2. ~RowKept(j) /\ ~RowAged(j)
    BY <2>1, AgedFields DEF RowKept, RowAged
  <2>3. ~RowRenewed(j)
    <3> SUFFICES ASSUME RowRenewed(j)
                 PROVE  FALSE
      OBVIOUS
    <3>1. PICK lease \in Nat : jobs'[j] = [jobs[j] EXCEPT !.lease = lease]
      BY DEF RowRenewed
    <3>2. jobs'[j].lanes = jobs[j].lanes
      BY <2>1, <3>1, RenewedFields
    <3> QED
      BY <3>2
  <2>4. ~RowAdmitted(j) /\ ~RowClaimed(j) /\ ~RowCloses(j)
    BY StatusAfter, OpenStatuses DEF RowAdmitted, RowClaimed
  <2> QED
    BY <2>1, <2>2, <2>3, <2>4 DEF RowStep, RowReported
<1> QED
  BY <1>1, WorkInvariant, PTL DEF Spec, LeaseNotShortened

-----------------------------------------------------------------------------
(* When the clocks agree.                                                  *)

\* Clocks that agree go on doing so: Skew is a constant.
LEMMA StillAgree == ClocksAgree => []ClocksAgree
<1>1. ClocksAgree => ClocksAgree'
  BY DEF ClocksAgree
<1> QED
  BY <1>1, PTL

\* A job is closed with every lane settled: what the executor delivered is recorded
\* before the job is finished, and every other end settles the lanes it finds open.
THEOREM LanesSettledAtTheEnd == Spec /\ ClocksAgree => []ClosedLanesSettled
<1>1. WorkInv /\ ClocksAgree => ClosedLanesSettled
  BY DEF WorkInv, JobInv, ClosedInv, AllSettled, Settled, ClosedLanesSettled
<1> QED
  BY <1>1, WorkInvariant, StillAgree, PTL

\* A lane reports once, and no later write, failure or recovery contradicts the report.
THEOREM ReportsKept == Spec /\ ClocksAgree => []ReportsHonoured
<1>1. WorkInv /\ ClocksAgree => ReportsHonoured
  <2> SUFFICES ASSUME WorkInv, ClocksAgree, NEW j \in Jobs, NEW l \in Lanes
               PROVE  /\ timeline[j].reports[l] <= 1
                      /\ timeline[j].reports[l] = 1 /\ timeline[j].cancelRequested = 0
                           => jobs[j].lanes[l] = timeline[j].reported[l]
    BY DEF ReportsHonoured
  <2>1. CASE Waiting(j)
    BY <2>1 DEF Waiting, Untouched
  <2>2. CASE RunningInv(j)
    BY <2>2 DEF RunningInv, RecordInv, ReportsExact
  <2>3. CASE ClosedInv(j)
    BY <2>3 DEF ClosedInv
  <2> QED
    BY <2>1, <2>2, <2>3, AnyRecord
<1> QED
  BY <1>1, WorkInvariant, StillAgree, PTL

\* A job that closes, other than by a cancel, keeps its settled lanes.
LEMMA CloseKeeps ==
  ASSUME WorkInv, ClocksAgree, NEW j \in Jobs, RowCloses(j),
         jobs'[j].reason # "cancel_requested" \/ ~RowCancelled(j)
  PROVE  \A l \in Lanes : Settled(j, l) => jobs'[j].lanes[l] = jobs[j].lanes[l]
<1>1. /\ jobs[j] \in Row /\ jobs[j].lanes \in [Lanes -> TRIAGE_JOB_STATUSES]
      /\ "failed" \in TRIAGE_SETTLED_CANDIDATE_STATUSES
  BY DEF WorkInv, IInv, TypeOK, Row, TRIAGE_SETTLED_CANDIDATE_STATUSES
<1>2. \A l \in Lanes : Settled(j, l)
        => settleOpenLanes(jobs[j].lanes, "failed")[l] = jobs[j].lanes[l]
  BY <1>1, SettledLanes DEF Settled
<1>3. CASE RowRefused(j)
  BY <1>1, <1>2, <1>3, RefusedFields DEF RowRefused
<1>4. CASE RowFailed(j)
  BY <1>1, <1>2, <1>4, FailedFields DEF RowFailed
<1>5. CASE RowFinished(j)
  BY <1>1, <1>5, FinishedFields DEF RowFinished
<1>6. CASE RowRecovered(j)
  <2>1. jobs'[j] = recoveredRow(jobs[j])
    BY <1>6 DEF RowRecovered
  <2> QED
    BY <1>1, <1>2, <2>1, RecoveredFields
<1>7. CASE RowCancelled(j)
  <2>1. jobs'[j].reason = "cancel_requested"
    BY <1>7 DEF RowCancelled, WorkInv, CancelInv
  <2> QED
    BY <1>7, <2>1
<1> QED
  BY <1>3, <1>4, <1>5, <1>6, <1>7 DEF RowCloses

\* No sweep, failure or recovery takes back the result of a lane.
THEOREM SettledKept == Spec /\ ClocksAgree => SettledLanesKept
<1>1. WorkInv /\ ClocksAgree /\ [Next]_vars =>
        [\A j \in Jobs, l \in Lanes :
           isTriageSettledStatus(jobs[j].lanes[l]) /\ jobs'[j].reason # "cancel_requested"
             => jobs'[j].lanes[l] = jobs[j].lanes[l]]_vars
  <2> SUFFICES ASSUME WorkInv, ClocksAgree, [Next]_vars, NEW j \in Jobs, NEW l \in Lanes,
                      Settled(j, l), jobs'[j].reason # "cancel_requested"
               PROVE  jobs'[j].lanes[l] = jobs[j].lanes[l]
    BY DEF Settled
  <2>1. RowStep(j) /\ jobs[j] \in Row
    BY AnyRows DEF WorkInv, IInv, TypeOK
  <2>2. CASE ~isTerminal(jobs'[j].status)
    BY <2>1, <2>2, LanesKept
  <2>3. CASE RowCloses(j)
    BY <2>3, CloseKeeps
  <2>4. CASE isTerminal(jobs'[j].status) /\ ~RowCloses(j)
    <3>1. RowKept(j) \/ RowAged(j)
      BY <2>1, <2>4, StatusAfter, OpenStatuses DEF RowStep
    <3> QED
      BY <2>1, <3>1, AgedFields DEF RowKept, RowAged
  <2> QED
    BY <2>2, <2>3, <2>4
<1> QED
  BY <1>1, WorkInvariant, StillAgree, PTL DEF Spec, SettledLanesKept

\* Once the lease has run out the worker, its heartbeat, its late callbacks and an
\* operator's cancel are all refused; only the recovery of that very row changes the job.
THEOREM LeaseFences == Spec /\ ClocksAgree => LeaseFence
<1>1. WorkInv /\ ClocksAgree /\ [Next]_vars =>
        [\A j \in Jobs : triageRunningLeaseExpired(jobs[j], StoreClock)
           => jobs'[j] \in {jobs[j], recoveredRow(jobs[j])}]_vars
  <2> SUFFICES ASSUME WorkInv, ClocksAgree, [Next]_vars, NEW j \in Jobs,
                      triageRunningLeaseExpired(jobs[j], StoreClock)
               PROVE  jobs'[j] = jobs[j] \/ jobs'[j] = recoveredRow(jobs[j])
    OBVIOUS
  <2>1. jobs[j].status = "running" /\ jobs[j].lease <= 0 /\ RowStep(j)
    BY AnyRows DEF triageRunningLeaseExpired, NoLease, ClocksAgree
  <2>2. jobs[j].lease \in Int
    BY DEF WorkInv, IInv, TypeOK, Row, Leases, NoLease
  <2>3. jobs'[j] = jobs[j] \/ RowCloses(j)
    BY <2>1, ExpiredStays
  <2>4. RowCloses(j) => RowRecovered(j)
    BY <2>1, <2>2 DEF RowCloses, RowRefused, RowFailed, RowFinished, RowCancelled, Live
  <2>5. RowRecovered(j) => jobs'[j] = recoveredRow(jobs[j])
    BY DEF RowRecovered
  <2> QED
    BY <2>3, <2>4, <2>5
<1> QED
  BY <1>1, WorkInvariant, StillAgree, PTL DEF Spec, LeaseFence

\* A worker whose lease is live is never recovered from under it.
THEOREM ActiveWorkersKept == Spec /\ ClocksAgree => ActiveWorkerNotAbandoned
<1>1. WorkInv /\ ClocksAgree /\ [Next]_vars =>
        [\A j \in Jobs : triageWorkerHoldsLiveLease(jobs[j], jobs[j].worker, StoreClock)
           => jobs'[j].reason # "worker_lease_expired"]_vars
  <2> SUFFICES ASSUME WorkInv, ClocksAgree, [Next]_vars, NEW j \in Jobs,
                      jobs[j].status = "running", jobs[j].lease > 0
               PROVE  jobs'[j].reason # "worker_lease_expired"
    BY DEF triageWorkerHoldsLiveLease, ClocksAgree
  <2>1. RowStep(j) /\ jobs[j] \in Row /\ jobs[j].lease \in Int
    BY AnyRows DEF WorkInv, IInv, TypeOK, Row, Leases, NoLease
  <2>2. RecordInv(j)
    BY DEF WorkInv, JobInv, RunningInv
  <2>3. CASE ~isTerminal(jobs'[j].status)
    <3>1. RowKept(j) \/ RowAged(j) \/ RowClaimed(j) \/ RowRenewed(j) \/ RowReported(j)
      BY <2>1, <2>3, StatusAfter DEF RowStep, RowAdmitted
    <3>2. jobs'[j].status = "running"
      BY <3>1, StatusAfter
    <3>3. RecordInv(j)'
      BY <2>1, <3>2, RecordStep
    <3> QED
      BY <3>3 DEF RecordInv
  <2>4. CASE RowRefused(j)
    BY <2>1, <2>4, RefusedFields DEF RowRefused
  <2>5. CASE RowFailed(j)
    BY <2>1, <2>5, FailedFields DEF RowFailed
  <2>6. CASE RowFinished(j)
    BY <2>1, <2>6, FinishedFields DEF RowFinished
  <2>7. ~RowRecovered(j)
    BY <2>1 DEF RowRecovered, triageRunningLeaseExpired, ClocksAgree, NoLease
  <2>8. CASE RowCancelled(j)
    BY <2>8 DEF RowCancelled, WorkInv, CancelInv
  <2>9. CASE isTerminal(jobs'[j].status) /\ ~RowCloses(j)
    BY <2>1, <2>9, StatusAfter, OpenStatuses DEF RowStep
  <2> QED
    BY <2>3, <2>4, <2>5, <2>6, <2>7, <2>8, <2>9 DEF RowCloses
<1> QED
  BY <1>1, WorkInvariant, StillAgree, PTL DEF Spec, ActiveWorkerNotAbandoned

-----------------------------------------------------------------------------
(* The refinement: every step of the service is a step of the contract.    *)

Phase == [j \in Jobs |-> jobs[j].status]
Results == [j \in Jobs |-> jobs[j].lanes]
Closings == [j \in Jobs |-> timeline[j].finished + timeline[j].cancelRequested]

\* The contract has the vocabulary of the service.
LEMMA SameWords ==
  /\ Contract!TRIAGE_JOB_STATUSES = TRIAGE_JOB_STATUSES
  /\ Contract!TRIAGE_SETTLED_CANDIDATE_STATUSES = TRIAGE_SETTLED_CANDIDATE_STATUSES
  /\ \A status : Contract!isTriageSettledStatus(status) <=> isTriageSettledStatus(status)
  /\ \A lanes : Contract!resolveTriageJobStatus(lanes, TRUE) = resolveTriageJobStatus(lanes, TRUE)
<1>1. /\ Contract!TRIAGE_PRODUCING_CANDIDATE_STATUSES = TRIAGE_PRODUCING_CANDIDATE_STATUSES
      /\ Contract!TRIAGE_SETTLED_CANDIDATE_STATUSES = TRIAGE_SETTLED_CANDIDATE_STATUSES
      /\ Contract!TRIAGE_JOB_STATUSES = TRIAGE_JOB_STATUSES
  BY DEF Contract!TRIAGE_PRODUCING_CANDIDATE_STATUSES, TRIAGE_PRODUCING_CANDIDATE_STATUSES,
         Contract!TRIAGE_SETTLED_CANDIDATE_STATUSES, TRIAGE_SETTLED_CANDIDATE_STATUSES,
         Contract!TRIAGE_JOB_STATUSES, TRIAGE_JOB_STATUSES
<1>2. \A status : Contract!isTriageSettledStatus(status) <=> isTriageSettledStatus(status)
  BY <1>1 DEF Contract!isTriageSettledStatus, isTriageSettledStatus
<1>3. ASSUME NEW lanes
      PROVE  Contract!resolveTriageJobStatus(lanes, TRUE) = resolveTriageJobStatus(lanes, TRUE)
  BY <1>1 DEF Contract!resolveTriageJobStatus, resolveTriageJobStatus, Contract!lanesIn, lanesIn
<1> QED
  BY <1>1, <1>2, <1>3

\* What a step that changes one job shows.
LEMMA ShownChange ==
  ASSUME WorkInv, NEW j \in Jobs, \A k \in Jobs : k # j => RowKept(k)
  PROVE  /\ Phase' = [Phase EXCEPT ![j] = jobs'[j].status]
         /\ Results' = [Results EXCEPT ![j] = jobs'[j].lanes]
         /\ Closings' = [Closings EXCEPT ![j] = timeline'[j].finished + timeline'[j].cancelRequested]
  BY DEF Phase, Results, Closings, RowKept

\* What it shows of a job.
LEMMA Shown ==
  ASSUME NEW j \in Jobs
  PROVE  /\ Phase[j] = jobs[j].status /\ Results[j] = jobs[j].lanes
         /\ Closings[j] = timeline[j].finished + timeline[j].cancelRequested
  BY DEF Phase, Results, Closings

\* Replacing what is there by itself.
LEMMA ShownSame ==
  ASSUME NEW j \in Jobs
  PROVE  /\ [Phase EXCEPT ![j] = Phase[j]] = Phase
         /\ [Results EXCEPT ![j] = Results[j]] = Results
         /\ [Closings EXCEPT ![j] = Closings[j]] = Closings
  BY DEF Phase, Results, Closings

\* The closing events of a step that closes the job.
LEMMA ClosingCounted ==
  ASSUME WorkInv, NEW j \in Jobs, RowCloses(j)
  PROVE  timeline'[j].finished + timeline'[j].cancelRequested
           = timeline[j].finished + timeline[j].cancelRequested + 1
<1>1. TypeOK /\ timeline[j].finished \in Nat /\ timeline[j].cancelRequested \in Nat
  BY DEF WorkInv, IInv, TypeOK, Timeline
<1>2. CASE \E status : timeline'[j] = finishedEvent(j, status)
  <2>1. /\ timeline'[j].finished = timeline[j].finished + 1
        /\ timeline'[j].cancelRequested = timeline[j].cancelRequested
    BY <1>1, <1>2, EventFields
  <2> QED
    BY <1>1, <2>1
<1>3. CASE timeline'[j] = [timeline[j] EXCEPT !.cancelRequested = @ + 1]
  <2>1. /\ timeline'[j].finished = timeline[j].finished
        /\ timeline'[j].cancelRequested = timeline[j].cancelRequested + 1
    BY <1>1, <1>3, EventFields
  <2> QED
    BY <1>1, <2>1
<1> QED
  BY <1>2, <1>3 DEF RowCloses, RowRefused, RowFailed, RowFinished, RowRecovered, RowCancelled

\* The rows are rows after the step too.
LEMMA NextRows ==
  ASSUME WorkInv, Next, NEW j \in Jobs
  PROVE  jobs'[j] \in Row /\ jobs'[j].lanes \in [Lanes -> TRIAGE_JOB_STATUSES]
  BY StepTypes DEF WorkInv, IInv, TypeOK, Row

\* A closed job shows a terminal status and settled lanes.
LEMMA ClosedShown ==
  ASSUME WorkInv, Next, ClocksAgree, NEW j \in Jobs, RowCloses(j)
  PROVE  /\ jobs[j].status \in {"queued", "running"}
         /\ jobs'[j].status \in TRIAGE_SETTLED_CANDIDATE_STATUSES
         /\ jobs'[j].lanes \in [Lanes -> TRIAGE_SETTLED_CANDIDATE_STATUSES]
<1>1. jobs[j].status \in {"queued", "running"}
  BY DEF RowCloses, RowRefused, RowFailed, RowFinished, RowRecovered, RowCancelled, Live,
         triageRunningLeaseExpired
<1>2. isTerminal(jobs'[j].status)
  BY ClosingIsTerminal
<1>3. ClosedInv(j)'
  BY <1>2, ClosedStep DEF RowStep
<1>4. \A l \in Lanes : jobs'[j].lanes[l] \in TRIAGE_SETTLED_CANDIDATE_STATUSES
  BY <1>3 DEF ClosedInv, AllSettled, Settled, isTriageSettledStatus, ClocksAgree
<1> QED
  BY <1>1, <1>2, <1>4, NextRows DEF isTerminal, isTriageSettledStatus

\* A step on one job is a step of the contract on that job.
LEMMA OneRefines ==
  ASSUME WorkInv, Next, ClocksAgree, NEW j \in Jobs, RowStep(j),
         \A k \in Jobs : k # j => RowKept(k)
  PROVE  Contract!Next \/ UNCHANGED <<Phase, Results, Closings>>
<1> DEFINE now == timeline[j].finished + timeline[j].cancelRequested
           then == timeline'[j].finished + timeline'[j].cancelRequested
<1>0. TypeOK /\ jobs[j] \in Row /\ jobs[j].lanes \in [Lanes -> TRIAGE_JOB_STATUSES]
      /\ timeline[j] \in Timeline
  BY DEF WorkInv, IInv, TypeOK, Row
<1>1. /\ Phase' = [Phase EXCEPT ![j] = jobs'[j].status]
      /\ Results' = [Results EXCEPT ![j] = jobs'[j].lanes]
      /\ Closings' = [Closings EXCEPT ![j] = then]
  BY ShownChange
<1>2. Phase[j] = jobs[j].status /\ Results[j] = jobs[j].lanes /\ Closings[j] = now
  BY Shown
<1>s. /\ jobs'[j].status = jobs[j].status => UNCHANGED Phase
      /\ jobs'[j].lanes = jobs[j].lanes => UNCHANGED Results
      /\ then = now => UNCHANGED Closings
  BY <1>1, <1>2, ShownSame
<1>3. CASE RowKept(j)
  BY <1>3, <1>s DEF RowKept
<1>4. CASE RowAged(j)
  BY <1>0, <1>4, <1>s, AgedFields DEF RowAged
<1>5. CASE RowRenewed(j)
  <2>1. PICK lease \in Nat : jobs'[j] = [jobs[j] EXCEPT !.lease = lease]
    BY <1>5 DEF RowRenewed
  <2>2. jobs'[j].lanes = jobs[j].lanes /\ jobs'[j].status = jobs[j].status
    BY <1>0, <2>1, RenewedFields
  <2> QED
    BY <1>5, <1>s, <2>2 DEF RowRenewed
<1>6. CASE RowAdmitted(j)
  <2>1. Waiting(j) /\ jobs[j].status = "absent"
    BY <1>6 DEF RowAdmitted, WorkInv, JobInv
  <2>2. jobs'[j].status = "queued" /\ jobs'[j].lanes = [l \in Lanes |-> "queued"]
    BY <1>6 DEF RowAdmitted, queuedJob
  <2>3. jobs'[j].lanes = jobs[j].lanes
    BY <1>0, <2>1, <2>2 DEF Waiting, Untouched
  <2>4. then = now
    BY <1>0, <1>6 DEF RowAdmitted, Timeline
  <2>5. Contract!Admit(j)
    BY <1>1, <1>2, <1>s, <2>1, <2>2, <2>3, <2>4 DEF Contract!Admit, Phase, Results, Closings
  <2> QED
    BY <2>5 DEF Contract!Next
<1>7. CASE RowClaimed(j)
  <2>1. jobs'[j].status = "running" /\ jobs'[j].lanes = jobs[j].lanes
    BY <1>0, <1>7, ClaimedFields DEF RowClaimed
  <2>2. then = now
    BY <1>0, <1>7 DEF RowClaimed, startedEvent, Timeline
  <2>3. jobs[j].status = "queued"
    BY <1>7 DEF RowClaimed
  <2>4. Contract!Begin(j)
    BY <1>1, <1>2, <1>s, <2>1, <2>2, <2>3 DEF Contract!Begin, Phase, Results, Closings
  <2> QED
    BY <2>4 DEF Contract!Next
<1>8. CASE RowReported(j)
  <2>1. PICK l \in Lanes, status \in TRIAGE_JOB_STATUSES :
          /\ ~Settled(j, l)
          /\ jobs'[j].lanes = [jobs[j].lanes EXCEPT ![l] = status]
          /\ timeline'[j] = reportEvent(j, l, status)
    BY <1>8 DEF RowReported
  <2>2. jobs[j].status = "running" /\ jobs'[j].status = "running"
    BY <1>8 DEF RowReported, Live
  <2>3. then = now
    <3>1. /\ reportEvent(j, l, status).finished = timeline[j].finished
          /\ reportEvent(j, l, status).cancelRequested = timeline[j].cancelRequested
      BY <1>0, ReportFields
    <3> QED
      BY <2>1, <3>1
  <2>4. jobs[j].lanes[l] \in {"queued", "running"}
    BY <1>0, <2>1 DEF Settled, isTriageSettledStatus, TRIAGE_JOB_STATUSES
  <2>5. Results' = [Results EXCEPT ![j] = [Results[j] EXCEPT ![l] = status]]
    BY <1>1, <1>2, <2>1
  <2>6. Contract!Advance(j, l, status)
    BY <1>2, <1>s, <2>2, <2>3, <2>4, <2>5
       DEF Contract!Advance, Contract!open, Phase, Results, Closings
  <2> QED
    BY <2>6, SameWords DEF Contract!Next
<1>9. CASE RowCloses(j)
  <2>1. PICK status \in TRIAGE_SETTLED_CANDIDATE_STATUSES,
             lanes \in [Lanes -> TRIAGE_SETTLED_CANDIDATE_STATUSES] :
          status = jobs'[j].status /\ lanes = jobs'[j].lanes
    BY <1>9, ClosedShown
  <2>2. then = now + 1 /\ jobs[j].status \in {"queued", "running"}
    BY <1>9, ClosingCounted, ClosedShown
  <2>3. /\ Phase' = [Phase EXCEPT ![j] = status]
        /\ Results' = [Results EXCEPT ![j] = lanes]
        /\ Closings' = [Closings EXCEPT ![j] = Closings[j] + 1]
    BY <1>1, <1>2, <2>1, <2>2
  <2>4. /\ lanes \in [Lanes -> Contract!TRIAGE_SETTLED_CANDIDATE_STATUSES]
        /\ status \in Contract!TRIAGE_SETTLED_CANDIDATE_STATUSES
    BY SameWords
  <2>5. CASE RowCancelled(j)
    <3>1. PICK c \in Cancels : /\ cancels[c].pc = "read" /\ cancels[c].job = j
                               /\ jobs'[j] = cancels[c].row
      BY <2>5 DEF RowCancelled
    <3>2. status = resolveTriageJobStatus(lanes, TRUE)
      BY <2>1, <3>1 DEF WorkInv, CancelInv
    <3>3. \A l \in Lanes : isTriageSettledStatus(jobs[j].lanes[l])
                             => lanes[l] \in {jobs[j].lanes[l], "cancelled"}
      <4>1. ~isTerminal(jobs[j].status)
        BY <2>2, OpenStatuses
      <4> QED
        BY <2>1, <3>1, <4>1 DEF WorkInv, CancelInv
    <3>4. Contract!CloseByCancel(j, lanes)
      BY <1>2, <2>2, <2>3, <3>2, <3>3, SameWords
         DEF Contract!CloseByCancel, Contract!open, Phase, Results, Closings
    <3> QED
      BY <2>4, <3>4 DEF Contract!Next
  <2>6. CASE ~RowCancelled(j)
    <3>1. \A l \in Lanes : isTriageSettledStatus(jobs[j].lanes[l]) => lanes[l] = jobs[j].lanes[l]
      BY <1>9, <2>1, <2>6, CloseKeeps DEF Settled
    <3>2. Contract!Close(j, status, lanes)
      BY <1>2, <2>2, <2>3, <3>1, SameWords
         DEF Contract!Close, Contract!open, Phase, Results, Closings
    <3> QED
      BY <2>4, <3>2 DEF Contract!Next
  <2> QED
    BY <2>5, <2>6
<1> QED
  BY <1>3, <1>4, <1>5, <1>6, <1>7, <1>8, <1>9 DEF RowStep

\* When the clocks agree, the service with its servers, leases, retries and failures
\* implements what TriageJobContract promises the readers of a case.
THEOREM ContractKept == Spec /\ ClocksAgree => ImplementsContract
<1>1. Init => Contract!Init
  <2> SUFFICES ASSUME Init
               PROVE  Contract!Init
    OBVIOUS
  <2>1. /\ Phase = [j \in Jobs |-> "absent"]
        /\ Results = [j \in Jobs |-> [l \in Lanes |-> "queued"]]
        /\ Closings = [j \in Jobs |-> 0]
    BY DEF Init, absentJob, queuedJob, emptyTimeline, Phase, Results, Closings
  <2> QED
    BY <2>1 DEF Contract!Init, Phase, Results, Closings
<1>2. WorkInv /\ ClocksAgree /\ [Next]_vars => [Contract!Next]_(Contract!vars)
  <2> SUFFICES ASSUME WorkInv, ClocksAgree, [Next]_vars
               PROVE  Contract!Next \/ UNCHANGED <<Phase, Results, Closings>>
    BY DEF Contract!vars, Phase, Results, Closings
  <2>1. CASE UNCHANGED vars
    BY <2>1 DEF vars, Phase, Results, Closings
  <2>2. CASE Next
    <3>1. CASE \A k \in Jobs : RowKept(k)
      BY <3>1 DEF RowKept, Phase, Results, Closings
    <3>2. CASE \A k \in Jobs : RowAged(k)
      <4>1. \A k \in Jobs : /\ jobs'[k].status = jobs[k].status
                            /\ jobs'[k].lanes = jobs[k].lanes
                            /\ timeline'[k] = timeline[k]
        BY <3>2, AgedFields DEF RowAged, WorkInv, IInv, TypeOK
      <4> QED
        BY <4>1 DEF Phase, Results, Closings
    <3>3. CASE \E j \in Jobs : RowStep(j) /\ \A k \in Jobs : k # j => RowKept(k)
      BY <2>2, <3>3, OneRefines
    <3> QED
      BY <2>2, <3>1, <3>2, <3>3, StepOneRow DEF OneRow
  <2> QED
    BY <2>1, <2>2
<1> QED
  BY <1>1, <1>2, WorkInvariant, StillAgree, PTL DEF Spec, ImplementsContract, Contract!Spec

=============================================================================
