-------------------------- MODULE TriageRunsProofs --------------------------
(***************************************************************************)
(* Proofs about TriageRuns for every number of jobs, servers, lanes,       *)
(* cancels and store failures.                                             *)
(***************************************************************************)
EXTENDS TriageRuns, TLAPS

-----------------------------------------------------------------------------
\* The rows, events and tasks that steps build are of the right type.

\* The lifecycle rule always answers with a terminal status.
LEMMA ResolvedTerminal ==
  ASSUME NEW lanes, NEW requested
  PROVE  resolveTriageJobStatus(lanes, requested) \in TRIAGE_SETTLED_CANDIDATE_STATUSES
  BY DEF resolveTriageJobStatus, TRIAGE_SETTLED_CANDIDATE_STATUSES,
         TRIAGE_PRODUCING_CANDIDATE_STATUSES

\* Settling open lanes keeps their type.
LEMMA SettledLanesType ==
  ASSUME NEW lanes \in [Lanes -> TRIAGE_JOB_STATUSES],
         NEW status \in TRIAGE_SETTLED_CANDIDATE_STATUSES
  PROVE  settleOpenLanes(lanes, status) \in [Lanes -> TRIAGE_JOB_STATUSES]
  BY DEF settleOpenLanes, TRIAGE_JOB_STATUSES

\* The row of a new job, and the placeholder before it.
LEMMA NewRowTypes ==
  /\ \A a \in Attempts, m \in Modes : queuedJob(a, m) \in Row
  /\ absentJob \in Row
<1>1. ASSUME NEW a \in Attempts, NEW m \in Modes
      PROVE  queuedJob(a, m) \in Row
  BY DEF queuedJob, Row, TRIAGE_JOB_STATUSES, StoppedReasons, Leases
<1>2. (CHOOSE a \in Attempts : TRUE) \in Attempts /\ (CHOOSE m \in Modes : TRUE) \in Modes
  BY StoreAssumption
<1>3. queuedJob(CHOOSE a \in Attempts : TRUE, CHOOSE m \in Modes : TRUE) \in Row
  BY <1>1, <1>2
<1>4. absentJob \in Row
  BY <1>3 DEF absentJob, Row
<1> QED BY <1>1, <1>4

\* The row that closes a job.
LEMMA ClosedType ==
  ASSUME NEW row \in Row, NEW status \in TRIAGE_SETTLED_CANDIDATE_STATUSES,
         NEW lanes \in [Lanes -> TRIAGE_JOB_STATUSES], NEW reason \in StoppedReasons
  PROVE  /\ closed(row, status, lanes, reason) \in Row
         /\ closed(row, status, lanes, reason).status = status
         /\ closed(row, status, lanes, reason).lease = NoLease
  BY DEF closed, Row, TRIAGE_JOB_STATUSES, Leases

\* A row written through update().
LEMMA UpdatedType ==
  ASSUME NEW existing \in Row, NEW row \in Row
  PROVE  /\ updated(existing, row) \in Row
         /\ updated(existing, row).status = row.status
         /\ row.status # "running" => updated(existing, row) = row
  BY DEF updated, laterLeaseExpiresAt, Row, Leases, NoLease

\* Timeline events.
LEMMA TimelineTypes ==
  ASSUME NEW e \in Timeline, NEW status \in TRIAGE_SETTLED_CANDIDATE_STATUSES, NEW l \in Lanes
  PROVE  /\ [e EXCEPT !.created = @ + 1] \in Timeline
         /\ [e EXCEPT !.started = @ + 1] \in Timeline
         /\ [e EXCEPT !.cancelRequested = @ + 1] \in Timeline
         /\ [e EXCEPT !.finished = @ + 1, !.outcome = status] \in Timeline
         /\ [e EXCEPT !.reports[l] = @ + 1, !.reported[l] = status] \in Timeline
<1>1. /\ [e EXCEPT !.created = @ + 1] \in Timeline
      /\ [e EXCEPT !.started = @ + 1] \in Timeline
      /\ [e EXCEPT !.cancelRequested = @ + 1] \in Timeline
  BY DEF Timeline
<1>2. [e EXCEPT !.finished = @ + 1, !.outcome = status] \in Timeline
  <2> DEFINE counted == [e EXCEPT !.finished = @ + 1]
  <2>1. counted \in Timeline
    BY DEF Timeline
  <2>2. [counted EXCEPT !.outcome = status] \in Timeline
    <3> HIDE DEF counted
    <3> QED BY <2>1 DEF Timeline
  <2>3. [e EXCEPT !.finished = @ + 1, !.outcome = status] = [counted EXCEPT !.outcome = status]
    BY DEF Timeline
  <2> QED BY <2>2, <2>3
<1>3. [e EXCEPT !.reports[l] = @ + 1, !.reported[l] = status] \in Timeline
  <2> DEFINE counts == [e.reports EXCEPT ![l] = @ + 1]
             verdicts == [e.reported EXCEPT ![l] = status]
  <2>1. counts \in [Lanes -> Nat]
    BY DEF Timeline
  <2>2. verdicts \in [Lanes -> TRIAGE_SETTLED_CANDIDATE_STATUSES \union {"none"}]
    BY DEF Timeline
  <2>3. [e EXCEPT !.reports = counts, !.reported = verdicts] \in Timeline
    <3> HIDE DEF counts, verdicts
    <3> QED BY <2>1, <2>2 DEF Timeline
  <2>4. [e EXCEPT !.reports[l] = @ + 1, !.reported[l] = status]
          = [e EXCEPT !.reports = counts, !.reported = verdicts]
    BY DEF Timeline
  <2> QED BY <2>3, <2>4
<1> QED BY <1>1, <1>2, <1>3

\* Lane writes and tasks.
LEMMA TaskTypes ==
  /\ noWrite \in Write
  /\ \A l \in Lanes, status \in TRIAGE_JOB_STATUSES, row \in Row : laneWrite(l, status, row) \in Write
  /\ \A pc \in TaskPcs : newTask(pc) \in Task
<1>1. noWrite \in Write
  <2>1. (CHOOSE l \in Lanes : TRUE) \in Lanes
    BY StoreAssumption
  <2> QED BY <2>1, NewRowTypes DEF noWrite, Write, TRIAGE_JOB_STATUSES
<1>2. \A l \in Lanes, status \in TRIAGE_JOB_STATUSES, row \in Row : laneWrite(l, status, row) \in Write
  BY DEF laneWrite, Write
<1>3. \A pc \in TaskPcs : newTask(pc) \in Task
  BY <1>1 DEF newTask, Task, TRIAGE_SETTLED_CANDIDATE_STATUSES
<1> QED BY <1>1, <1>2, <1>3

\* Initial states are well typed.
LEMMA InitTypes == Init => TypeOK
<1> SUFFICES ASSUME Init PROVE TypeOK
  OBVIOUS
<1>1. jobs \in [Jobs -> Row] /\ pending \in [Servers -> Pending]
  BY NewRowTypes DEF Init, Pending, noPending
<1>2. timeline \in [Jobs -> Timeline]
  BY DEF Init, emptyTimeline, Timeline
<1>3. task \in [Servers -> [Jobs -> Task]]
  BY TaskTypes DEF Init, TaskPcs
<1>4. cancels \in [Cancels -> Cancel]
  <2>1. (CHOOSE s \in Servers : TRUE) \in Servers /\ (CHOOSE j \in Jobs : TRUE) \in Jobs
    BY ConstantsAssumption
  <2> QED BY <2>1, NewRowTypes DEF Init, Cancel
<1>5. launches \in [Jobs -> Launch]
  <2>1. (CHOOSE s \in Servers : TRUE) \in Servers
    BY ConstantsAssumption
  <2>2. absentJob.attempt \in Attempts /\ absentJob.mode \in Modes
    BY NewRowTypes DEF Row
  <2> QED BY <2>1, <2>2 DEF Init, Launch
<1>6. /\ server \in [Servers -> {"off", "listing", "recovering", "up", "failed", "dead"}]
      /\ authorized \in SUBSET Jobs
      /\ faults \in Nat
  BY ConstantsAssumption DEF Init
<1> QED BY <1>1, <1>2, <1>3, <1>4, <1>5, <1>6 DEF TypeOK

\* A transaction keeps the types of what it writes.
LEMMA CommitTypes ==
  ASSUME TypeOK, NEW j \in Jobs, NEW row \in Row, NEW events \in Timeline,
         NEW allowed, NEW o \in CommitOutcomes(allowed),
         Commit(o, j, row, events)
  PROVE  /\ jobs' \in [Jobs -> Row]
         /\ timeline' \in [Jobs -> Timeline]
         /\ faults' \in Nat
<1>1. jobs' \in [Jobs -> Row] /\ timeline' \in [Jobs -> Timeline]
  BY DEF TypeOK, Commit
<1>2. faults' \in Nat
  BY DEF TypeOK, Commit, CommitOutcomes
<1> QED BY <1>1, <1>2

\* A task that moves on, or is replaced, keeps its type.
LEMMA SetTaskType ==
  ASSUME TypeOK, NEW s \in Servers, NEW j \in Jobs, NEW t \in Task, setTask(s, j, t)
  PROVE  task' \in [Servers -> [Jobs -> Task]]
  BY DEF TypeOK, setTask

\* So does one whose program counter moves.
LEMMA MoveTaskType ==
  ASSUME TypeOK, NEW s \in Servers, NEW j \in Jobs, NEW pc \in TaskPcs, moveTask(s, j, pc)
  PROVE  task' \in [Servers -> [Jobs -> Task]]
<1> DEFINE t == IF pc = "done" THEN newTask("done") ELSE [task[s][j] EXCEPT !.pc = pc]
<1>1. task[s][j] \in Task
  BY DEF TypeOK
<1>2. t \in Task
  <2>1. [task[s][j] EXCEPT !.pc = pc] \in Task
    BY <1>1 DEF Task
  <2> QED BY <2>1, TaskTypes DEF TaskPcs
<1>3. task' = [task EXCEPT ![s][j] = t]
  BY DEF moveTask
<1> HIDE DEF t
<1> QED BY <1>2, <1>3 DEF TypeOK

\* The rows the service writes are rows, and those that close a job close it.
Closing(row) == row \in Row /\ isTerminal(row.status) /\ row.lease = NoLease

\* Refusal, failure, recovery, the normal end and a cancel all build a row that is
\* terminal and holds no lease.
LEMMA ClosingRows ==
  ASSUME NEW row \in Row
  PROVE  /\ Closing(refusedRow(row)) /\ refusedRow(row).status = "failed"
         /\ Closing(failedRow(row)) /\ failedRow(row).status = "failed"
         /\ Closing(recoveredRow(row))
         /\ Closing(finishedRow(row))
         /\ Closing(cancelledRow(row))
<1> USE DEF Closing, isTerminal, isTriageSettledStatus
<1>0. /\ row.lanes \in [Lanes -> TRIAGE_JOB_STATUSES]
      /\ "failed" \in TRIAGE_SETTLED_CANDIDATE_STATUSES
      /\ "cancelled" \in TRIAGE_SETTLED_CANDIDATE_STATUSES
      /\ "none" \in StoppedReasons /\ "cancel_requested" \in StoppedReasons
      /\ "worker_lease_expired" \in StoppedReasons
      /\ "runner_error" \in StoppedReasons /\ "refused" \in StoppedReasons
  BY DEF Row, TRIAGE_SETTLED_CANDIDATE_STATUSES, StoppedReasons
<1>1. /\ settleOpenLanes(row.lanes, "failed") \in [Lanes -> TRIAGE_JOB_STATUSES]
      /\ settleOpenLanes(row.lanes, "cancelled") \in [Lanes -> TRIAGE_JOB_STATUSES]
  BY <1>0, SettledLanesType
<1>c. ASSUME NEW status \in TRIAGE_SETTLED_CANDIDATE_STATUSES,
             NEW lanes \in [Lanes -> TRIAGE_JOB_STATUSES], NEW reason \in StoppedReasons
      PROVE  Closing(closed(row, status, lanes, reason)) /\ closed(row, status, lanes, reason).status = status
  BY ClosedType
<1> HIDE DEF Closing
<1>2. Closing(refusedRow(row)) /\ refusedRow(row).status = "failed"
  BY <1>0, <1>1, <1>c DEF refusedRow, closeAs
<1>3. Closing(failedRow(row)) /\ failedRow(row).status = "failed"
  BY <1>0, <1>1, <1>c DEF failedRow, closeAs
<1>4. Closing(recoveredRow(row))
  BY <1>0, <1>1, <1>c, ResolvedTerminal DEF recoveredRow
<1>5. Closing(finishedRow(row))
  BY <1>0, <1>1, <1>c, ResolvedTerminal DEF finishedRow
<1>6. Closing(cancelledRow(row))
  <2> DEFINE lanes == settleOpenLanes(row.lanes, "cancelled")
             shut == closed(row, resolveTriageJobStatus(lanes, TRUE), lanes, "cancel_requested")
  <2>1. Closing(shut)
    BY <1>0, <1>1, <1>c, ResolvedTerminal
  <2>2. cancelledRow(row) = [shut EXCEPT !.cancelRequested = TRUE]
    BY DEF cancelledRow
  <2> HIDE DEF shut
  <2> QED BY <2>1, <2>2 DEF Row, Closing
<1> QED BY <1>2, <1>3, <1>4, <1>5, <1>6

\* The rows of claim, renewal and the passage of time.
LEMMA OpenRows ==
  ASSUME NEW row \in Row
  PROVE  /\ \A w \in Workers \union {NoWorker} : [row EXCEPT !.worker = w] \in Row
         /\ \A w \in Workers, lease \in Nat : claimed(row, w, lease) \in Row
         /\ \A lease \in Nat : [row EXCEPT !.lease = lease] \in Row
         /\ aged(row) \in Row
<1>1. \A w \in Workers \union {NoWorker} : [row EXCEPT !.worker = w] \in Row
  BY DEF Row
<1>2. \A w \in Workers, lease \in Nat : claimed(row, w, lease) \in Row
  BY DEF Row, claimed, Leases, TRIAGE_JOB_STATUSES
<1>3. \A lease \in Nat : [row EXCEPT !.lease = lease] \in Row
  BY DEF Row, Leases
<1>4. aged(row) \in Row
  BY DEF Row, Leases, NoLease, aged
<1> QED BY <1>1, <1>2, <1>3, <1>4

\* The row of a lane write, and the event that goes with it.
LEMMA LaneRows ==
  ASSUME NEW t \in Task, NEW sawAbort \in BOOLEAN
  PROVE  /\ writtenRow(t, sawAbort) \in Row
         /\ writtenRow(t, sawAbort).status = t.write.row.status
<1>1. /\ t.write \in Write /\ t.write.row \in Row /\ t.write.lane \in Lanes
      /\ t.write.status \in TRIAGE_JOB_STATUSES
  BY DEF Task, Write
<1> DEFINE row == t.write.row
           lanes == [row.lanes EXCEPT ![t.write.lane] = t.write.status]
           stamp == row.cancelRequested \/ (sawAbort /\ isTriageSettledStatus(t.write.status))
<1>2. lanes \in [Lanes -> TRIAGE_JOB_STATUSES]
  BY <1>1 DEF Row
<1>3. stamp \in BOOLEAN
  BY <1>1 DEF Row
<1>4. writtenRow(t, sawAbort) = [row EXCEPT !.lanes = lanes, !.cancelRequested = stamp]
  BY <1>1 DEF writtenRow, Row
<1>5. row \in Row
  BY <1>1
<1> HIDE DEF row, lanes, stamp
<1>6. [row EXCEPT !.lanes = lanes, !.cancelRequested = stamp] \in Row
  BY <1>2, <1>3, <1>5 DEF Row
<1>7. [row EXCEPT !.lanes = lanes, !.cancelRequested = stamp].status = row.status
  BY <1>5 DEF Row
<1> QED BY <1>4, <1>6, <1>7 DEF row

\* Appending an event keeps a timeline a timeline.
LEMMA EventTypes ==
  ASSUME TypeOK, NEW j \in Jobs
  PROVE  /\ timeline[j] \in Timeline
         /\ startedEvent(j) \in Timeline
         /\ [timeline[j] EXCEPT !.created = @ + 1] \in Timeline
         /\ [timeline[j] EXCEPT !.cancelRequested = @ + 1] \in Timeline
         /\ \A status \in TRIAGE_SETTLED_CANDIDATE_STATUSES : finishedEvent(j, status) \in Timeline
         /\ \A l \in Lanes, status \in TRIAGE_JOB_STATUSES : reportEvent(j, l, status) \in Timeline
<1>1. timeline[j] \in Timeline
  BY DEF TypeOK
<1>2. startedEvent(j) \in Timeline
  <2>1. \E l \in Lanes : TRUE
    BY StoreAssumption
  <2>2. "failed" \in TRIAGE_SETTLED_CANDIDATE_STATUSES
    BY DEF TRIAGE_SETTLED_CANDIDATE_STATUSES
  <2> QED BY <1>1, <2>1, <2>2, TimelineTypes DEF startedEvent
<1>3. ASSUME NEW status \in TRIAGE_SETTLED_CANDIDATE_STATUSES
      PROVE  finishedEvent(j, status) \in Timeline
  <2>1. \E l \in Lanes : TRUE
    BY StoreAssumption
  <2> QED BY <1>1, <2>1, TimelineTypes DEF finishedEvent
<1>4. ASSUME NEW l \in Lanes, NEW status \in TRIAGE_JOB_STATUSES
      PROVE  reportEvent(j, l, status) \in Timeline
  BY <1>1, TimelineTypes DEF reportEvent, isTriageSettledStatus
<1>5. /\ [timeline[j] EXCEPT !.created = @ + 1] \in Timeline
      /\ [timeline[j] EXCEPT !.cancelRequested = @ + 1] \in Timeline
  BY <1>1 DEF Timeline
<1> QED BY <1>1, <1>2, <1>3, <1>4, <1>5

\* The fields of a task that steps assign.
LEMMA TaskUpdates ==
  ASSUME NEW t \in Task
  PROVE  /\ [t EXCEPT !.aborted = TRUE] \in Task
         /\ [t EXCEPT !.leaseLost = TRUE, !.aborted = TRUE] \in Task
         /\ \A w \in Write, ls \in SUBSET Lanes : [t EXCEPT !.begun = @ \union ls, !.write = w] \in Task
         /\ \A w \in Write, ls \in SUBSET Lanes : [t EXCEPT !.got = @ \union ls, !.write = w] \in Task
         /\ \A v \in TRIAGE_SETTLED_CANDIDATE_STATUSES :
              [t EXCEPT !.pc = "sweep", !.got = {}, !.verdict = v] \in Task
         /\ \A w \in Write : /\ [t EXCEPT !.write = w] \in Task
                            /\ [[t EXCEPT !.write = w] EXCEPT !.broken = TRUE] \in Task
                            /\ [[t EXCEPT !.write = w] EXCEPT !.pc = "fail"] \in Task
<1>1. /\ [t EXCEPT !.aborted = TRUE] \in Task
      /\ [t EXCEPT !.leaseLost = TRUE, !.aborted = TRUE] \in Task
  BY DEF Task
<1>2. ASSUME NEW w \in Write, NEW ls \in SUBSET Lanes
      PROVE  /\ [t EXCEPT !.begun = @ \union ls, !.write = w] \in Task
             /\ [t EXCEPT !.got = @ \union ls, !.write = w] \in Task
  BY DEF Task
<1>3. ASSUME NEW v \in TRIAGE_SETTLED_CANDIDATE_STATUSES
      PROVE  [t EXCEPT !.pc = "sweep", !.got = {}, !.verdict = v] \in Task
  BY DEF Task, TaskPcs
<1>4. ASSUME NEW w \in Write
      PROVE  /\ [t EXCEPT !.write = w] \in Task
             /\ [[t EXCEPT !.write = w] EXCEPT !.broken = TRUE] \in Task
             /\ [[t EXCEPT !.write = w] EXCEPT !.pc = "fail"] \in Task
  BY DEF Task, TaskPcs
<1> QED BY <1>1, <1>2, <1>3, <1>4

\* Every step keeps the types.
LEMMA StepTypes ==
  ASSUME TypeOK, Next
  PROVE  TypeOK'
<1> USE DEF TaskPcs
<1>1. ASSUME NEW s \in Servers, NEW j \in Jobs, NEW a \in Attempts, NEW m \in Modes,
             CreateCheck(s, j, a, m)
      PROVE  TypeOK'
  <2>1. [pc |-> "checked", server |-> s, attempt |-> a, mode |-> m] \in Launch
    BY DEF Launch
  <2> QED BY <1>1, <2>1 DEF CreateCheck, TypeOK
<1>2. ASSUME NEW j \in Jobs, CreateInsert(j)
      PROVE  TypeOK'
  <2>1. /\ launches[j] \in Launch
        /\ launches[j].server \in Servers
        /\ queuedJob(launches[j].attempt, launches[j].mode) \in Row
    BY NewRowTypes DEF TypeOK, Launch
  <2>2. [timeline[j] EXCEPT !.created = @ + 1] \in Timeline
    BY EventTypes
  <2>3. jobs' \in [Jobs -> Row] /\ timeline' \in [Jobs -> Timeline] /\ faults' \in Nat
    BY <1>2, <2>1, <2>2, CommitTypes DEF CreateInsert
  <2>4. task' \in [Servers -> [Jobs -> Task]]
    BY <1>2, <2>1, TaskTypes DEF CreateInsert, TypeOK
  <2>5. [launches[j] EXCEPT !.pc = "done"] \in Launch
    BY <2>1 DEF Launch
  <2> QED BY <1>2, <2>3, <2>4, <2>5 DEF CreateInsert, TypeOK
<1>3. ASSUME NEW c \in Cancels, NEW s \in Servers, NEW j \in Jobs, CancelRead(c, s, j)
      PROVE  TypeOK'
  <2>1. cancelledRow(jobs[j]) \in Row
    BY ClosingRows DEF TypeOK, Closing
  <2>2. [pc |-> "read", server |-> s, job |-> j, row |-> cancelledRow(jobs[j])] \in Cancel
    BY <2>1 DEF Cancel
  <2> QED BY <1>3, <2>2 DEF CancelRead, TypeOK
<1>4. ASSUME NEW c \in Cancels, CancelCommit(c)
      PROVE  TypeOK'
  <2> DEFINE s == cancels[c].server
             j == cancels[c].job
             row == cancels[c].row
  <2>1. cancels[c] \in Cancel /\ s \in Servers /\ j \in Jobs /\ row \in Row
    BY DEF TypeOK, Cancel
  <2>2. updated(jobs[j], row) \in Row
    BY <2>1, UpdatedType DEF TypeOK
  <2>3. [timeline[j] EXCEPT !.cancelRequested = @ + 1] \in Timeline
    BY <2>1, EventTypes
  <2>4. jobs' \in [Jobs -> Row] /\ timeline' \in [Jobs -> Timeline] /\ faults' \in Nat
    BY <1>4, <2>1, <2>2, <2>3, CommitTypes DEF CancelCommit
  <2>5. [task[s][j] EXCEPT !.aborted = TRUE] \in Task
    <3>1. task[s][j] \in Task
      BY <2>1 DEF TypeOK
    <3> QED BY <3>1, TaskUpdates
  <2>6. task' \in [Servers -> [Jobs -> Task]]
    BY <1>4, <2>1, <2>5 DEF CancelCommit, TypeOK
  <2>7. answered(cancels[c]) \in Cancel
    BY <2>1, NewRowTypes DEF answered, Cancel
  <2> QED BY <1>4, <2>4, <2>6, <2>7 DEF CancelCommit, TypeOK
<1>5. ASSUME NEW s \in Servers, NEW j \in Jobs, Claim(s, j)
      PROVE  TypeOK'
  <2>1. /\ jobs[j] \in Row /\ WorkerId[s] \in Workers /\ Lease + Skew[s] \in Nat
    BY ConstantsAssumption DEF TypeOK
  <2>2. claimed(jobs[j], WorkerId[s], Lease + Skew[s]) \in Row
    BY <2>1, OpenRows
  <2>3. jobs' \in [Jobs -> Row] /\ timeline' \in [Jobs -> Timeline] /\ faults' \in Nat
    BY <1>5, <2>2, CommitTypes, EventTypes DEF Claim
  <2>4. task' \in [Servers -> [Jobs -> Task]]
    BY <1>5, MoveTaskType DEF Claim
  <2> QED BY <1>5, <2>3, <2>4 DEF Claim, TypeOK
<1>6. ASSUME NEW s \in Servers, NEW j \in Jobs, ClaimMissed(s, j)
      PROVE  TypeOK'
  <2>1. task' \in [Servers -> [Jobs -> Task]]
    BY <1>6, MoveTaskType DEF ClaimMissed
  <2> QED BY <1>6, <2>1 DEF ClaimMissed, TypeOK
<1>7. ASSUME NEW s \in Servers, NEW j \in Jobs, Prepare(s, j)
      PROVE  TypeOK'
  <2>1. task' \in [Servers -> [Jobs -> Task]]
    BY <1>7, MoveTaskType DEF Prepare
  <2> QED BY <1>7, <2>1 DEF Prepare, TypeOK
<1>8. ASSUME NEW s \in Servers, NEW j \in Jobs, PrepareFails(s, j)
      PROVE  TypeOK'
  <2>1. task' \in [Servers -> [Jobs -> Task]]
    BY <1>8, MoveTaskType DEF PrepareFails
  <2> QED BY <1>8, <2>1 DEF PrepareFails, TypeOK
<1>9. ASSUME NEW s \in Servers, NEW j \in Jobs, LeaseLostReturn(s, j)
      PROVE  TypeOK'
  <2>1. task' \in [Servers -> [Jobs -> Task]]
    BY <1>9, MoveTaskType DEF LeaseLostReturn
  <2> QED BY <1>9, <2>1 DEF LeaseLostReturn, storeUnchanged, TypeOK
<1>10. ASSUME NEW s \in Servers, NEW j \in Jobs, SweepDone(s, j)
      PROVE  TypeOK'
  <2>1. task' \in [Servers -> [Jobs -> Task]]
    BY <1>10, MoveTaskType DEF SweepDone
  <2> QED BY <1>10, <2>1 DEF SweepDone, storeUnchanged, TypeOK
<1>11. ASSUME NEW s \in Servers, NEW j \in Jobs, MockDone(s, j)
      PROVE  TypeOK'
  <2>1. task' \in [Servers -> [Jobs -> Task]]
    BY <1>11, MoveTaskType DEF MockDone
  <2> QED BY <1>11, <2>1 DEF MockDone, storeUnchanged, TypeOK
<1>12. ASSUME NEW s \in Servers, NEW j \in Jobs, BatchReturns(s, j)
      PROVE  TypeOK'
  <2>1. task' \in [Servers -> [Jobs -> Task]]
    BY <1>12, MoveTaskType DEF BatchReturns
  <2> QED BY <1>12, <2>1 DEF BatchReturns, storeUnchanged, TypeOK
<1>13. ASSUME NEW s \in Servers, NEW j \in Jobs, FinishNotOwned(s, j)
      PROVE  TypeOK'
  <2>1. task' \in [Servers -> [Jobs -> Task]]
    BY <1>13, MoveTaskType DEF FinishNotOwned
  <2> QED BY <1>13, <2>1 DEF FinishNotOwned, storeUnchanged, TypeOK
<1>14. ASSUME NEW s \in Servers, NEW j \in Jobs, FailNotOwned(s, j)
      PROVE  TypeOK'
  <2>1. task' \in [Servers -> [Jobs -> Task]]
    BY <1>14, MoveTaskType DEF FailNotOwned
  <2> QED BY <1>14, <2>1 DEF FailNotOwned, storeUnchanged, TypeOK
<1>15. ASSUME NEW s \in Servers, NEW j \in Jobs, RefuseClaimed(s, j)
      PROVE  TypeOK'
  <2> DEFINE next == refusedRow([jobs[j] EXCEPT !.worker = WorkerId[s]])
  <2>1. jobs[j] \in Row /\ WorkerId[s] \in Workers \union {NoWorker}
    BY ConstantsAssumption DEF TypeOK
  <2>2. next \in Row
    BY <2>1, OpenRows, ClosingRows DEF Closing
  <2>3. updated(jobs[j], next) \in Row
    BY <2>1, <2>2, UpdatedType
  <2>4. finishedEvent(j, "failed") \in Timeline
    BY EventTypes DEF TRIAGE_SETTLED_CANDIDATE_STATUSES
  <2>5. jobs' \in [Jobs -> Row] /\ timeline' \in [Jobs -> Timeline] /\ faults' \in Nat
    <3> HIDE DEF next
    <3> QED BY <1>15, <2>3, <2>4, CommitTypes DEF RefuseClaimed, next
  <2>6. task' \in [Servers -> [Jobs -> Task]]
    BY <1>15, MoveTaskType DEF RefuseClaimed
  <2> QED BY <1>15, <2>5, <2>6 DEF RefuseClaimed, TypeOK
<1>16. ASSUME NEW s \in Servers, NEW j \in Jobs, ResumeRefuse(s, j)
      PROVE  TypeOK'
  <2> DEFINE next == refusedRow([jobs[j] EXCEPT !.worker = NoWorker])
  <2>1. jobs[j] \in Row /\ NoWorker \in Workers \union {NoWorker}
    BY ConstantsAssumption DEF TypeOK
  <2>2. next \in Row
    BY <2>1, OpenRows, ClosingRows DEF Closing
  <2>3. updated(jobs[j], next) \in Row
    BY <2>1, <2>2, UpdatedType
  <2>4. finishedEvent(j, "failed") \in Timeline
    BY EventTypes DEF TRIAGE_SETTLED_CANDIDATE_STATUSES
  <2>5. jobs' \in [Jobs -> Row] /\ timeline' \in [Jobs -> Timeline] /\ faults' \in Nat
    <3> HIDE DEF next
    <3> QED BY <1>16, <2>3, <2>4, CommitTypes DEF ResumeRefuse, next
  <2>6. task' \in [Servers -> [Jobs -> Task]]
    BY <1>16, MoveTaskType DEF ResumeRefuse
  <2> QED BY <1>16, <2>5, <2>6 DEF ResumeRefuse, TypeOK
<1>17. ASSUME NEW s \in Servers, NEW j \in Jobs, RecoverRefuse(s, j)
      PROVE  TypeOK'
  <2> DEFINE next == refusedRow([jobs[j] EXCEPT !.worker = NoWorker])
  <2>1. jobs[j] \in Row /\ NoWorker \in Workers \union {NoWorker}
    BY ConstantsAssumption DEF TypeOK
  <2>2. next \in Row
    BY <2>1, OpenRows, ClosingRows DEF Closing
  <2>3. updated(jobs[j], next) \in Row
    BY <2>1, <2>2, UpdatedType
  <2>4. finishedEvent(j, "failed") \in Timeline
    BY EventTypes DEF TRIAGE_SETTLED_CANDIDATE_STATUSES
  <2>5. jobs' \in [Jobs -> Row] /\ timeline' \in [Jobs -> Timeline] /\ faults' \in Nat
    <3> HIDE DEF next
    <3> QED BY <1>17, <2>3, <2>4, CommitTypes DEF RecoverRefuse, next
  <2>6. [pending[s] EXCEPT !.queued = @ \ {j}] \in Pending
    BY DEF TypeOK, Pending
  <2>7. pending' \in [Servers -> Pending]
    BY <1>17, <2>6 DEF RecoverRefuse, TypeOK
  <2> QED BY <1>17, <2>5, <2>7 DEF RecoverRefuse, TypeOK
<1>18. ASSUME NEW s \in Servers, NEW j \in Jobs, RecoverResume(s, j)
      PROVE  TypeOK'
  <2>1. [pending[s] EXCEPT !.queued = @ \ {j}] \in Pending
    BY DEF TypeOK, Pending
  <2>2. pending' \in [Servers -> Pending]
    BY <1>18, <2>1 DEF RecoverResume, TypeOK
  <2>3. task' \in [Servers -> [Jobs -> Task]]
    BY <1>18, TaskTypes, SetTaskType DEF RecoverResume
  <2> QED BY <1>18, <2>2, <2>3 DEF RecoverResume, TypeOK
<1>19. ASSUME NEW s \in Servers, NEW j \in Jobs, Resume(s, j)
      PROVE  TypeOK'
  <2>1. task' \in [Servers -> [Jobs -> Task]]
    BY <1>19, MoveTaskType DEF Resume
  <2> QED BY <1>19, <2>1 DEF Resume, TypeOK
<1>20. ASSUME NEW s \in Servers, NEW j \in Jobs, Heartbeat(s, j)
      PROVE  TypeOK'
  <2>1. jobs[j] \in Row /\ task[s][j] \in Task /\ Lease + Skew[s] \in Nat
    BY ConstantsAssumption DEF TypeOK
  <2>2. [jobs[j] EXCEPT !.lease = Lease + Skew[s]] \in Row
    BY <2>1, OpenRows
  <2>3. jobs' \in [Jobs -> Row] /\ timeline' \in [Jobs -> Timeline] /\ faults' \in Nat
    BY <1>20, <2>2, CommitTypes, EventTypes DEF Heartbeat
  <2>4. [task[s][j] EXCEPT !.leaseLost = TRUE, !.aborted = TRUE] \in Task
    BY <2>1, TaskUpdates
  <2>5. task' \in [Servers -> [Jobs -> Task]]
    BY <1>20, <2>4 DEF Heartbeat, TypeOK
  <2> QED BY <1>20, <2>3, <2>5 DEF Heartbeat, TypeOK
<1>21. ASSUME NEW s \in Servers, NEW j \in Jobs, NEW l \in Lanes, CandidateStarted(s, j, l)
      PROVE  TypeOK'
  <2>1. jobs[j] \in Row /\ task[s][j] \in Task /\ "running" \in TRIAGE_JOB_STATUSES
    BY DEF TypeOK, TRIAGE_JOB_STATUSES
  <2>2. laneWrite(l, "running", jobs[j]) \in Write /\ noWrite \in Write
    BY <2>1, TaskTypes
  <2>3. [task[s][j] EXCEPT !.begun = @ \union {l},
           !.write = IF mayWriteLane(s, j, l, {"queued"})
                       THEN laneWrite(l, "running", jobs[j]) ELSE noWrite] \in Task
    BY <2>1, <2>2, TaskUpdates
  <2>4. task' \in [Servers -> [Jobs -> Task]]
    BY <1>21, <2>3, SetTaskType DEF CandidateStarted
  <2> QED BY <1>21, <2>4 DEF CandidateStarted, storeUnchanged, TypeOK
<1>22. ASSUME NEW s \in Servers, NEW j \in Jobs, NEW l \in Lanes, CandidateFinished(s, j, l)
      PROVE  TypeOK'
  <2>1. /\ jobs[j] \in Row /\ task[s][j] \in Task
        /\ task[s][j].verdict \in TRIAGE_SETTLED_CANDIDATE_STATUSES
        /\ Outcomes \subseteq TRIAGE_JOB_STATUSES
        /\ TRIAGE_SETTLED_CANDIDATE_STATUSES \subseteq TRIAGE_JOB_STATUSES
    BY ConstantsAssumption DEF TypeOK, TRIAGE_JOB_STATUSES, Task
  <2>2. PICK status \in IF task[s][j].pc = "sweep" THEN {task[s][j].verdict} ELSE Outcomes :
          setTask(s, j, [task[s][j] EXCEPT !.got = @ \union {l},
                           !.write = IF mayWriteLane(s, j, l, {"queued", "running"})
                                       THEN laneWrite(l, status, jobs[j]) ELSE noWrite])
    BY <1>22 DEF CandidateFinished
  <2>3. status \in TRIAGE_JOB_STATUSES
    BY <2>1
  <2>4. laneWrite(l, status, jobs[j]) \in Write /\ noWrite \in Write
    BY <2>1, <2>3, TaskTypes
  <2>5. [task[s][j] EXCEPT !.got = @ \union {l},
           !.write = IF mayWriteLane(s, j, l, {"queued", "running"})
                       THEN laneWrite(l, status, jobs[j]) ELSE noWrite] \in Task
    BY <2>1, <2>4, TaskUpdates
  <2>6. task' \in [Servers -> [Jobs -> Task]]
    BY <2>2, <2>5, SetTaskType
  <2> QED BY <1>22, <2>6 DEF CandidateFinished, storeUnchanged, TypeOK
<1>23. ASSUME NEW s \in Servers, NEW j \in Jobs, NEW l \in Lanes, MockStart(s, j, l)
      PROVE  TypeOK'
  <2>1. jobs[j] \in Row /\ task[s][j] \in Task /\ "running" \in TRIAGE_JOB_STATUSES
    BY DEF TypeOK, TRIAGE_JOB_STATUSES
  <2>2. laneWrite(l, "running", jobs[j]) \in Write
    BY <2>1, TaskTypes
  <2>3. [task[s][j] EXCEPT !.begun = @ \union {l}, !.write = laneWrite(l, "running", jobs[j])] \in Task
    BY <2>1, <2>2, TaskUpdates
  <2>4. task' \in [Servers -> [Jobs -> Task]]
    BY <1>23, <2>3, SetTaskType DEF MockStart
  <2> QED BY <1>23, <2>4 DEF MockStart, storeUnchanged, TypeOK
<1>24. ASSUME NEW s \in Servers, NEW j \in Jobs, CommitLane(s, j)
      PROVE  TypeOK'
  <2> DEFINE t == task[s][j]
             done == [t EXCEPT !.write = noWrite]
  <2>1. /\ jobs[j] \in Row /\ t \in Task /\ t.aborted \in BOOLEAN
        /\ t.write.lane \in Lanes /\ t.write.status \in TRIAGE_JOB_STATUSES
    BY DEF TypeOK, Task, Write
  <2>2. PICK sawAbort \in {FALSE, t.aborted} :
          \E o \in CommitOutcomes(updatable(jobs[j], writtenRow(t, sawAbort))) :
            /\ Commit(o, j, updated(jobs[j], writtenRow(t, sawAbort)),
                      reportEvent(j, t.write.lane, t.write.status))
            /\ setTask(s, j, IF ~threw(o) THEN done
                             ELSE IF t.pc = "batch" /\ t.write.row.mode = "gateway"
                               THEN [done EXCEPT !.broken = TRUE]
                               ELSE [done EXCEPT !.pc = "fail"])
    BY <1>24 DEF CommitLane
  <2>3. PICK o \in CommitOutcomes(updatable(jobs[j], writtenRow(t, sawAbort))) :
            /\ Commit(o, j, updated(jobs[j], writtenRow(t, sawAbort)),
                      reportEvent(j, t.write.lane, t.write.status))
            /\ setTask(s, j, IF ~threw(o) THEN done
                             ELSE IF t.pc = "batch" /\ t.write.row.mode = "gateway"
                               THEN [done EXCEPT !.broken = TRUE]
                               ELSE [done EXCEPT !.pc = "fail"])
    BY <2>2
  <2>4. updated(jobs[j], writtenRow(t, sawAbort)) \in Row
    BY <2>1, LaneRows, UpdatedType
  <2>5. reportEvent(j, t.write.lane, t.write.status) \in Timeline
    BY <2>1, EventTypes
  <2>6. jobs' \in [Jobs -> Row] /\ timeline' \in [Jobs -> Timeline] /\ faults' \in Nat
    BY <2>3, <2>4, <2>5, CommitTypes
  <2>7. /\ done \in Task /\ [done EXCEPT !.broken = TRUE] \in Task
        /\ [done EXCEPT !.pc = "fail"] \in Task
    BY <2>1, TaskTypes, TaskUpdates
  <2>8. task' \in [Servers -> [Jobs -> Task]]
    BY <2>3, <2>7, SetTaskType
  <2> QED BY <1>24, <2>6, <2>8 DEF CommitLane, TypeOK
<1>25. ASSUME NEW s \in Servers, NEW j \in Jobs, BatchFails(s, j)
      PROVE  TypeOK'
  <2>1. task[s][j] \in Task
    BY DEF TypeOK
  <2>2. PICK verdict \in IF task[s][j].aborted THEN {"cancelled"} ELSE {"timed_out", "failed"} :
          setTask(s, j, [task[s][j] EXCEPT !.pc = "sweep", !.got = {}, !.verdict = verdict])
    BY <1>25 DEF BatchFails
  <2>3. verdict \in TRIAGE_SETTLED_CANDIDATE_STATUSES
    BY DEF TRIAGE_SETTLED_CANDIDATE_STATUSES
  <2>4. task' \in [Servers -> [Jobs -> Task]]
    BY <2>1, <2>2, <2>3, TaskUpdates, SetTaskType
  <2> QED BY <1>25, <2>4 DEF BatchFails, storeUnchanged, TypeOK
<1>26. ASSUME NEW s \in Servers, NEW j \in Jobs, Finish(s, j)
      PROVE  TypeOK'
  <2>1. jobs[j] \in Row /\ finishedRow(jobs[j]) \in Row
        /\ finishedRow(jobs[j]).status \in TRIAGE_SETTLED_CANDIDATE_STATUSES
    BY ClosingRows DEF TypeOK, Closing, isTerminal, isTriageSettledStatus
  <2>2. updated(jobs[j], finishedRow(jobs[j])) \in Row
    BY <2>1, UpdatedType
  <2>3. finishedEvent(j, finishedRow(jobs[j]).status) \in Timeline
    BY <2>1, EventTypes
  <2>4. jobs' \in [Jobs -> Row] /\ timeline' \in [Jobs -> Timeline] /\ faults' \in Nat
    BY <1>26, <2>2, <2>3, CommitTypes DEF Finish
  <2>5. task' \in [Servers -> [Jobs -> Task]]
    BY <1>26, MoveTaskType DEF Finish
  <2> QED BY <1>26, <2>4, <2>5 DEF Finish, TypeOK
<1>27. ASSUME NEW s \in Servers, NEW j \in Jobs, FailOwned(s, j)
      PROVE  TypeOK'
  <2>1. jobs[j] \in Row /\ failedRow(jobs[j]) \in Row
        /\ "failed" \in TRIAGE_SETTLED_CANDIDATE_STATUSES
    BY ClosingRows DEF TypeOK, Closing, TRIAGE_SETTLED_CANDIDATE_STATUSES
  <2>2. updated(jobs[j], failedRow(jobs[j])) \in Row
    BY <2>1, UpdatedType
  <2>3. finishedEvent(j, "failed") \in Timeline
    BY <2>1, EventTypes
  <2>4. jobs' \in [Jobs -> Row] /\ timeline' \in [Jobs -> Timeline] /\ faults' \in Nat
    BY <1>27, <2>2, <2>3, CommitTypes DEF FailOwned
  <2>5. task' \in [Servers -> [Jobs -> Task]]
    BY <1>27, MoveTaskType DEF FailOwned
  <2> QED BY <1>27, <2>4, <2>5 DEF FailOwned, TypeOK
<1>28. ASSUME NEW s \in Servers, ListQueued(s)
      PROVE  TypeOK'
  <2>1. [pending[s] EXCEPT !.queued = {j \in Jobs : jobs[j].status = "queued"}] \in Pending
    BY DEF TypeOK, Pending
  <2>2. pending' \in [Servers -> Pending]
    BY <1>28, <2>1 DEF ListQueued, TypeOK
  <2> QED BY <1>28, <2>2 DEF ListQueued, TypeOK
<1>29. ASSUME NEW s \in Servers, ListStaleRunning(s)
      PROVE  TypeOK'
  <2> DEFINE stale == [j \in Jobs |-> IF triageRunningLeaseExpired(jobs[j], Skew[s])
                                    THEN jobs[j] ELSE absentJob]
  <2>1. stale \in [Jobs -> Row]
    BY NewRowTypes DEF TypeOK
  <2>2. [pending[s] EXCEPT !.stale = stale] \in Pending
    <3>1. pending[s] \in Pending
      BY DEF TypeOK
    <3> HIDE DEF stale
    <3> QED BY <2>1, <3>1 DEF Pending
  <2>3. pending' = [pending EXCEPT ![s] = [pending[s] EXCEPT !.stale = stale]]
    BY <1>29 DEF ListStaleRunning
  <2>4. pending' \in [Servers -> Pending]
    <3> HIDE DEF stale
    <3> QED BY <2>2, <2>3 DEF TypeOK
  <2> QED BY <1>29, <2>4 DEF ListStaleRunning, TypeOK
<1>30. ASSUME NEW s \in Servers, NEW j \in Jobs, RecoverStale(s, j)
      PROVE  TypeOK'
  <2> DEFINE next == recoveredRow(pending[s].stale[j])
  <2>1. pending[s] \in Pending /\ pending[s].stale \in [Jobs -> Row]
    BY DEF TypeOK, Pending
  <2>2. Closing(next)
    BY <2>1, ClosingRows
  <2>3. next \in Row /\ next.status \in TRIAGE_SETTLED_CANDIDATE_STATUSES
    BY <2>2 DEF Closing, isTerminal, isTriageSettledStatus
  <2>4. finishedEvent(j, next.status) \in Timeline
    BY <2>3, EventTypes
  <2>5. jobs' \in [Jobs -> Row] /\ timeline' \in [Jobs -> Timeline] /\ faults' \in Nat
    BY <1>30, <2>3, <2>4, CommitTypes DEF RecoverStale
  <2>6. noPending \in Pending /\ [pending[s] EXCEPT !.stale[j] = absentJob] \in Pending
    <3>1. [pending[s].stale EXCEPT ![j] = absentJob] \in [Jobs -> Row]
      BY <2>1, NewRowTypes
    <3>2. [pending[s] EXCEPT !.stale = [pending[s].stale EXCEPT ![j] = absentJob]] \in Pending
      BY <2>1, <3>1 DEF Pending
    <3> QED BY <3>2, NewRowTypes DEF noPending, Pending
  <2>7. pending' \in [Servers -> Pending]
    BY <1>30, <2>6 DEF RecoverStale, TypeOK
  <2>8. server' \in [Servers -> {"off", "listing", "recovering", "up", "failed", "dead"}]
    BY <1>30 DEF RecoverStale, TypeOK
  <2> QED BY <1>30, <2>5, <2>7, <2>8 DEF RecoverStale, TypeOK
<1>31. ASSUME NEW s \in Servers, Listen(s)
      PROVE  TypeOK'
  BY <1>31 DEF Listen, TypeOK
<1>32. ASSUME NEW s \in Servers, Crash(s)
      PROVE  TypeOK'
  <2>1. noPending \in Pending
    BY NewRowTypes DEF noPending, Pending
  <2>2. [j \in Jobs |-> newTask("none")] \in [Jobs -> Task]
    BY TaskTypes
  <2>3. pending' \in [Servers -> Pending] /\ task' \in [Servers -> [Jobs -> Task]]
    BY <1>32, <2>1, <2>2 DEF Crash, TypeOK
  <2>4. \A c \in Cancels : answered(cancels[c]) \in Cancel
    BY NewRowTypes DEF TypeOK, answered, Cancel
  <2>5. cancels' \in [Cancels -> Cancel]
    BY <1>32, <2>4 DEF Crash, TypeOK
  <2>6. \A j \in Jobs : [launches[j] EXCEPT !.pc = "done"] \in Launch
    BY DEF TypeOK, Launch
  <2>7. launches' \in [Jobs -> Launch]
    BY <1>32, <2>6 DEF Crash, TypeOK
  <2>8. server' \in [Servers -> {"off", "listing", "recovering", "up", "failed", "dead"}]
    BY <1>32 DEF Crash, TypeOK
  <2> QED BY <1>32, <2>3, <2>5, <2>7, <2>8 DEF Crash, TypeOK
<1>33. ASSUME Tick
      PROVE  TypeOK'
  <2>1. jobs' \in [Jobs -> Row]
    BY <1>33, OpenRows DEF Tick, TypeOK
  <2>2. ASSUME NEW t \in Task
        PROVE  [t EXCEPT !.write.row = aged(@)] \in Task
    <3>1. t.write \in Write /\ t.write.row \in Row
      BY DEF Task, Write
    <3>2. [t.write EXCEPT !.row = aged(t.write.row)] \in Write
      BY <3>1, OpenRows DEF Write
    <3>3. [t EXCEPT !.write.row = aged(@)] = [t EXCEPT !.write = [t.write EXCEPT !.row = aged(t.write.row)]]
      OBVIOUS
    <3> QED BY <3>2, <3>3, TaskUpdates
  <2>3. task' \in [Servers -> [Jobs -> Task]]
    BY <1>33, <2>2 DEF Tick, TypeOK
  <2> QED BY <1>33, <2>1, <2>3 DEF Tick, TypeOK
<1>34. ASSUME NEW j \in Jobs, Revoke(j)
      PROVE  TypeOK'
  BY <1>34 DEF Revoke, TypeOK
<1> QED
  BY <1>1, <1>2, <1>3, <1>4, <1>5, <1>6, <1>7, <1>8, <1>9, <1>10, <1>11, <1>12, <1>13, <1>14, <1>15, <1>16, <1>17, <1>18, <1>19, <1>20, <1>21, <1>22, <1>23, <1>24, <1>25, <1>26, <1>27, <1>28, <1>29, <1>30, <1>31, <1>32, <1>33, <1>34
  DEF Next, Executing, Recovering

\* Type correctness: the records, events, tasks and requests keep their shape.
THEOREM TypeCorrect == Spec => []TypeOK
<1>1. TypeOK /\ [Next]_vars => TypeOK'
  <2>1. TypeOK /\ UNCHANGED vars => TypeOK'
    BY DEF TypeOK, vars
  <2> QED BY <2>1, StepTypes
<1> QED BY <1>1, InitTypes, PTL DEF Spec

-----------------------------------------------------------------------------
\* Closing.  The proof that a job is closed once goes through what one step may
\* do to one job, JobStep, and the facts that make each transaction such a step.

\* An open job moves on; its closing events stay as they are.
Moves(j) ==
  /\ \/ /\ jobs[j].status = "absent" /\ launches'[j].pc = "done"
        /\ jobs'[j].status = "queued" /\ jobs'[j].lease = NoLease
     \/ jobs[j].status \in {"queued", "running"} /\ jobs'[j].status = "running"
  /\ timeline'[j].finished = timeline[j].finished
  /\ timeline'[j].cancelRequested = timeline[j].cancelRequested

\* An open job closes, with one closing event in the same transaction.
Closes(j) ==
  /\ jobs[j].status \in {"queued", "running"}
  /\ isTerminal(jobs'[j].status) /\ jobs'[j].lease = NoLease
  /\ \/ /\ timeline'[j].finished = timeline[j].finished + 1
        /\ timeline'[j].cancelRequested = timeline[j].cancelRequested
        /\ timeline'[j].outcome = jobs'[j].status
     \/ /\ timeline'[j].finished = timeline[j].finished
        /\ timeline'[j].cancelRequested = timeline[j].cancelRequested + 1

JobStep(j) == \/ jobs'[j] = jobs[j] /\ timeline'[j] = timeline[j]
              \/ Moves(j)
              \/ Closes(j)

\* What the transactions rely on.  A launch that has not inserted has no job; a
\* job that does not run has no lease; past its claim a worker's job is not queued; a lane
\* write was read from a claimed row, and from an open one unless the job has
\* closed since; a cancel carries a closing row.
LaunchFresh == \A j \in Jobs : launches[j].pc # "done" => jobs[j].status = "absent"

LeaseReleased == \A j \in Jobs : jobs[j].status # "running" => jobs[j].lease = NoLease

WorkerClaimed ==
  \A s \in Servers, j \in Jobs :
    task[s][j].pc \in {"refuse", "prepare", "batch", "sweep", "final", "fail"}
      => jobs[j].status \notin {"absent", "queued"}

WritePrepared ==
  \A s \in Servers, j \in Jobs :
    task[s][j].write.active =>
      /\ task[s][j].pc \in {"batch", "sweep"}
      /\ task[s][j].write.row.status \notin {"absent", "queued"}
      /\ isTerminal(task[s][j].write.row.status) => isTerminal(jobs[j].status)

CancelPrepared == \A c \in Cancels : cancels[c].pc = "read" => Closing(cancels[c].row)

Prepared == LaunchFresh /\ LeaseReleased /\ WorkerClaimed /\ WritePrepared /\ CancelPrepared

\* The inductive invariant.
IInv == TypeOK /\ Prepared /\ ClosedOnce /\ OutcomePublished

\* A transaction that closes an open job is such a step.
LEMMA ClosingCommit ==
  ASSUME TypeOK, NEW j \in Jobs, NEW row, Closing(row), NEW events \in Timeline,
         NEW allowed, allowed => jobs[j].status \in {"queued", "running"},
         NEW o \in CommitOutcomes(allowed), Commit(o, j, row, events),
         \/ /\ events.finished = timeline[j].finished + 1
            /\ events.cancelRequested = timeline[j].cancelRequested
            /\ events.outcome = row.status
         \/ /\ events.finished = timeline[j].finished
            /\ events.cancelRequested = timeline[j].cancelRequested + 1
  PROVE  \A k \in Jobs : JobStep(k)
<1> SUFFICES ASSUME NEW k \in Jobs PROVE JobStep(k)
  OBVIOUS
<1>1. CASE ~landed(o) \/ k # j
  BY <1>1 DEF Commit, TypeOK, JobStep
<1>2. CASE landed(o) /\ k = j
  <2>1. allowed
    BY <1>2 DEF CommitOutcomes, landed
  <2>2. jobs'[j] = row /\ timeline'[j] = events
    BY <1>2 DEF Commit, TypeOK
  <2>3. Closes(j)
    BY <2>1, <2>2 DEF Closes, Closing
  <2> QED BY <1>2, <2>3 DEF JobStep
<1> QED BY <1>1, <1>2

\* A closing row that goes through update().
LEMMA ClosingUpdate ==
  ASSUME TypeOK, NEW j \in Jobs, NEW row, Closing(row), updatable(jobs[j], row)
  PROVE  jobs[j].status \in {"queued", "running"}
  BY DEF updatable, triageWorkerHoldsLiveLease

\* update() writes a closing row as it is.
LEMMA ClosingUpdated ==
  ASSUME TypeOK, NEW j \in Jobs, NEW row, Closing(row)
  PROVE  updated(jobs[j], row) = row
<1>1. row.status # "running"
  BY DEF Closing, isTerminal, isTriageSettledStatus, TRIAGE_SETTLED_CANDIDATE_STATUSES,
         TRIAGE_PRODUCING_CANDIDATE_STATUSES
<1> QED BY <1>1, UpdatedType DEF TypeOK, Closing

\* persistJobFinished and the cancel event.
LEMMA ClosingEvents ==
  ASSUME TypeOK, NEW j \in Jobs, NEW status \in TRIAGE_SETTLED_CANDIDATE_STATUSES
  PROVE  /\ finishedEvent(j, status) \in Timeline
         /\ finishedEvent(j, status).finished = timeline[j].finished + 1
         /\ finishedEvent(j, status).cancelRequested = timeline[j].cancelRequested
         /\ finishedEvent(j, status).outcome = status
<1>1. finishedEvent(j, status) \in Timeline /\ timeline[j] \in Timeline
  BY EventTypes
<1>2. /\ finishedEvent(j, status).finished = timeline[j].finished + 1
      /\ finishedEvent(j, status).cancelRequested = timeline[j].cancelRequested
      /\ finishedEvent(j, status).outcome = status
  BY <1>1 DEF finishedEvent, Timeline
<1> QED BY <1>1, <1>2

\* A lane's event is not a closing event.
LEMMA ReportEvents ==
  ASSUME NEW e \in Timeline, NEW l \in Lanes, NEW status
  PROVE  /\ [e EXCEPT !.reports[l] = @ + 1, !.reported[l] = status].finished = e.finished
         /\ [e EXCEPT !.reports[l] = @ + 1, !.reported[l] = status].cancelRequested = e.cancelRequested
<1> DEFINE counts == [e.reports EXCEPT ![l] = @ + 1]
           verdicts == [e.reported EXCEPT ![l] = status]
<1>1. [e EXCEPT !.reports[l] = @ + 1, !.reported[l] = status]
        = [e EXCEPT !.reports = counts, !.reported = verdicts]
  BY DEF Timeline
<1>2. /\ [e EXCEPT !.reports = counts, !.reported = verdicts].finished = e.finished
      /\ [e EXCEPT !.reports = counts, !.reported = verdicts].cancelRequested = e.cancelRequested
  <2> HIDE DEF counts, verdicts
  <2> QED BY DEF Timeline
<1> QED BY <1>1, <1>2

\* A closing row written through update() together with persistJobFinished.
LEMMA ClosingFinish ==
  ASSUME TypeOK, NEW j \in Jobs, NEW row, Closing(row),
         NEW o \in CommitOutcomes(updatable(jobs[j], row)),
         Commit(o, j, updated(jobs[j], row), finishedEvent(j, row.status))
  PROVE  \A k \in Jobs : JobStep(k)
<1>1. updated(jobs[j], row) = row
  BY ClosingUpdated
<1>2. updatable(jobs[j], row) => jobs[j].status \in {"queued", "running"}
  BY ClosingUpdate
<1>3. row.status \in TRIAGE_SETTLED_CANDIDATE_STATUSES
  BY DEF Closing, isTerminal, isTriageSettledStatus
<1>4. Commit(o, j, row, finishedEvent(j, row.status))
  BY <1>1
<1> QED BY <1>2, <1>3, <1>4, ClosingCommit, ClosingEvents

\* Every step treats every job so.
LEMMA StepJobs ==
  ASSUME TypeOK, Prepared, Next
  PROVE  \A k \in Jobs : JobStep(k)
<1>q. ASSUME UNCHANGED <<jobs, timeline>>
      PROVE  \A k \in Jobs : JobStep(k)
  BY <1>q DEF JobStep
<1>1. ASSUME NEW s \in Servers, NEW j \in Jobs,
             \/ ClaimMissed(s, j) \/ Prepare(s, j) \/ PrepareFails(s, j) \/ BatchReturns(s, j)
             \/ BatchFails(s, j) \/ LeaseLostReturn(s, j) \/ SweepDone(s, j) \/ MockDone(s, j)
             \/ FinishNotOwned(s, j) \/ FailNotOwned(s, j) \/ RecoverResume(s, j) \/ Resume(s, j)
             \/ \E l \in Lanes : CandidateStarted(s, j, l) \/ CandidateFinished(s, j, l) \/ MockStart(s, j, l)
      PROVE  UNCHANGED <<jobs, timeline>>
  BY <1>1 DEF ClaimMissed, Prepare, PrepareFails, BatchReturns, BatchFails, LeaseLostReturn,
              SweepDone, MockDone, FinishNotOwned, FailNotOwned, RecoverResume, Resume,
              CandidateStarted, CandidateFinished, MockStart, storeUnchanged
<1>2. ASSUME NEW s \in Servers, ListQueued(s) \/ ListStaleRunning(s) \/ Listen(s) \/ Crash(s)
      PROVE  UNCHANGED <<jobs, timeline>>
  BY <1>2 DEF ListQueued, ListStaleRunning, Listen, Crash
<1>3. ASSUME NEW j \in Jobs, Revoke(j)
      PROVE  UNCHANGED <<jobs, timeline>>
  BY <1>3 DEF Revoke
<1>4. ASSUME NEW j \in Jobs, CreateInsert(j)
      PROVE  \A k \in Jobs : JobStep(k)
  <2> SUFFICES ASSUME NEW k \in Jobs PROVE JobStep(k)
    OBVIOUS
  <2>1. PICK o \in CommitOutcomes(TRUE) :
          Commit(o, j, queuedJob(launches[j].attempt, launches[j].mode),
                 [timeline[j] EXCEPT !.created = @ + 1])
    BY <1>4 DEF CreateInsert
  <2>2. CASE k # j \/ ~landed(o)
    BY <2>1, <2>2 DEF Commit, TypeOK, JobStep
  <2>3. CASE k = j /\ landed(o)
    <3>1. jobs[j].status = "absent" /\ launches'[j].pc = "done"
      BY <1>4 DEF CreateInsert, Prepared, LaunchFresh, TypeOK, Launch
    <3>2. /\ jobs'[j] = queuedJob(launches[j].attempt, launches[j].mode)
          /\ timeline'[j] = [timeline[j] EXCEPT !.created = @ + 1]
      BY <2>1, <2>3 DEF Commit, TypeOK
    <3>3. jobs'[j].status = "queued" /\ jobs'[j].lease = NoLease
      BY <3>2 DEF queuedJob
    <3>4. /\ timeline'[j].finished = timeline[j].finished
          /\ timeline'[j].cancelRequested = timeline[j].cancelRequested
      BY <3>2, EventTypes DEF Timeline
    <3> QED BY <2>3, <3>1, <3>3, <3>4 DEF JobStep, Moves
  <2> QED BY <2>2, <2>3
<1>5. ASSUME NEW s \in Servers, NEW j \in Jobs, Claim(s, j)
      PROVE  \A k \in Jobs : JobStep(k)
  <2> SUFFICES ASSUME NEW k \in Jobs PROVE JobStep(k)
    OBVIOUS
  <2>1. PICK o \in CommitOutcomes(TRUE) :
          Commit(o, j, claimed(jobs[j], WorkerId[s], Lease + Skew[s]), startedEvent(j))
    BY <1>5 DEF Claim
  <2>2. CASE k # j \/ ~landed(o)
    BY <2>1, <2>2 DEF Commit, TypeOK, JobStep
  <2>3. CASE k = j /\ landed(o)
    <3>1. jobs'[j] = claimed(jobs[j], WorkerId[s], Lease + Skew[s]) /\ timeline'[j] = startedEvent(j)
      BY <2>1, <2>3 DEF Commit, TypeOK
    <3>2. jobs[j].status = "queued" /\ jobs'[j].status = "running"
      BY <1>5, <3>1 DEF Claim, claimable, claimed, TypeOK, Row
    <3>3. /\ timeline'[j].finished = timeline[j].finished
          /\ timeline'[j].cancelRequested = timeline[j].cancelRequested
      BY <3>1, EventTypes DEF startedEvent, Timeline
    <3> QED BY <2>3, <3>2, <3>3 DEF JobStep, Moves
  <2> QED BY <2>2, <2>3
<1>6. ASSUME NEW s \in Servers, NEW j \in Jobs, Heartbeat(s, j)
      PROVE  \A k \in Jobs : JobStep(k)
  <2> SUFFICES ASSUME NEW k \in Jobs PROVE JobStep(k)
    OBVIOUS
  <2>1. PICK o \in CommitOutcomes(renewable(jobs[j], WorkerId[s])) :
          Commit(o, j, [jobs[j] EXCEPT !.lease = Lease + Skew[s]], timeline[j])
    BY <1>6 DEF Heartbeat
  <2>2. CASE k # j \/ ~landed(o)
    BY <2>1, <2>2 DEF Commit, TypeOK, JobStep
  <2>3. CASE k = j /\ landed(o)
    <3>1. jobs'[j] = [jobs[j] EXCEPT !.lease = Lease + Skew[s]] /\ timeline'[j] = timeline[j]
      BY <2>1, <2>3 DEF Commit, TypeOK
    <3>2. renewable(jobs[j], WorkerId[s])
      BY <2>1, <2>3 DEF CommitOutcomes, landed
    <3>3. jobs[j].status = "running" /\ jobs'[j].status = "running"
      BY <3>1, <3>2 DEF renewable, triageWorkerHoldsLiveLease, TypeOK, Row
    <3> QED BY <2>3, <3>1, <3>3 DEF JobStep, Moves
  <2> QED BY <2>2, <2>3
<1>7. ASSUME NEW s \in Servers, NEW j \in Jobs, CommitLane(s, j)
      PROVE  \A k \in Jobs : JobStep(k)
  <2> SUFFICES ASSUME NEW k \in Jobs PROVE JobStep(k)
    OBVIOUS
  <2> DEFINE t == task[s][j]
  <2>1. /\ jobs[j] \in Row /\ t \in Task /\ t.aborted \in BOOLEAN /\ t.write.row \in Row
        /\ t.write.lane \in Lanes /\ t.write.status \in TRIAGE_JOB_STATUSES /\ t.write.active
    BY <1>7 DEF CommitLane, TypeOK, Task, Write
  <2>2. PICK sawAbort \in {FALSE, t.aborted} :
          \E o \in CommitOutcomes(updatable(jobs[j], writtenRow(t, sawAbort))) :
            Commit(o, j, updated(jobs[j], writtenRow(t, sawAbort)),
                   reportEvent(j, t.write.lane, t.write.status))
    BY <1>7 DEF CommitLane
  <2>3. PICK o \in CommitOutcomes(updatable(jobs[j], writtenRow(t, sawAbort))) :
          Commit(o, j, updated(jobs[j], writtenRow(t, sawAbort)),
                 reportEvent(j, t.write.lane, t.write.status))
    BY <2>2
  <2> HIDE DEF t
  <2>4. CASE k # j \/ ~landed(o)
    BY <2>3, <2>4 DEF Commit, TypeOK, JobStep
  <2>5. CASE k = j /\ landed(o)
    <3> DEFINE row == writtenRow(t, sawAbort)
    <3>1. row \in Row /\ row.status = t.write.row.status
      BY <2>1, LaneRows
    <3>2. updatable(jobs[j], row)
      BY <2>3, <2>5 DEF CommitOutcomes, landed
    <3>3. /\ jobs'[j] = updated(jobs[j], row)
          /\ timeline'[j] = reportEvent(j, t.write.lane, t.write.status)
      BY <2>3, <2>5 DEF Commit, TypeOK
    <3> HIDE DEF row
    <3>4. jobs[j].status \notin {"absent", "queued"}
      BY <2>1 DEF t, Prepared, WorkerClaimed, WritePrepared
    <3>5. jobs[j].status = "running"
      BY <3>2, <3>4 DEF updatable, triageWorkerHoldsLiveLease
    <3>6. row.status = "running"
      BY <2>1, <3>1, <3>5 DEF t, Prepared, WritePrepared, Row, isTerminal, isTriageSettledStatus,
        TRIAGE_JOB_STATUSES, TRIAGE_SETTLED_CANDIDATE_STATUSES, TRIAGE_PRODUCING_CANDIDATE_STATUSES
    <3>7. jobs'[j].status = "running"
      BY <2>1, <3>1, <3>3, <3>6, UpdatedType
    <3>8. /\ timeline'[j].finished = timeline[j].finished
          /\ timeline'[j].cancelRequested = timeline[j].cancelRequested
      <4>1. timeline[j] \in Timeline
        BY EventTypes
      <4>2. \A l \in Lanes, status \in TRIAGE_JOB_STATUSES :
              /\ reportEvent(j, l, status).finished = timeline[j].finished
              /\ reportEvent(j, l, status).cancelRequested = timeline[j].cancelRequested
        BY <4>1, ReportEvents DEF reportEvent
      <4> QED BY <2>1, <3>3, <4>2
    <3> QED BY <2>5, <3>5, <3>7, <3>8 DEF JobStep, Moves
  <2> QED BY <2>4, <2>5
<1>8. ASSUME NEW s \in Servers, NEW j \in Jobs, RefuseClaimed(s, j)
      PROVE  \A k \in Jobs : JobStep(k)
  <2> DEFINE next == refusedRow([jobs[j] EXCEPT !.worker = WorkerId[s]])
  <2>1. Closing(next) /\ next.status = "failed"
    <3>1. [jobs[j] EXCEPT !.worker = WorkerId[s]] \in Row
      BY ConstantsAssumption, OpenRows DEF TypeOK
    <3> QED BY <3>1, ClosingRows
  <2>2. PICK o \in CommitOutcomes(updatable(jobs[j], next)) :
          Commit(o, j, updated(jobs[j], next), finishedEvent(j, "failed"))
    BY <1>8 DEF RefuseClaimed
  <2> HIDE DEF next
  <2>3. Commit(o, j, updated(jobs[j], next), finishedEvent(j, next.status))
    BY <2>1, <2>2
  <2> QED BY <2>1, <2>2, <2>3, ClosingFinish
<1>9. ASSUME NEW s \in Servers, NEW j \in Jobs, ResumeRefuse(s, j)
      PROVE  \A k \in Jobs : JobStep(k)
  <2> DEFINE next == refusedRow([jobs[j] EXCEPT !.worker = NoWorker])
  <2>1. Closing(next) /\ next.status = "failed"
    <3>1. [jobs[j] EXCEPT !.worker = NoWorker] \in Row
      BY ConstantsAssumption, OpenRows DEF TypeOK
    <3> QED BY <3>1, ClosingRows
  <2>2. PICK o \in CommitOutcomes(updatable(jobs[j], next)) :
          Commit(o, j, updated(jobs[j], next), finishedEvent(j, "failed"))
    BY <1>9 DEF ResumeRefuse
  <2> HIDE DEF next
  <2>3. Commit(o, j, updated(jobs[j], next), finishedEvent(j, next.status))
    BY <2>1, <2>2
  <2> QED BY <2>1, <2>2, <2>3, ClosingFinish
<1>10. ASSUME NEW s \in Servers, NEW j \in Jobs, RecoverRefuse(s, j)
      PROVE  \A k \in Jobs : JobStep(k)
  <2> DEFINE next == refusedRow([jobs[j] EXCEPT !.worker = NoWorker])
  <2>1. Closing(next) /\ next.status = "failed"
    <3>1. [jobs[j] EXCEPT !.worker = NoWorker] \in Row
      BY ConstantsAssumption, OpenRows DEF TypeOK
    <3> QED BY <3>1, ClosingRows
  <2>2. PICK o \in CommitOutcomes(updatable(jobs[j], next)) :
          Commit(o, j, updated(jobs[j], next), finishedEvent(j, "failed"))
    BY <1>10 DEF RecoverRefuse
  <2> HIDE DEF next
  <2>3. Commit(o, j, updated(jobs[j], next), finishedEvent(j, next.status))
    BY <2>1, <2>2
  <2> QED BY <2>1, <2>2, <2>3, ClosingFinish
<1>11. ASSUME NEW s \in Servers, NEW j \in Jobs, Finish(s, j)
      PROVE  \A k \in Jobs : JobStep(k)
  <2> DEFINE next == finishedRow(jobs[j])
  <2>1. Closing(next)
    BY ClosingRows DEF TypeOK
  <2>2. PICK o \in CommitOutcomes(updatable(jobs[j], next)) :
          Commit(o, j, updated(jobs[j], next), finishedEvent(j, next.status))
    BY <1>11 DEF Finish
  <2> HIDE DEF next
  <2>3. Commit(o, j, updated(jobs[j], next), finishedEvent(j, next.status))
    BY <2>1, <2>2
  <2> QED BY <2>1, <2>2, <2>3, ClosingFinish
<1>12. ASSUME NEW s \in Servers, NEW j \in Jobs, FailOwned(s, j)
      PROVE  \A k \in Jobs : JobStep(k)
  <2> DEFINE next == failedRow(jobs[j])
  <2>1. Closing(next) /\ next.status = "failed"
    BY ClosingRows DEF TypeOK
  <2>2. PICK o \in CommitOutcomes(updatable(jobs[j], next)) :
          Commit(o, j, updated(jobs[j], next), finishedEvent(j, "failed"))
    BY <1>12 DEF FailOwned
  <2> HIDE DEF next
  <2>3. Commit(o, j, updated(jobs[j], next), finishedEvent(j, next.status))
    BY <2>1, <2>2
  <2> QED BY <2>1, <2>2, <2>3, ClosingFinish
<1>13. ASSUME NEW s \in Servers, NEW j \in Jobs, RecoverStale(s, j)
      PROVE  \A k \in Jobs : JobStep(k)
  <2> DEFINE next == recoveredRow(pending[s].stale[j])
             allowed == recoverable(jobs[j], next, Skew[s])
  <2>1. Closing(next)
    BY ClosingRows DEF TypeOK, Pending
  <2>2. PICK o \in CommitOutcomes(allowed) : Commit(o, j, next, finishedEvent(j, next.status))
    BY <1>13 DEF RecoverStale
  <2>3. allowed => jobs[j].status \in {"queued", "running"}
    BY DEF recoverable, triageRunningLeaseExpired
  <2>4. next.status \in TRIAGE_SETTLED_CANDIDATE_STATUSES
    BY <2>1 DEF Closing, isTerminal, isTriageSettledStatus
  <2> HIDE DEF next, allowed
  <2> QED BY <2>1, <2>2, <2>3, <2>4, ClosingCommit, ClosingEvents
<1>14. ASSUME NEW c \in Cancels, CancelCommit(c)
      PROVE  \A k \in Jobs : JobStep(k)
  <2> DEFINE j == cancels[c].job
             next == cancels[c].row
             events == [timeline[j] EXCEPT !.cancelRequested = @ + 1]
  <2>1. j \in Jobs /\ Closing(next)
    BY <1>14 DEF CancelCommit, Prepared, CancelPrepared, TypeOK, Cancel
  <2>2. PICK o \in CommitOutcomes(updatable(jobs[j], next)) :
          Commit(o, j, updated(jobs[j], next), events)
    BY <1>14 DEF CancelCommit
  <2>3. /\ events \in Timeline
        /\ events.finished = timeline[j].finished
        /\ events.cancelRequested = timeline[j].cancelRequested + 1
    BY <2>1, EventTypes DEF Timeline
  <2> HIDE DEF j, next, events
  <2>4. Commit(o, j, next, events)
    BY <2>1, <2>2, ClosingUpdated
  <2>5. updatable(jobs[j], next) => jobs[j].status \in {"queued", "running"}
    BY <2>1, ClosingUpdate
  <2> QED BY <2>1, <2>2, <2>3, <2>4, <2>5, ClosingCommit
<1>15. ASSUME Tick
      PROVE  \A k \in Jobs : JobStep(k)
  <2> SUFFICES ASSUME NEW k \in Jobs PROVE JobStep(k)
    OBVIOUS
  <2>1. jobs[k] \in Row /\ jobs'[k] = aged(jobs[k]) /\ timeline'[k] = timeline[k]
    BY <1>15 DEF Tick, TypeOK
  <2>2. CASE jobs[k].status = "running"
    <3>1. jobs'[k].status = "running"
      BY <2>1, <2>2 DEF aged, Row
    <3> QED BY <2>1, <2>2, <3>1 DEF JobStep, Moves
  <2>3. CASE jobs[k].status # "running"
    <3>1. jobs[k].lease = NoLease
      BY <2>3 DEF Prepared, LeaseReleased
    <3>2. aged(jobs[k]) = jobs[k]
      BY <2>1, <3>1 DEF aged, Row, NoLease
    <3> QED BY <2>1, <3>2 DEF JobStep
  <2> QED BY <2>2, <2>3
<1>16. ASSUME NEW s \in Servers, NEW j \in Jobs, NEW a \in Attempts, NEW m \in Modes,
              CreateCheck(s, j, a, m)
       PROVE  UNCHANGED <<jobs, timeline>>
  BY <1>16 DEF CreateCheck
<1>17. ASSUME NEW c \in Cancels, NEW s \in Servers, NEW j \in Jobs, CancelRead(c, s, j)
       PROVE  UNCHANGED <<jobs, timeline>>
  BY <1>17 DEF CancelRead
<1> QED
  BY <1>q, <1>1, <1>2, <1>3, <1>4, <1>5, <1>6, <1>7, <1>8, <1>9, <1>10, <1>11, <1>12, <1>13,
     <1>14, <1>15, <1>16, <1>17
  DEF Next, Executing, Recovering

\* Launches only move towards their end, and pending cancels carry closing rows.
LEMMA StepRequests ==
  ASSUME TypeOK, CancelPrepared, Next
  PROVE  /\ \A j \in Jobs : launches'[j].pc # "done" => launches[j].pc # "done"
         /\ CancelPrepared'
<1>u. ASSUME UNCHANGED <<launches, cancels>>
      PROVE  /\ \A j \in Jobs : launches'[j].pc # "done" => launches[j].pc # "done"
             /\ CancelPrepared'
  BY <1>u DEF CancelPrepared
<1>1. ASSUME NEW s \in Servers, NEW j \in Jobs, Executing(s, j) \/ Heartbeat(s, j)
      PROVE  UNCHANGED <<launches, cancels>>
  BY <1>1 DEF Executing, Heartbeat, Claim, ClaimMissed, RefuseClaimed, Prepare, PrepareFails,
              CandidateStarted, CandidateFinished, MockStart, CommitLane, BatchReturns,
              BatchFails, LeaseLostReturn, SweepDone, MockDone, Finish, FinishNotOwned,
              FailOwned, FailNotOwned, Resume, ResumeRefuse, storeUnchanged
<1>2. ASSUME NEW s \in Servers, ListQueued(s) \/ Recovering(s)
      PROVE  UNCHANGED <<launches, cancels>>
  BY <1>2 DEF ListQueued, Recovering, ListStaleRunning, Listen, RecoverResume, RecoverRefuse, RecoverStale
<1>3. ASSUME Tick \/ \E j \in Jobs : Revoke(j)
      PROVE  UNCHANGED <<launches, cancels>>
  BY <1>3 DEF Tick, Revoke
<1>4. ASSUME NEW s \in Servers, NEW j \in Jobs, NEW a \in Attempts, NEW m \in Modes,
             CreateCheck(s, j, a, m)
      PROVE  /\ \A k \in Jobs : launches'[k].pc # "done" => launches[k].pc # "done"
             /\ CancelPrepared'
  BY <1>4 DEF CreateCheck, CancelPrepared, TypeOK
<1>5. ASSUME NEW j \in Jobs, CreateInsert(j)
      PROVE  /\ \A k \in Jobs : launches'[k].pc # "done" => launches[k].pc # "done"
             /\ CancelPrepared'
  <2>1. UNCHANGED cancels /\ launches' = [launches EXCEPT ![j].pc = "done"]
    BY <1>5 DEF CreateInsert
  <2>2. \A k \in Jobs : launches'[k].pc # "done" => launches[k].pc # "done"
    BY <2>1 DEF TypeOK, Launch
  <2> QED BY <2>1, <2>2 DEF CancelPrepared
<1>6. ASSUME NEW c \in Cancels, NEW s \in Servers, NEW j \in Jobs, CancelRead(c, s, j)
      PROVE  /\ \A k \in Jobs : launches'[k].pc # "done" => launches[k].pc # "done"
             /\ CancelPrepared'
  <2>1. Closing(cancelledRow(jobs[j]))
    BY ClosingRows DEF TypeOK
  <2> QED BY <1>6, <2>1 DEF CancelRead, CancelPrepared, TypeOK
<1>7. ASSUME NEW c \in Cancels, CancelCommit(c)
      PROVE  /\ \A k \in Jobs : launches'[k].pc # "done" => launches[k].pc # "done"
             /\ CancelPrepared'
  <2>1. UNCHANGED launches /\ cancels' = [cancels EXCEPT ![c] = answered(cancels[c])]
    BY <1>7 DEF CancelCommit
  <2>2. answered(cancels[c]).pc = "done"
    BY DEF TypeOK, answered, Cancel
  <2> QED BY <2>1, <2>2 DEF CancelPrepared, TypeOK
<1>8. ASSUME NEW s \in Servers, Crash(s)
      PROVE  /\ \A k \in Jobs : launches'[k].pc # "done" => launches[k].pc # "done"
             /\ CancelPrepared'
  <2>1. \A c \in Cancels : answered(cancels[c]).pc = "done"
    BY DEF TypeOK, answered, Cancel
  <2>2. \A c \in Cancels : cancels'[c] \in {cancels[c], answered(cancels[c])}
    BY <1>8 DEF Crash
  <2>3. CancelPrepared'
    BY <2>1, <2>2 DEF CancelPrepared
  <2>4. \A k \in Jobs : launches'[k].pc # "done" => launches[k].pc # "done"
    BY <1>8 DEF Crash, TypeOK, Launch
  <2> QED BY <2>3, <2>4
<1> QED
  BY <1>u, <1>1, <1>2, <1>3, <1>4, <1>5, <1>6, <1>7, <1>8 DEF Next

\* What one step may do to one task: it enters the part of execute() after the
\* claim only with the job running, and prepares a write only there, from the row
\* of that moment.
Working == {"refuse", "prepare", "batch", "sweep", "final", "fail"}

TaskStep(s, j) ==
  /\ task'[s][j].pc \in Working => task[s][j].pc \in Working \/ jobs'[j].status = "running"
  /\ task'[s][j].write.active =>
       /\ task'[s][j].pc \in {"batch", "sweep"}
       /\ \/ task[s][j].write.active /\ task'[s][j].write.row.status = task[s][j].write.row.status
          \/ task[s][j].pc \in {"batch", "sweep"} /\ task'[s][j].write.row = jobs[j]

\* Moving a task that has no write in flight.
LEMMA MovedTask ==
  ASSUME TypeOK, WritePrepared, NEW s \in Servers, NEW j \in Jobs, NEW pc, moveTask(s, j, pc),
         ~task[s][j].write.active,
         pc \in Working => task[s][j].pc \in Working \/ jobs'[j].status = "running"
  PROVE  \A r \in Servers, k \in Jobs : TaskStep(r, k)
<1> SUFFICES ASSUME NEW r \in Servers, NEW k \in Jobs PROVE TaskStep(r, k)
  OBVIOUS
<1>1. CASE r # s \/ k # j
  BY <1>1 DEF moveTask, TypeOK, TaskStep, WritePrepared
<1>2. CASE r = s /\ k = j
  <2>1. task'[s][j] = IF pc = "done" THEN newTask("done") ELSE [task[s][j] EXCEPT !.pc = pc]
    BY DEF moveTask, TypeOK
  <2>2. ~newTask("done").write.active /\ newTask("done").pc \notin Working
    BY DEF newTask, noWrite, Working
  <2>3. [task[s][j] EXCEPT !.pc = pc].pc = pc /\ ~[task[s][j] EXCEPT !.pc = pc].write.active
    BY DEF TypeOK, Task
  <2> QED BY <1>2, <2>1, <2>2, <2>3 DEF TaskStep
<1> QED BY <1>1, <1>2

\* Replacing a task, for the steps that touch its write.
LEMMA ReplacedTask ==
  ASSUME TypeOK, WritePrepared, NEW s \in Servers, NEW j \in Jobs, NEW t,
         task' = [task EXCEPT ![s][j] = t],
         t.pc \in Working => task[s][j].pc \in Working \/ jobs'[j].status = "running",
         t.write.active =>
           /\ t.pc \in {"batch", "sweep"}
           /\ \/ task[s][j].write.active /\ t.write.row.status = task[s][j].write.row.status
              \/ task[s][j].pc \in {"batch", "sweep"} /\ t.write.row = jobs[j]
  PROVE  \A r \in Servers, k \in Jobs : TaskStep(r, k)
<1> SUFFICES ASSUME NEW r \in Servers, NEW k \in Jobs PROVE TaskStep(r, k)
  OBVIOUS
<1>1. CASE r # s \/ k # j
  BY <1>1 DEF TypeOK, TaskStep, WritePrepared
<1>2. CASE r = s /\ k = j
  BY <1>2 DEF TypeOK, TaskStep
<1> QED BY <1>1, <1>2

\* Every step treats every task so.
LEMMA StepTasks ==
  ASSUME TypeOK, WritePrepared, Next
  PROVE  \A r \in Servers, k \in Jobs : TaskStep(r, k)
<1>u. ASSUME UNCHANGED task
      PROVE  \A r \in Servers, k \in Jobs : TaskStep(r, k)
  BY <1>u DEF TaskStep, WritePrepared
<1>w. ASSUME NEW s \in Servers, NEW j \in Jobs, task[s][j].pc \notin {"batch", "sweep"}
      PROVE  ~task[s][j].write.active
  BY <1>w DEF WritePrepared
<1>n. \A pc \in TaskPcs : newTask(pc).pc = pc /\ ~newTask(pc).write.active
  BY DEF newTask, noWrite
<1>1. ASSUME NEW s \in Servers, ListQueued(s) \/ ListStaleRunning(s) \/ Listen(s)
      PROVE  UNCHANGED task
  BY <1>1 DEF ListQueued, ListStaleRunning, Listen
<1>2. ASSUME NEW s \in Servers, NEW j \in Jobs, RecoverRefuse(s, j) \/ RecoverStale(s, j)
      PROVE  UNCHANGED task
  BY <1>2 DEF RecoverRefuse, RecoverStale
<1>3. ASSUME NEW s \in Servers, NEW j \in Jobs, NEW a \in Attempts, NEW m \in Modes, CreateCheck(s, j, a, m)
      PROVE  UNCHANGED task
  BY <1>3 DEF CreateCheck
<1>4. ASSUME NEW c \in Cancels, NEW s \in Servers, NEW j \in Jobs, CancelRead(c, s, j)
      PROVE  UNCHANGED task
  BY <1>4 DEF CancelRead
<1>5. ASSUME NEW j \in Jobs, Revoke(j)
      PROVE  UNCHANGED task
  BY <1>5 DEF Revoke
<1>6. ASSUME NEW s \in Servers, NEW j \in Jobs, Claim(s, j)
      PROVE  \A r \in Servers, k \in Jobs : TaskStep(r, k)
  <2>1. ~task[s][j].write.active
    BY <1>6, <1>w DEF Claim
  <2>2. PICK o \in CommitOutcomes(TRUE) :
          /\ Commit(o, j, claimed(jobs[j], WorkerId[s], Lease + Skew[s]), startedEvent(j))
          /\ moveTask(s, j, IF threw(o) THEN "unclaimed"
                            ELSE IF j \in authorized THEN "prepare" ELSE "refuse")
    BY <1>6 DEF Claim
  <2>3. ~threw(o) => jobs'[j].status = "running"
    <3> SUFFICES ASSUME ~threw(o) PROVE jobs'[j].status = "running"
      OBVIOUS
    <3>1. jobs'[j] = claimed(jobs[j], WorkerId[s], Lease + Skew[s])
      BY <2>2 DEF Commit, threw, landed, TypeOK
    <3> QED BY <3>1 DEF claimed, TypeOK, Row
  <2>4. "unclaimed" \notin Working
    BY DEF Working
  <2> QED BY <2>1, <2>2, <2>3, <2>4, MovedTask
<1>7. ASSUME NEW s \in Servers, NEW j \in Jobs,
             \/ ClaimMissed(s, j) \/ RefuseClaimed(s, j) \/ FinishNotOwned(s, j)
             \/ FailOwned(s, j) \/ FailNotOwned(s, j) \/ ResumeRefuse(s, j)
      PROVE  \A r \in Servers, k \in Jobs : TaskStep(r, k)
  <2>1. /\ task[s][j].pc \in {"claim", "refuse", "final", "fail", "unclaimed", "resume"}
        /\ moveTask(s, j, "done")
    BY <1>7 DEF ClaimMissed, RefuseClaimed, FinishNotOwned, FailOwned, FailNotOwned, ResumeRefuse
  <2>2. ~task[s][j].write.active
    BY <2>1, <1>w
  <2> QED BY <2>1, <2>2, MovedTask DEF Working
<1>8. ASSUME NEW s \in Servers, NEW j \in Jobs, Prepare(s, j) \/ PrepareFails(s, j)
      PROVE  \A r \in Servers, k \in Jobs : TaskStep(r, k)
  <2>1. /\ task[s][j].pc = "prepare"
        /\ moveTask(s, j, "batch") \/ moveTask(s, j, "fail")
    BY <1>8 DEF Prepare, PrepareFails
  <2>2. ~task[s][j].write.active
    BY <2>1, <1>w
  <2> QED BY <2>1, <2>2, MovedTask DEF Working
<1>9. ASSUME NEW s \in Servers, NEW j \in Jobs, BatchReturns(s, j) \/ LeaseLostReturn(s, j) \/ SweepDone(s, j) \/ MockDone(s, j)
      PROVE  \A r \in Servers, k \in Jobs : TaskStep(r, k)
  <2>1. /\ task[s][j].pc \in {"batch", "sweep", "final"} /\ ~task[s][j].write.active
        /\ moveTask(s, j, "final") \/ moveTask(s, j, "done")
    BY <1>9 DEF BatchReturns, LeaseLostReturn, SweepDone, MockDone, idle
  <2> QED BY <2>1, MovedTask DEF Working
<1>10. ASSUME NEW s \in Servers, NEW j \in Jobs, Finish(s, j)
      PROVE  \A r \in Servers, k \in Jobs : TaskStep(r, k)
  <2>1. /\ task[s][j].pc = "final"
        /\ moveTask(s, j, "fail") \/ moveTask(s, j, "done")
    BY <1>10 DEF Finish
  <2>2. ~task[s][j].write.active
    BY <2>1, <1>w
  <2> QED BY <2>1, <2>2, MovedTask DEF Working
<1>11. ASSUME NEW s \in Servers, NEW j \in Jobs, Resume(s, j)
      PROVE  \A r \in Servers, k \in Jobs : TaskStep(r, k)
  <2>1. /\ task[s][j].pc = "resume"
        /\ moveTask(s, j, "claim") \/ moveTask(s, j, "done")
    BY <1>11 DEF Resume
  <2>2. ~task[s][j].write.active
    BY <2>1, <1>w
  <2> QED BY <2>1, <2>2, MovedTask DEF Working
<1>12. ASSUME NEW s \in Servers, NEW j \in Jobs, RecoverResume(s, j)
      PROVE  \A r \in Servers, k \in Jobs : TaskStep(r, k)
  <2>1. task' = [task EXCEPT ![s][j] = newTask("resume")]
    BY <1>12 DEF RecoverResume, setTask
  <2> QED BY <2>1, <1>n, ReplacedTask DEF Working, TaskPcs
<1>13. ASSUME NEW j \in Jobs, CreateInsert(j)
      PROVE  \A r \in Servers, k \in Jobs : TaskStep(r, k)
  <2>1. launches[j].server \in Servers
    BY DEF TypeOK, Launch
  <2>2. \/ UNCHANGED task
        \/ task' = [task EXCEPT ![launches[j].server][j] = newTask("claim")]
    BY <1>13 DEF CreateInsert
  <2> QED BY <2>1, <2>2, <1>n, <1>u, ReplacedTask DEF Working, TaskPcs
<1>14. ASSUME NEW c \in Cancels, CancelCommit(c)
      PROVE  \A r \in Servers, k \in Jobs : TaskStep(r, k)
  <2> DEFINE s == cancels[c].server
             j == cancels[c].job
             t == [task[s][j] EXCEPT !.aborted = TRUE]
  <2>1. s \in Servers /\ j \in Jobs
    BY DEF TypeOK, Cancel
  <2>2. task' = task \/ task' = [task EXCEPT ![s][j] = t]
    BY <1>14 DEF CancelCommit
  <2>3. t.pc = task[s][j].pc /\ t.write = task[s][j].write
    BY <2>1 DEF TypeOK, Task
  <2> HIDE DEF s, j, t
  <2> QED BY <2>1, <2>2, <2>3, <1>u, ReplacedTask DEF WritePrepared
<1>15. ASSUME NEW s \in Servers, NEW j \in Jobs, Heartbeat(s, j)
      PROVE  \A r \in Servers, k \in Jobs : TaskStep(r, k)
  <2> DEFINE t == [task[s][j] EXCEPT !.leaseLost = TRUE, !.aborted = TRUE]
  <2>1. task' = task \/ task' = [task EXCEPT ![s][j] = t]
    BY <1>15 DEF Heartbeat
  <2>2. t.pc = task[s][j].pc /\ t.write = task[s][j].write
    BY DEF TypeOK, Task
  <2> HIDE DEF t
  <2> QED BY <2>1, <2>2, <1>u, ReplacedTask DEF WritePrepared
<1>16. ASSUME NEW s \in Servers, NEW j \in Jobs, NEW l \in Lanes, CandidateStarted(s, j, l) \/ MockStart(s, j, l)
      PROVE  \A r \in Servers, k \in Jobs : TaskStep(r, k)
  <2>1. PICK w \in {noWrite, laneWrite(l, "running", jobs[j])} :
          task' = [task EXCEPT ![s][j] = [task[s][j] EXCEPT !.begun = @ \union {l}, !.write = w]]
    BY <1>16 DEF CandidateStarted, MockStart, setTask
  <2>2. task[s][j].pc = "batch"
    BY <1>16 DEF CandidateStarted, MockStart
  <2>3. w.active => w.row = jobs[j]
    BY DEF noWrite, laneWrite
  <2> DEFINE t == [task[s][j] EXCEPT !.begun = @ \union {l}, !.write = w]
  <2>4. t.pc = task[s][j].pc /\ t.write = w
    BY DEF TypeOK, Task
  <2>5. task' = [task EXCEPT ![s][j] = t]
    BY <2>1
  <2> HIDE DEF t
  <2> QED BY <2>2, <2>3, <2>4, <2>5, ReplacedTask
<1>17. ASSUME NEW s \in Servers, NEW j \in Jobs, NEW l \in Lanes, CandidateFinished(s, j, l)
      PROVE  \A r \in Servers, k \in Jobs : TaskStep(r, k)
  <2>1. PICK status : \E w \in {noWrite, laneWrite(l, status, jobs[j])} :
          task' = [task EXCEPT ![s][j] = [task[s][j] EXCEPT !.got = @ \union {l}, !.write = w]]
    BY <1>17 DEF CandidateFinished, setTask
  <2>2. PICK w \in {noWrite, laneWrite(l, status, jobs[j])} :
          task' = [task EXCEPT ![s][j] = [task[s][j] EXCEPT !.got = @ \union {l}, !.write = w]]
    BY <2>1
  <2>3. task[s][j].pc \in {"batch", "sweep"}
    BY <1>17 DEF CandidateFinished
  <2>4. w.active => w.row = jobs[j]
    BY DEF noWrite, laneWrite
  <2> DEFINE t == [task[s][j] EXCEPT !.got = @ \union {l}, !.write = w]
  <2>5. t.pc = task[s][j].pc /\ t.write = w
    BY DEF TypeOK, Task
  <2>6. task' = [task EXCEPT ![s][j] = t]
    BY <2>2
  <2> HIDE DEF t
  <2> QED BY <2>3, <2>4, <2>5, <2>6, ReplacedTask
<1>18. ASSUME NEW s \in Servers, NEW j \in Jobs, CommitLane(s, j)
      PROVE  \A r \in Servers, k \in Jobs : TaskStep(r, k)
  <2> DEFINE done == [task[s][j] EXCEPT !.write = noWrite]
  <2>1. PICK t \in {done, [done EXCEPT !.broken = TRUE], [done EXCEPT !.pc = "fail"]} :
          task' = [task EXCEPT ![s][j] = t]
    BY <1>18 DEF CommitLane, setTask
  <2>2. task[s][j].pc \in Working
    BY <1>18 DEF CommitLane, WritePrepared, Working
  <2>3. ~noWrite.active
    BY DEF noWrite
  <2>4. ~t.write.active
    <3>1. task[s][j] \in Task
      BY DEF TypeOK
    <3>2. done \in Task /\ done.write = noWrite
      BY <3>1, TaskTypes DEF Task
    <3> HIDE DEF done
    <3>3. [done EXCEPT !.broken = TRUE].write = noWrite /\ [done EXCEPT !.pc = "fail"].write = noWrite
      BY <3>2 DEF Task
    <3> QED BY <2>1, <2>3, <3>2, <3>3
  <2> HIDE DEF done
  <2> QED BY <2>1, <2>2, <2>4, ReplacedTask
<1>19. ASSUME NEW s \in Servers, NEW j \in Jobs, BatchFails(s, j)
      PROVE  \A r \in Servers, k \in Jobs : TaskStep(r, k)
  <2>1. PICK v : task' = [task EXCEPT ![s][j] = [task[s][j] EXCEPT !.pc = "sweep", !.got = {}, !.verdict = v]]
    BY <1>19 DEF BatchFails, setTask
  <2> DEFINE t == [task[s][j] EXCEPT !.pc = "sweep", !.got = {}, !.verdict = v]
  <2>2. t.write = task[s][j].write
    BY DEF TypeOK, Task
  <2>3. task[s][j].pc \in Working /\ ~task[s][j].write.active
    BY <1>19 DEF BatchFails, idle, Working
  <2>4. task' = [task EXCEPT ![s][j] = t]
    BY <2>1
  <2> HIDE DEF t
  <2> QED BY <2>2, <2>3, <2>4, ReplacedTask
<1>20. ASSUME NEW s \in Servers, Crash(s)
      PROVE  \A r \in Servers, k \in Jobs : TaskStep(r, k)
  <2> SUFFICES ASSUME NEW r \in Servers, NEW k \in Jobs PROVE TaskStep(r, k)
    OBVIOUS
  <2>1. task'[r][k] \in {task[r][k], newTask("none")}
    BY <1>20 DEF Crash, TypeOK
  <2>2. newTask("none").pc = "none" /\ ~newTask("none").write.active
    BY <1>n DEF TaskPcs
  <2> QED BY <2>1, <2>2 DEF TaskStep, Working, WritePrepared
<1>21. ASSUME Tick
      PROVE  \A r \in Servers, k \in Jobs : TaskStep(r, k)
  <2> SUFFICES ASSUME NEW r \in Servers, NEW k \in Jobs PROVE TaskStep(r, k)
    OBVIOUS
  <2> DEFINE t == task[r][k]
  <2>1. t \in Task /\ t.write \in Write /\ t.write.row \in Row
    BY DEF TypeOK, Task, Write
  <2>2. task'[r][k] = [t EXCEPT !.write = [t.write EXCEPT !.row = aged(t.write.row)]]
    BY <1>21 DEF Tick
  <2>3. aged(t.write.row).status = t.write.row.status
    BY <2>1 DEF aged, Row
  <2>4. /\ task'[r][k].pc = t.pc
        /\ task'[r][k].write = [t.write EXCEPT !.row = aged(t.write.row)]
    BY <2>1, <2>2 DEF Task
  <2>5. task'[r][k].write.active = t.write.active /\ task'[r][k].write.row = aged(t.write.row)
    BY <2>1, <2>4 DEF Write
  <2>6. t.write.active => t.pc \in {"batch", "sweep"}
    BY DEF WritePrepared
  <2> HIDE DEF t
  <2> QED BY <2>3, <2>4, <2>5, <2>6 DEF TaskStep, t
<1> QED
  BY <1>u, <1>1, <1>2, <1>3, <1>4, <1>5, <1>6, <1>7, <1>8, <1>9, <1>10, <1>11, <1>12,
     <1>13, <1>14, <1>15, <1>16, <1>17, <1>18, <1>19, <1>20, <1>21
  DEF Next, Executing, Recovering

\* The inductive step.
LEMMA StepInvariant ==
  ASSUME IInv, Next
  PROVE  IInv'
<1> USE DEF IInv
<1>0. isTerminal("absent") = FALSE /\ isTerminal("queued") = FALSE /\ isTerminal("running") = FALSE
  BY DEF isTerminal, isTriageSettledStatus, TRIAGE_SETTLED_CANDIDATE_STATUSES,
         TRIAGE_PRODUCING_CANDIDATE_STATUSES
<1>1. TypeOK'
  BY StepTypes
<1>2. \A j \in Jobs : JobStep(j)
  BY StepJobs
<1>3. \A s \in Servers, j \in Jobs : TaskStep(s, j)
  BY StepTasks DEF Prepared
<1>4. /\ \A j \in Jobs : launches'[j].pc # "done" => launches[j].pc # "done"
      /\ CancelPrepared'
  BY StepRequests DEF Prepared
<1>c. \A j \in Jobs : /\ timeline[j].finished \in Nat /\ timeline[j].cancelRequested \in Nat
  BY DEF TypeOK, Timeline
<1>5. ClosedOnce'
  BY <1>0, <1>2, <1>c DEF ClosedOnce, JobStep, Moves, Closes
<1>6. OutcomePublished'
  <2> SUFFICES ASSUME NEW j \in Jobs, timeline'[j].finished > 0
               PROVE  timeline'[j].outcome = jobs'[j].status
    BY DEF OutcomePublished
  <2>1. ~isTerminal(jobs[j].status) => timeline[j].finished = 0
    BY <1>c DEF ClosedOnce
  <2>2. CASE jobs'[j] = jobs[j] /\ timeline'[j] = timeline[j]
    BY <2>2 DEF OutcomePublished
  <2>3. CASE Moves(j)
    BY <2>1, <2>3, <1>0 DEF Moves
  <2>4. CASE Closes(j)
    BY <2>1, <2>4, <1>0 DEF Closes
  <2> QED BY <1>2, <2>2, <2>3, <2>4 DEF JobStep
<1>7. LaunchFresh'
  BY <1>2, <1>4 DEF Prepared, LaunchFresh, JobStep, Moves, Closes
<1>8. LeaseReleased'
  BY <1>2 DEF Prepared, LeaseReleased, JobStep, Moves, Closes
<1>s. \A j \in Jobs : jobs[j].status \notin {"absent", "queued"} => jobs'[j].status \notin {"absent", "queued"}
  BY <1>0, <1>2 DEF JobStep, Moves, Closes
<1>t. \A j \in Jobs : isTerminal(jobs[j].status) => isTerminal(jobs'[j].status)
  BY <1>0, <1>2 DEF JobStep, Moves, Closes
<1>9. WorkerClaimed'
  BY <1>3, <1>s DEF Prepared, WorkerClaimed, TaskStep, Working
<1>10. WritePrepared'
  <2> SUFFICES ASSUME NEW s \in Servers, NEW j \in Jobs, task'[s][j].write.active
               PROVE  /\ task'[s][j].pc \in {"batch", "sweep"}
                      /\ task'[s][j].write.row.status \notin {"absent", "queued"}
                      /\ isTerminal(task'[s][j].write.row.status) => isTerminal(jobs'[j].status)
    BY DEF WritePrepared
  <2>1. CASE task[s][j].write.active /\ task'[s][j].write.row.status = task[s][j].write.row.status
    BY <1>3, <1>t, <2>1 DEF Prepared, WritePrepared, TaskStep
  <2>2. CASE task[s][j].pc \in {"batch", "sweep"} /\ task'[s][j].write.row = jobs[j]
    BY <1>3, <1>t, <2>2 DEF Prepared, WorkerClaimed, TaskStep
  <2> QED BY <1>3, <2>1, <2>2 DEF TaskStep
<1> QED BY <1>1, <1>4, <1>5, <1>6, <1>7, <1>8, <1>9, <1>10 DEF Prepared

\* The invariant holds before any server has started.
LEMMA InitInvariant == Init => IInv
<1> SUFFICES ASSUME Init PROVE IInv
  OBVIOUS
<1>1. \A j \in Jobs : jobs[j].status = "absent" /\ jobs[j].lease = NoLease
  BY DEF Init, absentJob, queuedJob
<1>2. \A j \in Jobs : timeline[j].finished = 0 /\ timeline[j].cancelRequested = 0
  BY DEF Init, emptyTimeline
<1>3. ~isTerminal("absent")
  BY DEF isTerminal, isTriageSettledStatus, TRIAGE_SETTLED_CANDIDATE_STATUSES,
         TRIAGE_PRODUCING_CANDIDATE_STATUSES
<1>4. ClosedOnce /\ OutcomePublished
  BY <1>1, <1>2, <1>3 DEF ClosedOnce, OutcomePublished
<1>5. LaunchFresh /\ LeaseReleased
  BY <1>1 DEF LaunchFresh, LeaseReleased
<1>6. WorkerClaimed /\ WritePrepared
  <2>1. \A s \in Servers, j \in Jobs : task[s][j].pc = "none" /\ ~task[s][j].write.active
    BY DEF Init, newTask, noWrite
  <2> QED BY <2>1 DEF WorkerClaimed, WritePrepared
<1>7. CancelPrepared
  BY DEF Init, CancelPrepared
<1> QED BY <1>4, <1>5, <1>6, <1>7, InitTypes DEF IInv, Prepared

\* The inductive invariant holds in every reachable state.
LEMMA Invariant == Spec => []IInv
<1>1. IInv /\ [Next]_vars => IInv'
  <2>1. IInv /\ UNCHANGED vars => IInv'
    BY DEF IInv, TypeOK, Prepared, ClosedOnce, OutcomePublished, LaunchFresh, LeaseReleased,
           WorkerClaimed, WritePrepared, CancelPrepared, vars
  <2> QED BY <2>1, StepInvariant
<1> QED BY <1>1, InitInvariant, PTL DEF Spec

\* However a job ends, by its worker, an operator, a refusal or a recovery, and
\* whichever transactions fail or land unnoticed, it closes once on the timeline.
THEOREM ClosedOnceHolds == Spec => []ClosedOnce
<1>1. IInv => ClosedOnce
  BY DEF IInv
<1> QED BY <1>1, Invariant, PTL

\* What the timeline says of a finished job is what its record says.
THEOREM OutcomePublishedHolds == Spec => []OutcomePublished
<1>1. IInv => OutcomePublished
  BY DEF IInv
<1> QED BY <1>1, Invariant, PTL

\* A closed job never changes again: not its record, not its timeline.
THEOREM TerminalIsFinalHolds == Spec => TerminalIsFinal
<1>1. IInv /\ [Next]_vars => [\A j \in Jobs : isTerminal(jobs[j].status)
                               => jobs'[j] = jobs[j] /\ timeline'[j] = timeline[j]]_vars
  <2> SUFFICES ASSUME IInv, Next, NEW j \in Jobs, isTerminal(jobs[j].status)
               PROVE  jobs'[j] = jobs[j] /\ timeline'[j] = timeline[j]
    OBVIOUS
  <2>1. JobStep(j)
    BY StepJobs DEF IInv
  <2>2. jobs[j].status \notin {"absent", "queued", "running"}
    BY DEF isTerminal, isTriageSettledStatus, TRIAGE_SETTLED_CANDIDATE_STATUSES,
           TRIAGE_PRODUCING_CANDIDATE_STATUSES
  <2> QED BY <2>1, <2>2 DEF JobStep, Moves, Closes
<1> QED BY <1>1, Invariant, PTL DEF Spec, TerminalIsFinal

=============================================================================
