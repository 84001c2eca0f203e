----------------------------- MODULE TriageRuns -----------------------------
(***************************************************************************)
(* Triage runs of the War Room server: launching, claiming, executing,     *)
(* cancelling and recovering jobs whose records live in one shared store   *)
(* (collab/server/src/modules/triage-runs/service.ts over store.ts).       *)
(*                                                                         *)
(* A step is one database transaction or one read together with the local  *)
(* work up to the next await that matters, so that the steps of several    *)
(* servers, of one server's concurrent callbacks and of operators          *)
(* interleave as they do on the event loop and in PostgreSQL.              *)
(***************************************************************************)
EXTENDS TriageJobStore

CONSTANTS Jobs,       \* ids of the jobs that may be launched
          Servers,    \* server processes; a restart is another process
          WorkerId,   \* the worker id each process is configured with
          Cancels,    \* cancel requests operators may send
          Outcomes,   \* lane statuses an executor may report
          Lease,      \* the worker lease, in ticks
          Skew,       \* how far each server's clock runs ahead of the slowest
          MaxFaults,  \* bound on store failures in one behaviour
          Serialized  \* TRUE: the in-memory store, one atomic section at a time

ASSUME ConstantsAssumption ==
  /\ Jobs # {}
  /\ Servers # {}
  /\ WorkerId \in [Servers -> Workers]
  /\ Outcomes \subseteq TRIAGE_SETTLED_CANDIDATE_STATUSES
  /\ Lease \in Nat \ {0}
  /\ Skew \in [Servers -> Nat]
  /\ MaxFaults \in Nat
  /\ Serialized \in BOOLEAN

VARIABLES jobs,        \* the rows of triage_jobs, "absent" before the insert
          timeline,    \* per job: the timeline events appended, by kind
          server,      \* per process: off, listing, recovering, up, failed, dead
          pending,     \* per process: what recoverPending has read and not handled
          task,        \* per process and job: the run of execute()
          cancels,     \* per request: a cancel() and the row it read
          launches,    \* per job: a create() between its check and its insert
          authorized,  \* jobs whose requester may still run them
          faults       \* store failures still allowed

vars == <<jobs, timeline, server, pending, task, cancels, launches, authorized, faults>>

-----------------------------------------------------------------------------
\* State.

Timeline == [created : Nat, started : Nat, finished : Nat, cancelRequested : Nat,
             outcome : TRIAGE_SETTLED_CANDIDATE_STATUSES \union {"none"},
             reports : [Lanes -> Nat],
             reported : [Lanes -> TRIAGE_SETTLED_CANDIDATE_STATUSES \union {"none"}]]

emptyTimeline == [created |-> 0, started |-> 0, finished |-> 0, cancelRequested |-> 0,
                  outcome |-> "none",
                  reports |-> [l \in Lanes |-> 0],
                  reported |-> [l \in Lanes |-> "none"]]

\* The lane write a task has prepared from the row it read: recordQueue lets
\* one such write be in flight at a time.
Write == [active : BOOLEAN, lane : Lanes, status : TRIAGE_JOB_STATUSES, row : Row]

noWrite == [active |-> FALSE, lane |-> CHOOSE l \in Lanes : TRUE,
            status |-> "queued", row |-> absentJob]

laneWrite(l, status, row) == [active |-> TRUE, lane |-> l, status |-> status, row |-> row]

TaskPcs == {"none", "resume", "claim", "unclaimed", "refuse", "prepare", "batch",
            "sweep", "final", "fail", "done"}

\* begun, got: lanes whose start, whose result the executor has delivered;
\* broken: a progress callback threw; verdict: what the sweep records.
Task == [pc : TaskPcs, leaseLost : BOOLEAN, aborted : BOOLEAN, broken : BOOLEAN,
         begun : SUBSET Lanes, got : SUBSET Lanes,
         verdict : TRIAGE_SETTLED_CANDIDATE_STATUSES, write : Write]

newTask(pc) == [pc |-> pc, leaseLost |-> FALSE, aborted |-> FALSE, broken |-> FALSE,
                begun |-> {}, got |-> {}, verdict |-> "failed", write |-> noWrite]

\* controllers holds an AbortController from the entry of execute() to its end.
hasController(t) == t.pc \notin {"none", "resume", "done"}

\* setInterval is armed after the claim and cleared when execute() ends.
hasHeartbeat(t) == t.pc \in {"prepare", "batch", "sweep", "final", "fail"}

Pending == [queued : SUBSET Jobs, stale : [Jobs -> Row]]

noPending == [queued |-> {}, stale |-> [j \in Jobs |-> absentJob]]

staleJobs(s) == {j \in Jobs : pending[s].stale[j].status = "running"}

Cancel == [pc : {"ready", "read", "done"}, server : Servers, job : Jobs, row : Row]

Launch == [pc : {"ready", "checked", "done"}, server : Servers,
           attempt : Attempts, mode : Modes]

TypeOK ==
  /\ jobs \in [Jobs -> Row]
  /\ timeline \in [Jobs -> Timeline]
  /\ server \in [Servers -> {"off", "listing", "recovering", "up", "failed", "dead"}]
  /\ pending \in [Servers -> Pending]
  /\ task \in [Servers -> [Jobs -> Task]]
  /\ cancels \in [Cancels -> Cancel]
  /\ launches \in [Jobs -> Launch]
  /\ authorized \in SUBSET Jobs
  /\ faults \in Nat

Init ==
  /\ jobs = [j \in Jobs |-> absentJob]
  /\ timeline = [j \in Jobs |-> emptyTimeline]
  /\ server = [s \in Servers |-> "off"]
  /\ pending = [s \in Servers |-> noPending]
  /\ task = [s \in Servers |-> [j \in Jobs |-> newTask("none")]]
  /\ cancels = [c \in Cancels |-> [pc |-> "ready", server |-> CHOOSE s \in Servers : TRUE,
                                   job |-> CHOOSE j \in Jobs : TRUE, row |-> absentJob]]
  /\ launches = [j \in Jobs |-> [pc |-> "ready", server |-> CHOOSE s \in Servers : TRUE,
                                 attempt |-> absentJob.attempt, mode |-> absentJob.mode]]
  /\ authorized = Jobs
  /\ faults = MaxFaults

-----------------------------------------------------------------------------
\* Transactions.  An update the store refuses throws and rolls back.  A store
\* failure also throws: it rolls back, or, when the COMMIT itself fails, its
\* outcome is unknown and the transaction may have landed.

CommitOutcomes(allowed) ==
  IF ~allowed THEN {"refused"}
  ELSE {"committed"} \union (IF faults > 0 THEN {"rolled_back", "unknown"} ELSE {})

landed(o) == o \in {"committed", "unknown"}

threw(o) == o # "committed"

\* The whole effect of one atomic section on one job: its row, the timeline
\* events of the same transaction and the failure budget.
Commit(o, j, row, events) ==
  /\ jobs' = IF landed(o) THEN [jobs EXCEPT ![j] = row] ELSE jobs
  /\ timeline' = IF landed(o) THEN [timeline EXCEPT ![j] = events] ELSE timeline
  /\ faults' = IF o \in {"rolled_back", "unknown"} THEN faults - 1 ELSE faults

\* Mutant: the event always publishes a completed run.
finishedEvent_Completed(j, status) ==
  [timeline[j] EXCEPT !.finished = @ + 1, !.outcome = "completed"]

\* persistJobFinished: the finished event carries the status that was written.
finishedEvent(j, status) == [timeline[j] EXCEPT !.finished = @ + 1, !.outcome = status]

\* Settle the lanes still open, and close the row.
closeAs(row, status, laneStatus, reason) ==
  closed(row, status, settleOpenLanes(row.lanes, laneStatus), reason)

setTask(s, j, t) == task' = [task EXCEPT ![s][j] = t]

\* execute() goes on, or returns and its locals are gone.
moveTask(s, j, pc) ==
  task' = [task EXCEPT ![s][j] = IF pc = "done" THEN newTask("done") ELSE [@ EXCEPT !.pc = pc]]

running(s) == server[s] \in {"listing", "recovering", "up", "failed"}

-----------------------------------------------------------------------------
\* create(): the duplicate check and the insert are statements of one READ
\* COMMITTED transaction; only the in-memory store serializes the section.

activeDuplicateJob(s, attempt) ==
  \E j \in Jobs : /\ jobs[j].status # "absent"
                  /\ jobs[j].attempt = attempt
                  /\ ~isTerminal(jobs[j].status)
                  /\ ~triageRunningLeaseExpired(jobs[j], Skew[s])

CreateCheck(s, j, attempt, mode) ==
  /\ server[s] = "up"
  /\ launches[j].pc = "ready"
  /\ Serialized => \A k \in Jobs : launches[k].pc # "checked"
  /\ ~activeDuplicateJob(s, attempt)
  /\ launches' = [launches EXCEPT ![j] = [pc |-> "checked", server |-> s,
                                          attempt |-> attempt, mode |-> mode]]
  /\ UNCHANGED <<jobs, timeline, server, pending, task, cancels, authorized, faults>>

CreateInsert(j) ==
  /\ launches[j].pc = "checked"
  /\ \E o \in CommitOutcomes(TRUE) :
       /\ Commit(o, j, queuedJob(launches[j].attempt, launches[j].mode),
                 [timeline[j] EXCEPT !.created = @ + 1])
       /\ task' = IF threw(o) THEN task
                  ELSE [task EXCEPT ![launches[j].server][j] = newTask("claim")]
  /\ launches' = [launches EXCEPT ![j].pc = "done"]
  /\ UNCHANGED <<server, pending, cancels, authorized>>

-----------------------------------------------------------------------------
\* cancel(): the row is read and judged first; the update is made from that
\* read in a later transaction.  Only this server's controller is aborted.

answered(cancel) == [cancel EXCEPT !.pc = "done", !.row = absentJob]

cancelledRow(row) ==
  LET lanes == settleOpenLanes(row.lanes, "cancelled")
  IN  [closed(row, resolveTriageJobStatus(lanes, TRUE), lanes, "cancel_requested")
         EXCEPT !.cancelRequested = TRUE]

CancelRead(c, s, j) ==
  /\ server[s] = "up"
  /\ cancels[c].pc = "ready"
  /\ jobs[j].status \in {"queued", "running"}
  /\ ~triageRunningLeaseExpired(jobs[j], Skew[s])
  /\ cancels' = [cancels EXCEPT ![c] = [pc |-> "read", server |-> s, job |-> j,
                                        row |-> cancelledRow(jobs[j])]]
  /\ UNCHANGED <<jobs, timeline, server, pending, task, launches, authorized, faults>>

CancelCommit(c) ==
  LET s == cancels[c].server
      j == cancels[c].job
      next == cancels[c].row
  IN  /\ cancels[c].pc = "read"
      /\ \E o \in CommitOutcomes(updatable(jobs[j], next)) :
           /\ Commit(o, j, updated(jobs[j], next),
                     [timeline[j] EXCEPT !.cancelRequested = @ + 1])
           /\ task' = IF ~threw(o) /\ hasController(task[s][j])
                        THEN [task EXCEPT ![s][j].aborted = TRUE]
                        ELSE task
      /\ cancels' = [cancels EXCEPT ![c] = answered(@)]
      /\ UNCHANGED <<server, pending, launches, authorized>>

-----------------------------------------------------------------------------
\* execute(): the claim.  Membership is judged inside the claim transaction.

\* Mutant: the started event is appended before membership is judged.
startedEvent_Always(j) == [timeline[j] EXCEPT !.started = @ + 1]

startedEvent(j) ==
  IF j \in authorized THEN [timeline[j] EXCEPT !.started = @ + 1] ELSE timeline[j]

\* Mutant: a job whose requester left the case is skipped, not refused.
Claim_MembersOnly(s, j) ==
  /\ task[s][j].pc = "claim"
  /\ claimable(jobs[j]) /\ j \in authorized
  /\ \E o \in CommitOutcomes(TRUE) :
       /\ Commit(o, j, claimed(jobs[j], WorkerId[s], Lease + Skew[s]), startedEvent(j))
       /\ moveTask(s, j, IF threw(o) THEN "unclaimed" ELSE "prepare")
  /\ UNCHANGED <<server, pending, cancels, launches, authorized>>

Claim(s, j) ==
  LET member == j \in authorized
  IN  /\ task[s][j].pc = "claim"
      /\ claimable(jobs[j])
      /\ \E o \in CommitOutcomes(TRUE) :
           /\ Commit(o, j, claimed(jobs[j], WorkerId[s], Lease + Skew[s]), startedEvent(j))
           /\ moveTask(s, j, IF threw(o) THEN "unclaimed"
                             ELSE IF member THEN "prepare" ELSE "refuse")
      /\ UNCHANGED <<server, pending, cancels, launches, authorized>>

ClaimMissed(s, j) ==
  /\ task[s][j].pc = "claim"
  /\ ~claimable(jobs[j])
  /\ moveTask(s, j, "done")
  /\ UNCHANGED <<jobs, timeline, server, pending, cancels, launches, authorized, faults>>

\* refuseUnauthorizedPendingJob(row): a failed update is swallowed.
refusedRow(row) == closeAs(row, "failed", "failed", "refused")

RefuseClaimed(s, j) ==
  LET next == refusedRow([jobs[j] EXCEPT !.worker = WorkerId[s]])
  IN  /\ task[s][j].pc = "refuse"
      /\ \E o \in CommitOutcomes(updatable(jobs[j], next)) :
           Commit(o, j, updated(jobs[j], next), finishedEvent(j, "failed"))
      /\ moveTask(s, j, "done")
      /\ UNCHANGED <<server, pending, cancels, launches, authorized>>

\* The heartbeat: a renewal that is refused or fails loses the lease for good.
Heartbeat(s, j) ==
  /\ running(s) /\ hasHeartbeat(task[s][j])
  /\ \E o \in CommitOutcomes(renewable(jobs[j], WorkerId[s])) :
       /\ Commit(o, j, [jobs[j] EXCEPT !.lease = Lease + Skew[s]], timeline[j])
       /\ task' = IF threw(o)
                    THEN [task EXCEPT ![s][j] = [@ EXCEPT !.leaseLost = TRUE, !.aborted = TRUE]]
                    ELSE task
  /\ UNCHANGED <<server, pending, cancels, launches, authorized>>

\* The re-read after the claim, the snapshot, case and evidence, and the first
\* update by the worker: it goes on only if the store accepts that update.
Prepare(s, j) ==
  /\ task[s][j].pc = "prepare"
  /\ updatable(jobs[j], [jobs[j] EXCEPT !.worker = WorkerId[s]])
  /\ moveTask(s, j, "batch")
  /\ UNCHANGED <<jobs, timeline, server, pending, cancels, launches, authorized, faults>>

\* A missing snapshot, case or evidence item, an abort or a refused update throws.
PrepareFails(s, j) ==
  /\ task[s][j].pc = "prepare"
  /\ moveTask(s, j, "fail")
  /\ UNCHANGED <<jobs, timeline, server, pending, cancels, launches, authorized, faults>>

-----------------------------------------------------------------------------
\* Lanes.  persistCandidate and persistCandidateStarted read the row, give up
\* if the worker no longer owns it or the lane has moved on, and prepare a
\* write; CommitLane is the transaction that follows.

\* Mutant: a result is written over a lane that has settled.
mayWriteLane_Settled(s, j, l, open) ==
  /\ ~task[s][j].leaseLost
  /\ triageWorkerHoldsLiveLease(jobs[j], WorkerId[s], Skew[s])

mayWriteLane(s, j, l, open) ==
  /\ ~task[s][j].leaseLost
  /\ triageWorkerHoldsLiveLease(jobs[j], WorkerId[s], Skew[s])
  /\ jobs[j].lanes[l] \in open

storeUnchanged == UNCHANGED <<jobs, timeline, server, pending, cancels, launches, authorized, faults>>

CandidateStarted(s, j, l) ==
  LET t == task[s][j]
  IN  /\ t.pc = "batch" /\ jobs[j].mode = "gateway"
      /\ ~t.write.active /\ l \notin t.begun \union t.got
      /\ setTask(s, j, [t EXCEPT !.begun = @ \union {l},
                         !.write = IF mayWriteLane(s, j, l, {"queued"})
                                     THEN laneWrite(l, "running", jobs[j]) ELSE noWrite])
      /\ storeUnchanged

\* recordCandidate: a result of the executor, or the verdict of the sweep.
CandidateFinished(s, j, l) ==
  LET t == task[s][j]
  IN  /\ \/ t.pc = "batch" /\ (jobs[j].mode = "mock" => l \in t.begun)
         \/ t.pc = "sweep"
      /\ ~t.write.active /\ l \notin t.got
      /\ \E status \in IF t.pc = "sweep" THEN {t.verdict} ELSE Outcomes :
           setTask(s, j, [t EXCEPT !.got = @ \union {l},
                           !.write = IF mayWriteLane(s, j, l, {"queued", "running"})
                                       THEN laneWrite(l, status, jobs[j]) ELSE noWrite])
      /\ storeUnchanged

\* The mock loop starts lanes one at a time, with an update that has no event.
MockStart(s, j, l) ==
  LET t == task[s][j]
  IN  /\ t.pc = "batch" /\ jobs[j].mode = "mock"
      /\ ~t.write.active /\ t.begun = t.got /\ l \notin t.begun
      /\ ~t.leaseLost /\ ~t.aborted /\ ~jobs[j].cancelRequested
      /\ setTask(s, j, [t EXCEPT !.begun = @ \union {l}, !.write = laneWrite(l, "running", jobs[j])])
      /\ storeUnchanged

\* A callback may see the abort signal before it builds its row or not at all.
writtenRow(t, sawAbort) ==
  [t.write.row EXCEPT !.lanes[t.write.lane] = t.write.status,
                      !.cancelRequested = @ \/ (sawAbort /\ isTriageSettledStatus(t.write.status))]

\* Mutant: the admission of a lane is published as its result too.
reportEvent_Admission(j, l, status) ==
  [timeline[j] EXCEPT !.reports[l] = @ + 1, !.reported[l] = status]

reportEvent(j, l, status) ==
  IF isTriageSettledStatus(status)
    THEN [timeline[j] EXCEPT !.reports[l] = @ + 1, !.reported[l] = status]
    ELSE timeline[j]

\* A write that throws breaks a gateway batch, and ends the mock loop and the sweep.
CommitLane(s, j) ==
  LET t == task[s][j]
      done == [t EXCEPT !.write = noWrite]
  IN  /\ t.write.active
      /\ \E sawAbort \in {FALSE, t.aborted} :
           LET next == writtenRow(t, sawAbort)
           IN  \E o \in CommitOutcomes(updatable(jobs[j], next)) :
                 /\ Commit(o, j, updated(jobs[j], next),
                           reportEvent(j, t.write.lane, t.write.status))
                 /\ setTask(s, j,
                      IF ~threw(o) THEN done
                      ELSE IF t.pc = "batch" /\ t.write.row.mode = "gateway"
                        THEN [done EXCEPT !.broken = TRUE]
                        ELSE [done EXCEPT !.pc = "fail"])
      /\ UNCHANGED <<server, pending, cancels, launches, authorized>>

-----------------------------------------------------------------------------
\* The end of the lanes.

idle(t) == ~t.write.active

\* executeBatch resolved with a result for every lane, and the update after it
\* was accepted.
BatchReturns(s, j) ==
  LET t == task[s][j]
  IN  /\ t.pc = "batch" /\ jobs[j].mode = "gateway" /\ idle(t)
      /\ t.got = Lanes /\ ~t.broken
      /\ updatable(jobs[j], [jobs[j] EXCEPT !.worker = WorkerId[s]])
      /\ moveTask(s, j, "final")
      /\ storeUnchanged

\* It rejected, or the update after it did: the lanes still open get a verdict.
BatchFails(s, j) ==
  LET t == task[s][j]
  IN  /\ t.pc = "batch" /\ jobs[j].mode = "gateway" /\ idle(t)
      /\ ~t.leaseLost
      /\ \E verdict \in IF t.aborted THEN {"cancelled"} ELSE {"timed_out", "failed"} :
           setTask(s, j, [t EXCEPT !.pc = "sweep", !.got = {}, !.verdict = verdict])
      /\ storeUnchanged

\* With the lease lost, a rejected batch, the mock loop and the tail all return.
LeaseLostReturn(s, j) ==
  LET t == task[s][j]
  IN  /\ t.pc \in {"batch", "final"} /\ idle(t)
      /\ t.leaseLost
      /\ moveTask(s, j, "done")
      /\ storeUnchanged

SweepDone(s, j) ==
  LET t == task[s][j]
  IN  /\ t.pc = "sweep" /\ idle(t) /\ t.got = Lanes
      /\ moveTask(s, j, "final")
      /\ storeUnchanged

\* The mock loop has run every lane, or stops at a cancellation it noticed.
MockDone(s, j) ==
  LET t == task[s][j]
  IN  /\ t.pc = "batch" /\ jobs[j].mode = "mock" /\ idle(t) /\ t.begun = t.got
      /\ ~t.leaseLost
      /\ t.got = Lanes \/ t.aborted \/ jobs[j].cancelRequested
      /\ moveTask(s, j, "final")
      /\ storeUnchanged

finishedRow(row) ==
  closed(row, resolveTriageJobStatus(row.lanes, row.cancelRequested), row.lanes,
         IF row.cancelRequested THEN "cancel_requested" ELSE "none")

Finish(s, j) ==
  LET next == finishedRow(jobs[j])
  IN  /\ task[s][j].pc = "final" /\ ~task[s][j].leaseLost
      /\ triageWorkerHoldsLiveLease(jobs[j], WorkerId[s], Skew[s])
      /\ \E o \in CommitOutcomes(updatable(jobs[j], next)) :
           /\ Commit(o, j, updated(jobs[j], next), finishedEvent(j, next.status))
           /\ moveTask(s, j, IF threw(o) THEN "fail" ELSE "done")
      /\ UNCHANGED <<server, pending, cancels, launches, authorized>>

FinishNotOwned(s, j) ==
  /\ task[s][j].pc = "final" /\ ~task[s][j].leaseLost
  /\ ~triageWorkerHoldsLiveLease(jobs[j], WorkerId[s], Skew[s])
  /\ moveTask(s, j, "done")
  /\ storeUnchanged

\* failOwnedRunningJob: "failed" whatever the lanes say; a failure is swallowed.
failedRow(row) == closeAs(row, "failed", "failed", "runner_error")

FailOwned(s, j) ==
  LET next == failedRow(jobs[j])
  IN  /\ task[s][j].pc \in {"fail", "unclaimed"}
      /\ triageWorkerHoldsLiveLease(jobs[j], WorkerId[s], Skew[s])
      /\ \E o \in CommitOutcomes(updatable(jobs[j], next)) :
           Commit(o, j, updated(jobs[j], next), finishedEvent(j, "failed"))
      /\ moveTask(s, j, "done")
      /\ UNCHANGED <<server, pending, cancels, launches, authorized>>

FailNotOwned(s, j) ==
  /\ task[s][j].pc \in {"fail", "unclaimed"}
  /\ ~triageWorkerHoldsLiveLease(jobs[j], WorkerId[s], Skew[s])
  /\ moveTask(s, j, "done")
  /\ storeUnchanged

-----------------------------------------------------------------------------
\* recoverPending(), once per process, before it serves requests.

\* Mutant: queued jobs are not listed, so only expired leases are recovered.
ListQueued_None(s) ==
  /\ server[s] = "off"
  /\ \A r \in Servers : running(r) => WorkerId[r] # WorkerId[s]
  /\ server' = [server EXCEPT ![s] = "listing"]
  /\ UNCHANGED <<jobs, timeline, pending, task, cancels, launches, authorized, faults>>

\* Live processes have different worker ids, as the deployment notes require.
ListQueued(s) ==
  /\ server[s] = "off"
  /\ \A r \in Servers : running(r) => WorkerId[r] # WorkerId[s]
  /\ server' = [server EXCEPT ![s] = "listing"]
  /\ pending' = [pending EXCEPT ![s].queued = {j \in Jobs : jobs[j].status = "queued"}]
  /\ UNCHANGED <<jobs, timeline, task, cancels, launches, authorized, faults>>

\* Mutant: only leases that were never set count as stale.
ListStaleRunning_NoLease(s) ==
  /\ server[s] = "listing"
  /\ server' = [server EXCEPT ![s] = "recovering"]
  /\ pending' = [pending EXCEPT ![s].stale =
       [j \in Jobs |-> IF jobs[j].status = "running" /\ jobs[j].lease = NoLease
                         THEN jobs[j] ELSE absentJob]]
  /\ UNCHANGED <<jobs, timeline, task, cancels, launches, authorized, faults>>

ListStaleRunning(s) ==
  /\ server[s] = "listing"
  /\ server' = [server EXCEPT ![s] = "recovering"]
  /\ pending' = [pending EXCEPT ![s].stale =
       [j \in Jobs |-> IF triageRunningLeaseExpired(jobs[j], Skew[s]) THEN jobs[j] ELSE absentJob]]
  /\ UNCHANGED <<jobs, timeline, task, cancels, launches, authorized, faults>>

RecoverResume(s, j) ==
  /\ server[s] = "recovering" /\ j \in pending[s].queued
  /\ j \in authorized
  /\ pending' = [pending EXCEPT ![s].queued = @ \ {j}]
  /\ setTask(s, j, newTask("resume"))
  /\ UNCHANGED <<jobs, timeline, server, cancels, launches, authorized, faults>>

\* Authorization is denied, or cannot be resolved, which denies it too.  The
\* row refused is the one that was listed: queued, and owned by nobody.
RecoverRefuse(s, j) ==
  LET next == refusedRow([jobs[j] EXCEPT !.worker = NoWorker])
  IN  /\ server[s] = "recovering" /\ j \in pending[s].queued
      /\ pending' = [pending EXCEPT ![s].queued = @ \ {j}]
      /\ \E o \in CommitOutcomes(updatable(jobs[j], next)) :
           Commit(o, j, updated(jobs[j], next), finishedEvent(j, "failed"))
      /\ UNCHANGED <<server, task, cancels, launches, authorized>>

\* resumeRecoveredQueuedJob, in its microtask.
Resume(s, j) ==
  /\ task[s][j].pc = "resume"
  /\ moveTask(s, j, IF jobs[j].status = "queued" THEN "claim" ELSE "done")
  /\ jobs[j].status = "queued" => j \in authorized
  /\ UNCHANGED <<jobs, timeline, server, pending, cancels, launches, authorized, faults>>

ResumeRefuse(s, j) ==
  LET next == refusedRow([jobs[j] EXCEPT !.worker = NoWorker])
  IN  /\ task[s][j].pc = "resume"
      /\ moveTask(s, j, "done")
      /\ \E o \in CommitOutcomes(updatable(jobs[j], next)) :
           Commit(o, j, updated(jobs[j], next), finishedEvent(j, "failed"))
      /\ UNCHANGED <<server, pending, cancels, launches, authorized>>

\* Mutant: recovery records a failure whatever the lanes produced.
recoveredRow_Failed(row) == closeAs(row, "failed", "failed", "worker_lease_expired")

recoveredRow(row) ==
  LET lanes == settleOpenLanes(row.lanes, "failed")
  IN  closed(row, resolveTriageJobStatus(lanes, FALSE), lanes, "worker_lease_expired")

\* A store failure here rejects recoverPending() and with it main(): the
\* process never listens, though what it has resumed runs on.
RecoverStale(s, j) ==
  LET next == recoveredRow(pending[s].stale[j])
  IN  /\ server[s] = "recovering" /\ pending[s].queued = {} /\ j \in staleJobs(s)
      /\ \E o \in CommitOutcomes(recoverable(jobs[j], next, Skew[s])) :
           /\ Commit(o, j, next, finishedEvent(j, next.status))
           /\ server' = IF o \in {"rolled_back", "unknown"}
                          THEN [server EXCEPT ![s] = "failed"] ELSE server
           /\ pending' = IF o \in {"rolled_back", "unknown"}
                           THEN [pending EXCEPT ![s] = noPending]
                           ELSE [pending EXCEPT ![s].stale[j] = absentJob]
      /\ UNCHANGED <<task, cancels, launches, authorized>>

Listen(s) ==
  /\ server[s] = "recovering"
  /\ pending[s] = noPending
  /\ server' = [server EXCEPT ![s] = "up"]
  /\ UNCHANGED <<jobs, timeline, pending, task, cancels, launches, authorized, faults>>

-----------------------------------------------------------------------------
\* The environment.

\* The process is gone with everything it held in memory.
Crash(s) ==
  /\ running(s)
  /\ server' = [server EXCEPT ![s] = "dead"]
  /\ pending' = [pending EXCEPT ![s] = noPending]
  /\ task' = [task EXCEPT ![s] = [j \in Jobs |-> newTask("none")]]
  /\ cancels' = [c \in Cancels |-> IF cancels[c].pc = "read" /\ cancels[c].server = s
                                     THEN answered(cancels[c]) ELSE cancels[c]]
  /\ launches' = [j \in Jobs |-> IF launches[j].pc = "checked" /\ launches[j].server = s
                                   THEN [launches[j] EXCEPT !.pc = "done"] ELSE launches[j]]
  /\ UNCHANGED <<jobs, timeline, authorized, faults>>

aged(row) == [row EXCEPT !.lease = IF @ > 0 THEN @ - 1 ELSE @]

\* Time passes: every unexpired lease is one tick nearer its end.
Tick ==
  /\ \E j \in Jobs : jobs[j].lease > 0
  /\ jobs' = [j \in Jobs |-> aged(jobs[j])]
  /\ task' = [s \in Servers |-> [j \in Jobs |->
                [task[s][j] EXCEPT !.write.row = aged(@)]]]
  /\ UNCHANGED <<timeline, server, pending, cancels, launches, authorized, faults>>

\* The requester leaves the case, is suspended, or loses the permission.
Revoke(j) ==
  /\ j \in authorized
  /\ authorized' = authorized \ {j}
  /\ UNCHANGED <<jobs, timeline, server, pending, task, cancels, launches, faults>>

Executing(s, j) ==
  \/ Claim(s, j) \/ ClaimMissed(s, j) \/ RefuseClaimed(s, j)
  \/ Prepare(s, j) \/ PrepareFails(s, j)
  \/ \E l \in Lanes : CandidateStarted(s, j, l) \/ CandidateFinished(s, j, l) \/ MockStart(s, j, l)
  \/ CommitLane(s, j)
  \/ BatchReturns(s, j) \/ BatchFails(s, j) \/ LeaseLostReturn(s, j)
  \/ SweepDone(s, j) \/ MockDone(s, j)
  \/ Finish(s, j) \/ FinishNotOwned(s, j) \/ FailOwned(s, j) \/ FailNotOwned(s, j)
  \/ Resume(s, j) \/ ResumeRefuse(s, j)

Recovering(s) ==
  \/ ListStaleRunning(s) \/ Listen(s)
  \/ \E j \in Jobs : RecoverResume(s, j) \/ RecoverRefuse(s, j) \/ RecoverStale(s, j)

Next ==
  \/ \E s \in Servers : \/ ListQueued(s) \/ Recovering(s) \/ Crash(s)
                        \/ \E j \in Jobs : Executing(s, j) \/ Heartbeat(s, j)
  \/ \E s \in Servers, j \in Jobs, a \in Attempts, m \in Modes : CreateCheck(s, j, a, m)
  \/ \E j \in Jobs : CreateInsert(j) \/ Revoke(j)
  \/ \E c \in Cancels : CancelCommit(c) \/ \E s \in Servers, j \in Jobs : CancelRead(c, s, j)
  \/ Tick

Spec == Init /\ [][Next]_vars

\* A live process keeps running its event loop, executors end (the bridge kills
\* a run at its deadline), time passes, and every process is started.
Fairness ==
  /\ WF_vars(Tick)
  /\ \A s \in Servers : /\ WF_vars(ListQueued(s))
                        /\ WF_vars(Recovering(s))
                        /\ \A j \in Jobs : WF_vars(Executing(s, j))

FairSpec == Spec /\ Fairness

-----------------------------------------------------------------------------
\* Properties.

\* A job is closed exactly once on the case timeline: a terminal row has one
\* closing event, triage_job_finished or triage_job_cancel_requested, and an
\* open row has none, whatever combination of worker, operator, recovery and
\* store failure closed it (persistJobFinished shares the transaction).
ClosedOnce ==
  \A j \in Jobs : timeline[j].finished + timeline[j].cancelRequested =
                    IF isTerminal(jobs[j].status) THEN 1 ELSE 0

\* The status that triage_job_finished publishes is the status of the record.
OutcomePublished ==
  \A j \in Jobs : timeline[j].finished > 0 => timeline[j].outcome = jobs[j].status

\* Cancellation and recovery are authoritative: no late callback, heartbeat,
\* refusal or second cancel changes a terminal job or adds to its timeline.
TerminalIsFinal ==
  [][\A j \in Jobs : isTerminal(jobs[j].status)
       => jobs'[j] = jobs[j] /\ timeline'[j] = timeline[j]]_vars

\* A lane that has settled keeps its status as long as no cancel intervenes:
\* neither the sweep after a failed batch, nor failOwnedRunningJob, nor
\* recovery from an earlier read overwrites a recorded result.
SettledLanesKept ==
  [][\A j \in Jobs, l \in Lanes :
       isTriageSettledStatus(jobs[j].lanes[l]) /\ jobs'[j].reason # "cancel_requested"
         => jobs'[j].lanes[l] = jobs[j].lanes[l]]_vars

\* A lane reports to the timeline at most once, and the record of a job that
\* was not cancelled agrees with every report.
ReportsHonoured ==
  \A j \in Jobs, l \in Lanes :
    /\ timeline[j].reports[l] <= 1
    /\ timeline[j].reports[l] = 1 /\ timeline[j].cancelRequested = 0
         => jobs[j].lanes[l] = timeline[j].reported[l]

\* The lease is a fence: once it has expired, the only change left to a running
\* job is its own recovery, with every lane it had settled (triage-runs.test.ts:
\* "refuses an expired or recovered worker from updating the job").
LeaseFence ==
  [][\A j \in Jobs : triageRunningLeaseExpired(jobs[j], StoreClock)
       => jobs'[j] \in {jobs[j], recoveredRow(jobs[j])}]_vars

\* A second server may recover only an expired lease; an active worker is never
\* treated as abandoned on startup (011_triage_worker_leases.up.sql).
ActiveWorkerNotAbandoned ==
  [][\A j \in Jobs : triageWorkerHoldsLiveLease(jobs[j], jobs[j].worker, StoreClock)
       => jobs'[j].reason # "worker_lease_expired"]_vars

\* No two processes ever execute the same job, and it is started at most once.
SingleExecutor ==
  \A j \in Jobs :
    /\ timeline[j].started <= 1
    /\ \A r, s \in Servers : hasHeartbeat(task[r][j]) /\ hasHeartbeat(task[s][j]) => r = s

\* A terminal job has no lane left open.
ClosedLanesSettled ==
  \A j \in Jobs : isTerminal(jobs[j].status)
    => \A l \in Lanes : isTriageSettledStatus(jobs[j].lanes[l])

\* Except when the runner itself failed, the terminal status is the one the
\* shared lifecycle rule gives for the lanes of the record.
LifecycleRule ==
  \A j \in Jobs : isTerminal(jobs[j].status) /\ jobs[j].reason # "runner_error"
    => jobs[j].status = resolveTriageJobStatus(jobs[j].lanes, jobs[j].reason = "cancel_requested")

\* A lane write made from an earlier read never shortens a lease that a
\* heartbeat has renewed since.
LeaseNotShortened ==
  [][\A j \in Jobs : /\ jobs[j].status = "running" /\ jobs'[j].status = "running"
                     /\ jobs'[j].lanes # jobs[j].lanes
       => jobs'[j].lease >= jobs[j].lease]_vars

\* A job refused because its requester lost authorization has done no work.
RefusedDidNoWork ==
  \A j \in Jobs : jobs[j].reason = "refused"
    => timeline[j].started = 0 /\ \A l \in Lanes : timeline[j].reports[l] = 0

\* Two launches of one attempt are never both in flight.
OneActiveAttempt ==
  LET inFlight == {j \in Jobs : /\ jobs[j].status \in {"queued", "running"}
                                /\ ~triageRunningLeaseExpired(jobs[j], StoreClock)}
  IN  \A j, k \in inFlight : jobs[j].attempt = jobs[k].attempt => j = k

-----------------------------------------------------------------------------
\* Liveness, under FairSpec.

\* A job handed to a live server is closed, unless that server dies or stalls
\* past the job's lease.
WorkerSettles ==
  \A s \in Servers, j \in Jobs :
    task[s][j].pc = "claim" ~> \/ isTerminal(jobs[j].status)
                               \/ triageRunningLeaseExpired(jobs[j], StoreClock)
                               \/ server[s] = "dead"

\* A process that starts after a lease has expired records the terminal state
\* of the abandoned job.
StaleRecovered ==
  \A s \in Servers, j \in Jobs :
    server[s] = "off" /\ triageRunningLeaseExpired(jobs[j], StoreClock)
      ~> isTerminal(jobs[j].status) \/ server[s] = "dead"

\* A process that starts while a job is queued resumes or refuses it.
QueuedRecovered ==
  \A s \in Servers, j \in Jobs :
    server[s] = "off" /\ jobs[j].status = "queued"
      ~> jobs[j].status # "queued" \/ server[s] = "dead"

-----------------------------------------------------------------------------
\* Refinement: what readers of the case see of a job.

Contract == INSTANCE TriageJobContract WITH
  phase <- [j \in Jobs |-> jobs[j].status],
  results <- [j \in Jobs |-> jobs[j].lanes],
  closings <- [j \in Jobs |-> timeline[j].finished + timeline[j].cancelRequested]

\* The service, with all its processes and failures, implements the contract.
ImplementsContract == Contract!Spec

-----------------------------------------------------------------------------
\* Statements of the repository that the code does not keep.

\* "Lane statuses that can no longer change." (triage-lifecycle.ts)
SettledLanesNeverChange ==
  [][\A j \in Jobs, l \in Lanes : isTriageSettledStatus(jobs[j].lanes[l])
       => jobs'[j].lanes[l] = jobs[j].lanes[l]]_vars

\* "Recovery on restart turns in-flight work into an honest partial/failed
\* result" (docs/benchmarks/CONNECTED_TRIAGE_RUNS_V1.md): a job whose process
\* died is closed by a process started later.
RestartClosesInFlight ==
  \A r, s \in Servers, j \in Jobs :
    (/\ server[r] = "dead" /\ jobs[j].status = "running" /\ jobs[j].worker = WorkerId[r]
     /\ server[s] = "off")
      ~> isTerminal(jobs[j].status) \/ server[s] = "dead"

=============================================================================
