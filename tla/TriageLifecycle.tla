--------------------------- MODULE TriageLifecycle ---------------------------
(***************************************************************************)
(* The lifecycle vocabulary that the War Room server and its web reader    *)
(* share (collab/contracts/src/triage-lifecycle.ts): the statuses of a job *)
(* and of its candidate lanes, and the rule that decides a job's terminal  *)
(* status from its lanes.  A job's lanes are a function from lane ids to   *)
(* statuses; what a lane produced besides its status is left out.          *)
(***************************************************************************)

TRIAGE_PRODUCING_CANDIDATE_STATUSES == {"completed", "partial"}

TRIAGE_SETTLED_CANDIDATE_STATUSES ==
  TRIAGE_PRODUCING_CANDIDATE_STATUSES \union {"failed", "timed_out", "cancelled"}

TRIAGE_JOB_STATUSES == {"queued", "running"} \union TRIAGE_SETTLED_CANDIDATE_STATUSES

isTriageSettledStatus(status) == status \in TRIAGE_SETTLED_CANDIDATE_STATUSES

\* A job is terminal in exactly the statuses a lane is settled in.
isTerminal(status) == isTriageSettledStatus(status)

\* The lanes that are in one of the given statuses: the counts of the source
\* are only ever compared with zero and with the number of lanes.
lanesIn(lanes, statuses) == {l \in DOMAIN lanes : lanes[l] \in statuses}

resolveTriageJobStatus(lanes, cancellationRequested) ==
  LET every(status) == \A l \in DOMAIN lanes : lanes[l] = status
      produced == lanesIn(lanes, TRIAGE_PRODUCING_CANDIDATE_STATUSES)
  IN  IF DOMAIN lanes = {}
        THEN IF cancellationRequested THEN "cancelled" ELSE "failed"
      ELSE IF produced = {}
        THEN IF cancellationRequested \/ every("cancelled") THEN "cancelled"
             ELSE IF every("timed_out") THEN "timed_out" ELSE "failed"
      ELSE IF every("completed") THEN "completed" ELSE "partial"

\* Mutant: every lane is overwritten, the settled ones too.
settleOpenLanes_All(lanes, status) == [l \in DOMAIN lanes |-> status]

\* Mutant: lanes that are running are left as they are.
settleOpenLanes_QueuedOnly(lanes, status) ==
  [l \in DOMAIN lanes |-> IF lanes[l] = "queued" THEN status ELSE lanes[l]]

\* Replace every lane that can still change by the given status.
settleOpenLanes(lanes, status) ==
  [l \in DOMAIN lanes |-> IF isTriageSettledStatus(lanes[l]) THEN lanes[l] ELSE status]

=============================================================================
