------------------------- MODULE TriageJobContract -------------------------
(***************************************************************************)
(* What the triage service promises the readers of a case about one job,   *)
(* with servers, leases, retries and transactions left out: it is queued,  *)
(* it may run, its lanes settle one by one, and it closes once, with a     *)
(* status and a single closing event.  An operator's cancel may close it   *)
(* over a lane that had settled, which is then recorded as cancelled; no   *)
(* other step takes a result back.                                         *)
(***************************************************************************)
EXTENDS Naturals, TriageLifecycle

CONSTANTS Jobs, Lanes

VARIABLES phase,    \* absent, queued, running or a terminal status
          results,  \* the status of every lane of every job
          closings  \* closing events on the timeline

vars == <<phase, results, closings>>

open(status) == status \in {"queued", "running"}

Init ==
  /\ phase = [j \in Jobs |-> "absent"]
  /\ results = [j \in Jobs |-> [l \in Lanes |-> "queued"]]
  /\ closings = [j \in Jobs |-> 0]

Admit(j) ==
  /\ phase[j] = "absent"
  /\ phase' = [phase EXCEPT ![j] = "queued"]
  /\ UNCHANGED <<results, closings>>

Begin(j) ==
  /\ phase[j] = "queued"
  /\ phase' = [phase EXCEPT ![j] = "running"]
  /\ UNCHANGED <<results, closings>>

\* An open lane starts or settles.
Advance(j, l, status) ==
  /\ phase[j] = "running"
  /\ open(results[j][l])
  /\ results' = [results EXCEPT ![j][l] = status]
  /\ UNCHANGED <<phase, closings>>

\* The job closes; lanes that had settled are kept.
Close(j, status, lanes) ==
  /\ open(phase[j])
  /\ phase' = [phase EXCEPT ![j] = status]
  /\ results' = [results EXCEPT ![j] = lanes]
  /\ closings' = [closings EXCEPT ![j] = @ + 1]
  /\ \A l \in Lanes : isTriageSettledStatus(results[j][l]) => lanes[l] = results[j][l]

\* The job closes on a cancel, whose status follows from the lanes it leaves.
CloseByCancel(j, lanes) ==
  /\ open(phase[j])
  /\ phase' = [phase EXCEPT ![j] = resolveTriageJobStatus(lanes, TRUE)]
  /\ results' = [results EXCEPT ![j] = lanes]
  /\ closings' = [closings EXCEPT ![j] = @ + 1]
  /\ \A l \in Lanes : isTriageSettledStatus(results[j][l])
                        => lanes[l] \in {results[j][l], "cancelled"}

Next ==
  \E j \in Jobs :
    \/ Admit(j)
    \/ Begin(j)
    \/ \E l \in Lanes, status \in TRIAGE_JOB_STATUSES : Advance(j, l, status)
    \/ \E lanes \in [Lanes -> TRIAGE_SETTLED_CANDIDATE_STATUSES] :
         \/ CloseByCancel(j, lanes)
         \/ \E status \in TRIAGE_SETTLED_CANDIDATE_STATUSES : Close(j, status, lanes)

Spec == Init /\ [][Next]_vars

=============================================================================
