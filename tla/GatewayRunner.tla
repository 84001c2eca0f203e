--------------------------- MODULE GatewayRunner ---------------------------
(***************************************************************************)
(* One run of the Rust host bridge by the War Room server: executeBatch    *)
(* and runProcess of collab/server/src/modules/triage-runs/runner.ts.  The *)
(* child process writes one progress line when a lane is admitted and one  *)
(* when its result is durable; each line starts a callback into the triage *)
(* service; a deadline, an abort, too much output or a bad line interrupts *)
(* the child, with SIGKILL after a grace period; the promise settles when  *)
(* the child has closed and every callback has returned.                   *)
(*                                                                         *)
(* Lanes are interchangeable here, so they are counted.  The child may     *)
(* follow the host protocol, hang, flood, repeat a line, name a lane or a  *)
(* snapshot that is not the run's, or end without a result.                *)
(***************************************************************************)
EXTENDS Naturals

CONSTANTS LaneCount,            \* candidates of the run, at most MAX_CANDIDATES
          MAX_PROGRESS_EVENTS,  \* progress lines one run may deliver
          MaxForeign            \* bound on lines a callback has to refuse

ASSUME RunnerAssumption ==
  /\ LaneCount \in Nat \ {0}
  /\ MAX_PROGRESS_EVENTS \in Nat
  /\ MaxForeign \in Nat

VARIABLES child,      \* running, exited (streams still open) or closed
          signalled,  \* the strongest signal sent: none, SIGINT, SIGKILL
          started,    \* lanes whose admission line has been delivered
          persisted,  \* lanes whose result line has been delivered
          foreign,    \* lines delivered that repeat a lane or name an unknown one
          events,     \* progressTasks.length
          callbacks,  \* progress callbacks that have not returned
          refusing,   \* those of them that have a foreign line
          deadline,   \* the run's timeout is armed
          forceKill,  \* forceKillTimer: unset, armed or fired
          aborted,    \* the caller's abort signal fired before the verdict
          errors,     \* what has gone wrong: timedOut, overflow, progress, tooMany
          output,     \* stdout is an envelope for this job and snapshot
          promise     \* pending, resolved, or the reason it was rejected

vars == <<child, signalled, started, persisted, foreign, events, callbacks, refusing,
          deadline, forceKill, aborted, errors, output, promise>>

\* The progress stream, and the rest of the state of one runProcess call.
stream == <<started, persisted, foreign, events, callbacks, refusing>>

Reasons == {"deadline exceeded", "cancelled", "output overflow", "progress error",
            "invalid output", "could not start"}

TypeOK ==
  /\ child \in {"running", "exited", "closed"}
  /\ signalled \in {"none", "SIGINT", "SIGKILL"}
  /\ started \in 0..LaneCount /\ persisted \in 0..LaneCount
  /\ foreign \in 0..MaxForeign
  /\ events = started + persisted + foreign
  /\ callbacks \in 0..events /\ refusing \in 0..callbacks
  /\ deadline \in BOOLEAN /\ forceKill \in {"unset", "armed", "fired"}
  /\ aborted \in BOOLEAN /\ output \in BOOLEAN
  /\ errors \in SUBSET {"timedOut", "overflow", "progress", "tooMany"}
  /\ promise \in {"pending", "resolved"} \union Reasons

Init ==
  /\ child = "running" /\ signalled = "none"
  /\ started = 0 /\ persisted = 0 /\ foreign = 0
  /\ events = 0 /\ callbacks = 0 /\ refusing = 0
  /\ deadline = TRUE /\ forceKill = "unset"
  /\ aborted = FALSE /\ errors = {} /\ output = FALSE
  /\ promise = "pending"

-----------------------------------------------------------------------------
\* terminateProcessGroup(name): the group of a closed child no longer exists,
\* or is no longer this child's.
Signal(name) ==
  signalled' = IF child = "closed" \/ signalled = "SIGKILL" THEN signalled ELSE name

\* Mutant: the child is asked to stop and never made to.
InterruptChild_NoKill == Signal("SIGINT") /\ UNCHANGED forceKill

\* interruptChild: SIGINT now, SIGKILL when the grace period ends.
InterruptChild ==
  /\ Signal("SIGINT")
  /\ forceKill' = IF forceKill = "unset" THEN "armed" ELSE forceKill

NoSignal == UNCHANGED <<signalled, forceKill>>

\* A progress line reaches inspectProgressLine: it starts a callback, and one
\* line too many interrupts the child as well.
inspectProgressLine ==
  /\ events' = events + 1
  /\ callbacks' = callbacks + 1
  /\ IF events' > MAX_PROGRESS_EVENTS
       THEN errors' = errors \union {"tooMany"} /\ InterruptChild
       ELSE UNCHANGED errors /\ NoSignal

\* A line is delivered until the close event, after the child's exit too.

CandidateStarted ==
  /\ child # "closed" /\ started < LaneCount
  /\ started' = started + 1
  /\ inspectProgressLine
  /\ UNCHANGED <<child, persisted, foreign, refusing, deadline, aborted, output, promise>>

\* Mutant: the callback of a result line is not kept in progressTasks.
CandidatePersisted_Untracked ==
  /\ child # "closed" /\ persisted < LaneCount
  /\ persisted' = persisted + 1
  /\ callbacks' = callbacks + 1
  /\ UNCHANGED errors /\ NoSignal
  /\ UNCHANGED <<child, started, foreign, events, refusing, deadline, aborted, output, promise>>

CandidatePersisted ==
  /\ child # "closed" /\ persisted < LaneCount
  /\ persisted' = persisted + 1
  /\ inspectProgressLine
  /\ UNCHANGED <<child, started, foreign, refusing, deadline, aborted, output, promise>>

\* A line whose callback mapProgressEvent or the duplicate check makes throw.
ForeignLine ==
  /\ child # "closed" /\ foreign < MaxForeign
  /\ foreign' = foreign + 1 /\ refusing' = refusing + 1
  /\ inspectProgressLine
  /\ UNCHANGED <<child, started, persisted, deadline, aborted, output, promise>>

\* A line that is too long or not JSON.
BadLine ==
  /\ child # "closed"
  /\ errors' = errors \union {"progress"}
  /\ InterruptChild
  /\ UNCHANGED stream /\ UNCHANGED <<child, deadline, aborted, output, promise>>

\* stdout grows past MAX_OUTPUT_BYTES.
Overflow ==
  /\ child # "closed"
  /\ errors' = errors \union {"overflow"}
  /\ InterruptChild
  /\ UNCHANGED stream /\ UNCHANGED <<child, deadline, aborted, output, promise>>

\* The child writes its envelope and ends, ends early, or obeys a signal.
Exit ==
  /\ child = "running"
  /\ child' = "exited"
  /\ output' \in BOOLEAN
  /\ UNCHANGED stream
  /\ UNCHANGED <<signalled, deadline, forceKill, aborted, errors, promise>>

-----------------------------------------------------------------------------
\* A callback into the triage service returns, or throws.

\* Mutant: a line that repeats a lane, or names an unknown one, is let through.
CallbackReturns_Foreign ==
  /\ callbacks > 0
  /\ callbacks' = callbacks - 1
  /\ refusing' = IF refusing > 0 THEN refusing - 1 ELSE 0
  /\ UNCHANGED <<child, signalled, started, persisted, foreign, events, deadline,
                 forceKill, aborted, errors, output, promise>>

CallbackReturns ==
  /\ callbacks > refusing
  /\ callbacks' = callbacks - 1
  /\ UNCHANGED <<child, signalled, started, persisted, foreign, events, refusing, deadline,
                 forceKill, aborted, errors, output, promise>>

CallbackThrows ==
  /\ callbacks > 0
  /\ callbacks' = callbacks - 1
  /\ \/ refusing > 0 /\ refusing' = refusing - 1
     \/ callbacks > refusing /\ UNCHANGED refusing
  /\ errors' = errors \union {"progress"}
  /\ InterruptChild
  /\ UNCHANGED <<child, started, persisted, foreign, events, deadline, aborted, output, promise>>

\* The timers and the abort listener, which Close removes.

Timeout ==
  /\ deadline
  /\ deadline' = FALSE
  /\ errors' = errors \union {"timedOut"}
  /\ InterruptChild
  /\ UNCHANGED stream /\ UNCHANGED <<child, aborted, output, promise>>

Abort ==
  /\ ~aborted /\ promise = "pending"
  /\ aborted' = TRUE
  /\ IF child = "closed" THEN NoSignal ELSE InterruptChild
  /\ UNCHANGED stream /\ UNCHANGED <<child, deadline, errors, output, promise>>

\* A live child cannot outlive SIGKILL; SIGINT it may ignore.
ForceKill ==
  /\ forceKill = "armed"
  /\ Signal("SIGKILL")
  /\ forceKill' = "fired"
  /\ UNCHANGED stream /\ UNCHANGED <<child, deadline, aborted, errors, output, promise>>

clearTerminationTimers == deadline' = FALSE /\ forceKill' = "unset"

\* The close event, once the streams are drained.
Close ==
  /\ child = "exited"
  /\ child' = "closed"
  /\ clearTerminationTimers
  /\ UNCHANGED stream /\ UNCHANGED <<signalled, aborted, errors, output, promise>>

\* The close event when stderr ends in a bad line without its newline: the line
\* is inspected, and the child interrupted, after the timers were cleared.
CloseBadRemainder ==
  /\ child = "exited"
  /\ child' = "closed"
  /\ deadline' = FALSE /\ forceKill' = "armed"
  /\ errors' = errors \union {"progress"}
  /\ UNCHANGED stream /\ UNCHANGED <<signalled, aborted, output, promise>>

\* The error event, when spawn itself fails: the promise is rejected at once.
SpawnError ==
  /\ child = "running" /\ events = 0 /\ errors = {}
  /\ child' = "closed"
  /\ clearTerminationTimers
  /\ promise' = "could not start"
  /\ UNCHANGED stream /\ UNCHANGED <<signalled, aborted, errors, output>>

\* executeBatch on the envelope: accepted if it is ok and names this job, this
\* case and this snapshot; else what the child reports, or that it is not valid.
envelopeVerdicts ==
  IF output THEN {"resolved"} ELSE {"cancelled", "deadline exceeded", "invalid output"}

\* Mutant: an abort is not looked at again once the child has closed.
settled_IgnoresAbort ==
  IF "timedOut" \in errors THEN {"deadline exceeded"}
  ELSE IF "overflow" \in errors THEN {"output overflow"}
  ELSE IF errors # {} THEN {"progress error"}
  ELSE envelopeVerdicts

\* The verdict, in the order the close handler tests.
settled ==
  IF "timedOut" \in errors THEN {"deadline exceeded"}
  ELSE IF aborted THEN {"cancelled"}
  ELSE IF "overflow" \in errors THEN {"output overflow"}
  ELSE IF errors # {} THEN {"progress error"}
  ELSE envelopeVerdicts

\* Mutant: the promise settles on close, without waiting for callbacks.
Settle_OnClose ==
  /\ child = "closed" /\ promise = "pending"
  /\ promise' \in settled
  /\ UNCHANGED stream
  /\ UNCHANGED <<child, signalled, deadline, forceKill, aborted, errors, output>>

\* Promise.all(progressTasks), and then the verdict.
Settle ==
  /\ child = "closed" /\ promise = "pending"
  /\ callbacks = 0
  /\ promise' \in settled
  /\ UNCHANGED stream
  /\ UNCHANGED <<child, signalled, deadline, forceKill, aborted, errors, output>>

Next ==
  \/ CandidateStarted \/ CandidatePersisted \/ ForeignLine \/ BadLine \/ Overflow \/ Exit
  \/ CallbackReturns \/ CallbackThrows
  \/ Timeout \/ Abort \/ ForceKill
  \/ Close \/ CloseBadRemainder \/ SpawnError \/ Settle

SafeSpec == Init /\ [][Next]_vars

\* Timers fire, callbacks return or throw, the kernel honours SIGKILL, and the
\* event loop delivers close; the child owes nothing else.
Fairness ==
  /\ WF_vars(Timeout) /\ WF_vars(ForceKill)
  /\ WF_vars(CallbackReturns \/ CallbackThrows)
  /\ WF_vars(signalled = "SIGKILL" /\ Exit)
  /\ WF_vars(Close \/ CloseBadRemainder) /\ WF_vars(Settle)

Spec == SafeSpec /\ Fairness

-----------------------------------------------------------------------------
\* Properties.

\* executeBatch hands back a verdict only when no progress callback can still
\* write to the job: none is running, and none can start.
CallbacksDrained ==
  promise \notin {"pending", "could not start"} => callbacks = 0 /\ child = "closed"

\* A run is accepted only if nothing went wrong before the verdict: it was not
\* aborted, no signal was sent, every line of the child was within the bound and
\* none repeated a lane or named an unknown one.
ResolvedIsClean ==
  promise = "resolved" =>
    /\ output /\ ~aborted /\ errors = {} /\ signalled = "none"
    /\ foreign = 0 /\ events <= MAX_PROGRESS_EVENTS

\* Whatever the child does, and even if it ignores SIGINT, the promise settles:
\* the worker of the job is never left waiting (runner.test.ts: "force-kills a
\* host that ignores cancellation after the timeout bound").
Settles == <>(promise # "pending")

=============================================================================
