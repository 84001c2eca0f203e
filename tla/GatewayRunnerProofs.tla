------------------------- MODULE GatewayRunnerProofs -------------------------
(***************************************************************************)
(* Proofs about GatewayRunner for every number of lanes, every progress    *)
(* bound and every child, conforming or not.                               *)
(***************************************************************************)
EXTENDS GatewayRunner, TLAPS

\* Something has gone wrong that the verdict must report.
Dirty == errors # {} \/ aborted

\* What the close handler's tests rely on: a signal, sent or still to be sent,
\* has a recorded cause; a line too many and a refused line have left theirs;
\* and once the child has closed, its deadline is disarmed.
Accounted ==
  /\ signalled # "none" \/ forceKill # "unset" => Dirty
  /\ events > MAX_PROGRESS_EVENTS => errors # {}
  /\ foreign # refusing => errors # {}
  /\ child = "closed" => ~deadline

\* The inductive invariant.
IInv == TypeOK /\ Accounted /\ CallbacksDrained /\ ResolvedIsClean

-----------------------------------------------------------------------------
\* Interrupting the child keeps the signal state well typed.
LEMMA InterruptTypes ==
  ASSUME TypeOK, InterruptChild
  PROVE  signalled' \in {"none", "SIGINT", "SIGKILL"} /\ forceKill' \in {"unset", "armed", "fired"}
  BY DEF TypeOK, InterruptChild, Signal

\* So does a progress line, whose callback is one more to wait for.
LEMMA LineTypes ==
  ASSUME TypeOK, inspectProgressLine
  PROVE  /\ signalled' \in {"none", "SIGINT", "SIGKILL"}
         /\ forceKill' \in {"unset", "armed", "fired"}
         /\ errors' \in SUBSET {"timedOut", "overflow", "progress", "tooMany"}
         /\ events' = events + 1 /\ callbacks' = callbacks + 1
<1>1. CASE events' > MAX_PROGRESS_EVENTS
  BY <1>1, InterruptTypes DEF TypeOK, inspectProgressLine
<1>2. CASE ~(events' > MAX_PROGRESS_EVENTS)
  BY <1>2 DEF TypeOK, inspectProgressLine, NoSignal
<1> QED BY <1>1, <1>2

\* The counts of lines, callbacks and refusals fit together.
Counts ==
  /\ started \in 0..LaneCount /\ persisted \in 0..LaneCount
  /\ foreign \in 0..MaxForeign
  /\ events = started + persisted + foreign
  /\ callbacks \in 0..events /\ refusing \in 0..callbacks

\* Every step keeps the types.
LEMMA StepTypes ==
  ASSUME TypeOK, Next
  PROVE  TypeOK'
<1> USE RunnerAssumption DEF TypeOK
<1>1. CASE CandidateStarted
  <2>1. inspectProgressLine
    BY <1>1 DEF CandidateStarted
  <2>2. Counts'
    BY <1>1, <2>1, LineTypes DEF Counts, CandidateStarted
  <2> QED BY <1>1, <2>1, <2>2, LineTypes DEF Counts, CandidateStarted
<1>2. CASE CandidatePersisted
  <2>1. inspectProgressLine
    BY <1>2 DEF CandidatePersisted
  <2>2. Counts'
    BY <1>2, <2>1, LineTypes DEF Counts, CandidatePersisted
  <2> QED BY <1>2, <2>1, <2>2, LineTypes DEF Counts, CandidatePersisted
<1>3. CASE ForeignLine
  <2>1. inspectProgressLine
    BY <1>3 DEF ForeignLine
  <2>2. Counts'
    BY <1>3, <2>1, LineTypes DEF Counts, ForeignLine
  <2> QED BY <1>3, <2>1, <2>2, LineTypes DEF Counts, ForeignLine
<1>4. CASE BadLine
  BY <1>4, InterruptTypes DEF BadLine, stream
<1>5. CASE Overflow
  BY <1>5, InterruptTypes DEF Overflow, stream
<1>6. CASE Exit
  BY <1>6 DEF Exit, stream
<1>7. CASE CallbackReturns
  BY <1>7 DEF CallbackReturns
<1>8. CASE CallbackThrows
  BY <1>8, InterruptTypes DEF CallbackThrows
<1>9. CASE Timeout
  BY <1>9, InterruptTypes DEF Timeout, stream
<1>10. CASE Abort
  BY <1>10, InterruptTypes DEF Abort, NoSignal, stream
<1>11. CASE ForceKill
  BY <1>11 DEF ForceKill, Signal, stream
<1>12. CASE Close
  BY <1>12 DEF Close, clearTerminationTimers, stream
<1>13. CASE CloseBadRemainder
  BY <1>13 DEF CloseBadRemainder, stream
<1>14. CASE SpawnError
  BY <1>14 DEF SpawnError, clearTerminationTimers, stream, Reasons
<1>15. CASE Settle
  BY <1>15 DEF Settle, settled, envelopeVerdicts, stream, Reasons
<1> QED
  BY <1>1, <1>2, <1>3, <1>4, <1>5, <1>6, <1>7, <1>8, <1>9, <1>10, <1>11, <1>12, <1>13,
     <1>14, <1>15 DEF Next

\* The run starts well typed.
LEMMA InitTypes == Init => TypeOK
<1> SUFFICES ASSUME Init PROVE TypeOK
  OBVIOUS
<1>1. Counts
  BY RunnerAssumption DEF Init, Counts
<1>2. /\ deadline \in BOOLEAN /\ aborted \in BOOLEAN /\ output \in BOOLEAN
      /\ errors \in SUBSET {"timedOut", "overflow", "progress", "tooMany"}
      /\ promise \in {"pending", "resolved"} \union Reasons
  BY DEF Init
<1>3. /\ child \in {"running", "exited", "closed"}
      /\ signalled \in {"none", "SIGINT", "SIGKILL"}
      /\ forceKill \in {"unset", "armed", "fired"}
  BY DEF Init
<1> QED BY <1>1, <1>2, <1>3 DEF TypeOK, Counts

\* The state of one runProcess call is well typed.  In particular every
\* callback still to return belongs to a line that was counted, and the lines
\* counted are the lines delivered.
THEOREM TypeCorrect == SafeSpec => []TypeOK
<1>1. Init => TypeOK
  BY InitTypes
<1>2. TypeOK /\ [Next]_vars => TypeOK'
  <2>1. TypeOK /\ UNCHANGED vars => TypeOK'
    BY DEF TypeOK, vars
  <2> QED BY <2>1, StepTypes
<1> QED BY <1>1, <1>2, PTL DEF SafeSpec

-----------------------------------------------------------------------------
\* A progress line is counted, and one too many leaves an error behind.
LEMMA LineAccounted ==
  ASSUME TypeOK, Accounted, inspectProgressLine, aborted' = aborted
  PROVE  /\ signalled' # "none" \/ forceKill' # "unset" => Dirty'
         /\ events' > MAX_PROGRESS_EVENTS => errors' # {}
         /\ errors # {} => errors' # {}
  BY DEF TypeOK, Accounted, inspectProgressLine, NoSignal, Dirty

\* Every step leaves an account of what went wrong.
LEMMA StepAccounted ==
  ASSUME TypeOK, Accounted, Next
  PROVE  Accounted'
<1> USE DEF Accounted
<1>1. CASE CandidateStarted
  BY <1>1, LineAccounted DEF CandidateStarted
<1>2. CASE CandidatePersisted
  BY <1>2, LineAccounted DEF CandidatePersisted
<1>3. CASE ForeignLine
  <2>1. foreign \in Nat /\ refusing \in Nat
    BY RunnerAssumption DEF TypeOK
  <2> QED BY <1>3, <2>1, LineAccounted DEF ForeignLine
<1>4. CASE BadLine
  BY <1>4 DEF BadLine, stream, Dirty
<1>5. CASE Overflow
  BY <1>5 DEF Overflow, stream, Dirty
<1>6. CASE Exit
  BY <1>6 DEF Exit, stream, Dirty
<1>7. CASE CallbackReturns
  BY <1>7 DEF CallbackReturns, Dirty
<1>8. CASE CallbackThrows
  BY <1>8 DEF CallbackThrows, Dirty
<1>9. CASE Timeout
  BY <1>9 DEF Timeout, stream, Dirty
<1>10. CASE Abort
  BY <1>10 DEF Abort, stream, Dirty
<1>11. CASE ForceKill
  BY <1>11 DEF ForceKill, stream, Dirty
<1>12. CASE Close
  BY <1>12 DEF Close, clearTerminationTimers, stream, Dirty
<1>13. CASE CloseBadRemainder
  BY <1>13 DEF CloseBadRemainder, stream, Dirty
<1>14. CASE SpawnError
  BY <1>14 DEF SpawnError, clearTerminationTimers, stream, Dirty
<1>15. CASE Settle
  BY <1>15 DEF Settle, stream, Dirty
<1> QED
  BY <1>1, <1>2, <1>3, <1>4, <1>5, <1>6, <1>7, <1>8, <1>9, <1>10, <1>11, <1>12, <1>13,
     <1>14, <1>15 DEF Next

\* Before the verdict the two promises about it hold trivially.
Undecided == promise \in {"pending", "could not start"}

\* The verdict itself: it is taken with every callback back, and it accepts only
\* a run of which nothing bad is on account.
LEMMA VerdictSound ==
  ASSUME TypeOK, Accounted, Settle
  PROVE  CallbacksDrained' /\ ResolvedIsClean'
<1>1. CallbacksDrained'
  BY DEF Settle, stream, CallbacksDrained
<1>2. ResolvedIsClean'
  <2> SUFFICES ASSUME promise' = "resolved"
               PROVE  /\ output /\ ~aborted /\ errors = {} /\ signalled = "none"
                      /\ foreign = 0 /\ events <= MAX_PROGRESS_EVENTS
    BY DEF ResolvedIsClean, Settle, stream
  <2>1. output /\ ~aborted /\ errors = {}
    BY DEF Settle, settled, envelopeVerdicts
  <2>2. signalled = "none" /\ foreign = refusing /\ ~(events > MAX_PROGRESS_EVENTS)
    BY <2>1 DEF Accounted, Dirty
  <2>3. refusing = 0
    BY DEF Settle, TypeOK
  <2>4. events \in Nat /\ MAX_PROGRESS_EVENTS \in Nat
    BY RunnerAssumption DEF TypeOK
  <2> QED BY <2>1, <2>2, <2>3, <2>4
<1> QED BY <1>1, <1>2

\* After the verdict nothing it was based on can change: the child has closed,
\* so no line, callback, timer or signal is left.
LEMMA VerdictStands ==
  ASSUME IInv, Next, ~Undecided
  PROVE  /\ UNCHANGED <<promise, child, callbacks, output, aborted, errors, signalled>>
         /\ UNCHANGED <<foreign, events>>
<1> USE DEF IInv
<1>1. /\ child = "closed" /\ callbacks = 0 /\ ~deadline /\ promise # "pending"
  BY DEF Undecided, CallbacksDrained, Accounted
<1>2. CASE ForceKill
  BY <1>1, <1>2 DEF ForceKill, Signal, stream
<1>3. ~(\/ CandidateStarted \/ CandidatePersisted \/ ForeignLine \/ BadLine \/ Overflow
        \/ Exit \/ CallbackReturns \/ CallbackThrows \/ Timeout \/ Abort
        \/ Close \/ CloseBadRemainder \/ SpawnError \/ Settle)
  <2>1. ~CallbackReturns /\ ~CallbackThrows
    BY <1>1 DEF CallbackReturns, CallbackThrows, TypeOK
  <2> QED BY <1>1, <2>1 DEF CandidateStarted, CandidatePersisted, ForeignLine, BadLine,
        Overflow, Exit, Timeout, Abort, Close, CloseBadRemainder, SpawnError, Settle
<1> QED BY <1>2, <1>3 DEF Next

\* Until then, only Settle decides.
LEMMA OnlySettleDecides ==
  ASSUME Next, Undecided, ~Settle
  PROVE  Undecided'
  BY DEF Next, Undecided, CandidateStarted, CandidatePersisted, ForeignLine, BadLine,
         Overflow, Exit, CallbackReturns, CallbackThrows, Timeout, Abort, ForceKill,
         Close, CloseBadRemainder, SpawnError

\* The inductive invariant holds in every reachable state.
LEMMA Invariant == SafeSpec => []IInv
<1>1. Init => IInv
  <2>1. Init => TypeOK
    BY InitTypes
  <2> QED BY <2>1, RunnerAssumption
      DEF IInv, Init, Accounted, CallbacksDrained, ResolvedIsClean
<1>2. ASSUME IInv, Next PROVE IInv'
  <2>1. TypeOK' /\ Accounted'
    BY <1>2, StepTypes, StepAccounted DEF IInv
  <2>2. CASE Settle
    BY <1>2, <2>1, <2>2, VerdictSound DEF IInv
  <2>3. CASE ~Undecided
    <3>1. /\ UNCHANGED <<promise, child, callbacks, output, aborted, errors, signalled>>
          /\ UNCHANGED <<foreign, events>>
      BY <1>2, <2>3, VerdictStands
    <3>2. CallbacksDrained' /\ ResolvedIsClean'
      BY <1>2, <3>1 DEF IInv, CallbacksDrained, ResolvedIsClean
    <3> QED BY <2>1, <3>2 DEF IInv
  <2>4. CASE Undecided /\ ~Settle
    BY <1>2, <2>1, <2>4, OnlySettleDecides DEF IInv, Undecided, CallbacksDrained, ResolvedIsClean
  <2> QED BY <2>2, <2>3, <2>4
<1>3. IInv /\ UNCHANGED vars => IInv'
  <2> SUFFICES ASSUME IInv, UNCHANGED vars PROVE IInv'
    OBVIOUS
  <2>1. TypeOK'
    BY DEF IInv, TypeOK, vars
  <2>2. Accounted'
    BY DEF IInv, Accounted, Dirty, vars
  <2>3. CallbacksDrained' /\ ResolvedIsClean'
    BY DEF IInv, CallbacksDrained, ResolvedIsClean, vars
  <2> QED BY <2>1, <2>2, <2>3 DEF IInv
<1> QED BY <1>1, <1>2, <1>3, PTL DEF SafeSpec

\* executeBatch answers only when no progress callback can still write to the
\* job: none is running and, the child having closed, none can start.
THEOREM CallbacksDrainedHolds == SafeSpec => []CallbacksDrained
<1>1. IInv => CallbacksDrained
  BY DEF IInv
<1> QED BY <1>1, Invariant, PTL

\* A run is accepted only if it was not aborted, not signalled, stayed within the
\* progress bound and delivered no line that a callback had to refuse.
THEOREM ResolvedIsCleanHolds == SafeSpec => []ResolvedIsClean
<1>1. IInv => ResolvedIsClean
  BY DEF IInv
<1> QED BY <1>1, Invariant, PTL

=============================================================================
