----------------------------- MODULE AgentTurn -----------------------------
(***************************************************************************)
(* The turns of one chat session: run_agent_turn_with_sink_and_checkpoint  *)
(* of cd-core agent.rs, from the checkpoint the desktop host resolves for  *)
(* it to the one it stores afterwards.  A turn is ordinary, or linked to a *)
(* log corpus whose evidence it has to retrieve before it may answer, or a *)
(* retry that answers again from evidence an earlier turn left behind.     *)
(*                                                                         *)
(* The corpus and its noise policy change underneath: a log tool checks    *)
(* the revision first and queries later.  The provider, the tools, the     *)
(* user's cancellation and the deadline are the environment.               *)
(***************************************************************************)
EXTENDS CheckpointStore, Sequences

CONSTANTS Own,              \* the session of this chat
          Tools,            \* the read tools offered
          SearchLogs,       \* search_logs
          LogTools,         \* the tools that read the corpus
          TriageTools,      \* cluster_problems and timeline
          Asks,             \* what a user may ask for: sources, and broad triage
          CheckpointSizes,  \* sizes of a checkpoint
          NoLens, NoCheckpoint, NoAnswer, NoTool,
          MaxRounds,        \* max_rounds
          MaxBatch,         \* bound on the tool calls of one answer
          MaxTurns,         \* bound on turns
          MaxChanges,       \* bound on changes of the corpus and of its noise policy
          MaxSequence       \* bound on the inserts of other sessions

\* Evidence that no tool has retrieved: the host's brief, whole or cut off.
Briefs == {"brief", "truncated brief"}

ASSUME TurnAssumption ==
  /\ Own \in Sessions
  /\ SearchLogs \in LogTools /\ LogTools \subseteq Tools
  /\ TriageTools \subseteq LogTools /\ Briefs \intersect Tools = {}
  /\ Asks \subseteq [required : Seq(SUBSET Tools), broad : BOOLEAN] /\ Asks /= {}
  /\ \A ask \in Asks :
       /\ Len(ask.required) > 0 /\ ask.required[1] \subseteq {SearchLogs}
       /\ ask.broad => \A tool \in TriageTools :
            \E i \in DOMAIN ask.required : ask.required[i] = {tool}
  /\ CheckpointSizes \subseteq Nat
  /\ {MaxRounds, MaxBatch, MaxTurns, MaxChanges, MaxSequence} \subseteq Nat

VARIABLES corpus,     \* revision of the events, and of the noise policy
          pin,        \* pinned_log_suppression of the host
          turn,       \* control state of the turn
          reads,      \* successful_read_tools
          logs,       \* log evidence: retrieved, citable, known to be empty
          evidence,   \* current_turn_evidence, with the lens each item was read at
          slot,       \* checkpoint_out
          store,      \* linked_synthesis_checkpoints
          last,       \* how the turn ended, until it is settled
          turns       \* turns so far

vars == <<corpus, pin, turn, reads, logs, evidence, slot, store, last, turns>>
found == <<reads, logs, evidence>>

Lenses == [events : Nat, policy : Nat]
Items == [tool : Tools \union Briefs, lens : Lenses \union {NoLens}]
Checkpoints == [ask : Asks, lens : Lenses, evidence : SUBSET Items, empty : BOOLEAN]

Points == {"idle", "pin", "enter", "retry", "retrying", "brief", "briefing", "routes",
           "kept", "round", "send", "provider", "prefetch", "tools", "executing",
           "record", "final", "concluding", "settle"}

TypeOK ==
  /\ corpus \in Lenses
  /\ pin \in Lenses \union {NoLens}
  /\ turn \in [at : Points, kind : {"ordinary", "linked", "retry"}, ask : Asks,
               bounded : BOOLEAN, cancel : BOOLEAN, round : Nat, attempt : Nat,
               toolsOff : BOOLEAN, deepen : BOOLEAN, deepened : BOOLEAN,
               synthesizing : BOOLEAN, calls : Nat, tool : Tools \union {NoTool},
               nudged : SUBSET Nat, corrected : BOOLEAN,
               search : {"none", "tried", "stopped"}, full : BOOLEAN]
  /\ reads \in SUBSET Tools
  /\ logs \in [ok : BOOLEAN, citable : BOOLEAN, empty : BOOLEAN]
  /\ evidence \in SUBSET Items
  /\ slot \in Checkpoints \union {NoCheckpoint}
  /\ \A s \in Sessions : store[s] = NoEntry
       \/ store[s] \in [seq : Nat, bytes : Nat, checkpoint : Checkpoints \union {NoCheckpoint}]
  /\ turns \in Nat

NewTurn(kind, ask, bounded) ==
  [at |-> "pin", kind |-> kind, ask |-> ask, bounded |-> bounded, cancel |-> FALSE,
   round |-> 0, attempt |-> 0, toolsOff |-> FALSE, deepen |-> FALSE, deepened |-> FALSE,
   synthesizing |-> FALSE, calls |-> 0, tool |-> NoTool, nudged |-> {},
   corrected |-> FALSE, search |-> "none", full |-> FALSE]

\* What a turn that has not begun, or has returned, leaves in its locals.
NoLogs == [ok |-> FALSE, citable |-> FALSE, empty |-> FALSE]
AnyAsk == CHOOSE ask \in Asks : TRUE
NoTurn(at) == [NewTurn("ordinary", AnyAsk, TRUE) EXCEPT !.at = at]

Ending(reason, told, answer) == [reason |-> reason, told |-> told, answer |-> answer]
NoEnding == Ending("none", "nothing", NoAnswer)

Init ==
  /\ corpus = [events |-> 0, policy |-> 0]
  /\ pin = NoLens
  /\ turn = NoTurn("idle")
  /\ reads = {} /\ evidence = {} /\ logs = NoLogs
  /\ slot = NoCheckpoint
  /\ store = EmptyStore
  /\ last = NoEnding
  /\ turns = 0

-----------------------------------------------------------------------------
Linked == turn.kind = "linked"

\* linked_required_reads: each read is a set of tools one of which has to succeed,
\* the linked logs first; a source that is not available is a set without tools.
Unread(ask, tools) == {i \in DOMAIN ask.required : ask.required[i] \intersect tools = {}}
Missing == Unread(turn.ask, reads)

\* linked_tool_closed_synthesis_ready.
Closed == Linked /\ Missing = {} /\ ~turn.deepen

\* validate_log_analysis_revision: the pinned lens still fits the events.  The
\* noise policy is pinned by value, so only the events are compared.
Current == corpus.events = pin.events

\* Mutant: the lens is pinned, and never compared again.
SnapshotFits_Pinned == TRUE

\* validate_linked_turn_snapshot, ahead of every request to the provider.
SnapshotFits == Linked => Current

\* Mutant: only the deadline ends a wait.
Interrupted_DeadlineOnly == FALSE

\* wait_for_cancel, polled by every wait of within_turn_deadline.
Interrupted == turn.cancel

-----------------------------------------------------------------------------
(* How a turn ends.  What the user is told about the evidence is part of   *)
(* the ending.                                                             *)

Finish(reason, told, answer) ==
  /\ turn' = NoTurn("settle")
  /\ last' = Ending(reason, told, answer)
  /\ pin' = NoLens /\ reads' = {} /\ evidence' = {} /\ logs' = NoLogs
  /\ UNCHANGED <<corpus, store, turns>>

EndTurn(reason) == Finish(reason, "nothing", NoAnswer) /\ UNCHANGED slot

\* Mutant: the user is told that the evidence is kept without looking.
Preserved_Always == "preserved"

Preserved == IF slot /= NoCheckpoint THEN "preserved" ELSE "lost"

\* terminal_synthesis_time and terminal_linked_provider_failure.
EndUnanswered(reason) == Finish(reason, Preserved, NoAnswer) /\ UNCHANGED slot

Cancelled == Interrupted /\ EndTurn("cancel")

\* A wait that its phase cap or the whole-turn deadline cuts short.
DeadlineEnds ==
  /\ turn.bounded
  /\ IF turn.synthesizing THEN EndUnanswered("synthesis_timeout") ELSE EndTurn("budget_time")

Show(reason, cited) ==
  /\ Finish(reason, "nothing",
       [kind |-> turn.kind, cited |-> cited, lens |-> pin, evidence |-> evidence,
        ask |-> turn.ask, logs |-> logs])
  /\ slot' = NoCheckpoint

-----------------------------------------------------------------------------
(* The desktop host starts a turn.                                         *)

\* Any turn but a retry drops the session's checkpoint.
BeginTurn(kind, ask, bounded) ==
  /\ turn.at = "idle" /\ turns < MaxTurns
  /\ kind = "linked" \/ (kind = "ordinary" /\ ask = AnyAsk)
  /\ turn' = NewTurn(kind, ask, bounded)
  /\ store' = Without(store, {Own})
  /\ turns' = turns + 1
  /\ UNCHANGED <<corpus, pin, found, slot, last>>

\* A retry finds the checkpoint unless it has expired or was evicted, and has to
\* come from the same corpus, provider and model.
BeginRetry(bounded, age, matches) ==
  LET purged == Purged(store, age)
      usable == purged[Own] /= NoEntry /\ matches
  IN /\ turn.at = "idle" /\ turns < MaxTurns
     /\ turns' = turns + 1
     /\ IF usable
        THEN /\ turn' = NewTurn("retry", purged[Own].checkpoint.ask, bounded)
             /\ slot' = purged[Own].checkpoint
             /\ store' = purged
        ELSE /\ store' = Without(purged, {Own})
             /\ UNCHANGED <<turn, slot>>
     /\ UNCHANGED <<corpus, pin, found, last>>

\* The host pins the corpus of a linked turn or of a retry.
PinHost ==
  /\ turn.at = "pin"
  /\ pin' = IF turn.kind = "ordinary" THEN NoLens ELSE corpus
  /\ turn' = [turn EXCEPT !.at = "enter"]
  /\ UNCHANGED <<corpus, found, slot, store, last, turns>>

\* The policy does not validate: the turn returns before its checkpoint is settled.
PinFails ==
  /\ turn.at = "pin" /\ turn.kind /= "ordinary"
  /\ turn' = NoTurn("idle")
  /\ slot' = NoCheckpoint
  /\ UNCHANGED <<corpus, pin, found, store, last, turns>>

-----------------------------------------------------------------------------
(* run_linked_synthesis_retry.                                             *)

\* validate_linked_log_checkpoint: the retry's own pin is the checkpoint's lens.
RetryFits == slot.lens = pin /\ Current

RetryStale ==
  /\ turn.at = "enter" /\ turn.kind = "retry" /\ ~RetryFits
  /\ Finish("retry_stale", "nothing", NoAnswer)
  /\ slot' = NoCheckpoint

\* The preserved evidence is all the provider gets.
EnterRetry ==
  /\ turn.at = "enter" /\ turn.kind = "retry" /\ RetryFits
  /\ turn' = [turn EXCEPT !.at = "retry", !.synthesizing = TRUE]
  /\ evidence' = slot.evidence
  /\ logs' = [ok |-> TRUE, citable |-> ~slot.empty, empty |-> slot.empty]
  /\ UNCHANGED <<corpus, pin, reads, slot, store, last, turns>>

\* The evidence does not fit the model's context, or the call goes out.
SendRetry ==
  /\ turn.at = "retry"
  /\ \/ Cancelled
     \/ EndTurn("context_too_long")
     \/ /\ ~Interrupted
        /\ turn' = [turn EXCEPT !.at = "retrying"]
        /\ UNCHANGED <<corpus, pin, found, slot, store, last, turns>>

RetryInterrupted == turn.at = "retrying" /\ (Cancelled \/ DeadlineEnds)

\* An answer without valid citations is withheld; the evidence stays for another
\* retry, as it does when the provider fails.
RetryAnswers ==
  /\ turn.at = "retrying"
  /\ \/ Show("stop", "valid")
     \/ Finish("invalid_grounded_answer", "preserved", NoAnswer) /\ UNCHANGED slot
     \/ EndTurn("error")

-----------------------------------------------------------------------------
(* A turn enters the core; a broad triage starts with the host's brief.    *)

EnterOrdinary ==
  /\ turn.at = "enter" /\ turn.kind = "ordinary"
  /\ turn' = [turn EXCEPT !.at = "round"]
  /\ UNCHANGED <<corpus, pin, found, slot, store, last, turns>>

\* The core pins the corpus again; every log tool of the turn uses this lens.
EnterLinked ==
  /\ turn.at = "enter" /\ Linked
  /\ \/ EndTurn("snapshot_stale")
     \/ /\ pin' = corpus
        /\ turn' = [turn EXCEPT !.at = IF turn.ask.broad THEN "brief" ELSE "round"]
        /\ UNCHANGED <<corpus, found, slot, store, last, turns>>

\* prepare_broad_log_triage_brief checks the revision; a failure here or in the
\* worker leaves the investigation to the model's own tools.
PrepareBrief ==
  /\ turn.at = "brief"
  /\ turn' = [turn EXCEPT !.at = IF Current THEN "briefing" ELSE "round"]
  /\ UNCHANGED <<corpus, pin, found, slot, store, last, turns>>

BriefInterrupted ==
  turn.at = "briefing" /\ (Cancelled \/ DeadlineEnds)

BriefFails ==
  /\ turn.at = "briefing"
  /\ turn' = [turn EXCEPT !.at = "round"]
  /\ UNCHANGED <<corpus, pin, found, slot, store, last, turns>>

\* The brief is discarded if the corpus has changed while the worker ran.  It
\* stands for search_logs, even if it shows that there are no events, and for the
\* triage tools as well if its text was not truncated.
BriefReady(truncated, empty) ==
  /\ turn.at = "briefing" /\ Current
  /\ evidence' = evidence \union
                   {[tool |-> IF truncated THEN "truncated brief" ELSE "brief", lens |-> pin]}
  /\ logs' = [ok |-> TRUE, citable |-> ~empty, empty |-> empty]
  /\ reads' = {SearchLogs} \union (IF truncated THEN {} ELSE TriageTools)
  /\ turn' = [turn EXCEPT !.full = ~truncated, !.synthesizing = ~truncated,
                          !.at = IF truncated THEN "kept" ELSE "routes"]
  /\ UNCHANGED <<corpus, pin, slot, store, last, turns>>

\* The fast, contribution, review and multi-stage routes answer a complete brief
\* by themselves, with an answer the host has validated, or fall through, as they
\* do without groups of events to compare.  They run ahead of the checkpoint, so
\* none of their endings leaves one.
RoutesInterrupted == turn.at = "routes" /\ (Cancelled \/ DeadlineEnds)

RoutesEnd ==
  /\ turn.at = "routes" /\ logs.citable
  /\ \/ Show("stop", "host")
     \/ EndUnanswered("synthesis_provider_error")
     \/ EndUnanswered("multi_stage_budget_exhausted")
     \/ EndTurn("invalid_grounded_answer")
     \/ EndTurn("error")

RoutesFallThrough ==
  /\ turn.at = "routes"
  /\ turn' = [turn EXCEPT !.at = "kept"]
  /\ UNCHANGED <<corpus, pin, found, slot, store, last, turns>>

NewCheckpoint == [ask |-> turn.ask, lens |-> pin, evidence |-> evidence, empty |-> logs.empty]

\* Mutant: a checkpoint is taken as soon as there is log evidence.
Checkpointable_AnyLog == Linked /\ logs.citable

\* Every required source has been read and something can be cited.
Checkpointable == Linked /\ Missing = {} /\ (logs.citable \/ logs.empty)

KeepBrief ==
  /\ turn.at = "kept"
  /\ slot' = IF Checkpointable THEN NewCheckpoint ELSE slot
  /\ turn' = [turn EXCEPT !.at = "round"]
  /\ UNCHANGED <<corpus, pin, found, store, last, turns>>

-----------------------------------------------------------------------------
(* The rounds.                                                             *)

\* A round starts, unless the turn was cancelled or is out of time or context.
\* A complete brief is offered one more search before it is synthesized.
StartRound ==
  /\ turn.at = "round" /\ turn.round < MaxRounds
  /\ \/ Cancelled
     \/ turn.bounded /\ EndTurn("budget_time")
     \/ ~Interrupted /\ EndTurn("context_too_long")
     \/ LET deepen == /\ Linked /\ turn.ask.broad /\ turn.full /\ Missing = {}
                      /\ ~turn.deepened /\ ~logs.empty
        IN /\ ~Interrupted
           /\ turn' = [turn EXCEPT !.at = "send", !.deepen = deepen,
                                   !.deepened = @ \/ deepen,
                                   !.synthesizing = Linked /\ Missing = {}]
           /\ UNCHANGED <<corpus, pin, found, slot, store, last, turns>>

SendRound ==
  /\ turn.at = "send"
  /\ IF ~SnapshotFits
     THEN EndTurn("snapshot_stale")
     ELSE \/ Cancelled
          \/ /\ ~Interrupted
             /\ turn' = [turn EXCEPT !.at = "provider"]
             /\ UNCHANGED <<corpus, pin, found, slot, store, last, turns>>

RoundInterrupted == turn.at = "provider" /\ (Cancelled \/ DeadlineEnds)

\* The gateway rejects tools: once per round the request is repeated without them,
\* after a prefetch from the knowledge base.
ToolsUnsupported ==
  /\ turn.at = "provider" /\ ~turn.toolsOff
  /\ turn' = [turn EXCEPT !.at = "prefetch", !.toolsOff = TRUE, !.synthesizing = FALSE]
  /\ UNCHANGED <<corpus, pin, found, slot, store, last, turns>>

PrefetchInterrupted == turn.at = "prefetch" /\ (Cancelled \/ DeadlineEnds)

Prefetched ==
  /\ turn.at = "prefetch"
  /\ \/ EndTurn("context_too_long")
     \/ /\ turn' = [turn EXCEPT !.at = "send"]
        /\ UNCHANGED <<corpus, pin, found, slot, store, last, turns>>

\* The provider rejects the context: compacted and repeated once per round.
ContextRejected ==
  /\ turn.at = "provider"
  /\ \/ EndTurn("context_too_long")
     \/ /\ turn.attempt = 0
        /\ turn' = [turn EXCEPT !.at = "send", !.attempt = 1]
        /\ UNCHANGED <<corpus, pin, found, slot, store, last, turns>>

\* The evidence is said to be kept only if there is a checkpoint; an ordinary
\* turn says nothing of evidence.
ProviderFails ==
  /\ turn.at = "provider"
  /\ IF Linked THEN EndUnanswered("provider_error") ELSE EndTurn("provider_error")

\* attempt and tools_disabled are locals of the round's provider loop.
LeaveProvider(at) == [turn EXCEPT !.at = at, !.attempt = 0, !.toolsOff = FALSE]

\* The answer asks for tools, by native calls or by the JSON fallback.
AsksForTools(n) ==
  /\ turn.at = "provider" /\ ~Closed
  /\ turn.deepen => n = 1
  /\ turn' = [LeaveProvider("tools") EXCEPT !.calls = n, !.synthesizing = FALSE]
  /\ UNCHANGED <<corpus, pin, found, slot, store, last, turns>>

\* Citation status of an answer: there must be something to cite, or the brief has
\* shown that there is nothing.
Citations == IF logs.citable \/ logs.empty THEN {"valid", "missing", "invalid"}
             ELSE {"missing", "invalid"}

LastRound == turn.round + 1 >= MaxRounds

NextRound(changed) ==
  /\ turn' = [changed EXCEPT !.round = @ + 1, !.deepen = FALSE, !.synthesizing = FALSE]
  /\ UNCHANGED <<corpus, pin, found, slot, store, last, turns>>

\* The first missing source, if the turn has a tool for it and has not insisted on
\* it yet.
Nudges == {i \in Missing : /\ \A j \in Missing : i <= j
                          /\ turn.ask.required[i] /= {} /\ i \notin turn.nudged}

\* Prose instead of the tool call the turn still needs: insist once per source.
Nudge(i) ==
  /\ turn.at = "provider" /\ Linked /\ ~LastRound
  /\ i \in Nudges
  /\ NextRound([LeaveProvider("round") EXCEPT !.nudged = @ \union {i}])

\* An answer that does not cite the evidence is sent back once.
Correct(cited) ==
  /\ turn.at = "provider" /\ Linked /\ Missing = {}
  /\ cited /= "valid" /\ ~turn.corrected /\ ~LastRound
  /\ NextRound([LeaveProvider("round") EXCEPT !.corrected = TRUE])

\* The answer is final.  Without citations the host attaches the evidence; with
\* wrong ones, or with a source missing, nothing is shown.
Answer(cited) ==
  /\ turn.at = "provider"
  /\ \/ /\ turn.kind = "ordinary"
        /\ Show("stop", "none")
     \/ /\ Linked /\ Missing = {}
        /\ cited /= "valid" => turn.corrected \/ LastRound
        /\ CASE cited = "valid" -> Show("stop", "valid")
             [] cited = "missing" /\ logs.citable -> Show("stop", "appendix")
             [] OTHER -> EndTurn("invalid_grounded_answer")
     \/ /\ Linked /\ Missing /= {}
        /\ LastRound \/ Nudges = {}
        /\ EndTurn(IF logs.ok THEN "required_source_missing" ELSE "no_log_evidence")

-----------------------------------------------------------------------------
(* The tool calls of an answer, in turn.                                   *)

Answered == [turn EXCEPT !.calls = @ - 1, !.at = "tools", !.tool = NoTool]

\* Mutant: a batch is walked one call too far.
RejectCall_OneMore ==
  /\ turn.at = "tools"
  /\ turn' = Answered
  /\ UNCHANGED <<corpus, pin, found, slot, store, last, turns>>

\* Malformed arguments, a tool this turn may not use, or a search the host has
\* stopped: the model gets the refusal as the result of the call.
RejectCall ==
  /\ turn.at = "tools" /\ turn.calls > 0
  /\ turn' = Answered
  /\ UNCHANGED <<corpus, pin, found, slot, store, last, turns>>

\* ToolHost::execute: a log tool compares the pinned lens with the corpus before it
\* queries; one that does not fit fails, which ends the call but not the turn.
ExecuteTool(tool) ==
  /\ turn.at = "tools" /\ turn.calls > 0
  /\ turn.kind = "ordinary" => tool \notin LogTools
  /\ turn.search = "stopped" => tool /= SearchLogs
  /\ \/ Cancelled
     \/ /\ ~Interrupted
        /\ turn' = [turn EXCEPT !.tool = tool, !.synthesizing = FALSE,
                      !.at = IF tool \in LogTools /\ ~Current THEN "record" ELSE "executing"]
        /\ UNCHANGED <<corpus, pin, found, slot, store, last, turns>>

ToolInterrupted == turn.at = "executing" /\ (Cancelled \/ DeadlineEnds)

\* observe_search_logs stops further searches once one that is not the first brings
\* nothing new.
Searched(stops) ==
  IF turn.tool /= SearchLogs THEN turn.search
  ELSE IF turn.search /= "none" /\ stops THEN "stopped"
  ELSE IF turn.search = "none" THEN "tried" ELSE turn.search

ToolFails(stops) ==
  /\ turn.at = "executing"
  /\ turn' = [turn EXCEPT !.at = "record", !.search = Searched(stops)]
  /\ UNCHANGED <<corpus, pin, found, slot, store, last, turns>>

\* The query reads the corpus as it is now, under the noise policy that was pinned.
ReadAt(tool) ==
  IF tool \in LogTools THEN [events |-> corpus.events, policy |-> pin.policy] ELSE NoLens

\* A search without hits is no evidence, but an optional one is disclosed.
ToolReads(hits, stops) ==
  LET counts == turn.tool = SearchLogs => hits
      kept == Linked /\ (counts \/ turn.deepen)
  IN /\ turn.at = "executing"
     /\ turn' = [turn EXCEPT !.at = "record", !.search = Searched(stops)]
     /\ reads' = IF counts THEN reads \union {turn.tool} ELSE reads
     /\ logs' = IF turn.tool = SearchLogs /\ hits
                THEN [logs EXCEPT !.ok = TRUE, !.citable = TRUE] ELSE logs
     /\ evidence' = IF kept
                    THEN evidence \union {[tool |-> turn.tool, lens |-> ReadAt(turn.tool)]}
                    ELSE evidence
     /\ UNCHANGED <<corpus, pin, slot, store, last, turns>>

\* Mutant: the checkpoint takes the pinned revisions without comparing them.
Recorded_Unchecked == NewCheckpoint

\* pinned_linked_log_revisions fails if the corpus has changed under the query.
Recorded == IF Current THEN NewCheckpoint ELSE NoCheckpoint

RecordResult ==
  /\ turn.at = "record"
  /\ slot' = IF Checkpointable THEN Recorded ELSE slot
  /\ turn' = Answered
  /\ UNCHANGED <<corpus, pin, found, store, last, turns>>

\* A write without a grant ends an ordinary turn; a linked one offers no writes.
AwaitPermission ==
  turn.at = "executing" /\ turn.kind = "ordinary" /\ EndTurn("awaiting_permission")

BatchDone ==
  /\ turn.at = "tools" /\ turn.calls = 0
  /\ NextRound([turn EXCEPT !.at = "round"])

-----------------------------------------------------------------------------
(* The rounds are used up: one last request without tools.                 *)

StartFinal ==
  /\ turn.at = "round" /\ turn.round = MaxRounds
  /\ \/ EndTurn("context_too_long")
     \/ /\ turn' = [turn EXCEPT !.at = "final", !.synthesizing = TRUE]
        /\ UNCHANGED <<corpus, pin, found, slot, store, last, turns>>

SendFinal ==
  /\ turn.at = "final"
  /\ IF ~SnapshotFits
     THEN EndTurn("snapshot_stale")
     ELSE \/ Cancelled
          \/ /\ ~Interrupted
             /\ turn' = [turn EXCEPT !.at = "concluding"]
             /\ UNCHANGED <<corpus, pin, found, slot, store, last, turns>>

FinalInterrupted == turn.at = "concluding" /\ (Cancelled \/ DeadlineEnds)

FinalFails ==
  /\ turn.at = "concluding"
  /\ IF Linked /\ logs.ok THEN EndUnanswered("provider_error") ELSE EndTurn("budget_rounds")

\* Mutant: a last answer is shown if what it cites, if anything, is there.
Withheld_WrongCitation(cited) == logs.ok /\ cited = "invalid"

\* A last answer is withheld without log evidence, with an incomplete triage, and
\* with wrong citations.
Withheld(cited) ==
  \/ ~logs.ok
  \/ turn.ask.broad /\ ~(TriageTools \subseteq reads)
  \/ cited = "invalid"
  \/ cited = "missing" /\ ~logs.citable

FinalAnswer(cited) ==
  /\ turn.at = "concluding"
  /\ IF ~Linked THEN Show("budget_rounds_answer", "none")
     ELSE IF Withheld(cited) THEN EndTurn("invalid_grounded_answer")
     ELSE Show("budget_rounds_answer", IF cited = "valid" THEN "valid" ELSE "appendix")

-----------------------------------------------------------------------------
(* The desktop host settles the checkpoint; a retry is offered if it held. *)

Settle(age, bytes) ==
  /\ turn.at = "settle"
  /\ store' = IF slot = NoCheckpoint THEN Without(store, {Own})
              ELSE Inserted(Purged(store, age), Own, bytes, slot)
  /\ last' = NoEnding
  /\ turn' = NoTurn("idle")
  /\ slot' = NoCheckpoint
  /\ UNCHANGED <<corpus, pin, found, turns>>

\* The session store cannot be opened, or the answer not saved: an early return.
SettleFails ==
  /\ turn.at = "settle"
  /\ last' = NoEnding
  /\ turn' = NoTurn("idle")
  /\ slot' = NoCheckpoint
  /\ UNCHANGED <<corpus, pin, found, store, turns>>

-----------------------------------------------------------------------------
(* The environment.                                                        *)

\* Events are appended or analysed again.
CorpusChanges ==
  /\ corpus.events + corpus.policy < MaxChanges
  /\ corpus' = [corpus EXCEPT !.events = @ + 1]
  /\ UNCHANGED <<pin, turn, found, slot, store, last, turns>>

PolicyChanges ==
  /\ corpus.events + corpus.policy < MaxChanges
  /\ corpus' = [corpus EXCEPT !.policy = @ + 1]
  /\ UNCHANGED <<pin, turn, found, slot, store, last, turns>>

\* request_agent_turn_cancel.
UserCancels ==
  /\ turn.at \notin {"idle", "settle"} /\ ~turn.cancel
  /\ turn' = [turn EXCEPT !.cancel = TRUE]
  /\ UNCHANGED <<corpus, pin, found, slot, store, last, turns>>

\* A turn of another session leaves a checkpoint.  This session looks at the store
\* only as its turn begins and settles, so that is when it matters.
OtherInserts(s, age, bytes) ==
  /\ turn.at \in {"idle", "settle"}
  /\ s /= Own /\ Max(Sequences(store)) < MaxSequence
  /\ store' = Inserted(Purged(store, age), s, bytes, NoCheckpoint)
  /\ UNCHANGED <<corpus, pin, turn, found, slot, last, turns>>

\* The chat is deleted, archived, linked to another corpus or given another provider:
\* its checkpoint goes.  A turn under way has its own copy and settles over it, so
\* between turns is when it matters.
DropCheckpoint ==
  /\ turn.at = "idle" /\ store[Own] /= NoEntry
  /\ store' = Without(store, {Own})
  /\ UNCHANGED <<corpus, pin, turn, found, slot, last, turns>>

-----------------------------------------------------------------------------
\* What the host does by itself, a deadline and a cancellation included.
HostStep ==
  \/ PinHost \/ PinFails \/ RetryStale \/ EnterRetry \/ SendRetry \/ RetryInterrupted
  \/ EnterOrdinary \/ EnterLinked \/ PrepareBrief \/ BriefInterrupted
  \/ RoutesInterrupted \/ KeepBrief \/ StartRound \/ SendRound \/ RoundInterrupted
  \/ PrefetchInterrupted \/ RejectCall \/ ToolInterrupted \/ RecordResult
  \/ \E tool \in Tools : ExecuteTool(tool)
  \/ BatchDone \/ StartFinal \/ SendFinal \/ FinalInterrupted
  \/ \E age \in Sequences(store), bytes \in CheckpointSizes : Settle(age, bytes)
  \/ SettleFails

\* What comes back from the provider, the tools and the worker, if anything does.
Reply ==
  \/ RetryAnswers \/ BriefFails \/ RoutesEnd \/ RoutesFallThrough
  \/ \E truncated, empty \in BOOLEAN : BriefReady(truncated, empty)
  \/ ToolsUnsupported \/ Prefetched \/ ContextRejected \/ ProviderFails
  \/ \E n \in 1..MaxBatch : AsksForTools(n)
  \/ \E i \in Nudges : Nudge(i)
  \/ \E cited \in Citations : Correct(cited) \/ Answer(cited) \/ FinalAnswer(cited)
  \/ \E stops \in BOOLEAN : ToolFails(stops)
  \/ \E hits, stops \in BOOLEAN : ToolReads(hits, stops)
  \/ AwaitPermission \/ FinalFails

Environment ==
  \/ \E kind \in {"ordinary", "linked"}, ask \in Asks, bounded \in BOOLEAN :
       BeginTurn(kind, ask, bounded)
  \/ \E bounded, matches \in BOOLEAN, age \in Sequences(store) :
       BeginRetry(bounded, age, matches)
  \/ CorpusChanges \/ PolicyChanges \/ UserCancels \/ DropCheckpoint
  \/ \E s \in Sessions, age \in Sequences(store), bytes \in CheckpointSizes :
       OtherInserts(s, age, bytes)

Next == HostStep \/ Reply \/ Environment

Spec == Init /\ [][Next]_vars

\* The host keeps going, polls for cancellation and its clock runs; whether the
\* provider or a tool ever replies is not assumed.
FairSpec == Spec /\ WF_vars(HostStep)

-----------------------------------------------------------------------------
FromLens(items, lens) == \A item \in items : item.lens \in {lens, NoLens}

\* Evidence is never mixed across revisions of the corpus or its noise policy: not
\* in an answer that is shown, and not in a checkpoint a retry may answer from,
\* though a tool checks the revision before it queries (terminal_linked_snapshot_
\* stale: "withheld a mixed-revision answer").
OneRevision ==
  /\ slot /= NoCheckpoint => FromLens(slot.evidence, slot.lens)
  /\ store[Own] /= NoEntry => FromLens(store[Own].checkpoint.evidence, store[Own].checkpoint.lens)
  /\ last.answer /= NoAnswer /\ last.answer.kind /= "ordinary" =>
       FromLens(last.answer.evidence, last.answer.lens)

\* The tools a piece of evidence stands for: a brief for search_logs, and for the
\* triage tools only if nothing of it was cut off.
Covers(tool) ==
  CASE tool = "brief" -> {SearchLogs} \union TriageTools
    [] tool = "truncated brief" -> {SearchLogs}
    [] OTHER -> {tool}

ToolsOf(items) == UNION {Covers(item.tool) : item \in items}

\* A user who is told that the evidence is preserved can have it: there is a
\* checkpoint, with every source the question needs, and an answer that was shown
\* leaves none.
RetryTruthful ==
  turn.at = "settle" =>
    /\ last.told = "preserved" =>
         /\ slot /= NoCheckpoint
         /\ Unread(slot.ask, ToolsOf(slot.evidence)) = {}
    /\ last.answer /= NoAnswer => slot = NoCheckpoint

\* A linked answer is shown only on log evidence, which it cites correctly, or the
\* host cites for it, or the host has found to be empty; and only with every source
\* the user asked for, unless the rounds ran out, or one of the routes answered a
\* complete brief (these run before any source other than the logs is looked at).
Grounded ==
  last.answer /= NoAnswer /\ last.answer.kind /= "ordinary" =>
    LET answer == last.answer
        used == ToolsOf(answer.evidence)
    IN /\ SearchLogs \in used
       /\ answer.cited \in {"valid", "appendix", "host"}
       /\ answer.logs.citable \/ (answer.logs.empty /\ answer.cited /= "appendix")
       /\ answer.ask.broad => TriageTools \subseteq used
       /\ last.reason /= "budget_rounds_answer" /\ answer.cited /= "host" =>
            Unread(answer.ask, used) = {}

\* The checkpoints of all sessions together stay within both limits of the store.
CheckpointsBounded ==
  /\ Cardinality(Held(store)) <= EntryCap
  /\ Bytes(store, Held(store)) <= TotalBytes

\* A turn with a deadline ends whatever the provider and the tools do, and so does
\* a turn without one once the user cancels it.
TurnEnds == turn.at /= "idle" /\ (turn.bounded \/ turn.cancel) ~> turn.at = "idle"

=============================================================================
