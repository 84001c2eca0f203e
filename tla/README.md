# A verification project for ContextDesk

TLA+ specifications of the parts of ContextDesk whose correctness depends on
orders of events that tests hardly reach, the TLC runs that check them on small
instances, and TLAPS proofs of the results that matter most.

ContextDesk is a local-first evidence and triage workspace. Two programs carry
its logic: a Rust core (`crates/cd-core` and the `cd-*` crates around it, used by
the CLI, the desktop application and a small server), and **the War Room**
(`collab/`), a TypeScript server over PostgreSQL in which several people work on
one case and launch *connected triage runs*: jobs that run a frozen snapshot
through several candidate models, in the background, on one of several server
processes, through the Rust host as a child process. The triage run is where
processes, leases, callbacks, cancels, crashes and a shared database meet, so it
was modelled first. In the Rust core the same is true of **the desktop chat
turn**: an agent loop that calls a model and tools under deadlines and a cancel
flag, a permission gate in front of everything that writes, and one tool host
that turns and UI commands pass around between threads. That is the second half
of the project.

## 1. Inventory

| Component | State it keeps | Operations | What is hard about it | What makes it correct |
|---|---|---|---|---|
| Triage job service (`collab/server/src/modules/triage-runs/service.ts`) | abort controllers; locals of `execute()` (lease lost, record queue) | `create`, `cancel`, `execute`, heartbeat, `persistCandidate*`, `failOwnedRunningJob`, `recoverPending` | several servers over one store, read-then-write with awaits in between, crashes, unknown COMMITs | a job closes once; a closed job never changes; a result recorded is kept; one executor; nothing is left open for ever |
| Triage job store (`store.ts`) | rows of `triage_jobs` | compare-and-set `claimQueued`, `renewLease`, `recoverStale`, `update`; listings | leases judged by two clocks, renewals racing writes | the lease is a fence; a live worker is never abandoned |
| Lifecycle contract (`collab/contracts/src/triage-lifecycle.ts`, `triage-job.ts`) | none | statuses, `resolveTriageJobStatus` | shared by server and web reader | one rule decides a terminal status |
| Host bridge (`runner.ts`) | one child process, timers, progress tasks | `executeBatch`, `runProcess` | callbacks, deadline, abort, SIGINT/SIGKILL and close in any order; a child that misbehaves | settles, never before its callbacks; accepts only clean runs |
| Cases, timeline, atomic sections (`modules/cases`) | cases, snapshots, contributions, timeline sequence | CRUD, `withPgTransaction`, `appendDomainTimeline` | concurrent appends, revisions | gapless order, optimistic concurrency |
| Evidence store (`collab/server/src/evidence`, `modules/evidence-storage`) | blobs, metadata, storage leases | upload, verify, resolve | upload against crash, verification against replacement | an item served is the item verified |
| Auth, authorization, people | sessions, roles, profiles | login, suspend, assign | revocation against work in flight | no action after revocation |
| Presence, activity, experiments, qualification, strategy governance, model policy, import/export, workbench, catalog | tables and read models | CRUD, conversion | little beyond validation | - |
| `cd-core` permissions (`permissions.rs`, `tool_host.rs`, `research.rs`) | pending requests, one-time approvals, session paths, approved MCP tools | `execute` up to the tool, `complete_permission`, `grant_and_execute` | answers out of order, twice, with other arguments; grants that outlive their purpose | nothing is written that was not allowed; destructive calls are asked about each time; once is once |
| `cd-core` agent loop (`agent.rs`, `tool_host.rs`) | locals of a turn: round, evidence, required reads, phase; the pinned lens | `run_agent_turn_with_sink_and_checkpoint`, `run_linked_synthesis_retry` | a corpus that changes under the turn, a provider that answers anything or nothing, deadlines per phase, cancels | one revision per answer; no answer without evidence; truthful retries; the turn ends |
| Desktop application (`desktop/src-tauri/src/lib.rs`) | the host slot and its generation, `HostInitFlight`, turn owners and cancel flags, histories, linked checkpoints | `ensure_host`, `rebuild_host`, `agent_turn`, `complete_permission_cmd`, `propose_save_skill_cmd`, `set_workspace_roots`, memory warmup, `save_chat_session` and the other commands of a chat | the host is out of its slot across awaits, while others rebuild it; copies of histories, and transcripts saved over them; condition variables | one turn per chat; one initializer; no turn reverts a host; nobody sleeps for ever |
| `cd-core` deadline controls (`deadline_controls.rs`, `process_progress.rs`) | deadlines, pauses, extensions | pause, resume, extend, cancel | arithmetic at the edge, races with expiry | a paused deadline does not fire |
| `cd-core` object store, workspace backup | staged files, manifests | stage, publish, restore | crash between steps | old or new, never a mix |
| `cd-core` investigations, sessions | event logs, revisions | append, fork, load | torn writes | replay gives the state that was saved |
| `cd-triage-runtime`, `cd-triage-sdk` | event sink, run state | emit, replay | order and gaps | replay is deterministic |
| Indexing, retrieval, log analysis, providers, connectors, memory, desktop UI, web UI | files, caches, views | parsing, ranking, input and output | numeric or textual | out of a model checker's reach |

How they interact: the HTTP routes call `create` and `cancel`; `create` starts
`execute()` in the background; `execute()` calls the bridge, which calls back into
the service for every progress line; everything durable goes through the job
store and the case timeline inside one `withJobAtomic` transaction; `main()` runs
`recoverPending()` once, before the server listens. Servers share nothing but
the database.

In the desktop application a turn is admitted, gets the host through
`HostInitFlight` (or, for a turn linked to a log corpus, takes it as it is or builds
a private one), copies the chat's history, runs the agent loop, which calls the
provider and `ToolHost::execute`, settles the checkpoint, returns the host and
inserts the history. A call that needs the user ends the turn with a prompt; the
answer arrives as a command that takes the host and calls `grant_and_execute`. After
every turn and every answer the renderer saves the transcript it shows, and the host
replaces the chat's history by the text of that transcript.

`PROJECT.json` lists every component with its sources and every hazard with the
line where it bites.

## 2. Modules

| Module | Models |
|---|---|
| `TriageLifecycle` | the statuses and the lifecycle rule of `triage-lifecycle.ts` |
| `TriageJobStore` | the row of a job, and the guard and the written row of every conditional write of `store.ts` |
| `TriageRuns` | the service: all servers, requests, callbacks, failures; properties; refinement mapping |
| `TriageJobContract` | what a reader of a case may see of a job: the abstract specification |
| `TriageRunsProofs` | proofs about `TriageRuns`: types, and the one end of a job |
| `TriageWorkerProofs` | proofs about `TriageRuns`: the worker of a job, its lanes and its lease; the refinement of `TriageJobContract` |
| `GatewayRunner` | one bridge run: child, callbacks, timers, abort, verdict; properties |
| `GatewayRunnerProofs` | proofs about `GatewayRunner` |
| `ToolPermissions` | the permission state of a tool host: `permissions.rs`, the gate of `ToolHost::execute`, `complete_permission` |
| `ToolPermissionsProofs` | lemmas about `ToolPermissions`, for the two modules that use it |
| `PermissionGate` | one host over its life: the agent loop calls, the user answers; properties |
| `PermissionGateProofs` | proofs about `PermissionGate` |
| `DesktopHost` | the desktop application around its host: turns, commands, initializer, warmup, histories; properties |
| `DesktopHostProofs` | proofs about `DesktopHost` |
| `CheckpointStore` | `LinkedCheckpointStore`: purge, insert, evict |
| `CheckpointStoreProofs` | lemmas about `CheckpointStore`: what its operations leave, and its limits |
| `AgentTurn` | the turns of one chat: the agent loop, from the checkpoint it starts with to the one it leaves; properties |
| `AgentTurnProofs` | proofs about `AgentTurn` |
| `MCTriageRuns`, `MCGatewayRunner`, `MCPermissionGate`, `MCDesktopHost`, `MCAgentTurn` | instances for TLC |

`TriageRuns` EXTENDS `TriageJobStore` EXTENDS `TriageLifecycle`; it INSTANCEs
`TriageJobContract` for the refinement. `GatewayRunner` is the executor that
`TriageRuns` uses: what it guarantees (callbacks are all back when the batch
settles, the batch settles) is what `TriageRuns` takes for granted (a batch
returns or fails only when no lane write is in flight, and executors end).

`PermissionGate` and `DesktopHost` both EXTEND `ToolPermissions`: the first has
every kind of tool and target on one host, the second has many holders and hosts
and one kind of write. `AgentTurn` EXTENDS `CheckpointStore`. `DesktopHost` has
a run of the agent loop as one step (`EndRun`, `RaisePrompt`), which ends because
`AgentTurn!TurnEnds` says so; `AgentTurn` has the host's side of one turn as
`BeginTurn`, `PinHost` and `Settle`.

### TriageRuns and the code

State: `jobs` is the table, with the fields of a row that any write tests or any
property mentions; `timeline` counts the events of a job by kind and remembers
the outcome and the lane results published; `server` is the phase of every
process, `pending` what `recoverPending()` has listed and not handled; `task` is
one run of `execute()` (its `pc`, `leaseLost`, the abort signal, the lanes
reported and the one lane write in flight); `cancels` and `launches` are requests
between their read and their write; `authorized` is what the membership and
authorization stores would answer; `faults` bounds store failures.

A step is one transaction, or one read, with the local work up to the next await
that another actor can disturb:

| Code | Actions |
|---|---|
| `create()` | `CreateCheck` (the duplicate check), `CreateInsert` (insert, event, start of `execute()`); one section under the in-memory store, two statements under PostgreSQL's READ COMMITTED |
| `cancel()` | `CancelRead`, `CancelCommit` (a whole-row update made from the earlier read, then the local abort) |
| the claim | `Claim` (membership is judged in its transaction), `ClaimMissed`, `RefuseClaimed` |
| the heartbeat | `Heartbeat` |
| preparation | `Prepare`, `PrepareFails` |
| lanes | `CandidateStarted`, `CandidateFinished`, `MockStart` read and prepare; `CommitLane` is the transaction |
| the end | `BatchReturns`, `BatchFails`, `SweepDone`, `MockDone`, `LeaseLostReturn`, `Finish`, `FinishNotOwned`, `FailOwned`, `FailNotOwned` |
| `recoverPending()` | `ListQueued`, `ListStaleRunning`, `RecoverResume`, `RecoverRefuse`, `Resume`, `ResumeRefuse`, `RecoverStale`, `Listen` |
| environment | `Crash`, `Tick`, `Revoke` |

A transaction has one of four outcomes: it commits, the store refuses it, it
rolls back, or its COMMIT fails with the outcome unknown, in which case it may
have landed although the caller sees an exception. The last three all throw.

What was merged. `Finish`, `FailOwned` and `RefuseClaimed` read and then write;
a write of another actor in between (a cancel, a recovery, an expiry) only makes
the store refuse, after which the task ends without effect, as it does if the
other actor comes first. The updates of `Prepare` and of `BatchReturns` write
the row that is there, with a new `updatedAt`, so they appear as their guard and their
failure. A progress callback's commit and the local bookkeeping after it are one
step because `recordQueue` serializes callbacks. Lanes that the sweep after a
failed batch skips because they have settled are no-ops of the model.

What was abstracted. Time is relative: a lease is the number of ticks left on the
slowest of the clocks that judge it, and each other clock is a number of ticks ahead of
that one, `StoreClock` the database's and `Skew` a server's. So a server may be ahead
of the database or behind it.
A request's fingerprint and declared parent are one `attempt`. Candidate output,
hashes, evidence, audit rows and error texts are left out; no transition depends
on them. Validation that rejects a request before it touches state is the
request not happening. A restart is another process of `Servers`, so that a
process that died stays visible to properties.

### GatewayRunner and the code

The child's lines are counted, because `executeBatch` treats lanes alike: an
admission, a result, a *foreign* line that `mapProgressEvent` or the duplicate
check makes a callback throw on, and a bad line (too long or not JSON) that is
refused before any callback. Every other handler of `runProcess` is an action:
`Timeout`, `Abort`, `ForceKill`, `Overflow`, `Close`, `CloseBadRemainder` (the tail
of stderr is inspected after the timers were cleared, which arms the kill timer
again), `SpawnError`, and `Settle`, which takes the verdict in the order the
close handler tests. Nothing is
assumed of the child: it may follow the host protocol, hang, flood, repeat lines
or end early.

### ToolPermissions, PermissionGate and the code

A tool call is a tool and the target its arguments resolve to, which is what a grant
names and `consume_grant` compares. A tool is an MCP
tool or not, and reads, soft-writes or hard-writes; a target has the class its
prefix gives it (a path, a memory item, a memory item to be destroyed, a harvest,
a Confluence page), and `Within` is the relation `path_under_grant` computes. All
of these are constants, so the proofs hold for every classification. A host is a
record of pending requests, unspent approvals, session paths and approved tools.

`execute(call, request id)` has four outcomes, and `HostAfterExecute` is the host
after each: a malformed write is an error before anything else, a call that
needs the user raises a request under a fresh id, an approval that does not fit is
removed and refused, and otherwise the tool runs. `complete_permission` removes
the request *before* it validates the decision, so a mistyped phrase costs the
request (`RejectDecision`). `Allow` executes any call, not just the one that was
approved, because the client may send arguments along; a session decision is executed
without a request id, so it may prompt again. `decided` and `ran` record what the
user answered and what ran, for the properties.

### DesktopHost and the code

A host is named by the generation that published it. A step lasts as long as a
lock is held; what a command does between two locks is two steps, so a host may
be rebuilt, a history read or a turn admitted in between.

| Code | Actions |
|---|---|
| `HostInitFlight::run` | `JoinFlight`, `SleepAgain`, `LeaveFlight`, `WaitForJoiners`, `StartFlight`, `EndFlight`; `asleep` is who waits on the condition variable |
| `ensure_host_inner`, `rebuild_host` | `ReadConfig`, `InspectHost`, `PublishHost`, `RebuildFails` |
| memory warmup | `InstallMemory`, `AbandonWarmup` |
| `agent_turn` | `Admit`, `EndEarly`, `StartWorker`, `StopWaiting`, `TakeHost`, `LinkedRefused`, `ConstructLinkedHost`, `CloneHistory`, `PreflightFails`, `RaisePrompt`, `EndRun`, `PersistFails`, `RestoreHost`, `InsertHistory`, `FinishTurn` |
| `complete_permission_cmd` | `AnswerPrompt`, `CommandTakes`, `GrantAndExecute`, `PutBack`, `CommandInserts` |
| `propose_save_skill_cmd` | `ProposeSkill`, `CommandReady`, `CommandTakes`, `ExecuteSkill`, `PutBack` |
| `set_workspace_roots` | `SetWorkspaceRoots`, `CommandReady` |
| `save_chat_session`, `load_chat_session` | `SeedHistory` |
| `trash_chat_session`, `delete_chat_session` | `ForgetHistory` |

A history is the set of turns and commands it tells of: a turn by its question and
answer, an answered prompt by its outcome. The tool messages inside a turn are not told
apart, though a saved transcript drops them too. `seed_history_from_session` replaces a
history by the text of a transcript. A transcript shows a turn from the moment it is
sent, and a denied or failed answer, for which the renderer writes a sentence
(`useTurnController.ts:500` to `586`); the message of an approval that ran has no text,
its result is in a field `to_chat_history` does not read. `Shown` says this, and
`SeedHistory` takes any part of it, because a window may be behind and the revision that
`save_chat_session` compares orders saves, not the writes of turns and answers. Each
save is one of the commands of the run.

`epoch` tells two successive flights apart, `mine` remembers whether a joiner got the
result of the one it joined, and `disturbed` who worked on a history at the same time
as another or was left out by a transcript that replaced it. A turn that stops waiting leaves its worker behind; a worker that
constructs a linked host after that takes the shared one with it when it ends.
The arguments an approval runs with are the stored ones here; `PermissionGate` has
the others.

### AgentTurn and the code

`turn` is the control state of `run_agent_turn_with_sink_and_checkpoint`: where
it is, the kind of turn, what was asked (the sources a linked answer needs, in
order, and whether it is a broad triage), round, attempts, phase and the tool calls
left in the batch. `evidence` is a set of items, each with the revision of the
corpus it was *read* at, which is not the one that was *checked*: `ExecuteTool` checks,
`ToolReads` reads. `pin` is the lens of the turn. `last` is how the turn ended and
what the user was told, until it is settled. The host's brief is an item of its own, which
stands for `search_logs` and, only if it was not truncated, for the triage tools. Context assembly and compaction
appear as the endings they can cause; the four routes that answer a complete
brief by themselves (fast, contribution, review, multi-stage) as their endings and
their way on. They end before the checkpoint is taken, so none of them leaves one.
`DropCheckpoint` is what the commands that trash, delete, archive or relink a chat or
change its provider do to the store.

## 3. Runs

| Run | Bounds | Shows |
|---|---|---|
| `cancel` | 1 server, 1 job of 2 lanes, both modes, 2 cancels, 1 store failure, lease of 2 ticks | one closing event, published outcome equals recorded outcome, lanes reported once and kept, closed lanes settled, closed jobs final, leases never shortened by a lane write |
| `takeover` | 2 servers with a worker id each, 1 job of 1 lane, 1 cancel, 1 store failure | one executor, the lease as a fence, no live worker abandoned, the lifecycle rule, refused jobs have done nothing, the contract implemented |
| `liveness` | 2 servers, crashes, no store failure | workers settle their jobs; a later start recovers expired and queued jobs |
| `gateway` | 2 lanes, progress bound 5, 2 foreign lines, any child | callbacks drained before the verdict, accepted runs clean, the promise settles |
| `settled_lane_lost` | as `cancel`, 1 cancel | **violated**: a cancel overwrites a lane result committed after its read |
| `restart_misses_live_lease` | as `liveness` | **violated**: a restart within the dead worker's lease never recovers the job |
| `duplicate_launch` | 2 jobs, 2 attempts, READ COMMITTED | **violated**: two racing launches both pass the duplicate check |
| `permissions` | 4 tools (MCP that reads, MCP that writes, soft write, hard write), 4 targets (a folder, a note in it, a memory item, a page), 2 prompts, 3 runs | writes are approved, what no session grant covers is asked about, approvals are spent once |
| `desktop` | 2 chats, 2 turns, 1 command, 2 sets of roots, 2 hosts built | joiners get their flight, a turn owns its chat, only commands revert a host, histories keep what no overlap and no transcript takes away |
| `desktop_commands` | 1 chat, 1 turn, 2 commands, 2 sets of roots, 2 hosts built, fair | approvals are spent once across hosts, memory of other roots only after a command's put-back, histories kept as in `desktop` with an answer and a save, everyone comes to rest |
| `approval_outcome_lost` | 1 chat, 2 turns, 2 commands | **violated**: a turn's insert, or the next save of the transcript, erases the outcome of an approval |
| `agent_turn` | 2 turns of one chat, 2 rounds, batches of 2 calls, 1 change of corpus or policy, 3 kinds of question, 3 tools, another chat's checkpoints; fair | one revision, grounded answers, truthful retries, bounded checkpoints, turns end |

Why the bounds are enough. Rows of different jobs meet only in the duplicate
check, so one job suffices elsewhere and two do there. Two lanes are the least
with one settled and one open; the takeover properties are about the job, so one lane
does. Two servers give a worker and a usurper, and a third would do what
the second does. A lease of two ticks separates renewed, about to expire and
expired. One failure can hit any single transaction, and the error paths that
follow run without another; the theorems of section 5 have no such bound. The
progress bound of 5 lies between the 4 lines of two lanes and the 6 that two
foreign lines make of them, so `tooMany` happens. Deadlock is not checked
because a system in which every job is closed, every turn has ended or every bound
is reached rightly stops. Symmetry is used in `desktop` only, which checks no
liveness.

For the permission gate two prompts give one that is answered twice and one that
is answered for another, and three runs let a spent or session grant be tried
again; the proofs have no bound. In `DesktopHost` two hosts are the least with an old
and a new one; two turns make a borrower and someone who finds the slot empty; the
condition variable needs an initializer, a joiner and a third caller, which both
passing runs have. A command that puts an old host back and one that changes the
roots have to meet, and so have an answered prompt and a saved transcript, hence the
two commands of `desktop_commands`. In `AgentTurn`
two turns are one that leaves a checkpoint and one that retries; two rounds are
one that is not the last and the last; a batch of two lets a turn end inside it;
the sizes 2 and 4 under a limit of 3 bytes make eviction by bytes and the oversized
entry happen (the entry limit of the store is not reached by two chats). One
change of the corpus can fall between any check and any query.

Each property of a passing run has a mutant in `PROJECT.json`: the definition of
the code it depends on, changed the way a plausible bug would change it, on which
TLC finds the property violated.

### Disagreements between the code and what the repository says of it

The four `violation` runs are the findings of `PROJECT.json`, each quoting the
line it contradicts. `SettledLanesKept` and `StaleRecovered` are the corresponding
statements that do hold, so these run pairs say exactly where the promise ends.

For `approval_outcome_lost` there is no such counterpart. The trace TLC prints is the
race: a turn inserts the copy it made before the answer. But `OutcomeKept` is false
without any race, by `SeedHistory` after `CommandInserts`, which is what the renderer
does: it saves the transcript after the answer, and with that the tool call and its
result, which `grant_and_execute` appended "so the next model turn sees the outcome",
are replaced by an empty message. So what `HistoryKept` says is narrower: turns and
answers, which write back whole copies, lose nothing of each other unless they overlap.
An approval's outcome has that protection until the next save and not after it.

`OnlyCommandsGoBack` and `MemoryMatchesWorkspace` except a host from the moment a command
has put it back, for good: what a turn does with such a host afterwards they do not say.
`liveness` has no store failures, so a swallowed failure (`service.ts:430`) and a claim
that rolled back (`service.ts:874`) are reached in it only through crashes, which leave the
same rows behind.

Seen while modelling, and not worth a run: `failOwnedRunningJob` closes a job as
failed although a lane completed, beside "the single lifecycle rule" of
`triage-lifecycle.ts` (`LifecycleRule` excepts it); `MAX_PROGRESS_EVENTS` (16) admits
eight lanes of the sixteen `capabilities()` advertises; the memory warmup compares
workspace ids, which `set_workspace_roots` keeps, while the index refresh compares the
roots as well, so memory of other roots can reach a host that a command has put
back (`MemoryMatchesWorkspace` allows exactly that); settings commands clone the
configuration, save it and write it back, so two of them may undo each other
(`lib.rs:6637`); a rebuild while the host is borrowed leaves the prompts of the
borrowed host unanswerable if its turn cannot return it; evidence beyond 256 KB is
truncated in a checkpoint (`agent.rs:333`); a last answer after the rounds ran out is
shown although a source other than the logs is missing, unless it is a broad triage.

Two more came out of proofs that failed. `Grounded` at first demanded every source
the user asked for of every answer but that last one; the routes that answer a complete
broad brief by themselves (`agent.rs:4990` to `5652`) return before `linked_required_reads`
is looked at, so a question that also names a source which is missing is answered
without it. `docs/design/proven-methods/DETERMINISTIC_CONTEXT_ASSEMBLY.md:470` asks that
such an answer disclose the gap; whether the text of a route does is beyond the model.
`Grounded` now excepts answers the host
cites itself, and `agent_turn` has such a question. And the lane
properties of `TriageRuns` need clocks that agree: `execute()` judges its lease by its own
clock before it records a lane, while `renewLease` judges it by the database's. With a
server one tick ahead, a worker drops a result because its lease looks dead, a heartbeat
then renews it, and the job is finished with that lane open.

## 4. Fairness

`FairSpec` assumes of `TriageRuns`: time passes (`Tick`); every configured
process starts (`ListQueued`) and goes through its recovery (`Recovering`); and
each task of a live process takes its next step (`Executing`): an event loop
that runs, a database that answers, and executors that end, which the bridge's
deadline ensures and `GatewayRunner!Settles` checks. Nothing is assumed of
operators, of heartbeats (a live process may be starved past its lease, and
`WorkerSettles` allows for it), of revocations or of crashes.

`GatewayRunner` assumes that timers fire, that callbacks return or throw, that
the kernel honours SIGKILL, and that `close` is delivered after the exit. It
assumes nothing of a child that has not been killed.

`DesktopHost` assumes that threads and tasks run: each turn, each command and each
call of the initializer takes its next step, and the agent loop ends. Nothing is
assumed of users, of the warmup, or of who gets a lock first.

`AgentTurn` assumes weak fairness of `HostStep` alone: the loop goes on, its waits poll
the cancel flag and the clock runs out. Whether the provider or a tool ever replies
(`Reply`) is not assumed, so `TurnEnds` is about turns with a deadline and turns the
user cancels; one with neither may wait for ever, as in the code. An interrupted brief is
one step of the host: the code sets the worker's abort flag and then joins it
(`agent.rs:4061`), so this relies on the worker noticing the flag, inside a query
through DuckDB's interrupt.

## 5. Proofs

From `StoreAssumption` and `ConstantsAssumption` (non-empty sets of jobs, servers,
lanes, attempts and modes; a positive lease; every process has a worker id, not
necessarily its own; each clock, the database's included, ahead of the slowest by any
amount), for every number of jobs,
servers, lanes, cancels and store failures:

* `TypeCorrect`: `Spec => []TypeOK`;
* `ClosedOnceHolds`: `Spec => []ClosedOnce`;
* `OutcomePublishedHolds`: `Spec => []OutcomePublished`;
* `TerminalIsFinalHolds`: `Spec => TerminalIsFinal`.

The last three are not inductive as they stand. A closing write is safe because
the store checks the row it replaces, but the row *written* is built earlier,
and what may be said of it depends on when it was read. `IInv` adds `Prepared`:
a launch that has not inserted finds no row (`LaunchFresh`); a row that is not
running holds no lease (`LeaseReleased`), without which an expired-lease test could
succeed on a closed row; a task beyond its claim finds the job claimed
(`WorkerClaimed`); a lane write in flight carries a row that was claimed, and is
terminal only if the job is by now (`WritePrepared`), so that it can neither requeue nor
close a job without an event; a pending cancel carries a closing row
(`CancelPrepared`). The argument is that every step does one of three things to
a job (`JobStep`): leave its row and closing events alone, move it among the open
statuses with no closing event (`Moves`), or close it with exactly one
(`Closes`). `StepJobs` shows this action by action; `StepTasks` and `StepRequests`
show that what is in flight stays prepared.

From `RunnerAssumption`, for every number of lanes, every progress bound and any
child: `TypeCorrect`, `CallbacksDrainedHolds` and `ResolvedIsCleanHolds` of
`GatewayRunnerProofs`, under `SafeSpec`. Their invariant adds `Accounted`: a
signal sent or armed has a recorded cause, a line too many and a refused line
have left an error, and a closed child has no deadline. The verdict reads that
account, and `VerdictStands` shows that nothing it read can change afterwards.

From `PermissionAssumption` and `GateAssumption`, for any tools, targets,
classification and grant relation, and any number of prompts and runs:
`PermissionTypes`, `PermissionSound` (`WritesApproved`), `DestructiveAsked`
(`OnlyOnceAsked`) and `ApprovalsSpentOnce` (`SpentOnce`) of `PermissionGateProofs`.
The three are about what ran, while the code only looks at the grants of the host;
the invariant connects the two: request ids are handed out once (`IdsKnown`), no run
was given the id of a request that is still pending (`PendingUnused`) or of one not yet
raised (`RunsKnown`), and every grant on the host goes back to a decision the user
took (`GrantsDecided`). A call is a tool and a target throughout: that the arguments which
ran are the ones the user was shown is not claimed, and does not hold. `SpentOnce` follows from the first three, because an answer
removes its request before the call is executed under its id.

### The worker of a triage job

`TriageWorkerProofs` is about what `execute()` may rely on between its reads and its
writes. For any clocks, under `Spec`: `OneExecutor` (`SingleExecutor`),
`LifecycleFollowed` (`LifecycleRule`), `RefusedUntouched` (`RefusedDidNoWork`) and
`LeaseKept` (`LeaseNotShortened`). If the clocks of the servers agree with the
database's (`Spec /\ ClocksAgree`): `LanesSettledAtTheEnd` (`ClosedLanesSettled`),
`ReportsKept` (`ReportsHonoured`), `SettledKept` (`SettledLanesKept`), `LeaseFences`
(`LeaseFence`), `ActiveWorkersKept` (`ActiveWorkerNotAbandoned`) and `ContractKept`: the
service implements `TriageJobContract`. `ClocksAgree` is a hypothesis of the theorems
and not an assumption on the constants, so that each theorem shows whether it needs it;
section 3 says what happens without it.

`WorkInv` adds to `IInv`, job by job, what holds while the job waits, runs and is closed.

* A waiting job is untouched: no event, no worker, every lane queued (`Waiting`).
* A running job has one worker at most (`TasksInv`), its timeline has exactly the
  reports of its settled lanes (`ReportsExact`), and its worker can rely on the
  following (`WorkerInv`). The row in a lane write is the row of the store but for its
  lease, and the lane it settles is still open (`WriteCurrent`): without this a
  write could undo another lane or report one twice. Every lane the executor has delivered
  is settled or has its write in flight, until the lease is lost (`NothingLost`):
  without this a worker could finish with a lane open. Here the clocks come in, because
  a lane is dropped when the worker believes its lease dead.
* A closed job follows the lifecycle rule, and with agreeing clocks has its lanes
  settled as they were reported (`ClosedInv`).
* A pending cancel carries a row whose lanes are cancelled or were settled when it was
  read and are so still (`CancelInv`); this is what the contract's cancel step needs.
* With agreeing clocks a row listed as stale is the row of the store, expired, until the
  job is closed (`StaleInv`). The row a recovery writes comes from the listing, so
  without it a recovery could overwrite a lane; it holds because an expired lease admits no write.

The proof first shows what a step can do to a row (`RowStep`, `OneRow`: one of a fixed
list of changes to one job), then what it can do to the tasks (`Crew`, `Fits`), then that
requests and listings stay right (`StepCancel`, `StepStale`), and assembles these in
`StepWork`. The refinement maps each of the row changes to an action of the contract
or a stutter.

### The desktop application

From `DesktopAssumption` (finitely many turns and commands, with names of their own; a
configured set of roots), for any number of chats and of hosts built: `DesktopTypes`,
`JoinersKeepTheirFlight`, `TurnsOwnTheirSession`, `TurnsNeverGoBack`, `MemoriesMatch`,
`ApprovalsSpentOnce` and `HistoriesKept`. The invariant has a part for each thing that
is shared.

* The flight: its count of waiters is the number of actors between joining and leaving
  (`FlightInv`), so that a new flight, which waits for zero, finds no joiner of the last.
* The hosts: a host is in the slot, with one turn or with one command (`OnePlace`), and
  one that is held and was neither borrowed nor built by its holder has gone through a
  command (`OldHosts`). The restore of a turn compares generations, so
  only the second clause says where an old host can have come from.
* The approvals: request ids are pending on one host only and are not those of a run
  (`ApprovalInv`), which is what makes an approval count across hosts.
* The histories: what was saved, and neither overlapped nor left out by a transcript, is
  in the history *and in every copy that will be written over it* (`HistoryInv`),
  together with who is counted as overlapped (`Overlaps`). A statement about the stored
  history alone is lost at the next insert. `HistoriesKept` is about turns and answers
  and says nothing for what a saved transcript leaves out, which is every outcome of an
  approval that ran (section 3).

### The agent loop

From `TurnAssumption` and `StoreAssumption` of the checkpoint store, for any tools, questions and
chats, any number of turns and rounds and any changes of the corpus: `AgentTypes`,
`AnswersFromOneRevision`, `PreservedMeansRetry`, `AnswersGrounded` and `StoreBounded`.
The invariant says what is in a turn's hands at each point. Its centre is
`EvidenceInv`: items were read *between* the pinned revision and the current one, so the
evidence of a turn in the middle of its batch may well be mixed. The corpus only grows,
so a check that finds the corpus still at the pinned revision shows that all was read at it, and
at the points after such a check (`Compared`) the evidence is of one revision whatever
happens next. `Covered` ties what the loop counts as read to the evidence, `CheckpointInv`
and `RetryInv` carry both across turns through the store, and `EndingInv` says the same of
what is shown.

`StoreBounded` is about a sum over a finite set, which the library defines by recursion.
`CheckpointStoreProofs` shows that the sum exists, is a number, loses what is removed and
grows with the set, each by a smallest counterexample: a well-founded relation on the subsets of a finite set has a minimal
element in every non-empty set of them (`WFMin`), and a set without one of its elements
is smaller.

### Only model-checked

Liveness (`WorkerSettles`, `StaleRecovered`, `QueuedRecovered`, `Settles`, `TurnsEnd`,
`TurnEnds`) is outside the prover's reach. The statements of the four violation
runs are false of the code. `OneActiveAttempt` is one of them; that it holds of the
in-memory store, whose sections are serialized, is not proved. Every invariant and every
action property of a passing run is stated by a theorem.

## 6. Not modelled

Request validation, listings, redaction and audit text of the triage service
change no state of a job. Clock skew is a constant of `TriageRuns`, but the runs set
it to zero: they check promises some of which are about clocks that agree, and the
theorems of section 5 say which. `DesktopHost` leaves out the value of the cancel flag (`AgentTurn`
has it), the background index, the stored sessions themselves with the revision their
saves compare, the messages inside a turn, and every command that takes neither the host
nor a history. `ToolPermissions` leaves out arguments beyond the target: a client may send
other ones with its answer (`research.rs:1494`), and with the same target they run under
the approval. `AgentTurn` leaves out the messages of the history and
what the tools and routes compute.

The project covers the parts of the repository that hold concurrent or long-lived
state, which is a small share of its lines: most of the Rust code parses, ranks,
scores, renders or tests, and a model of it would only repeat it. The components marked `not_modelled` in `PROJECT.json`
give their reasons there: parsing, ranking, formatting, user interfaces and
network adapters are out of a model checker's reach; the others are planned.

## 7. Plan

1. Done: the triage run (`TriageLifecycle`, `TriageJobStore`, `TriageRuns`,
   `TriageJobContract`), the bridge (`GatewayRunner`), their first theorems.
2. Done: the permission gate with its proofs, the desktop host, the agent loop and
   the checkpoint store.
3. Done: a theorem for every invariant and every action property of a passing run, and
   the refinement of `TriageJobContract`.
4. Deadline controls (`deadline_controls.rs`, `process_progress.rs`): pause,
   extension and cancel against expiry.
5. Cases and timeline (`modules/cases`): revisions and snapshot freezing under
   concurrent writers.
6. Evidence and object stores (`evidence`, `object_store.rs`,
   `workspace_backup.rs`): staged publication with a crash between any two steps.
7. `cd-triage-runtime`: event sink order and replay, composed with
   `GatewayRunner` as the child it stands for.
8. Proofs: `OneActiveAttempt` for the serialized store; a skew bounded by less than a
   lease, to say how far the clocks may differ before a lane can be dropped.
