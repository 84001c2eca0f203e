---------------------------- MODULE DesktopHost ----------------------------
(***************************************************************************)
(* The desktop application around its one tool host                        *)
(* (desktop/src-tauri/src/lib.rs).  Chat turns and UI commands take the    *)
(* host out of a shared slot, use it across awaits and put it back; a      *)
(* single-flight initializer rebuilds it when the slot is empty; workers   *)
(* attach durable memory later; each session has one turn at a time, a     *)
(* cancel flag and a chat history, which the transcript the user sees      *)
(* replaces whenever it is saved or loaded.                                *)
(* Locks are held for single steps; what happens between two locks of one  *)
(* command is two steps.                                                   *)
(*                                                                         *)
(* A host is named by the generation that published it.  A history is the  *)
(* set of turns and commands it tells of: a turn's question and answer, or *)
(* the outcome of an answered prompt.                                      *)
(***************************************************************************)
EXTENDS ToolPermissions, Sequences

CONSTANTS Sessions, Turns, Commands,
          Nobody,             \* no turn
          Workspaces, Home,   \* the roots of workspaces, and those configured first
          MaxGeneration       \* bound on host rebuilds

Actors == Turns \union Commands
NoHost == 0
HostIds == 1..MaxGeneration

ASSUME DesktopAssumption ==
  /\ Home \in Workspaces
  /\ MaxGeneration \in Nat
  /\ Turns \intersect Commands = {} /\ IsFiniteSet(Actors)
  /\ Nobody \notin Actors \union Sessions

VARIABLES slot,         \* AppState.host: a host, or NoHost while someone has it
          generation,   \* host_generation
          hosts,        \* each host's permissions, workspace and durable memory
          workspace,    \* the configured workspace
          warming,      \* memory warmups under way: generation and workspace
          flight,       \* HostInitFlight: running, waiters, last_result
          asleep,       \* callers asleep on its condition variable
          ensure,       \* each actor's worker: its call of ensure_host, or its host construction
          owners,       \* active_turn_owners
          cancels,      \* the turn a cancel request of the session reaches
          histories,    \* chat histories
          turn, cmd,    \* the turns and the UI commands
          asked,        \* the sessions the permission requests so far were raised in
          runs,         \* runs of approved writes: request and command
          disturbed     \* actors whose entry an overlapping copy or a transcript may undo

hostVars == <<slot, generation, hosts, workspace, warming>>
flightVars == <<flight, asleep, ensure>>
sessionVars == <<owners, cancels>>
gateVars == <<asked, runs>>
vars == <<hostVars, flightVars, sessionVars, histories, turn, cmd, gateVars,
          disturbed>>

Absent == "absent"

HostRecord(ws) == [perm |-> NewHost, ws |-> ws, memory |-> Absent]
IdleWorker == [at |-> "none", ws |-> Home, joined |-> FALSE, mine |-> TRUE]
IdleTurn == [at |-> "idle", session |-> Nobody, kind |-> "ordinary", host |-> NoHost,
             borrowed |-> 0, history |-> {}, saved |-> FALSE]
IdleCommand == [at |-> "idle", session |-> Nobody, kind |-> "approve", host |-> NoHost,
                rid |-> NoRequest, decision |-> "Deny", ok |-> FALSE, history |-> {}]

Init ==
  /\ slot = NoHost /\ generation = 0 /\ hosts = [h \in HostIds |-> HostRecord(Home)]
  /\ workspace = Home /\ warming = {}
  /\ flight = [running |-> FALSE, waiters |-> 0, epoch |-> FALSE, lastResult |-> FALSE]
  /\ asleep = {} /\ ensure = [a \in Actors |-> IdleWorker]
  /\ owners = [s \in Sessions |-> Nobody] /\ cancels = [s \in Sessions |-> Nobody]
  /\ histories = [s \in Sessions |-> {}]
  /\ turn = [t \in Turns |-> IdleTurn] /\ cmd = [c \in Commands |-> IdleCommand]
  /\ asked = <<>> /\ runs = {} /\ disturbed = {}

-----------------------------------------------------------------------------
(* HostInitFlight::run, around ensure_host_inner.                          *)

\* The outcome of a call of ensure_host; a turn may no longer wait for it.
Ensured(a, ok) ==
  [ensure EXCEPT ![a] =
     IF a \in Turns /\ turn[a].at /= "waiting" THEN IdleWorker
     ELSE [IdleWorker EXCEPT !.at = IF ok THEN "ok" ELSE "failed"]]

\* Awake, holding the lock, at the top of the loop.
Calling(a) == ensure[a].at = "call" /\ a \notin asleep

\* An initializer runs: join it.  The caller wakes whoever is asleep, then waits.
JoinFlight(a) ==
  /\ Calling(a) /\ flight.running
  /\ flight' = [flight EXCEPT !.waiters = @ + 1]
  /\ asleep' = {a}
  /\ ensure' = [ensure EXCEPT ![a].at = "joined", ![a].joined = flight.epoch]
  /\ UNCHANGED <<hostVars, sessionVars, histories, turn, cmd, gateVars, disturbed>>

\* A joiner wakes while the initializer still runs.
SleepAgain(a) ==
  /\ ensure[a].at = "joined" /\ a \notin asleep /\ flight.running
  /\ asleep' = asleep \union {a}
  /\ UNCHANGED <<hostVars, flight, ensure, sessionVars, histories, turn, cmd,
                 gateVars, disturbed>>

\* Mutant: the last joiner to leave wakes nobody.
WokenByLastJoiner_None(waiters) == asleep

\* The last joiner to leave wakes the callers that wait for the joiners.
WokenByLastJoiner(waiters) == IF waiters = 0 THEN {} ELSE asleep

\* A joiner returns the last result there is.
LeaveFlight(a) ==
  /\ ensure[a].at = "joined" /\ a \notin asleep /\ ~flight.running
  /\ flight' = [flight EXCEPT !.waiters = @ - 1]
  /\ asleep' = WokenByLastJoiner(flight.waiters - 1)
  /\ ensure' = [Ensured(a, flight.lastResult) EXCEPT ![a].mine = ensure[a].joined = flight.epoch]
  /\ UNCHANGED <<hostVars, sessionVars, histories, turn, cmd, gateVars, disturbed>>

\* Mutant: a new flight starts although joiners of the last one have not left.
JoinersLeft_Ignored == TRUE

JoinersLeft == flight.waiters = 0

\* The last flight is over and its joiners have not all left.
WaitForJoiners(a) ==
  /\ Calling(a) /\ ~flight.running /\ ~JoinersLeft
  /\ asleep' = asleep \union {a}
  /\ UNCHANGED <<hostVars, flight, ensure, sessionVars, histories, turn, cmd,
                 gateVars, disturbed>>

\* The caller becomes the initializer and releases the lock.
StartFlight(a) ==
  /\ Calling(a) /\ ~flight.running /\ JoinersLeft
  /\ flight' = [flight EXCEPT !.running = TRUE, !.epoch = ~@]
  /\ ensure' = [ensure EXCEPT ![a].at = "initialize"]
  /\ UNCHANGED <<hostVars, asleep, sessionVars, histories, turn, cmd, gateVars,
                 disturbed>>

\* ensure_host_inner reads the configuration before it looks at the slot.
ReadConfig(a) ==
  /\ ensure[a].at = "initialize"
  /\ ensure' = [ensure EXCEPT ![a].ws = workspace, ![a].at = "inspect"]
  /\ UNCHANGED <<hostVars, flight, asleep, sessionVars, histories, turn, cmd,
                 gateVars, disturbed>>

\* It keeps a host of that workspace; an empty slot, even one whose host is only
\* borrowed, or another workspace, is rebuilt.
InspectHost(a) ==
  /\ ensure[a].at = "inspect"
  /\ ensure' = [ensure EXCEPT ![a].at =
       IF slot /= NoHost /\ hosts[slot].ws = ensure[a].ws THEN "initialized" ELSE "rebuild"]
  /\ UNCHANGED <<hostVars, flight, asleep, sessionVars, histories, turn, cmd,
                 gateVars, disturbed>>

\* rebuild_host publishes a new host for the workspace read before, over whatever
\* the slot holds by now, and starts the warmup of its memory.
PublishHost(a) ==
  /\ ensure[a].at = "rebuild" /\ generation < MaxGeneration
  /\ generation' = generation + 1
  /\ slot' = generation + 1
  /\ hosts' = [hosts EXCEPT ![generation + 1] = HostRecord(ensure[a].ws)]
  /\ warming' = warming \union {[expected |-> generation + 1, ws |-> ensure[a].ws]}
  /\ ensure' = [ensure EXCEPT ![a].at = "initialized", ![a].ws = Home]
  /\ UNCHANGED <<workspace, flight, asleep, sessionVars, histories, turn, cmd,
                 gateVars, disturbed>>

\* Opening the index fails, or (bounded) no more hosts can be built.
RebuildFails(a) ==
  /\ ensure[a].at = "rebuild"
  /\ ensure' = [ensure EXCEPT ![a].at = "broken"]
  /\ UNCHANGED <<hostVars, flight, asleep, sessionVars, histories, turn, cmd,
                 gateVars, disturbed>>

\* The initializer takes the lock again, leaves its result and wakes everyone.
EndFlight(a) ==
  /\ ensure[a].at \in {"initialized", "broken"}
  /\ flight' = [flight EXCEPT !.running = FALSE, !.lastResult = ensure[a].at = "initialized"]
  /\ asleep' = {}
  /\ ensure' = Ensured(a, ensure[a].at = "initialized")
  /\ UNCHANGED <<hostVars, sessionVars, histories, turn, cmd, gateVars, disturbed>>

Flight(a) ==
  \/ JoinFlight(a) \/ SleepAgain(a) \/ LeaveFlight(a) \/ WaitForJoiners(a) \/ StartFlight(a)
  \/ ReadConfig(a) \/ InspectHost(a) \/ PublishHost(a) \/ RebuildFails(a) \/ EndFlight(a)

-----------------------------------------------------------------------------
(* The warmup of durable memory.                                           *)

\* set_workspace_roots keeps the id of the workspace, so all roots of a run of the
\* program have the same one.
WorkspaceId(roots) == "configured"

\* install_prepared_durable_memory compares the id of the live host's workspace.
MemoryFits(w) == WorkspaceId(hosts[slot].ws) = WorkspaceId(w.ws)

\* Mutant: the warmup of a host that was replaced goes on.
WarmupCurrent_Any(w) == TRUE

WarmupCurrent(w) == generation = w.expected

\* The warmup waits for a host in the slot, as long as no newer one was published.
InstallMemory(w) ==
  /\ w \in warming /\ WarmupCurrent(w) /\ slot /= NoHost
  /\ warming' = warming \ {w}
  /\ hosts' = IF MemoryFits(w) THEN [hosts EXCEPT ![slot].memory = w.ws] ELSE hosts
  /\ UNCHANGED <<slot, generation, workspace, flightVars, sessionVars, histories, turn, cmd, gateVars, disturbed>>

AbandonWarmup(w) ==
  /\ w \in warming /\ ~WarmupCurrent(w)
  /\ warming' = warming \ {w}
  /\ UNCHANGED <<slot, generation, hosts, workspace, flightVars, sessionVars, histories,
                 turn, cmd, gateVars, disturbed>>

-----------------------------------------------------------------------------
(* A chat turn: agent_turn.                                                *)

\* Actors between reading a session's history and writing it back.
Rewriting(s) ==
  {t \in Turns : turn[t].session = s /\ turn[t].at \in {"running", "settle", "insert"}}
    \union {c \in Commands : /\ cmd[c].session = s
                             /\ cmd[c].at \in {"take", "execute", "put back", "insert"}}

MarkOverlap(a, s) ==
  disturbed' = disturbed \union (IF Rewriting(s) = {} THEN {} ELSE Rewriting(s) \union {a})

\* Mutant: a second turn is admitted beside the first.
Admissible_Always(s) == TRUE

\* admit_agent_turn: one owner per session.
Admissible(s) == owners[s] = Nobody

\* The turn is refused, or becomes the session's owner with a flag of its own.
Admit(t, s, kind) ==
  /\ turn[t].at = "idle"
  /\ IF Admissible(s)
     THEN /\ owners' = [owners EXCEPT ![s] = t]
          /\ cancels' = [cancels EXCEPT ![s] = t]
          /\ turn' = [turn EXCEPT ![t].at = "admitted", ![t].session = s, ![t].kind = kind]
     ELSE /\ turn' = [turn EXCEPT ![t].at = "done"]
          /\ UNCHANGED <<owners, cancels>>
  /\ UNCHANGED <<hostVars, flightVars, histories, cmd, gateVars, disturbed>>

\* A worker gets the host: ensure_host, or the construction of a linked turn's host.
StartWorker(t) ==
  /\ turn[t].at = "admitted"
  /\ turn' = [turn EXCEPT ![t].at = "waiting"]
  /\ ensure' = [ensure EXCEPT ![t].at =
                  IF turn[t].kind = "ordinary" THEN "call" ELSE "construct"]
  /\ UNCHANGED <<hostVars, flight, asleep, sessionVars, histories, cmd, gateVars, disturbed>>

\* agent_turn returns; its host, if it still has it, is dropped.
Returning(t) == [IdleTurn EXCEPT !.at = "finishing", !.session = turn[t].session]

\* A turn without a provider, or a retry without its checkpoint, ends at once.
EndEarly(t) ==
  /\ turn[t].at = "admitted"
  /\ turn' = [turn EXCEPT ![t] = Returning(t)]
  /\ UNCHANGED <<hostVars, flightVars, sessionVars, histories, cmd, gateVars, disturbed>>

\* wait_for_host_readiness_for_turn, run_blocking_for_turn: the turn stops waiting
\* (an error, a cancel, a deadline, a timeout) and its worker goes on.  A host
\* that the worker had already handed over is dropped.
StopWaiting(t) ==
  /\ turn[t].at \in {"waiting", "constructed"}
  /\ turn' = [turn EXCEPT ![t] = Returning(t)]
  /\ UNCHANGED <<hostVars, flightVars, sessionVars, histories, cmd, gateVars, disturbed>>

\* ensure_host succeeded; the slot may be empty again: host missing.
TakeHost(t) ==
  /\ turn[t].at = "waiting" /\ ensure[t].at = "ok"
  /\ turn' = IF slot = NoHost
             THEN [turn EXCEPT ![t] = Returning(t)]
             ELSE [turn EXCEPT ![t].at = "clone", ![t].host = slot, ![t].borrowed = generation]
  /\ slot' = NoHost
  /\ ensure' = [ensure EXCEPT ![t] = IdleWorker]
  /\ UNCHANGED <<generation, hosts, workspace, warming, flight, asleep, sessionVars,
                 histories, cmd, gateVars, disturbed>>

\* prepare_linked_turn_with: the corpus or the model is refused before a worker
\* constructs the host.
LinkedRefused(t) ==
  /\ turn[t].at = "waiting" /\ ensure[t].at = "construct"
  /\ turn' = [turn EXCEPT ![t] = Returning(t)]
  /\ ensure' = [ensure EXCEPT ![t].at = "none"]
  /\ UNCHANGED <<hostVars, flight, asleep, sessionVars, histories, cmd, gateVars,
                 disturbed>>

\* take_ready_linked_host in the worker: the shared host if it is there and its
\* lock is free, else a fallback for this turn alone, which may fail.  The turn
\* may have given up by then: the host the worker took is dropped.
ConstructLinkedHost(t) ==
  /\ ensure[t].at = "construct"
  /\ ensure' = [ensure EXCEPT ![t].at = "none"]
  /\ \/ /\ slot /= NoHost /\ slot' = NoHost
        /\ turn' = IF turn[t].at = "waiting"
                   THEN [turn EXCEPT ![t].at = "constructed", ![t].host = slot,
                                     ![t].borrowed = generation]
                   ELSE turn
     \/ /\ UNCHANGED slot
        /\ \E next \in {Returning(t), [turn[t] EXCEPT !.at = "constructed"]} :
             turn' = IF turn[t].at = "waiting" THEN [turn EXCEPT ![t] = next] ELSE turn
  /\ UNCHANGED <<generation, hosts, workspace, warming, flight, asleep, sessionVars, histories,
                 cmd, gateVars, disturbed>>

\* Mutant: the history of a session is not found under its key.
StoredHistory_Fresh(s) == {}

\* histories.entry(session).or_default().clone().
StoredHistory(s) == histories[s]

CloneHistory(t) ==
  /\ turn[t].at \in {"clone", "constructed"}
  /\ turn' = [turn EXCEPT ![t].at = "running", ![t].history = StoredHistory(turn[t].session)]
  /\ MarkOverlap(t, turn[t].session)
  /\ UNCHANGED <<hostVars, flightVars, sessionVars, histories, cmd, gateVars>>

\* Mutant: a turn puts its host back over a newer one.
Restored_Always(t) == IF turn[t].host = NoHost THEN slot ELSE turn[t].host

\* restore_host_if_generation_matches: the host goes back into an empty slot of
\* the generation it was borrowed from, and is discarded otherwise.
Restored(t) ==
  IF turn[t].host /= NoHost /\ generation = turn[t].borrowed /\ slot = NoHost
  THEN turn[t].host
  ELSE slot

\* The corpus handle or the suppression lens of a linked turn fails its check.
PreflightFails(t) ==
  /\ turn[t].at = "running" /\ turn[t].kind /= "ordinary"
  /\ slot' = Restored(t)
  /\ turn' = [turn EXCEPT ![t] = Returning(t)]
  /\ UNCHANGED <<generation, hosts, workspace, warming, flightVars, sessionVars, histories,
                 cmd, gateVars, disturbed>>

\* The agent loop executes a call that needs the user: a prompt, and the turn
\* ends.  A linked turn is only offered tools that never ask.
RaisePrompt(t, call) ==
  /\ turn[t].at = "running" /\ turn[t].kind = "ordinary"
  /\ ExecutePrompts(hosts[turn[t].host].perm, call, NoRequest)
  /\ hosts' = [hosts EXCEPT ![turn[t].host].perm =
                 HostAfterExecute(@, call, NoRequest, Len(asked) + 1)]
  /\ asked' = Append(asked, turn[t].session)
  /\ turn' = [turn EXCEPT ![t].at = "settle", ![t].history = @ \union {t}]
  /\ UNCHANGED <<slot, generation, workspace, warming, flightVars, sessionVars, histories,
                 cmd, runs, disturbed>>

\* run_turn returns without a prompt.
EndRun(t) ==
  /\ turn[t].at = "running"
  /\ turn' = [turn EXCEPT ![t].at = "settle", ![t].history = @ \union {t}]
  /\ UNCHANGED <<hostVars, flightVars, sessionVars, histories, cmd, gateVars, disturbed>>

\* The answer cannot be stored: the command returns, and its host is dropped.
PersistFails(t) ==
  /\ turn[t].at = "settle"
  /\ turn' = [turn EXCEPT ![t] = Returning(t)]
  /\ UNCHANGED <<hostVars, flightVars, sessionVars, histories, cmd, gateVars, disturbed>>

RestoreHost(t) ==
  /\ turn[t].at = "settle"
  /\ slot' = Restored(t)
  /\ turn' = [turn EXCEPT ![t].at = "insert", ![t].host = NoHost, ![t].borrowed = 0]
  /\ UNCHANGED <<generation, hosts, workspace, warming, flightVars, sessionVars, histories,
                 cmd, gateVars, disturbed>>

\* histories.insert, after the host is back.
InsertHistory(t) ==
  /\ turn[t].at = "insert"
  /\ histories' = [histories EXCEPT ![turn[t].session] = turn[t].history]
  /\ turn' = [turn EXCEPT ![t] = [Returning(t) EXCEPT !.saved = TRUE]]
  /\ UNCHANGED <<hostVars, flightVars, sessionVars, cmd, gateVars, disturbed>>

\* The admission is dropped on every way out: finish_agent_turn.
FinishTurn(t) ==
  LET s == turn[t].session
      free(map) == IF owners[s] = t THEN [map EXCEPT ![s] = Nobody] ELSE map
  IN /\ turn[t].at = "finishing"
     /\ owners' = free(owners)
     /\ cancels' = free(cancels)
     /\ turn' = [turn EXCEPT ![t].at = "done"]
     /\ UNCHANGED <<hostVars, flightVars, histories, cmd, gateVars, disturbed>>

-----------------------------------------------------------------------------
(* UI commands: complete_permission_cmd, propose_save_skill_cmd and        *)
(* set_workspace_roots.                                                    *)

\* What a command that has returned leaves behind.
Ended(c) == [IdleCommand EXCEPT !.at = "done", !.session = cmd[c].session,
                               !.host = cmd[c].host, !.ok = cmd[c].ok]

\* The user answers a prompt of a chat, whose history is copied before the host
\* is taken, or one of a command outside any chat.
AnswerPrompt(c, rid, decision) ==
  LET s == asked[rid]
  IN /\ cmd[c].at = "idle"
     /\ cmd' = [cmd EXCEPT ![c] =
          [IdleCommand EXCEPT !.at = "take", !.session = s, !.rid = rid, !.decision = decision,
             !.history = IF s = Nobody THEN {} ELSE StoredHistory(s)]]
     /\ IF s = Nobody THEN UNCHANGED disturbed ELSE MarkOverlap(c, s)
     /\ UNCHANGED <<hostVars, flightVars, sessionVars, histories, turn, gateVars>>

ProposeSkill(c) ==
  /\ cmd[c].at = "idle"
  /\ cmd' = [cmd EXCEPT ![c].at = "ensuring", ![c].kind = "skill"]
  /\ ensure' = [ensure EXCEPT ![c].at = "call"]
  /\ UNCHANGED <<hostVars, flight, asleep, sessionVars, histories, turn, gateVars,
                 disturbed>>

\* set_workspace_roots: the new roots hold even if the file cannot be written, but
\* only if it was written does the command go on to ensure_host.  (Bounded: once.)
SetWorkspaceRoots(c, roots) ==
  /\ cmd[c].at = "idle" /\ workspace = Home /\ roots /= Home
  /\ workspace' = roots
  /\ \/ /\ cmd' = [cmd EXCEPT ![c].at = "ensuring", ![c].kind = "roots"]
        /\ ensure' = [ensure EXCEPT ![c].at = "call"]
     \/ /\ cmd' = [cmd EXCEPT ![c] = Ended(c)]
        /\ UNCHANGED ensure
  /\ UNCHANGED <<slot, generation, hosts, warming, flight, asleep, sessionVars, histories,
                 turn, gateVars, disturbed>>

CommandReady(c) ==
  /\ cmd[c].at = "ensuring" /\ ensure[c].at \in {"ok", "failed"}
  /\ cmd' = IF ensure[c].at = "ok" /\ cmd[c].kind = "skill"
            THEN [cmd EXCEPT ![c].at = "take"]
            ELSE [cmd EXCEPT ![c] = Ended(c)]
  /\ ensure' = [ensure EXCEPT ![c] = IdleWorker]
  /\ UNCHANGED <<hostVars, flight, asleep, sessionVars, histories, turn, gateVars,
                 disturbed>>

CommandTakes(c) ==
  /\ cmd[c].at = "take"
  /\ cmd' = IF slot = NoHost
            THEN [cmd EXCEPT ![c] = Ended(c)]
            ELSE [cmd EXCEPT ![c].at = "execute", ![c].host = slot]
  /\ slot' = NoHost
  /\ UNCHANGED <<generation, hosts, workspace, warming, flightVars, sessionVars, histories,
                 turn, gateVars, disturbed>>

\* grant_and_execute on the host the command holds.  An unknown request and a
\* rejected decision are errors; a denial and a run are noted in the history.
GrantAndExecute(c) ==
  LET host == hosts[cmd[c].host].perm
      rid == cmd[c].rid
      decision == cmd[c].decision
      known == {r \in host.pending : r.id = rid}
      noted(ok) == cmd' = [cmd EXCEPT ![c].at = "put back", ![c].ok = ok,
                             ![c].history = IF ok THEN @ \union {c} ELSE @]
      becomes(h) == hosts' = [hosts EXCEPT ![cmd[c].host].perm = h]
      given == IF decision = "AllowOnce" THEN rid ELSE NoRequest
  IN /\ cmd[c].at = "execute" /\ cmd[c].kind = "approve"
     /\ \/ /\ \/ known = {}
              \/ \E req \in known : SessionGrantRefused(req.call, decision)
           /\ noted(FALSE) /\ UNCHANGED <<hosts, asked, runs>>
        \/ \E req \in known, typed \in BOOLEAN :
             /\ ~SessionGrantRefused(req.call, decision)
             /\ ~ValidDecision(req.call, decision, typed)
             /\ noted(FALSE) /\ becomes(ForgetPending(host, req)) /\ UNCHANGED <<asked, runs>>
        \/ \E req \in known :
             /\ decision = "Deny"
             /\ noted(TRUE) /\ becomes(ForgetPending(host, req)) /\ UNCHANGED <<asked, runs>>
        \/ \E req \in known, typed \in BOOLEAN :
             LET granted == GrantDecision(ForgetPending(host, req), req, decision)
             IN /\ decision /= "Deny" /\ ~SessionGrantRefused(req.call, decision)
                /\ ValidDecision(req.call, decision, typed)
                /\ noted(TRUE)
                /\ \/ /\ ExecuteMayReject(given)
                      /\ becomes(granted) /\ UNCHANGED <<asked, runs>>
                   \/ /\ becomes(HostAfterExecute(granted, req.call, given, Len(asked) + 1))
                      /\ asked' = IF ExecutePrompts(granted, req.call, given)
                                  THEN Append(asked, cmd[c].session)
                                  ELSE asked
                      /\ runs' = IF ExecuteRuns(granted, req.call, given)
                                 THEN runs \union {[rid |-> rid, by |-> c]}
                                 ELSE runs
     /\ UNCHANGED <<slot, generation, workspace, warming, flightVars, sessionVars, histories,
                    turn, disturbed>>

\* save_skill is executed without a grant: it asks, unless the session allows it.
ExecuteSkill(c, call) ==
  LET host == hosts[cmd[c].host].perm
      asks == ExecutePrompts(host, call, NoRequest)
  IN /\ cmd[c].at = "execute" /\ cmd[c].kind = "skill"
     /\ hosts' = [hosts EXCEPT ![cmd[c].host].perm =
                    HostAfterExecute(host, call, NoRequest, Len(asked) + 1)]
     /\ asked' = IF asks THEN Append(asked, Nobody) ELSE asked
     /\ cmd' = [cmd EXCEPT ![c].at = "put back", ![c].ok = TRUE]
     /\ UNCHANGED <<slot, generation, workspace, warming, flightVars, sessionVars, histories,
                    turn, runs, disturbed>>

\* The command puts its host back whatever the slot holds by now.
PutBack(c) ==
  /\ cmd[c].at = "put back"
  /\ slot' = cmd[c].host
  /\ cmd' = IF cmd[c].ok /\ cmd[c].session /= Nobody
            THEN [cmd EXCEPT ![c].at = "insert"]
            ELSE [cmd EXCEPT ![c] = Ended(c)]
  /\ UNCHANGED <<generation, hosts, workspace, warming, flightVars, sessionVars, histories,
                 turn, gateVars, disturbed>>

CommandInserts(c) ==
  /\ cmd[c].at = "insert"
  /\ histories' = [histories EXCEPT ![cmd[c].session] = cmd[c].history]
  /\ cmd' = [cmd EXCEPT ![c] = Ended(c)]
  /\ UNCHANGED <<hostVars, flightVars, sessionVars, turn, gateVars, disturbed>>

-----------------------------------------------------------------------------
(* The chat commands that replace a history or drop it.                    *)

\* What a transcript of the chat can tell of: a turn from the moment it is sent, and
\* a command that has returned without running its tool, whose message says so.  The
\* message of one that ran has no text, and to_chat_history keeps nothing but text.
Shown(s) ==
  {t \in Turns : turn[t].session = s}
    \union {c \in Commands : /\ cmd[c].at = "done" /\ cmd[c].session = s
                             /\ \A run \in runs : run.by /= c}

\* Entries the new history lacks are lost to this command, not to a copy.
ReplaceHistory(c, s, messages) ==
  /\ cmd[c].at = "idle"
  /\ cmd' = [cmd EXCEPT ![c] = Ended(c)]
  /\ histories' = [histories EXCEPT ![s] = messages]
  /\ disturbed' = disturbed \union (histories[s] \ messages)
  /\ UNCHANGED <<hostVars, flightVars, sessionVars, turn, gateVars>>

\* save_chat_session and load_chat_session seed the history from a transcript, a
\* window's or the stored one, which may be older than the history.
SeedHistory(c, s, messages) == messages \subseteq Shown(s) /\ ReplaceHistory(c, s, messages)

\* trash_chat_session, delete_chat_session.
ForgetHistory(c, s) == ReplaceHistory(c, s, {})

-----------------------------------------------------------------------------
TurnStep(t) ==
  \/ StartWorker(t) \/ EndEarly(t)
  \/ StopWaiting(t) \/ TakeHost(t) \/ LinkedRefused(t) \/ ConstructLinkedHost(t)
  \/ CloneHistory(t) \/ PreflightFails(t) \/ EndRun(t) \/ PersistFails(t)
  \/ \E call \in Calls : RaisePrompt(t, call)
  \/ RestoreHost(t) \/ InsertHistory(t) \/ FinishTurn(t)

CommandStep(c) ==
  \/ CommandReady(c) \/ CommandTakes(c) \/ GrantAndExecute(c)
  \/ \E call \in Calls : ExecuteSkill(c, call)
  \/ PutBack(c) \/ CommandInserts(c)

Next ==
  \/ \E a \in Actors : Flight(a)
  \/ \E t \in Turns : TurnStep(t)
  \/ \E t \in Turns, s \in Sessions, kind \in {"ordinary", "linked"} : Admit(t, s, kind)
  \/ \E c \in Commands : CommandStep(c)
  \/ \E c \in Commands, rid \in DOMAIN asked, d \in {"Deny", "AllowOnce", "AllowSessionPath"} :
       AnswerPrompt(c, rid, d)
  \/ \E c \in Commands : ProposeSkill(c)
  \/ \E w \in warming : InstallMemory(w) \/ AbandonWarmup(w)
  \/ \E c \in Commands, roots \in Workspaces : SetWorkspaceRoots(c, roots)
  \/ \E c \in Commands, s \in Sessions :
       ForgetHistory(c, s) \/ \E messages \in SUBSET Actors : SeedHistory(c, s, messages)

Spec == Init /\ [][Next]_vars

\* Threads and tasks run; the agent loop ends every turn it runs.
Fairness ==
  /\ \A a \in Actors : WF_vars(Flight(a))
  /\ \A t \in Turns : WF_vars(TurnStep(t))
  /\ \A c \in Commands : WF_vars(CommandStep(c))

FairSpec == Spec /\ Fairness

-----------------------------------------------------------------------------
Holders(h) ==
  {t \in Turns : turn[t].host = h}
    \union {c \in Commands : cmd[c].host = h /\ cmd[c].at \in {"execute", "put back"}}

PutBackByCommand(h) == \E c \in Commands : cmd[c].host = h /\ cmd[c].at \in {"insert", "done"}

TypeOK ==
  /\ slot \in HostIds \union {NoHost} /\ generation \in 0..MaxGeneration
  /\ \A h \in HostIds : /\ hosts[h].perm \in HostType /\ hosts[h].ws \in Workspaces
                        /\ hosts[h].memory \in Workspaces \union {Absent}
  /\ workspace \in Workspaces
  /\ flight.running \in BOOLEAN
  /\ flight.waiters = Cardinality({a \in Actors : ensure[a].at = "joined"})
  /\ asleep \subseteq {a \in Actors : ensure[a].at \in {"call", "joined"}}
  /\ owners \in [Sessions -> Turns \union {Nobody}]
  /\ cancels \in [Sessions -> Turns \union {Nobody}]
  /\ histories \in [Sessions -> SUBSET Actors]
  /\ \A h \in HostIds : Cardinality(Holders(h)) <= IF slot = h THEN 0 ELSE 1

\* Whoever joins a running initialization returns the result of that one, and
\* never of an earlier or later flight (HostInitFlight::run).
JoinersGetTheirFlight == \A a \in Actors : ensure[a].mine

\* An active turn is the only one of its session, and the session's cancel flag is
\* its flag: no late finish of another turn takes either away.
TurnOwnsSession ==
  \A t \in Turns :
    turn[t].at \notin {"idle", "done"} =>
      /\ owners[turn[t].session] = t /\ cancels[turn[t].session] = t
      /\ \A u \in Turns \ {t} : turn[u].at \notin {"idle", "done"} =>
           turn[u].session /= turn[t].session

\* An approval is carried out at most once, however many windows answer the prompt
\* and whichever hosts they find.
ApprovalSpentOnce == \A r1, r2 \in runs : r1.rid = r2.rid => r1 = r2

\* The slot never falls back to an older host through a turn: a host other than the
\* newest was put there by a command.
OnlyCommandsGoBack ==
  slot \notin {NoHost, generation} => PutBackByCommand(slot)

\* Durable memory prepared for one set of roots is attached to a host of other roots
\* only where a command has put an old host back: not by a rebuild, and not by a turn
\* that returns its host (install_prepared_durable_memory compares no roots).
MemoryMatchesWorkspace ==
  \A h \in HostIds :
    hosts[h].memory \notin {Absent, hosts[h].ws} => PutBackByCommand(h)

\* What a turn or an answered prompt wrote into a history stays there through all later
\* turns and answers of the chat, each of which writes back a copy, unless one of them
\* already held its copy.  Only a transcript without it takes it away after that, or
\* the end of the chat (save_chat_session, load_chat_session, trash_chat_session,
\* delete_chat_session).
HistoryKept ==
  /\ \A t \in Turns : turn[t].saved /\ t \notin disturbed =>
       t \in histories[turn[t].session]
  /\ \A c \in Commands :
       /\ cmd[c].at = "done" /\ cmd[c].ok /\ cmd[c].session /= Nobody
       /\ c \notin disturbed
       => c \in histories[cmd[c].session]

\* The outcome of an answered prompt is in the history the next turn starts from
\* (grant_and_execute: so the next model turn sees the outcome).  Not so: a turn that
\* holds an older copy erases it, and so does every transcript saved after it, which
\* has no text for a tool that ran.
OutcomeKept ==
  \A c \in Commands :
    cmd[c].at = "done" /\ cmd[c].ok /\ cmd[c].session /= Nobody
    => c \in histories[cmd[c].session]

\* Every admitted turn ends and releases its session, every command returns, and
\* nobody sleeps for ever on the initialization.  Turns and commands run once, so
\* this is to say that all of them are at rest again and again.
AtRest ==
  /\ \A t \in Turns : turn[t].at \in {"idle", "done"}
  /\ \A c \in Commands : cmd[c].at \in {"idle", "done"}
  /\ \A a \in Actors : ensure[a].at \in {"none", "ok", "failed"}

TurnsEnd == []<>AtRest

=============================================================================
