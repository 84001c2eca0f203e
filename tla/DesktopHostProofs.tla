------------------------- MODULE DesktopHostProofs -------------------------
(***************************************************************************)
(* Proofs about DesktopHost for any number of turns, commands, sessions,   *)
(* workspaces and host rebuilds.  The inductive invariant has five parts,  *)
(* each about one thing the application shares: the initialization flight, *)
(* the sessions, the hosts, the approvals and the histories.               *)
(***************************************************************************)
EXTENDS DesktopHost, ToolPermissionsProofs, FiniteSetTheorems

-----------------------------------------------------------------------------
(* The inductive invariant.                                                *)

WorkerType ==
  [at : {"none", "call", "joined", "initialize", "inspect", "rebuild", "initialized", "broken",
         "ok", "failed", "construct"},
   ws : Workspaces, joined : BOOLEAN, mine : BOOLEAN]

HostRecordType ==
  [perm : HostType, ws : Workspaces, memory : Workspaces \union {Absent}]

TurnType ==
  [at : {"idle", "admitted", "waiting", "constructed", "clone", "running", "settle", "insert",
         "finishing", "done"},
   session : Sessions \union {Nobody}, kind : {"ordinary", "linked"},
   host : 0..MaxGeneration, borrowed : 0..MaxGeneration,
   history : SUBSET Actors, saved : BOOLEAN]

CommandType ==
  [at : {"idle", "ensuring", "take", "execute", "put back", "insert", "done"},
   session : Sessions \union {Nobody}, kind : {"approve", "skill", "roots"},
   host : 0..MaxGeneration, rid : Nat \union {NoRequest},
   decision : {"Deny", "AllowOnce", "AllowSessionPath"}, ok : BOOLEAN,
   history : SUBSET Actors]

FlightType == [running : BOOLEAN, waiters : Nat, epoch : BOOLEAN, lastResult : BOOLEAN]

Types ==
  /\ slot \in 0..MaxGeneration /\ generation \in 0..MaxGeneration
  /\ hosts \in [HostIds -> HostRecordType]
  /\ workspace \in Workspaces /\ warming \in SUBSET [expected : HostIds, ws : Workspaces]
  /\ flight \in FlightType /\ asleep \in SUBSET Actors /\ ensure \in [Actors -> WorkerType]
  /\ owners \in [Sessions -> Turns \union {Nobody}]
  /\ cancels \in [Sessions -> Turns \union {Nobody}]
  /\ histories \in [Sessions -> SUBSET Actors]
  /\ turn \in [Turns -> TurnType] /\ cmd \in [Commands -> CommandType]
  /\ asked \in Seq(Sessions \union {Nobody}) /\ runs \in SUBSET [rid : Nat, by : Commands]
  /\ disturbed \in SUBSET Actors

\* The flight: its waiters are those that joined it and have not left, and all of
\* them joined the flight that is the last one.
Joined == {a \in Actors : ensure[a].at = "joined"}

FlightInv ==
  /\ flight.waiters = Cardinality(Joined)
  /\ \A a \in asleep : ensure[a].at \in {"call", "joined"}
  /\ \A a \in Actors : /\ ensure[a].mine
                       /\ ensure[a].at = "joined" => ensure[a].joined = flight.epoch
  /\ \A t \in Turns : turn[t].at \in {"idle", "admitted"} => ensure[t].at = "none"
  /\ \A c \in Commands : cmd[c].at = "idle" => ensure[c].at = "none"

\* The sessions: whoever is active in one owns it, and only a linked turn has its
\* host constructed.
Active(t) == turn[t].at \notin {"idle", "done"}

Owned ==
  \A t \in Turns : Active(t) =>
    /\ turn[t].session \in Sessions
    /\ owners[turn[t].session] = t /\ cancels[turn[t].session] = t

LinkedWorkers ==
  \A t \in Turns :
    turn[t].at = "waiting" /\ ensure[t].at = "construct" => turn[t].kind /= "ordinary"

SessionInv == Owned /\ LinkedWorkers

\* The hosts: only published ones are about, each is in one place, and an old one
\* has gone through a command.
Using(c) == cmd[c].at \in {"execute", "put back"}

HostsKnown ==
  /\ slot <= generation
  /\ \A t \in Turns : turn[t].host <= generation
  /\ \A c \in Commands : cmd[c].host <= generation
  /\ \A t \in Turns : /\ turn[t].at \in {"clone", "constructed", "running", "settle"}
                       /\ turn[t].kind = "ordinary"
                       => turn[t].host /= NoHost
  /\ \A c \in Commands : Using(c) => cmd[c].host /= NoHost

OnePlace ==
  /\ \A t \in Turns : turn[t].host /= NoHost =>
       /\ turn[t].host /= slot
       /\ \A u \in Turns : turn[u].host = turn[t].host => u = t
       /\ \A c \in Commands : Using(c) => cmd[c].host /= turn[t].host
  /\ \A c \in Commands : Using(c) =>
       /\ cmd[c].host /= slot
       /\ \A d \in Commands : Using(d) /\ cmd[d].host = cmd[c].host => d = c

OldHosts ==
  /\ OnlyCommandsGoBack
  /\ \A t \in Turns :
       turn[t].host \notin {NoHost, turn[t].borrowed} => PutBackByCommand(turn[t].host)

Memories ==
  /\ MemoryMatchesWorkspace
  /\ \A w \in warming : w.expected <= generation /\ hosts[w.expected].ws = w.ws

\* The approvals: a request is pending on one host, and was not carried out yet.
Pending(h) == hosts[h].perm.pending

ApprovalInv ==
  /\ \A h \in HostIds : \A r \in Pending(h) : r.id <= Len(asked)
  /\ \A g, h \in HostIds : \A q \in Pending(g), r \in Pending(h) :
       q.id = r.id => g = h /\ q = r
  /\ \A run \in runs : run.rid <= Len(asked)
  /\ \A run \in runs, h \in HostIds : \A r \in Pending(h) : run.rid /= r.id
  /\ ApprovalSpentOnce

\* The histories: whatever was saved, and neither overlapped nor dropped by a transcript,
\* is in the history and in every copy that will be written over it.
Saved(s) ==
  {t \in Turns : turn[t].saved /\ turn[t].session = s}
    \union {c \in Commands : cmd[c].at = "done" /\ cmd[c].ok /\ cmd[c].session = s}

Copy(a) == IF a \in Turns THEN turn[a].history ELSE cmd[a].history

CommandShape ==
  \A c \in Commands :
    /\ cmd[c].at \in {"idle", "ensuring"} \/ cmd[c].kind /= "approve" => cmd[c].session = Nobody
    /\ cmd[c].at \in {"idle", "ensuring", "take", "execute"} => ~cmd[c].ok
    /\ cmd[c].at = "put back" /\ cmd[c].ok /\ cmd[c].session /= Nobody => c \in cmd[c].history
    /\ cmd[c].at = "insert" => cmd[c].ok /\ cmd[c].session /= Nobody /\ c \in cmd[c].history

TurnShape ==
  \A t \in Turns :
    /\ turn[t].at \in {"settle", "insert"} => t \in turn[t].history
    /\ turn[t].saved => turn[t].at \in {"finishing", "done"} /\ turn[t].session \in Sessions

Overlaps ==
  \A s \in Sessions : \A a, b \in Rewriting(s) : a /= b => a \in disturbed

HistoryInv ==
  \A s \in Sessions : \A a \in Saved(s) \ disturbed :
    a \in histories[s] /\ \A b \in Rewriting(s) : a \in Copy(b)

IInv ==
  /\ Types /\ FlightInv /\ SessionInv
  /\ HostsKnown /\ OnePlace /\ OldHosts /\ Memories
  /\ ApprovalInv
  /\ CommandShape /\ TurnShape /\ Overlaps /\ HistoryInv

-----------------------------------------------------------------------------
(* Types.                                                                  *)

\* What an execution on host h, for session s, may do: the permissions of one host
\* change, and a request that was not pending before has a fresh id.
PermStep(h, s) ==
  \E perm \in HostType, call \in Calls :
    /\ hosts' = [hosts EXCEPT ![h].perm = perm]
    /\ \/ asked' = asked /\ perm.pending \subseteq Pending(h)
       \/ /\ asked' = Append(asked, s)
          /\ perm.pending \subseteq Pending(h) \union {[id |-> Len(asked) + 1, call |-> call]}

\* Prompts of turns, executions of approved requests and of skills are such steps.
LEMMA PromptEffect ==
  ASSUME Types, HostsKnown, NEW t \in Turns, NEW call \in Calls, RaisePrompt(t, call)
  PROVE  turn[t].host \in HostIds /\ PermStep(turn[t].host, turn[t].session)
<1> DEFINE h == turn[t].host
           after == HostAfterExecute(hosts[h].perm, call, NoRequest, Len(asked) + 1)
<1>1. h \in HostIds /\ hosts[h].perm \in HostType /\ Len(asked) + 1 \in Nat
  BY DEF Types, HostsKnown, RaisePrompt, TurnType, HostIds, HostRecordType, NoHost
<1>2. /\ after \in HostType
      /\ after.pending = Pending(h) \union {[id |-> Len(asked) + 1, call |-> call]}
  BY <1>1, ExecutedHost DEF RaisePrompt, Pending
<1>3. /\ hosts' = [hosts EXCEPT ![h].perm = after]
      /\ asked' = Append(asked, turn[t].session)
  BY DEF RaisePrompt
<1> HIDE DEF after
<1> QED
  BY <1>1, <1>2, <1>3 DEF PermStep

\* A command that executes has a host.
LEMMA CommandHost ==
  ASSUME Types, HostsKnown, NEW c \in Commands, Using(c)
  PROVE  /\ cmd[c].host \in HostIds /\ hosts[cmd[c].host].perm \in HostType
         /\ cmd[c].decision \in {"Deny", "AllowOnce", "AllowSessionPath"}
         /\ Len(asked) + 1 \in Nat
<1>1. cmd[c] \in CommandType /\ cmd[c].host /= NoHost
  BY DEF Types, HostsKnown
<1>2. cmd[c].host \in HostIds
  <2>1. cmd[c].host \in 0..MaxGeneration /\ cmd[c].host /= 0
    BY <1>1 DEF CommandType, NoHost
  <2> QED
    BY <2>1, DesktopAssumption DEF HostIds
<1>3. hosts[cmd[c].host] \in HostRecordType /\ Len(asked) + 1 \in Nat
  BY <1>2 DEF Types
<1> QED
  BY <1>1, <1>2, <1>3 DEF CommandType, HostRecordType

\* Skills.
LEMMA SkillEffect ==
  ASSUME Types, HostsKnown, NEW c \in Commands, NEW call \in Calls, ExecuteSkill(c, call)
  PROVE  cmd[c].host \in HostIds /\ PermStep(cmd[c].host, Nobody)
<1> DEFINE h == cmd[c].host
           after == HostAfterExecute(hosts[h].perm, call, NoRequest, Len(asked) + 1)
<1>0. Using(c)
  BY DEF ExecuteSkill, Using
<1>1. h \in HostIds /\ hosts[h].perm \in HostType /\ Len(asked) + 1 \in Nat
  BY <1>0, CommandHost
<1>2. /\ after \in HostType
      /\ after.pending = IF ExecutePrompts(hosts[h].perm, call, NoRequest)
                         THEN Pending(h) \union {[id |-> Len(asked) + 1, call |-> call]}
                         ELSE Pending(h)
  BY <1>1, ExecutedHost DEF Pending
<1>3. /\ hosts' = [hosts EXCEPT ![h].perm = after]
      /\ asked' = IF ExecutePrompts(hosts[h].perm, call, NoRequest)
                  THEN Append(asked, Nobody) ELSE asked
  BY DEF ExecuteSkill
<1> HIDE DEF after
<1> QED
  BY <1>1, <1>2, <1>3 DEF PermStep

\* A completed request leaves the pending ones before it is carried out.
Completed(h, c) ==
  \E perm \in HostType, call \in Calls :
    /\ hosts' = [hosts EXCEPT ![h].perm = perm]
    /\ \E req \in Pending(h) :
         /\ req.id = cmd[c].rid
         /\ \/ asked' = asked /\ perm.pending \subseteq Pending(h) \ {req}
            \/ /\ asked' = Append(asked, cmd[c].session)
               /\ perm.pending \subseteq
                    (Pending(h) \ {req}) \union {[id |-> Len(asked) + 1, call |-> call]}
    /\ runs' \in {runs, runs \union {[rid |-> cmd[c].rid, by |-> c]}}

\* An approval command either leaves the permissions of its host alone or completes
\* one pending request of it; it runs a tool for that request at most once.
LEMMA CompleteEffect ==
  ASSUME Types, HostsKnown, NEW c \in Commands, GrantAndExecute(c)
  PROVE  /\ cmd[c].host \in HostIds
         /\ UNCHANGED <<hosts, asked, runs>> \/ Completed(cmd[c].host, c)
         /\ \E ok \in BOOLEAN :
              cmd' = [cmd EXCEPT ![c].at = "put back", ![c].ok = ok,
                                 ![c].history = IF ok THEN @ \union {c} ELSE @]
<1> DEFINE h == cmd[c].host
           perm == hosts[h].perm
           rid == cmd[c].rid
           decision == cmd[c].decision
           given == IF decision = "AllowOnce" THEN rid ELSE NoRequest
           new(call) == [id |-> Len(asked) + 1, call |-> call]
<1>0. Using(c)
  BY DEF GrantAndExecute, Using
<1>1. /\ h \in HostIds /\ perm \in HostType /\ Len(asked) + 1 \in Nat
      /\ decision \in {"Deny", "AllowOnce", "AllowSessionPath"}
      /\ Pending(h) = perm.pending
  BY <1>0, CommandHost DEF Pending
<1>2. \A req \in Pending(h) : req.call \in Calls
  BY <1>1 DEF HostType, Requests
<1>3. \A req \in Pending(h) : /\ ForgetPending(perm, req) \in HostType
                              /\ ForgetPending(perm, req).pending = Pending(h) \ {req}
  BY <1>1 DEF ForgetPending, HostType
<1>4. ASSUME NEW req \in Pending(h), decision /= "Deny"
      PROVE  LET granted == GrantDecision(ForgetPending(perm, req), req, decision)
             IN granted \in HostType /\ granted.pending = Pending(h) \ {req}
  BY <1>1, <1>4, DecideHost
<1>5. ASSUME NEW p \in HostType, NEW req \in Pending(h), req.id = rid,
             hosts' = [hosts EXCEPT ![h].perm = p],
             \/ asked' = asked /\ p.pending \subseteq Pending(h) \ {req}
             \/ /\ asked' = Append(asked, cmd[c].session)
                /\ p.pending \subseteq (Pending(h) \ {req}) \union {new(req.call)},
             runs' \in {runs, runs \union {[rid |-> rid, by |-> c]}}
      PROVE  Completed(h, c)
  <2> USE DEF Completed
  <2>1. req.call \in Calls
    BY <1>2
  <2> WITNESS p \in HostType, req.call \in Calls
  <2> QED
    BY <1>5, Zenon
<1>6. ASSUME NEW g \in HostType, NEW call \in Calls
      PROVE  /\ HostAfterExecute(g, call, given, Len(asked) + 1) \in HostType
             /\ HostAfterExecute(g, call, given, Len(asked) + 1).pending =
                  IF ExecutePrompts(g, call, given) THEN g.pending \union {new(call)} ELSE g.pending
  <2> HIDE DEF given
  <2> QED
    BY <1>1, ExecutedHost
<1>7. ASSUME NEW req \in Pending(h), req.id = rid, decision /= "Deny",
             NEW granted, granted = GrantDecision(ForgetPending(perm, req), req, decision),
             hosts' = [hosts EXCEPT ![h].perm =
                         HostAfterExecute(granted, req.call, given, Len(asked) + 1)],
             asked' = IF ExecutePrompts(granted, req.call, given)
                      THEN Append(asked, cmd[c].session) ELSE asked,
             runs' \in {runs, runs \union {[rid |-> rid, by |-> c]}}
      PROVE  Completed(h, c)
  <2> DEFINE after == HostAfterExecute(granted, req.call, given, Len(asked) + 1)
  <2>1. granted \in HostType /\ granted.pending = Pending(h) \ {req}
    BY <1>4, <1>7
  <2>2. /\ after \in HostType
        /\ after.pending = IF ExecutePrompts(granted, req.call, given)
                           THEN granted.pending \union {new(req.call)}
                           ELSE granted.pending
    BY <1>2, <1>6, <2>1
  <2>3. hosts' = [hosts EXCEPT ![h].perm = after]
    BY <1>7, Zenon
  <2>4. \/ asked' = asked /\ after.pending \subseteq Pending(h) \ {req}
        \/ /\ asked' = Append(asked, cmd[c].session)
           /\ after.pending \subseteq (Pending(h) \ {req}) \union {new(req.call)}
    <3> HIDE DEF after, new
    <3> QED
      BY <1>7, <2>1, <2>2
  <2> HIDE DEF after
  <2> QED
    BY <1>5, <1>7, <2>2, <2>3, <2>4, Zenon
<1>8. UNCHANGED <<hosts, asked, runs>> \/ Completed(h, c)
  <2> DEFINE known == {r \in perm.pending : r.id = rid}
  <2>1. \A req \in known : req \in Pending(h) /\ req.id = rid
    BY <1>1
  <2>2. \/ UNCHANGED <<hosts, asked, runs>>
        \/ \E req \in known : /\ hosts' = [hosts EXCEPT ![h].perm = ForgetPending(perm, req)]
                              /\ UNCHANGED <<asked, runs>>
        \/ \E req \in known :
             /\ decision /= "Deny"
             /\ hosts' = [hosts EXCEPT ![h].perm = GrantDecision(ForgetPending(perm, req), req, decision)]
             /\ UNCHANGED <<asked, runs>>
        \/ \E req \in known :
             LET granted == GrantDecision(ForgetPending(perm, req), req, decision)
             IN /\ decision /= "Deny"
                /\ hosts' = [hosts EXCEPT ![h].perm =
                               HostAfterExecute(granted, req.call, given, Len(asked) + 1)]
                /\ asked' = IF ExecutePrompts(granted, req.call, given)
                            THEN Append(asked, cmd[c].session) ELSE asked
                /\ runs' \in {runs, runs \union {[rid |-> rid, by |-> c]}}
    BY Zenon DEF GrantAndExecute
  <2> QED
    BY <2>1, <2>2, <1>3, <1>4, <1>5, <1>7
<1>9. \E ok \in BOOLEAN :
        cmd' = [cmd EXCEPT ![c].at = "put back", ![c].ok = ok,
                           ![c].history = IF ok THEN @ \union {c} ELSE @]
  BY DEF GrantAndExecute
<1> QED
  BY <1>1, <1>8, <1>9

-----------------------------------------------------------------------------
(* What the steps do to a turn, a command or a worker, field by field.     *)

\* The record of turn t after the step; the other turns keep theirs.
TurnIs(t, at, session, kind, host, borrowed, history, saved) ==
  /\ turn' \in [Turns -> TurnType] /\ \A u \in Turns : u /= t => turn'[u] = turn[u]
  /\ turn'[t].at = at /\ turn'[t].session = session /\ turn'[t].kind = kind
  /\ turn'[t].host = host /\ turn'[t].borrowed = borrowed
  /\ turn'[t].history = history /\ turn'[t].saved = saved

TurnMoves(t, at) ==
  TurnIs(t, at, turn[t].session, turn[t].kind, turn[t].host, turn[t].borrowed, turn[t].history,
         turn[t].saved)

TurnReturns(t, saved) == TurnIs(t, "finishing", turn[t].session, "ordinary", NoHost, 0, {}, saved)

CommandIs(c, at, session, kind, host, ok, history) ==
  /\ cmd' \in [Commands -> CommandType] /\ \A d \in Commands : d /= c => cmd'[d] = cmd[d]
  /\ cmd'[c].at = at /\ cmd'[c].session = session /\ cmd'[c].kind = kind
  /\ cmd'[c].host = host /\ cmd'[c].ok = ok /\ cmd'[c].history = history

CommandEnds(c) == CommandIs(c, "done", cmd[c].session, "approve", cmd[c].host, cmd[c].ok, {})

WorkerIs(a, at, joined, mine) ==
  /\ ensure' \in [Actors -> WorkerType] /\ \A b \in Actors : b /= a => ensure'[b] = ensure[b]
  /\ ensure'[a].at = at /\ ensure'[a].joined = joined /\ ensure'[a].mine = mine

WorkerMoves(a, at) == WorkerIs(a, at, ensure[a].joined, ensure[a].mine)

\* A record put in its place is read back.
LEMMA TurnPut ==
  ASSUME Types, NEW t \in Turns, NEW y \in TurnType, turn' = [turn EXCEPT ![t] = y]
  PROVE  TurnIs(t, y.at, y.session, y.kind, y.host, y.borrowed, y.history, y.saved)
<1>1. /\ turn' \in [Turns -> TurnType] /\ turn'[t] = y
      /\ \A u \in Turns : u /= t => turn'[u] = turn[u]
  BY DEF Types
<1> QED
  BY <1>1 DEF TurnIs

\* The same for the record of a command, and for that of a worker.
LEMMA CommandPut ==
  ASSUME Types, NEW c \in Commands, NEW y \in CommandType, cmd' = [cmd EXCEPT ![c] = y]
  PROVE  CommandIs(c, y.at, y.session, y.kind, y.host, y.ok, y.history)
<1>1. /\ cmd' \in [Commands -> CommandType] /\ cmd'[c] = y
      /\ \A d \in Commands : d /= c => cmd'[d] = cmd[d]
  BY DEF Types
<1> QED
  BY <1>1 DEF CommandIs

\* A worker's record is replaced, the others stay.
LEMMA WorkerPut ==
  ASSUME Types, NEW a \in Actors, NEW y \in WorkerType, ensure' = [ensure EXCEPT ![a] = y]
  PROVE  WorkerIs(a, y.at, y.joined, y.mine)
<1>1. /\ ensure' \in [Actors -> WorkerType] /\ ensure'[a] = y
      /\ \A b \in Actors : b /= a => ensure'[b] = ensure[b]
  BY DEF Types
<1> QED
  BY <1>1 DEF WorkerIs

\* A turn that moves on, one that returns, and one that gets or gives up a host.
LEMMA TurnEffects ==
  ASSUME Types, NEW t \in Turns
  PROVE  /\ \A at \in {"admitted", "waiting", "constructed", "done"} :
              turn' = [turn EXCEPT ![t].at = at] => TurnMoves(t, at)
         /\ \A saved \in BOOLEAN :
              turn' = [turn EXCEPT ![t] = [Returning(t) EXCEPT !.saved = saved]] => TurnReturns(t, saved)
         /\ turn' = [turn EXCEPT ![t] = Returning(t)] => TurnReturns(t, FALSE)
         /\ turn' = [turn EXCEPT ![t] = [turn[t] EXCEPT !.at = "constructed"]]
              => TurnMoves(t, "constructed")
         /\ \A at \in {"clone", "constructed"}, h \in 0..MaxGeneration, g \in 0..MaxGeneration :
              turn' = [turn EXCEPT ![t].at = at, ![t].host = h, ![t].borrowed = g]
              => TurnIs(t, at, turn[t].session, turn[t].kind, h, g, turn[t].history, turn[t].saved)
         /\ \A at \in {"running", "settle"}, history \in SUBSET Actors :
              turn' = [turn EXCEPT ![t].at = at, ![t].history = history]
              => TurnIs(t, at, turn[t].session, turn[t].kind, turn[t].host, turn[t].borrowed,
                        history, turn[t].saved)
         /\ \A s \in Sessions, kind \in {"ordinary", "linked"} :
              turn' = [turn EXCEPT ![t].at = "admitted", ![t].session = s, ![t].kind = kind]
              => TurnIs(t, "admitted", s, kind, turn[t].host, turn[t].borrowed, turn[t].history,
                        turn[t].saved)
         /\ turn' = [turn EXCEPT ![t].at = "insert", ![t].host = NoHost, ![t].borrowed = 0]
              => TurnIs(t, "insert", turn[t].session, turn[t].kind, NoHost, 0, turn[t].history,
                        turn[t].saved)
<1> DEFINE x == turn[t]
<1>0. x \in TurnType /\ turn \in [Turns -> TurnType] /\ 0 \in 0..MaxGeneration
  BY DesktopAssumption DEF Types
<1>1. ASSUME NEW at \in {"admitted", "waiting", "constructed", "done"},
             turn' = [turn EXCEPT ![t].at = at]
      PROVE  TurnMoves(t, at)
  <2> DEFINE y == [x EXCEPT !.at = at]
  <2>1. turn' = [turn EXCEPT ![t] = y]
    BY <1>0, <1>1 DEF TurnType
  <2>2. /\ y \in TurnType /\ y.at = at /\ y.session = x.session /\ y.kind = x.kind
        /\ y.host = x.host /\ y.borrowed = x.borrowed /\ y.history = x.history /\ y.saved = x.saved
    BY <1>0 DEF TurnType
  <2> HIDE DEF y
  <2> QED
    BY <2>1, <2>2, TurnPut DEF TurnMoves
<1>2. ASSUME NEW saved \in BOOLEAN,
             turn' = [turn EXCEPT ![t] = [Returning(t) EXCEPT !.saved = saved]]
      PROVE  TurnReturns(t, saved)
  <2> DEFINE y == [Returning(t) EXCEPT !.saved = saved]
  <2>1. /\ y \in TurnType /\ y.at = "finishing" /\ y.session = x.session /\ y.kind = "ordinary"
        /\ y.host = NoHost /\ y.borrowed = 0 /\ y.history = {} /\ y.saved = saved
    BY <1>0 DEF TurnType, Returning, IdleTurn, NoHost
  <2>2. turn' = [turn EXCEPT ![t] = y]
    BY <1>2, Zenon
  <2> HIDE DEF y
  <2> QED
    BY <2>1, <2>2, TurnPut DEF TurnReturns
<1>3. ASSUME turn' = [turn EXCEPT ![t] = Returning(t)]
      PROVE  TurnReturns(t, FALSE)
  <2> DEFINE y == Returning(t)
  <2>1. /\ y \in TurnType /\ y.at = "finishing" /\ y.session = x.session /\ y.kind = "ordinary"
        /\ y.host = NoHost /\ y.borrowed = 0 /\ y.history = {} /\ y.saved = FALSE
    BY <1>0 DEF TurnType, Returning, IdleTurn, NoHost
  <2> QED
    BY <1>3, <2>1, TurnPut DEF TurnReturns
<1>4. ASSUME turn' = [turn EXCEPT ![t] = [turn[t] EXCEPT !.at = "constructed"]]
      PROVE  TurnMoves(t, "constructed")
  <2>1. turn' = [turn EXCEPT ![t].at = "constructed"]
    BY <1>0, <1>4 DEF TurnType
  <2> QED
    BY <1>1, <2>1
<1>5. ASSUME NEW at \in {"clone", "constructed"},
             NEW h \in 0..MaxGeneration, NEW g \in 0..MaxGeneration,
             turn' = [turn EXCEPT ![t].at = at, ![t].host = h, ![t].borrowed = g]
      PROVE  TurnIs(t, at, x.session, x.kind, h, g, x.history, x.saved)
  <2> DEFINE y == [x EXCEPT !.at = at, !.host = h, !.borrowed = g]
  <2>1. turn' = [turn EXCEPT ![t] = y]
    BY <1>0, <1>5 DEF TurnType
  <2>2. /\ y \in TurnType /\ y.at = at /\ y.session = x.session /\ y.kind = x.kind
        /\ y.host = h /\ y.borrowed = g /\ y.history = x.history /\ y.saved = x.saved
    BY <1>0 DEF TurnType
  <2> HIDE DEF y
  <2> QED
    BY <2>1, <2>2, TurnPut
<1>6. ASSUME NEW at \in {"running", "settle"}, NEW history \in SUBSET Actors,
             turn' = [turn EXCEPT ![t].at = at, ![t].history = history]
      PROVE  TurnIs(t, at, x.session, x.kind, x.host, x.borrowed, history, x.saved)
  <2> DEFINE y == [x EXCEPT !.at = at, !.history = history]
  <2>1. turn' = [turn EXCEPT ![t] = y]
    BY <1>0, <1>6 DEF TurnType
  <2>2. /\ y \in TurnType /\ y.at = at /\ y.session = x.session /\ y.kind = x.kind
        /\ y.host = x.host /\ y.borrowed = x.borrowed /\ y.history = history /\ y.saved = x.saved
    BY <1>0 DEF TurnType
  <2> HIDE DEF y
  <2> QED
    BY <2>1, <2>2, TurnPut
<1>7. ASSUME NEW s \in Sessions, NEW kind \in {"ordinary", "linked"},
             turn' = [turn EXCEPT ![t].at = "admitted", ![t].session = s, ![t].kind = kind]
      PROVE  TurnIs(t, "admitted", s, kind, x.host, x.borrowed, x.history, x.saved)
  <2> DEFINE y == [x EXCEPT !.at = "admitted", !.session = s, !.kind = kind]
  <2>1. turn' = [turn EXCEPT ![t] = y]
    BY <1>0, <1>7 DEF TurnType
  <2>2. /\ y \in TurnType /\ y.at = "admitted" /\ y.session = s /\ y.kind = kind
        /\ y.host = x.host /\ y.borrowed = x.borrowed /\ y.history = x.history /\ y.saved = x.saved
    BY <1>0 DEF TurnType
  <2> HIDE DEF y
  <2> QED
    BY <2>1, <2>2, TurnPut
<1>8. ASSUME turn' = [turn EXCEPT ![t].at = "insert", ![t].host = NoHost, ![t].borrowed = 0]
      PROVE  TurnIs(t, "insert", x.session, x.kind, NoHost, 0, x.history, x.saved)
  <2> DEFINE y == [x EXCEPT !.at = "insert", !.host = NoHost, !.borrowed = 0]
  <2>1. turn' = [turn EXCEPT ![t] = y]
    BY <1>0, <1>8 DEF TurnType
  <2>2. /\ y \in TurnType /\ y.at = "insert" /\ y.session = x.session /\ y.kind = x.kind
        /\ y.host = NoHost /\ y.borrowed = 0 /\ y.history = x.history /\ y.saved = x.saved
    BY <1>0 DEF TurnType, NoHost
  <2> HIDE DEF y
  <2> QED
    BY <2>1, <2>2, TurnPut
<1> QED
  BY <1>1, <1>2, <1>3, <1>4, <1>5, <1>6, <1>7, <1>8

\* Commands.
LEMMA CommandEffects ==
  ASSUME Types, NEW c \in Commands
  PROVE  /\ cmd' = [cmd EXCEPT ![c] = Ended(c)] => CommandEnds(c)
         /\ \A at \in {"take", "insert"} :
              cmd' = [cmd EXCEPT ![c].at = at]
              => CommandIs(c, at, cmd[c].session, cmd[c].kind, cmd[c].host, cmd[c].ok, cmd[c].history)
         /\ \A kind \in {"skill", "roots"} :
              cmd' = [cmd EXCEPT ![c].at = "ensuring", ![c].kind = kind]
              => CommandIs(c, "ensuring", cmd[c].session, kind, cmd[c].host, cmd[c].ok, cmd[c].history)
         /\ \A h \in 0..MaxGeneration :
              cmd' = [cmd EXCEPT ![c].at = "execute", ![c].host = h]
              => CommandIs(c, "execute", cmd[c].session, cmd[c].kind, h, cmd[c].ok, cmd[c].history)
         /\ \A ok \in BOOLEAN, history \in SUBSET Actors :
              cmd' = [cmd EXCEPT ![c].at = "put back", ![c].ok = ok, ![c].history = history]
              => CommandIs(c, "put back", cmd[c].session, cmd[c].kind, cmd[c].host, ok, history)
         /\ cmd' = [cmd EXCEPT ![c].at = "put back", ![c].ok = TRUE]
              => CommandIs(c, "put back", cmd[c].session, cmd[c].kind, cmd[c].host, TRUE,
                           cmd[c].history)
         /\ \A s \in Sessions \union {Nobody}, rid \in Nat, history \in SUBSET Actors,
              d \in {"Deny", "AllowOnce", "AllowSessionPath"} :
              cmd' = [cmd EXCEPT ![c] = [IdleCommand EXCEPT !.at = "take", !.session = s, !.rid = rid,
                          !.decision = d, !.history = history]]
              => CommandIs(c, "take", s, "approve", NoHost, FALSE, history)
<1> DEFINE x == cmd[c]
<1>0. x \in CommandType /\ cmd \in [Commands -> CommandType] /\ 0 \in 0..MaxGeneration
  BY DesktopAssumption DEF Types
<1>1. ASSUME cmd' = [cmd EXCEPT ![c] = Ended(c)]
      PROVE  CommandEnds(c)
  <2> DEFINE y == Ended(c)
  <2>1. cmd' = [cmd EXCEPT ![c] = y]
    BY <1>0, <1>1 DEF CommandType
  <2>2. /\ y \in CommandType /\ y.at = "done" /\ y.session = x.session /\ y.kind = "approve"
        /\ y.host = x.host /\ y.ok = x.ok /\ y.history = {}
    BY <1>0, <1>1 DEF CommandType, Ended, IdleCommand, NoHost
  <2> HIDE DEF y
  <2> QED
    BY <2>1, <2>2, CommandPut DEF CommandEnds
<1>2. ASSUME NEW at \in {"take", "insert"},
             cmd' = [cmd EXCEPT ![c].at = at]
      PROVE  CommandIs(c, at, x.session, x.kind, x.host, x.ok, x.history)
  <2> DEFINE y == [x EXCEPT !.at = at]
  <2>1. cmd' = [cmd EXCEPT ![c] = y]
    BY <1>0, <1>2 DEF CommandType
  <2>2. /\ y \in CommandType /\ y.at = at /\ y.session = x.session /\ y.kind = x.kind
        /\ y.host = x.host /\ y.ok = x.ok /\ y.history = x.history
    BY <1>0, <1>2 DEF CommandType
  <2> HIDE DEF y
  <2> QED
    BY <2>1, <2>2, CommandPut
<1>3. ASSUME NEW kind \in {"skill", "roots"},
             cmd' = [cmd EXCEPT ![c].at = "ensuring", ![c].kind = kind]
      PROVE  CommandIs(c, "ensuring", x.session, kind, x.host, x.ok, x.history)
  <2> DEFINE y == [x EXCEPT !.at = "ensuring", !.kind = kind]
  <2>1. cmd' = [cmd EXCEPT ![c] = y]
    BY <1>0, <1>3 DEF CommandType
  <2>2. /\ y \in CommandType /\ y.at = "ensuring" /\ y.session = x.session /\ y.kind = kind
        /\ y.host = x.host /\ y.ok = x.ok /\ y.history = x.history
    BY <1>0, <1>3 DEF CommandType
  <2> HIDE DEF y
  <2> QED
    BY <2>1, <2>2, CommandPut
<1>4. ASSUME NEW h \in 0..MaxGeneration,
             cmd' = [cmd EXCEPT ![c].at = "execute", ![c].host = h]
      PROVE  CommandIs(c, "execute", x.session, x.kind, h, x.ok, x.history)
  <2> DEFINE y == [x EXCEPT !.at = "execute", !.host = h]
  <2>1. cmd' = [cmd EXCEPT ![c] = y]
    BY <1>0, <1>4 DEF CommandType
  <2>2. /\ y \in CommandType /\ y.at = "execute" /\ y.session = x.session /\ y.kind = x.kind
        /\ y.host = h /\ y.ok = x.ok /\ y.history = x.history
    BY <1>0, <1>4 DEF CommandType
  <2> HIDE DEF y
  <2> QED
    BY <2>1, <2>2, CommandPut
<1>5. ASSUME NEW ok \in BOOLEAN, NEW history \in SUBSET Actors,
             cmd' = [cmd EXCEPT ![c].at = "put back", ![c].ok = ok, ![c].history = history]
      PROVE  CommandIs(c, "put back", x.session, x.kind, x.host, ok, history)
  <2> DEFINE y == [x EXCEPT !.at = "put back", !.ok = ok, !.history = history]
  <2>1. cmd' = [cmd EXCEPT ![c] = y]
    BY <1>0, <1>5 DEF CommandType
  <2>2. /\ y \in CommandType /\ y.at = "put back" /\ y.session = x.session /\ y.kind = x.kind
        /\ y.host = x.host /\ y.ok = ok /\ y.history = history
    BY <1>0, <1>5 DEF CommandType
  <2> HIDE DEF y
  <2> QED
    BY <2>1, <2>2, CommandPut
<1>6. ASSUME cmd' = [cmd EXCEPT ![c].at = "put back", ![c].ok = TRUE]
      PROVE  CommandIs(c, "put back", x.session, x.kind, x.host, TRUE, x.history)
  <2> DEFINE y == [x EXCEPT !.at = "put back", !.ok = TRUE]
  <2>1. cmd' = [cmd EXCEPT ![c] = y]
    BY <1>0, <1>6 DEF CommandType
  <2>2. /\ y \in CommandType /\ y.at = "put back" /\ y.session = x.session /\ y.kind = x.kind
        /\ y.host = x.host /\ y.ok = TRUE /\ y.history = x.history
    BY <1>0, <1>6 DEF CommandType
  <2> HIDE DEF y
  <2> QED
    BY <2>1, <2>2, CommandPut
<1>7. ASSUME NEW s \in Sessions \union {Nobody}, NEW rid \in Nat, NEW history \in SUBSET Actors,
             NEW d \in {"Deny", "AllowOnce", "AllowSessionPath"},
             cmd' = [cmd EXCEPT ![c] = [IdleCommand EXCEPT !.at = "take", !.session = s, !.rid = rid,
                          !.decision = d, !.history = history]]
      PROVE  CommandIs(c, "take", s, "approve", NoHost, FALSE, history)
  <2> DEFINE y == [IdleCommand EXCEPT !.at = "take", !.session = s, !.rid = rid, !.decision = d,
                       !.history = history]
  <2>1. cmd' = [cmd EXCEPT ![c] = y]
    BY <1>0, <1>7 DEF CommandType
  <2>2. /\ y \in CommandType /\ y.at = "take" /\ y.session = s /\ y.kind = "approve"
        /\ y.host = NoHost /\ y.ok = FALSE /\ y.history = history
    BY <1>0, <1>7 DEF CommandType, Ended, IdleCommand, NoHost
  <2> HIDE DEF y
  <2> QED
    BY <2>1, <2>2, CommandPut
<1> QED
  BY <1>1, <1>2, <1>3, <1>4, <1>5, <1>6, <1>7

\* Workers.
LEMMA WorkerEffects ==
  ASSUME Types, NEW a \in Actors
  PROVE  /\ \A at \in {"call", "initialize", "inspect", "initialized", "rebuild", "broken", "construct", "none"} :
              ensure' = [ensure EXCEPT ![a].at = at] => WorkerMoves(a, at)
         /\ \A at \in {"inspect", "initialized"}, ws \in Workspaces :
              /\ ensure' = [ensure EXCEPT ![a].ws = ws, ![a].at = at] => WorkerMoves(a, at)
              /\ ensure' = [ensure EXCEPT ![a].at = at, ![a].ws = ws] => WorkerMoves(a, at)
         /\ \A epoch \in BOOLEAN :
              ensure' = [ensure EXCEPT ![a].at = "joined", ![a].joined = epoch]
              => WorkerIs(a, "joined", epoch, ensure[a].mine)
         /\ ensure' = [ensure EXCEPT ![a] = IdleWorker] => WorkerIs(a, "none", FALSE, TRUE)
         /\ \A ok \in BOOLEAN :
              ensure' = Ensured(a, ok)
              => \E at \in {"none", "ok", "failed"} : WorkerIs(a, at, FALSE, TRUE)
         /\ \A ok \in BOOLEAN, mine \in BOOLEAN :
              ensure' = [Ensured(a, ok) EXCEPT ![a].mine = mine]
              => \E at \in {"none", "ok", "failed"} : WorkerIs(a, at, FALSE, mine)
<1> DEFINE x == ensure[a]
<1>0. x \in WorkerType /\ ensure \in [Actors -> WorkerType] /\ Home \in Workspaces
  BY DesktopAssumption DEF Types
<1>1. ASSUME NEW at \in {"call", "initialize", "inspect", "initialized", "rebuild", "broken", "construct", "none"},
             ensure' = [ensure EXCEPT ![a].at = at]
      PROVE  WorkerMoves(a, at)
  <2> DEFINE y == [x EXCEPT !.at = at]
  <2>1. ensure' = [ensure EXCEPT ![a] = y]
    BY <1>0, <1>1 DEF WorkerType
  <2>2. /\ y \in WorkerType /\ y.at = at /\ y.joined = x.joined /\ y.mine = x.mine
    BY <1>0, <1>1 DEF WorkerType
  <2> HIDE DEF y
  <2> QED
    BY <2>1, <2>2, WorkerPut DEF WorkerMoves
<1>2. ASSUME NEW at \in {"inspect", "initialized"}, NEW ws \in Workspaces,
             ensure' = [ensure EXCEPT ![a].ws = ws, ![a].at = at]
      PROVE  WorkerMoves(a, at)
  <2> DEFINE y == [x EXCEPT !.ws = ws, !.at = at]
  <2>1. ensure' = [ensure EXCEPT ![a] = y]
    BY <1>0, <1>2 DEF WorkerType
  <2>2. /\ y \in WorkerType /\ y.at = at /\ y.joined = x.joined /\ y.mine = x.mine
    BY <1>0, <1>2 DEF WorkerType
  <2> HIDE DEF y
  <2> QED
    BY <2>1, <2>2, WorkerPut DEF WorkerMoves
<1>3. ASSUME NEW at \in {"inspect", "initialized"}, NEW ws \in Workspaces,
             ensure' = [ensure EXCEPT ![a].at = at, ![a].ws = ws]
      PROVE  WorkerMoves(a, at)
  <2> DEFINE y == [x EXCEPT !.at = at, !.ws = ws]
  <2>1. ensure' = [ensure EXCEPT ![a] = y]
    BY <1>0, <1>3 DEF WorkerType
  <2>2. /\ y \in WorkerType /\ y.at = at /\ y.joined = x.joined /\ y.mine = x.mine
    BY <1>0, <1>3 DEF WorkerType
  <2> HIDE DEF y
  <2> QED
    BY <2>1, <2>2, WorkerPut DEF WorkerMoves
<1>4. ASSUME NEW epoch \in BOOLEAN, ensure' = [ensure EXCEPT ![a].at = "joined", ![a].joined = epoch]
      PROVE  WorkerIs(a, "joined", epoch, x.mine)
  <2> DEFINE y == [x EXCEPT !.at = "joined", !.joined = epoch]
  <2>1. ensure' = [ensure EXCEPT ![a] = y]
    BY <1>0, <1>4 DEF WorkerType
  <2>2. /\ y \in WorkerType /\ y.at = "joined" /\ y.joined = epoch /\ y.mine = x.mine
    BY <1>0, <1>4 DEF WorkerType
  <2> HIDE DEF y
  <2> QED
    BY <2>1, <2>2, WorkerPut DEF WorkerMoves
<1>5. ASSUME ensure' = [ensure EXCEPT ![a] = IdleWorker]
      PROVE  WorkerIs(a, "none", FALSE, TRUE)
  <2> DEFINE y == IdleWorker
  <2>1. ensure' = [ensure EXCEPT ![a] = y]
    BY <1>0, <1>5 DEF WorkerType
  <2>2. /\ y \in WorkerType /\ y.at = "none" /\ y.joined = FALSE /\ y.mine = TRUE
    BY <1>0, <1>5 DEF WorkerType, IdleWorker
  <2> HIDE DEF y
  <2> QED
    BY <2>1, <2>2, WorkerPut DEF WorkerMoves
<1>6. ASSUME NEW ok \in BOOLEAN
      PROVE  \E y \in WorkerType, at \in {"none", "ok", "failed"} :
               /\ Ensured(a, ok) = [ensure EXCEPT ![a] = y]
               /\ y.at = at /\ y.joined = FALSE /\ y.mine = TRUE
  <2> DEFINE end == IF ok THEN "ok" ELSE "failed"
             y == [IdleWorker EXCEPT !.at = end]
  <2>1. /\ IdleWorker \in WorkerType /\ IdleWorker.at = "none" /\ IdleWorker.joined = FALSE
        /\ IdleWorker.mine = TRUE
    BY <1>0 DEF IdleWorker, WorkerType
  <2>2. /\ y \in WorkerType /\ y.at = end /\ end \in {"ok", "failed"} /\ y.joined = FALSE
        /\ y.mine = TRUE
    BY <1>0 DEF IdleWorker, WorkerType
  <2>3. Ensured(a, ok) = [ensure EXCEPT ![a] = IdleWorker] \/ Ensured(a, ok) = [ensure EXCEPT ![a] = y]
    BY DEF Ensured
  <2> HIDE DEF y, end
  <2> QED
    BY <2>1, <2>2, <2>3
<1>7. ASSUME NEW ok \in BOOLEAN, ensure' = Ensured(a, ok)
      PROVE  \E at \in {"none", "ok", "failed"} : WorkerIs(a, at, FALSE, TRUE)
  BY <1>6, <1>7, WorkerPut
<1>8. ASSUME NEW ok \in BOOLEAN, NEW mine \in BOOLEAN,
             ensure' = [Ensured(a, ok) EXCEPT ![a].mine = mine]
      PROVE  \E at \in {"none", "ok", "failed"} : WorkerIs(a, at, FALSE, mine)
  <2>1. PICK y \in WorkerType, at \in {"none", "ok", "failed"} :
          /\ Ensured(a, ok) = [ensure EXCEPT ![a] = y]
          /\ y.at = at /\ y.joined = FALSE
    BY <1>6
  <2> DEFINE z == [y EXCEPT !.mine = mine]
  <2>2. ensure' = [ensure EXCEPT ![a] = z]
    BY <1>0, <1>8, <2>1 DEF WorkerType
  <2>3. z \in WorkerType /\ z.at = at /\ z.joined = FALSE /\ z.mine = mine
    BY <2>1 DEF WorkerType
  <2> HIDE DEF z
  <2> QED
    BY <2>2, <2>3, WorkerPut
<1> QED
  BY <1>1, <1>2, <1>3, <1>4, <1>5, <1>7, <1>8

-----------------------------------------------------------------------------
(* The steps, by what they move.                                           *)

\* A worker's call of ensure_host: it joins, sleeps, leaves, starts the flight,
\* works in it, or ends it.
Joins(a) ==
  /\ Calling(a) /\ WorkerIs(a, "joined", flight.epoch, ensure[a].mine) /\ asleep' = {a}
  /\ flight' \in FlightType /\ flight'.waiters = flight.waiters + 1 /\ flight'.epoch = flight.epoch
  /\ UNCHANGED hostVars

Sleeps(a) ==
  /\ ensure[a].at \in {"call", "joined"} /\ asleep' = asleep \union {a}
  /\ UNCHANGED <<hostVars, flight, ensure>>

Leaves(a) ==
  /\ ensure[a].at = "joined" /\ a \notin asleep /\ asleep' \subseteq asleep
  /\ \E at \in {"none", "ok", "failed"} : WorkerIs(a, at, FALSE, ensure[a].joined = flight.epoch)
  /\ flight' \in [running : BOOLEAN, waiters : Int, epoch : BOOLEAN, lastResult : BOOLEAN]
  /\ flight'.waiters = flight.waiters - 1 /\ flight'.epoch = flight.epoch
  /\ UNCHANGED hostVars

Starts(a) ==
  /\ Calling(a) /\ flight.waiters = 0 /\ WorkerMoves(a, "initialize")
  /\ flight' \in FlightType /\ flight'.waiters = 0
  /\ UNCHANGED <<hostVars, asleep>>

Published(a) ==
  /\ generation < MaxGeneration /\ generation' = generation + 1 /\ slot' = generation + 1
  /\ \E ws \in Workspaces :
       /\ hosts' = [hosts EXCEPT ![generation + 1] = HostRecord(ws)]
       /\ warming' = warming \union {[expected |-> generation + 1, ws |-> ws]}
  /\ UNCHANGED workspace

Works(a) ==
  /\ ensure[a].at \in {"initialize", "inspect", "rebuild"}
  /\ \E at \in {"inspect", "initialized", "rebuild", "broken"} : WorkerMoves(a, at)
  /\ UNCHANGED hostVars \/ Published(a)
  /\ UNCHANGED <<flight, asleep>>

Ends(a) ==
  /\ ensure[a].at \in {"initialized", "broken"} /\ asleep' = {}
  /\ \E at \in {"none", "ok", "failed"} : WorkerIs(a, at, FALSE, TRUE)
  /\ flight' \in FlightType /\ flight'.waiters = flight.waiters /\ flight'.epoch = flight.epoch
  /\ UNCHANGED hostVars

\* These are all the steps of a call, and they leave turns and commands alone.
LEMMA FlightMoves ==
  ASSUME Types, NEW a \in Actors, Flight(a)
  PROVE  /\ UNCHANGED <<sessionVars, histories, turn, cmd, gateVars, disturbed>>
         /\ Joins(a) \/ Sleeps(a) \/ Leaves(a) \/ Starts(a) \/ Works(a) \/ Ends(a)
<1>0. /\ flight \in FlightType /\ ensure[a] \in WorkerType /\ Home \in Workspaces
      /\ workspace \in Workspaces
  BY DesktopAssumption DEF Types
<1>a. flight.epoch \in BOOLEAN /\ flight.lastResult \in BOOLEAN /\ ensure[a].ws \in Workspaces
  BY <1>0 DEF FlightType, WorkerType
<1>1. CASE JoinFlight(a)
  <2>1. /\ flight' \in FlightType /\ flight'.waiters = flight.waiters + 1
        /\ flight'.epoch = flight.epoch
    BY <1>0, <1>1 DEF JoinFlight, FlightType
  <2>2. WorkerIs(a, "joined", flight.epoch, ensure[a].mine)
    BY <1>a, <1>1, WorkerEffects DEF JoinFlight
  <2> QED
    BY <1>1, <2>1, <2>2 DEF JoinFlight, Joins
<1>2. CASE SleepAgain(a) \/ WaitForJoiners(a)
  BY <1>2 DEF SleepAgain, WaitForJoiners, Calling, Sleeps
<1>3. CASE LeaveFlight(a)
  <2>1. /\ flight' \in [running : BOOLEAN, waiters : Int, epoch : BOOLEAN, lastResult : BOOLEAN]
        /\ flight'.waiters = flight.waiters - 1 /\ flight'.epoch = flight.epoch
    BY <1>0, <1>3 DEF LeaveFlight, FlightType
  <2>2. \E at \in {"none", "ok", "failed"} : WorkerIs(a, at, FALSE, ensure[a].joined = flight.epoch)
    <3>1. (ensure[a].joined = flight.epoch) \in BOOLEAN
      OBVIOUS
    <3>2. ensure' = [Ensured(a, flight.lastResult) EXCEPT ![a].mine = (ensure[a].joined = flight.epoch)]
      BY <1>3 DEF LeaveFlight
    <3> QED
      BY <1>a, <3>1, <3>2, WorkerEffects
  <2>3. asleep' \subseteq asleep
    BY <1>3 DEF LeaveFlight, WokenByLastJoiner
  <2> QED
    BY <1>3, <2>1, <2>2, <2>3 DEF LeaveFlight, Leaves
<1>4. CASE StartFlight(a)
  <2>1. flight' \in FlightType /\ flight'.waiters = 0
    BY <1>0, <1>4 DEF StartFlight, FlightType, JoinersLeft
  <2>2. WorkerMoves(a, "initialize")
    BY <1>4, WorkerEffects DEF StartFlight
  <2> QED
    BY <1>4, <2>1, <2>2 DEF StartFlight, Starts, JoinersLeft
<1>5. CASE ReadConfig(a) \/ InspectHost(a) \/ RebuildFails(a)
  <2>1. \E at \in {"inspect", "initialized", "rebuild", "broken"} : WorkerMoves(a, at)
    <3>1. CASE ReadConfig(a)
      BY <1>0, <3>1, WorkerEffects DEF ReadConfig
    <3>2. CASE InspectHost(a)
      <4> DEFINE to == IF slot /= NoHost /\ hosts[slot].ws = ensure[a].ws THEN "initialized" ELSE "rebuild"
      <4>1. to \in {"initialized", "rebuild"} /\ ensure' = [ensure EXCEPT ![a].at = to]
        BY <3>2 DEF InspectHost
      <4> HIDE DEF to
      <4> QED
        BY <4>1, WorkerEffects
    <3>3. CASE RebuildFails(a)
      BY <3>3, WorkerEffects DEF RebuildFails
    <3> QED
      BY <1>5, <3>1, <3>2, <3>3
  <2> QED
    BY <1>5, <2>1 DEF ReadConfig, InspectHost, RebuildFails, Works
<1>6. CASE PublishHost(a)
  <2>1. WorkerMoves(a, "initialized")
    BY <1>0, <1>6, WorkerEffects DEF PublishHost
  <2>2. Published(a)
    BY <1>a, <1>6, Zenon DEF PublishHost, Published
  <2> QED
    BY <1>6, <2>1, <2>2 DEF PublishHost, Works
<1>7. CASE EndFlight(a)
  <2>1. flight' \in FlightType /\ flight'.waiters = flight.waiters /\ flight'.epoch = flight.epoch
    BY <1>0, <1>7 DEF EndFlight, FlightType
  <2>2. \E at \in {"none", "ok", "failed"} : WorkerIs(a, at, FALSE, TRUE)
    <3>1. (ensure[a].at = "initialized") \in BOOLEAN
      OBVIOUS
    <3> QED
      BY <1>7, <3>1, WorkerEffects DEF EndFlight
  <2> QED
    BY <1>7, <2>1, <2>2 DEF EndFlight, Ends
<1> QED
  BY <1>1, <1>2, <1>3, <1>4, <1>5, <1>6, <1>7 DEF Flight

\* A turn is admitted or refused, starts its worker, returns, borrows the shared host
\* or gets one of its own, copies the history, runs, gives its host back, writes the
\* history and finishes.
Rest == <<generation, hosts, workspace, warming, flight, asleep, sessionVars, histories, cmd,
          gateVars, disturbed>>

TurnKeeps(t, at, host, borrowed, history) ==
  TurnIs(t, at, turn[t].session, turn[t].kind, host, borrowed, history, turn[t].saved)

\* Its worker is left alone, or has come to its end.
WorkerRests(t) ==
  \/ UNCHANGED ensure
  \/ /\ ensure[t].at \in {"ok", "construct"} /\ t \notin Joined
     /\ \E joined \in BOOLEAN, mine \in {TRUE, ensure[t].mine} : WorkerIs(t, "none", joined, mine)

TurnStarts(t) ==
  /\ turn[t].at = "admitted" /\ TurnMoves(t, "waiting")
  /\ \E at \in {"call", "construct"} :
       WorkerMoves(t, at) /\ (at = "construct" => turn[t].kind /= "ordinary")
  /\ UNCHANGED <<slot, Rest>>

TurnGivesUp(t) ==
  /\ turn[t].at \in {"admitted", "waiting", "constructed", "settle"} /\ TurnReturns(t, FALSE)
  /\ WorkerRests(t) /\ UNCHANGED <<slot, Rest>>

TurnBorrows(t) ==
  /\ turn[t].at = "waiting" /\ slot /= NoHost /\ slot' = NoHost
  /\ \E at \in {"clone", "constructed"} : TurnKeeps(t, at, slot, generation, turn[t].history)
  /\ WorkerRests(t) /\ UNCHANGED Rest

WorkerConstructs(t) ==
  /\ slot' \in {slot, NoHost}
  /\ \/ UNCHANGED turn
     \/ /\ turn[t].at = "waiting" /\ turn[t].kind /= "ordinary"
        /\ slot' = slot /\ TurnMoves(t, "constructed")
  /\ WorkerRests(t) /\ UNCHANGED Rest

TurnCopies(t) ==
  /\ turn[t].at \in {"clone", "constructed"}
  /\ TurnKeeps(t, "running", turn[t].host, turn[t].borrowed, histories[turn[t].session])
  /\ MarkOverlap(t, turn[t].session)
  /\ UNCHANGED <<hostVars, flightVars, sessionVars, histories, cmd, gateVars>>

TurnRuns(t) ==
  /\ turn[t].at = "running"
  /\ TurnKeeps(t, "settle", turn[t].host, turn[t].borrowed, turn[t].history \union {t})
  /\ \/ UNCHANGED <<hosts, asked>>
     \/ turn[t].host \in HostIds /\ PermStep(turn[t].host, turn[t].session)
  /\ UNCHANGED <<slot, generation, workspace, warming, flightVars, sessionVars, histories, cmd,
                 runs, disturbed>>

TurnRestores(t) ==
  /\ slot' = Restored(t)
  /\ \/ turn[t].at = "running" /\ TurnReturns(t, FALSE)
     \/ turn[t].at = "settle" /\ TurnKeeps(t, "insert", NoHost, 0, turn[t].history)
  /\ UNCHANGED <<ensure, Rest>>

TurnSaves(t) ==
  /\ turn[t].at = "insert" /\ TurnReturns(t, TRUE)
  /\ histories' = [histories EXCEPT ![turn[t].session] = turn[t].history]
  /\ UNCHANGED <<hostVars, flightVars, sessionVars, cmd, gateVars, disturbed>>

TurnFinishes(t) ==
  /\ turn[t].at = "finishing" /\ TurnMoves(t, "done")
  /\ \/ /\ owners[turn[t].session] = t
        /\ owners' = [owners EXCEPT ![turn[t].session] = Nobody]
        /\ cancels' = [cancels EXCEPT ![turn[t].session] = Nobody]
     \/ owners[turn[t].session] /= t /\ UNCHANGED <<owners, cancels>>
  /\ UNCHANGED <<hostVars, flightVars, histories, cmd, gateVars, disturbed>>

TurnEnters(t) ==
  /\ turn[t].at = "idle"
  /\ \/ \E s \in Sessions, kind \in {"ordinary", "linked"} :
          /\ owners[s] = Nobody
          /\ TurnIs(t, "admitted", s, kind, turn[t].host, turn[t].borrowed, turn[t].history,
                    turn[t].saved)
          /\ owners' = [owners EXCEPT ![s] = t] /\ cancels' = [cancels EXCEPT ![s] = t]
     \/ TurnMoves(t, "done") /\ UNCHANGED <<owners, cancels>>
  /\ UNCHANGED <<hostVars, flightVars, histories, cmd, gateVars, disturbed>>

\* These are all the steps of an admitted turn.
LEMMA TurnMovesOn ==
  ASSUME Types, HostsKnown, SessionInv, NEW t \in Turns, TurnStep(t)
  PROVE  \/ TurnStarts(t) \/ TurnGivesUp(t) \/ TurnBorrows(t) \/ WorkerConstructs(t)
         \/ TurnCopies(t) \/ TurnRuns(t) \/ TurnRestores(t) \/ TurnSaves(t) \/ TurnFinishes(t)
<1> USE DEF Rest, hostVars, flightVars, sessionVars, gateVars
<1>0. /\ turn[t] \in TurnType /\ ensure[t] \in WorkerType /\ t \in Actors
      /\ slot \in 0..MaxGeneration /\ generation \in 0..MaxGeneration
  BY DEF Types, Actors
<1>a. /\ turn[t].history \in SUBSET Actors /\ ensure[t].joined \in BOOLEAN
      /\ turn[t].at \in {"clone", "constructed"} => histories[turn[t].session] \in SUBSET Actors
  BY <1>0 DEF TurnType, WorkerType, SessionInv, Owned, Active, Types
<1>b. ASSUME ensure[t].at \in {"ok", "construct"},
             \/ ensure' = [ensure EXCEPT ![t] = IdleWorker]
             \/ ensure' = [ensure EXCEPT ![t].at = "none"]
      PROVE  WorkerRests(t)
  <2>1. WorkerIs(t, "none", FALSE, TRUE) \/ WorkerMoves(t, "none")
    BY <1>0, <1>b, WorkerEffects
  <2>2. t \notin Joined
    BY <1>b DEF Joined
  <2> QED
    BY <1>a, <1>b, <2>1, <2>2 DEF WorkerRests, WorkerMoves
<1>1. CASE StartWorker(t)
  <2>1. TurnMoves(t, "waiting")
    BY <1>1, TurnEffects DEF StartWorker
  <2>2. \E at \in {"call", "construct"} :
          WorkerMoves(t, at) /\ (at = "construct" => turn[t].kind /= "ordinary")
    BY <1>0, <1>1, WorkerEffects DEF StartWorker
  <2> QED
    BY <1>1, <2>1, <2>2 DEF StartWorker, TurnStarts
<1>2. CASE EndEarly(t) \/ StopWaiting(t) \/ PersistFails(t)
  <2>1. TurnReturns(t, FALSE)
    BY <1>2, TurnEffects DEF EndEarly, StopWaiting, PersistFails
  <2> QED
    BY <1>2, <2>1 DEF EndEarly, StopWaiting, PersistFails, TurnGivesUp, WorkerRests
<1>3. CASE TakeHost(t)
  <2>1. WorkerRests(t)
    BY <1>3, <1>b DEF TakeHost
  <2>2. CASE slot = NoHost
    <3>1. TurnReturns(t, FALSE)
      BY <1>3, <2>2, TurnEffects DEF TakeHost
    <3> QED
      BY <1>3, <2>1, <2>2, <3>1 DEF TakeHost, TurnGivesUp
  <2>3. CASE slot /= NoHost
    <3>1. TurnKeeps(t, "clone", slot, generation, turn[t].history)
      BY <1>0, <1>3, <2>3, TurnEffects DEF TakeHost, TurnKeeps
    <3> QED
      BY <1>3, <2>1, <2>3, <3>1 DEF TakeHost, TurnBorrows
  <2> QED
    BY <2>2, <2>3
<1>4. CASE LinkedRefused(t)
  <2>1. WorkerRests(t)
    BY <1>4, <1>b DEF LinkedRefused
  <2>2. TurnReturns(t, FALSE)
    BY <1>4, TurnEffects DEF LinkedRefused
  <2> QED
    BY <1>4, <2>1, <2>2 DEF LinkedRefused, TurnGivesUp
<1>5. CASE ConstructLinkedHost(t)
  <2>1. WorkerRests(t)
    BY <1>5, <1>b DEF ConstructLinkedHost
  <2>2. /\ UNCHANGED Rest
        /\ \/ UNCHANGED turn /\ slot' \in {slot, NoHost}
           \/ /\ turn[t].at = "waiting" /\ slot /= NoHost /\ slot' = NoHost
              /\ turn' = [turn EXCEPT ![t].at = "constructed", ![t].host = slot,
                                      ![t].borrowed = generation]
           \/ turn[t].at = "waiting" /\ slot' = slot /\ turn' = [turn EXCEPT ![t] = Returning(t)]
           \/ /\ turn[t].at = "waiting" /\ slot' = slot
              /\ turn' = [turn EXCEPT ![t] = [turn[t] EXCEPT !.at = "constructed"]]
    BY <1>5, Zenon DEF ConstructLinkedHost
  <2>3. CASE UNCHANGED turn /\ slot' \in {slot, NoHost}
    BY <2>1, <2>2, <2>3 DEF WorkerConstructs
  <2>4. CASE /\ turn[t].at = "waiting" /\ slot /= NoHost /\ slot' = NoHost
             /\ turn' = [turn EXCEPT ![t].at = "constructed", ![t].host = slot,
                                     ![t].borrowed = generation]
    <3>1. TurnKeeps(t, "constructed", slot, generation, turn[t].history)
      BY <1>0, <2>4, TurnEffects DEF TurnKeeps
    <3> QED
      BY <2>1, <2>2, <2>4, <3>1 DEF TurnBorrows
  <2>5. CASE turn[t].at = "waiting" /\ slot' = slot /\ turn' = [turn EXCEPT ![t] = Returning(t)]
    <3>1. TurnReturns(t, FALSE)
      BY <2>5, TurnEffects
    <3> QED
      BY <2>1, <2>2, <2>5, <3>1 DEF TurnGivesUp
  <2>6. CASE /\ turn[t].at = "waiting" /\ slot' = slot
             /\ turn' = [turn EXCEPT ![t] = [turn[t] EXCEPT !.at = "constructed"]]
    <3>1. TurnMoves(t, "constructed")
      BY <2>6, TurnEffects
    <3>2. turn[t].kind /= "ordinary"
      BY <1>5, <2>6 DEF ConstructLinkedHost, SessionInv, LinkedWorkers
    <3> QED
      BY <2>1, <2>2, <2>6, <3>1, <3>2 DEF WorkerConstructs
  <2> QED
    BY <2>2, <2>3, <2>4, <2>5, <2>6
<1>6. CASE CloneHistory(t)
  <2>1. TurnKeeps(t, "running", turn[t].host, turn[t].borrowed, histories[turn[t].session])
    BY <1>a, <1>6, TurnEffects DEF CloneHistory, StoredHistory, TurnKeeps
  <2> QED
    BY <1>6, <2>1 DEF CloneHistory, TurnCopies
<1>7. CASE EndRun(t) \/ \E call \in Calls : RaisePrompt(t, call)
  <2>1. TurnKeeps(t, "settle", turn[t].host, turn[t].borrowed, turn[t].history \union {t})
    <3>1. /\ turn' = [turn EXCEPT ![t].at = "settle", ![t].history = turn[t].history \union {t}]
          /\ turn[t].history \union {t} \in SUBSET Actors
      BY <1>0, <1>a, <1>7 DEF EndRun, RaisePrompt, TurnType, Types
    <3> QED
      BY <3>1, TurnEffects DEF TurnKeeps
  <2>2. \/ UNCHANGED <<hosts, asked>>
        \/ turn[t].host \in HostIds /\ PermStep(turn[t].host, turn[t].session)
    BY <1>7, PromptEffect DEF EndRun
  <2>3. /\ turn[t].at = "running"
        /\ UNCHANGED <<slot, generation, workspace, warming, flightVars, sessionVars, histories,
                       cmd, runs, disturbed>>
    BY <1>7 DEF EndRun, RaisePrompt
  <2> QED
    BY <2>1, <2>2, <2>3 DEF TurnRuns
<1>8. CASE PreflightFails(t)
  <2>1. TurnReturns(t, FALSE)
    BY <1>8, TurnEffects DEF PreflightFails
  <2> QED
    BY <1>8, <2>1 DEF PreflightFails, TurnRestores
<1>9. CASE RestoreHost(t)
  <2>1. TurnKeeps(t, "insert", NoHost, 0, turn[t].history)
    BY <1>9, TurnEffects DEF RestoreHost, TurnKeeps
  <2> QED
    BY <1>9, <2>1 DEF RestoreHost, TurnRestores
<1>10. CASE InsertHistory(t)
  <2>1. TurnReturns(t, TRUE)
    BY <1>10, TurnEffects DEF InsertHistory
  <2> QED
    BY <1>10, <2>1 DEF InsertHistory, TurnSaves
<1>11. CASE FinishTurn(t)
  <2>1. TurnMoves(t, "done")
    BY <1>11, TurnEffects DEF FinishTurn
  <2> QED
    BY <1>11, <2>1 DEF FinishTurn, TurnFinishes
<1> QED
  BY <1>1, <1>2, <1>3, <1>4, <1>5, <1>6, <1>7, <1>8, <1>9, <1>10, <1>11 DEF TurnStep

\* And this is its admission.
LEMMA TurnIsAdmitted ==
  ASSUME Types, NEW t \in Turns, NEW s \in Sessions, NEW kind \in {"ordinary", "linked"},
         Admit(t, s, kind)
  PROVE  TurnEnters(t)
<1>1. CASE Admissible(s)
  <2>1. TurnIs(t, "admitted", s, kind, turn[t].host, turn[t].borrowed, turn[t].history,
               turn[t].saved)
    BY <1>1, TurnEffects DEF Admit
  <2> QED
    BY <1>1, <2>1 DEF Admit, Admissible, TurnEnters
<1>2. CASE ~Admissible(s)
  <2>1. TurnMoves(t, "done")
    BY <1>2, TurnEffects DEF Admit
  <2> QED
    BY <1>2, <2>1 DEF Admit, TurnEnters
<1> QED
  BY <1>1, <1>2

\* A command starts by answering a prompt or by calling ensure_host; it returns, borrows
\* the host, executes on it, puts it back and writes the history.
CommandRest == <<generation, hosts, workspace, warming, flight, asleep, sessionVars, histories, turn,
                 gateVars, disturbed>>

CommandKeeps(c, at, host, ok, history) ==
  CommandIs(c, at, cmd[c].session, cmd[c].kind, host, ok, history)

CommandMoves(c, at) == CommandKeeps(c, at, cmd[c].host, cmd[c].ok, cmd[c].history)

CommandAnswers(c) ==
  /\ cmd[c].at = "idle"
  /\ \E s \in Sessions \union {Nobody} :
       /\ CommandIs(c, "take", s, "approve", NoHost, FALSE, IF s = Nobody THEN {} ELSE histories[s])
       /\ IF s = Nobody THEN UNCHANGED disturbed ELSE MarkOverlap(c, s)
  /\ UNCHANGED <<hostVars, flightVars, sessionVars, histories, turn, gateVars>>

CommandCalls(c) ==
  /\ cmd[c].at = "idle" /\ workspace' \in Workspaces
  /\ \/ /\ \E kind \in {"skill", "roots"} :
             CommandIs(c, "ensuring", cmd[c].session, kind, cmd[c].host, cmd[c].ok, cmd[c].history)
        /\ WorkerMoves(c, "call")
     \/ CommandEnds(c) /\ UNCHANGED ensure
  /\ UNCHANGED <<slot, generation, hosts, warming, flight, asleep, sessionVars, histories, turn,
                 gateVars, disturbed>>

CommandGoesOn(c) ==
  /\ cmd[c].at = "ensuring" /\ ensure[c].at \in {"ok", "failed"}
  /\ WorkerIs(c, "none", FALSE, TRUE)
  /\ CommandMoves(c, "take") \/ CommandEnds(c)
  /\ UNCHANGED <<slot, CommandRest>>

CommandBorrows(c) ==
  /\ cmd[c].at = "take" /\ slot' = NoHost
  /\ \/ slot = NoHost /\ CommandEnds(c)
     \/ slot /= NoHost /\ CommandKeeps(c, "execute", slot, cmd[c].ok, cmd[c].history)
  /\ UNCHANGED <<ensure, CommandRest>>

CommandExecutes(c) ==
  /\ cmd[c].at = "execute" /\ cmd[c].host \in HostIds
  /\ \/ /\ cmd[c].kind = "approve"
        /\ \E ok \in BOOLEAN :
             CommandKeeps(c, "put back", cmd[c].host, ok,
                          IF ok THEN cmd[c].history \union {c} ELSE cmd[c].history)
        /\ UNCHANGED <<hosts, asked, runs>> \/ Completed(cmd[c].host, c)
     \/ /\ cmd[c].kind = "skill"
        /\ CommandKeeps(c, "put back", cmd[c].host, TRUE, cmd[c].history)
        /\ PermStep(cmd[c].host, Nobody) /\ UNCHANGED runs
  /\ UNCHANGED <<slot, generation, workspace, warming, flightVars, sessionVars, histories, turn,
                 disturbed>>

CommandPutsBack(c) ==
  /\ cmd[c].at = "put back" /\ slot' = cmd[c].host
  /\ \/ cmd[c].ok /\ cmd[c].session /= Nobody /\ CommandMoves(c, "insert")
     \/ ~(cmd[c].ok /\ cmd[c].session /= Nobody) /\ CommandEnds(c)
  /\ UNCHANGED <<ensure, CommandRest>>

CommandSaves(c) ==
  /\ cmd[c].at = "insert" /\ CommandEnds(c)
  /\ histories' = [histories EXCEPT ![cmd[c].session] = cmd[c].history]
  /\ UNCHANGED <<hostVars, flightVars, sessionVars, turn, gateVars, disturbed>>

CommandReplaces(c) ==
  /\ cmd[c].at = "idle" /\ CommandEnds(c)
  /\ \E s \in Sessions, messages \in SUBSET Actors :
       /\ histories' = [histories EXCEPT ![s] = messages]
       /\ disturbed' = disturbed \union (histories[s] \ messages)
  /\ UNCHANGED <<hostVars, flightVars, sessionVars, turn, gateVars>>

\* These are all the steps of a command under way.
LEMMA CommandMovesOn ==
  ASSUME Types, HostsKnown, NEW c \in Commands, CommandStep(c)
  PROVE  \/ CommandGoesOn(c) \/ CommandBorrows(c) \/ CommandExecutes(c) \/ CommandPutsBack(c)
         \/ CommandSaves(c)
<1> USE DEF CommandRest, hostVars, flightVars, sessionVars, gateVars
<1>0. /\ cmd[c] \in CommandType /\ ensure[c] \in WorkerType /\ c \in Actors
      /\ slot \in 0..MaxGeneration /\ cmd[c].history \in SUBSET Actors
  BY DEF Types, Actors, CommandType
<1>1. CASE CommandReady(c)
  <2>1. WorkerIs(c, "none", FALSE, TRUE)
    BY <1>0, <1>1, WorkerEffects DEF CommandReady
  <2>2. CommandMoves(c, "take") \/ CommandEnds(c)
    BY <1>1, CommandEffects DEF CommandReady, CommandMoves, CommandKeeps
  <2> QED
    BY <1>1, <2>1, <2>2 DEF CommandReady, CommandGoesOn
<1>2. CASE CommandTakes(c)
  <2>1. \/ slot = NoHost /\ CommandEnds(c)
        \/ slot /= NoHost /\ CommandKeeps(c, "execute", slot, cmd[c].ok, cmd[c].history)
    BY <1>0, <1>2, CommandEffects DEF CommandTakes, CommandKeeps
  <2> QED
    BY <1>2, <2>1 DEF CommandTakes, CommandBorrows
<1>3. CASE GrantAndExecute(c)
  <2>1. PICK ok \in BOOLEAN :
          cmd' = [cmd EXCEPT ![c].at = "put back", ![c].ok = ok,
                             ![c].history = IF ok THEN @ \union {c} ELSE @]
    BY <1>3, CompleteEffect
  <2> DEFINE history == IF ok THEN cmd[c].history \union {c} ELSE cmd[c].history
  <2>2. history \in SUBSET Actors
    BY <1>0
  <2>3. cmd' = [cmd EXCEPT ![c].at = "put back", ![c].ok = ok, ![c].history = history]
    BY <1>0, <2>1 DEF Types, CommandType
  <2>4. CommandKeeps(c, "put back", cmd[c].host, ok, history)
    <3> HIDE DEF history
    <3> QED
      BY <2>2, <2>3, CommandEffects DEF CommandKeeps
  <2>5. /\ cmd[c].host \in HostIds
        /\ UNCHANGED <<hosts, asked, runs>> \/ Completed(cmd[c].host, c)
    BY <1>3, CompleteEffect
  <2>6. /\ cmd[c].at = "execute" /\ cmd[c].kind = "approve"
        /\ UNCHANGED <<slot, generation, workspace, warming, flightVars, sessionVars, histories,
                       turn, disturbed>>
    BY <1>3 DEF GrantAndExecute
  <2> QED
    BY <2>4, <2>5, <2>6 DEF CommandExecutes
<1>4. ASSUME NEW call \in Calls, ExecuteSkill(c, call)
      PROVE  CommandExecutes(c)
  <2>1. cmd[c].host \in HostIds /\ PermStep(cmd[c].host, Nobody)
    BY <1>4, SkillEffect
  <2>2. /\ cmd[c].at = "execute" /\ cmd[c].kind = "skill"
        /\ cmd' = [cmd EXCEPT ![c].at = "put back", ![c].ok = TRUE]
        /\ UNCHANGED <<slot, generation, workspace, warming, flightVars, sessionVars, histories,
                       turn, runs, disturbed>>
    BY <1>4 DEF ExecuteSkill
  <2>3. CommandKeeps(c, "put back", cmd[c].host, TRUE, cmd[c].history)
    BY <2>2, CommandEffects DEF CommandKeeps
  <2> QED
    BY <2>1, <2>2, <2>3 DEF CommandExecutes
<1>5. CASE PutBack(c)
  <2>1. \/ cmd[c].ok /\ cmd[c].session /= Nobody /\ CommandMoves(c, "insert")
        \/ ~(cmd[c].ok /\ cmd[c].session /= Nobody) /\ CommandEnds(c)
    BY <1>5, CommandEffects DEF PutBack, CommandMoves, CommandKeeps
  <2> QED
    BY <1>5, <2>1 DEF PutBack, CommandPutsBack
<1>6. CASE CommandInserts(c)
  <2>1. CommandEnds(c)
    BY <1>6, CommandEffects DEF CommandInserts
  <2> QED
    BY <1>6, <2>1 DEF CommandInserts, CommandSaves
<1> QED
  BY <1>1, <1>2, <1>3, <1>4, <1>5, <1>6 DEF CommandStep

\* These are its beginnings.
LEMMA CommandBegins ==
  ASSUME Types, NEW c \in Commands
  PROVE  /\ \A rid \in DOMAIN asked, d \in {"Deny", "AllowOnce", "AllowSessionPath"} :
              AnswerPrompt(c, rid, d) => CommandAnswers(c)
         /\ ProposeSkill(c) => CommandCalls(c)
         /\ \A roots \in Workspaces : SetWorkspaceRoots(c, roots) => CommandCalls(c)
         /\ \A s \in Sessions, messages \in SUBSET Actors :
              SeedHistory(c, s, messages) \/ ForgetHistory(c, s) => CommandReplaces(c)
<1> USE DEF hostVars, flightVars, sessionVars, gateVars
<1>0. c \in Actors /\ workspace \in Workspaces
  BY DEF Types, Actors
<1>1. ASSUME NEW rid \in DOMAIN asked, NEW d \in {"Deny", "AllowOnce", "AllowSessionPath"},
             AnswerPrompt(c, rid, d)
      PROVE  CommandAnswers(c)
  <2> DEFINE s == asked[rid]
             history == IF s = Nobody THEN {} ELSE histories[s]
  <2>1. s \in Sessions \union {Nobody} /\ rid \in Nat /\ history \in SUBSET Actors
    BY DEF Types
  <2>2. /\ cmd' = [cmd EXCEPT ![c] = [IdleCommand EXCEPT !.at = "take", !.session = s, !.rid = rid,
                                        !.decision = d, !.history = history]]
        /\ IF s = Nobody THEN UNCHANGED disturbed ELSE MarkOverlap(c, s)
        /\ cmd[c].at = "idle"
        /\ UNCHANGED <<hostVars, flightVars, sessionVars, histories, turn, gateVars>>
    BY <1>1, Zenon DEF AnswerPrompt, StoredHistory
  <2>3. CommandIs(c, "take", s, "approve", NoHost, FALSE, history)
    <3> HIDE DEF s, history
    <3> QED
      BY <2>1, <2>2, CommandEffects
  <2> QED
    BY <2>1, <2>2, <2>3 DEF CommandAnswers
<1>2. ASSUME ProposeSkill(c)
      PROVE  CommandCalls(c)
  <2>1. /\ CommandIs(c, "ensuring", cmd[c].session, "skill", cmd[c].host, cmd[c].ok, cmd[c].history)
        /\ WorkerMoves(c, "call")
    BY <1>0, <1>2, CommandEffects, WorkerEffects DEF ProposeSkill
  <2> QED
    BY <1>0, <1>2, <2>1 DEF ProposeSkill, CommandCalls
<1>3. ASSUME NEW roots \in Workspaces, SetWorkspaceRoots(c, roots)
      PROVE  CommandCalls(c)
  <2>1. CASE /\ cmd' = [cmd EXCEPT ![c].at = "ensuring", ![c].kind = "roots"]
             /\ ensure' = [ensure EXCEPT ![c].at = "call"]
    <3>1. /\ CommandIs(c, "ensuring", cmd[c].session, "roots", cmd[c].host, cmd[c].ok, cmd[c].history)
          /\ WorkerMoves(c, "call")
      BY <1>0, <2>1, CommandEffects, WorkerEffects
    <3> QED
      BY <1>3, <3>1 DEF SetWorkspaceRoots, CommandCalls
  <2>2. CASE cmd' = [cmd EXCEPT ![c] = Ended(c)] /\ UNCHANGED ensure
    <3>1. CommandEnds(c)
      BY <2>2, CommandEffects
    <3> QED
      BY <1>3, <2>2, <3>1 DEF SetWorkspaceRoots, CommandCalls
  <2> QED
    BY <1>3, <2>1, <2>2 DEF SetWorkspaceRoots
<1>4. ASSUME NEW s \in Sessions, NEW messages \in SUBSET Actors, ReplaceHistory(c, s, messages)
      PROVE  CommandReplaces(c)
  <2>1. CommandEnds(c)
    BY <1>4, CommandEffects DEF ReplaceHistory
  <2> QED
    BY <1>4, <2>1 DEF ReplaceHistory, CommandReplaces
<1>5. {} \in SUBSET Actors
  OBVIOUS
<1> QED
  BY <1>1, <1>2, <1>3, <1>4, <1>5 DEF SeedHistory, ForgetHistory

\* A warmup ends, with or without its memory on the host in the slot.
WarmupEnds ==
  /\ \E w \in warming :
       /\ warming' = warming \ {w}
       /\ \/ UNCHANGED hosts
          \/ /\ slot /= NoHost /\ generation = w.expected
             /\ hosts' = [hosts EXCEPT ![slot].memory = w.ws]
  /\ UNCHANGED <<slot, generation, workspace, flightVars, sessionVars, histories, turn, cmd,
                 gateVars, disturbed>>

\* Every step of the application is one of these.
LEMMA Moves ==
  ASSUME Types, HostsKnown, SessionInv, Next
  PROVE  \/ \E a \in Actors : Flight(a)
         \/ \E t \in Turns : TurnEnters(t)
         \/ \E t \in Turns : \/ TurnStarts(t) \/ TurnGivesUp(t) \/ TurnBorrows(t)
                             \/ WorkerConstructs(t) \/ TurnCopies(t) \/ TurnRuns(t)
                             \/ TurnRestores(t) \/ TurnSaves(t) \/ TurnFinishes(t)
         \/ \E c \in Commands : \/ CommandAnswers(c) \/ CommandCalls(c) \/ CommandGoesOn(c)
                                \/ CommandBorrows(c) \/ CommandExecutes(c) \/ CommandPutsBack(c)
                                \/ CommandSaves(c) \/ CommandReplaces(c)
         \/ WarmupEnds
<1>1. ASSUME NEW w \in warming, InstallMemory(w) \/ AbandonWarmup(w)
      PROVE  WarmupEnds
  BY <1>1, Zenon DEF InstallMemory, AbandonWarmup, WarmupEnds, WarmupCurrent
<1> QED
  BY <1>1, TurnMovesOn, TurnIsAdmitted, CommandMovesOn, CommandBegins DEF Next

-----------------------------------------------------------------------------
(* Each part of the invariant is kept.                                     *)

\* A caller that joins is counted, one that leaves is uncounted, and a new flight
\* starts only when nobody is counted, so no joiner sees the epoch change.
LEMMA FlightKeepsFlight ==
  ASSUME Types, FlightInv, NEW a \in Actors, Flight(a)
  PROVE  FlightInv' /\ flight' \in FlightType
<1> USE DEF Joined, WorkerMoves, WorkerIs
<1>0. /\ flight \in FlightType /\ ensure \in [Actors -> WorkerType]
      /\ IsFiniteSet(Joined) /\ Cardinality(Joined) \in Nat /\ asleep \subseteq Actors
  BY DesktopAssumption, FS_Subset, FS_CardinalityType DEF Types
<1>1. UNCHANGED <<turn, cmd>>
  BY FlightMoves
<1>2. \A t \in Turns : turn[t].at \in {"idle", "admitted"} => ensure[t].at = "none" /\ t \in Actors
  BY DEF FlightInv, Actors
<1>3. \A c \in Commands : cmd[c].at = "idle" => ensure[c].at = "none" /\ c \in Actors
  BY DEF FlightInv, Actors
<1>4. CASE Joins(a)
  <2>1. Joined' = Joined \union {a} /\ a \notin Joined
    BY <1>4, <1>0 DEF Joins, Calling
  <2>2. Cardinality(Joined') = Cardinality(Joined) + 1
    BY <1>0, <2>1, FS_AddElement
  <2>3. flight'.waiters = Cardinality(Joined') /\ flight' \in FlightType
    BY <1>4, <2>2 DEF Joins, FlightInv
  <2> QED
    BY <1>0, <1>1, <1>2, <1>3, <1>4, <2>3 DEF Joins, Calling, FlightInv
<1>5. CASE Sleeps(a)
  BY <1>0, <1>1, <1>2, <1>3, <1>5 DEF Sleeps, FlightInv
<1>6. CASE Leaves(a)
  <2>1. Joined' = Joined \ {a} /\ a \in Joined
    BY <1>6, <1>0 DEF Leaves
  <2>2. Cardinality(Joined') = Cardinality(Joined) - 1 /\ Cardinality(Joined') \in Nat
    BY <1>0, <2>1, FS_RemoveElement, FS_CardinalityType
  <2>3. flight'.waiters = Cardinality(Joined') /\ flight' \in FlightType
    BY <1>6, <2>2 DEF Leaves, FlightInv, FlightType
  <2>4. ensure[a].joined = flight.epoch /\ flight'.epoch = flight.epoch
    BY <1>6 DEF Leaves, FlightInv
  <2>5. PICK at \in {"none", "ok", "failed"} :
          WorkerIs(a, at, FALSE, ensure[a].joined = flight.epoch)
    BY <1>6 DEF Leaves
  <2>6. ensure'[a].mine /\ ensure'[a].at = at /\ \A b \in Actors : b /= a => ensure'[b] = ensure[b]
    BY <2>4, <2>5
  <2>7. asleep' \subseteq asleep /\ a \notin asleep /\ ensure[a].at = "joined"
    BY <1>6 DEF Leaves
  <2> QED
    BY <1>0, <1>1, <1>2, <1>3, <2>3, <2>4, <2>6, <2>7 DEF FlightInv
<1>7. CASE Starts(a)
  <2>1. Joined = {}
    BY <1>0, <1>7, FS_EmptySet DEF Starts, FlightInv
  <2>2. Joined' = {}
    BY <1>0, <1>7, <2>1 DEF Starts
  <2>3. flight'.waiters = Cardinality(Joined') /\ flight' \in FlightType
    BY <1>7, <2>2, FS_EmptySet DEF Starts
  <2> QED
    BY <1>0, <1>1, <1>2, <1>3, <1>7, <2>2, <2>3 DEF Starts, Calling, FlightInv
<1>8. CASE Works(a)
  <2>1. Joined' = Joined
    BY <1>0, <1>8 DEF Works
  <2> QED
    BY <1>0, <1>1, <1>2, <1>3, <1>8, <2>1 DEF Works, FlightInv
<1>9. CASE Ends(a)
  <2>1. Joined' = Joined
    BY <1>0, <1>9 DEF Ends
  <2>2. flight'.waiters = Cardinality(Joined') /\ flight' \in FlightType
    BY <1>9, <2>1 DEF Ends, FlightInv
  <2> QED
    BY <1>0, <1>1, <1>2, <1>3, <1>9, <2>2 DEF Ends, FlightInv
<1> QED
  BY <1>4, <1>5, <1>6, <1>7, <1>8, <1>9, FlightMoves

\* A turn and a command start the one call they make when they have made none.
LEMMA OthersKeepFlight ==
  ASSUME Types, FlightInv, UNCHANGED <<flight, asleep>>,
         \/ UNCHANGED ensure
         \/ \E a \in Actors :
              /\ ensure[a].at \in {"none", "ok", "failed", "construct"}
              /\ \E at \in {"none", "call", "construct"}, joined \in BOOLEAN :
                   WorkerIs(a, at, joined, TRUE)
              /\ \A t \in Turns : t = a => turn'[t].at \notin {"idle", "admitted"}
              /\ \A c \in Commands : c = a => cmd'[c].at /= "idle",
         \A t \in Turns : turn'[t].at \in {"idle", "admitted"} => turn[t].at \in {"idle", "admitted"},
         \A c \in Commands : cmd'[c].at = "idle" => cmd[c].at = "idle"
  PROVE  FlightInv'
<1>1. ensure \in [Actors -> WorkerType] /\ asleep \subseteq Actors
  BY DEF Types
<1>2. Turns \subseteq Actors /\ Commands \subseteq Actors
  BY DEF Actors
<1>3. CASE UNCHANGED ensure
  <2>1. Joined' = Joined
    BY <1>3 DEF Joined
  <2> QED
    BY <1>3, <2>1 DEF FlightInv
<1>4. ASSUME NEW a \in Actors, ensure[a].at \in {"none", "ok", "failed", "construct"},
             NEW at \in {"none", "call", "construct"}, NEW joined \in BOOLEAN,
             WorkerIs(a, at, joined, TRUE),
             \A t \in Turns : t = a => turn'[t].at \notin {"idle", "admitted"},
             \A c \in Commands : c = a => cmd'[c].at /= "idle"
      PROVE  FlightInv'
  <2>1. Joined' = Joined
    BY <1>1, <1>4 DEF Joined, WorkerIs
  <2>2. a \notin asleep
    BY <1>4 DEF FlightInv
  <2> QED
    BY <1>1, <1>2, <1>4, <2>1, <2>2 DEF FlightInv, WorkerIs
<1> QED
  BY <1>3, <1>4

\* The flight part over all steps.
LEMMA FlightStep ==
  ASSUME Types, FlightInv, HostsKnown, SessionInv, Next
  PROVE  FlightInv' /\ flight' \in FlightType
<1> USE DEF TurnIs, TurnMoves, TurnReturns, TurnKeeps, CommandIs, CommandEnds, CommandKeeps,
        CommandMoves, Rest, CommandRest, flightVars
<1>0. /\ ensure \in [Actors -> WorkerType] /\ flight \in FlightType
      /\ \A a \in Actors : ensure[a].mine = TRUE /\ ensure[a].joined \in BOOLEAN
      /\ Turns \subseteq Actors /\ Commands \subseteq Actors /\ Turns \intersect Commands = {}
  BY DesktopAssumption DEF Types, FlightInv, Actors, WorkerType
<1>1. ASSUME UNCHANGED flightVars,
             \A t \in Turns : turn'[t].at \in {"idle", "admitted"} => turn[t].at \in {"idle", "admitted"},
             \A c \in Commands : cmd'[c].at = "idle" => cmd[c].at = "idle"
      PROVE  FlightInv' /\ flight' \in FlightType
  BY <1>0, <1>1, OthersKeepFlight
<1>2. ASSUME NEW t \in Turns, TurnEnters(t) PROVE FlightInv' /\ flight' \in FlightType
  BY <1>1, <1>2 DEF TurnEnters
<1>3. ASSUME NEW t \in Turns, TurnStarts(t) PROVE FlightInv' /\ flight' \in FlightType
  <2>1. ensure[t].at = "none"
    BY <1>3 DEF TurnStarts, FlightInv
  <2>2. PICK at \in {"call", "construct"} : WorkerIs(t, at, ensure[t].joined, TRUE)
    BY <1>0, <1>3 DEF TurnStarts, WorkerMoves
  <2>3. /\ turn'[t].at = "waiting" /\ \A u \in Turns : u /= t => turn'[u] = turn[u]
        /\ UNCHANGED <<flight, asleep, cmd>>
    BY <1>3 DEF TurnStarts
  <2> QED
    BY <1>0, <2>1, <2>2, <2>3, OthersKeepFlight
<1>4. ASSUME NEW t \in Turns, WorkerRests(t), UNCHANGED <<flight, asleep, cmd>>,
             \A u \in Turns : turn'[u].at \in {"idle", "admitted"} => turn[u].at \in {"idle", "admitted"}
      PROVE  FlightInv' /\ flight' \in FlightType
  <2>1. CASE UNCHANGED ensure
    BY <1>1, <1>4, <2>1
  <2>2. ASSUME NEW joined \in BOOLEAN, WorkerIs(t, "none", joined, TRUE),
               ensure[t].at \in {"ok", "construct"}
        PROVE  FlightInv'
    <3>1. turn'[t].at \notin {"idle", "admitted"}
      BY <1>4, <2>2 DEF FlightInv
    <3> QED
      BY <1>0, <1>4, <2>2, <3>1, OthersKeepFlight
  <2> QED
    BY <1>0, <1>4, <2>1, <2>2 DEF WorkerRests
<1>5. ASSUME NEW t \in Turns, TurnGivesUp(t) \/ TurnBorrows(t) \/ WorkerConstructs(t)
      PROVE  FlightInv' /\ flight' \in FlightType
  <2>1. \A u \in Turns : turn'[u].at \in {"idle", "admitted"} => turn[u].at \in {"idle", "admitted"}
    BY <1>5 DEF TurnGivesUp, TurnBorrows, WorkerConstructs
  <2>2. WorkerRests(t) /\ UNCHANGED <<flight, asleep, cmd>>
    BY <1>5 DEF TurnGivesUp, TurnBorrows, WorkerConstructs
  <2> QED
    BY <1>4, <2>1, <2>2
<1>6. ASSUME NEW t \in Turns, \/ TurnCopies(t) \/ TurnRuns(t) \/ TurnRestores(t) \/ TurnSaves(t)
                              \/ TurnFinishes(t)
      PROVE  FlightInv' /\ flight' \in FlightType
  <2>1. UNCHANGED <<flightVars, cmd>>
    BY <1>6 DEF TurnCopies, TurnRuns, TurnRestores, TurnSaves, TurnFinishes
  <2>2. \A u \in Turns : turn'[u].at \in {"idle", "admitted"} => turn[u].at \in {"idle", "admitted"}
    BY <1>6 DEF TurnCopies, TurnRuns, TurnRestores, TurnSaves, TurnFinishes
  <2> QED
    BY <1>1, <2>1, <2>2
<1>7. ASSUME NEW c \in Commands, CommandCalls(c) PROVE FlightInv' /\ flight' \in FlightType
  <2>1. ensure[c].at = "none" /\ UNCHANGED <<flight, asleep, turn>>
    BY <1>7 DEF CommandCalls, FlightInv
  <2>2. cmd'[c].at /= "idle" /\ \A d \in Commands : d /= c => cmd'[d] = cmd[d]
    BY <1>7 DEF CommandCalls
  <2>3. UNCHANGED ensure \/ WorkerIs(c, "call", ensure[c].joined, TRUE)
    BY <1>0, <1>7 DEF CommandCalls, WorkerMoves
  <2> QED
    BY <1>0, <2>1, <2>2, <2>3, OthersKeepFlight
<1>8. ASSUME NEW c \in Commands, CommandGoesOn(c) PROVE FlightInv' /\ flight' \in FlightType
  <2>1. ensure[c].at \in {"ok", "failed"} /\ UNCHANGED <<flight, asleep, turn>>
    BY <1>8 DEF CommandGoesOn
  <2>2. cmd'[c].at /= "idle" /\ \A d \in Commands : d /= c => cmd'[d] = cmd[d]
    BY <1>8 DEF CommandGoesOn
  <2>3. WorkerIs(c, "none", FALSE, TRUE)
    BY <1>8 DEF CommandGoesOn
  <2> QED
    BY <1>0, <2>1, <2>2, <2>3, OthersKeepFlight
<1>9. ASSUME NEW c \in Commands, \/ CommandAnswers(c) \/ CommandBorrows(c) \/ CommandExecutes(c)
                                 \/ CommandPutsBack(c) \/ CommandSaves(c) \/ CommandReplaces(c)
      PROVE  FlightInv' /\ flight' \in FlightType
  <2>1. UNCHANGED <<flightVars, turn>>
    BY <1>9 DEF CommandAnswers, CommandBorrows, CommandExecutes, CommandPutsBack, CommandSaves, CommandReplaces
  <2>2. \A d \in Commands : cmd'[d].at = "idle" => cmd[d].at = "idle"
    BY <1>9 DEF CommandAnswers, CommandBorrows, CommandExecutes, CommandPutsBack, CommandSaves, CommandReplaces
  <2> QED
    BY <1>1, <2>1, <2>2
<1>10. CASE WarmupEnds
  BY <1>1, <1>10 DEF WarmupEnds
<1> QED
  BY <1>2, <1>3, <1>5, <1>6, <1>7, <1>8, <1>9, <1>10, Moves, FlightKeepsFlight

\* The session part: admission and the end of a turn are the only steps that touch
\* the owners, and the end only touches its own.
LEMMA OwnedStep ==
  ASSUME Types, HostsKnown, SessionInv, Next
  PROVE  Owned'
<1> USE DEF TurnIs, TurnMoves, TurnReturns, TurnKeeps, Active, sessionVars, Rest, CommandRest
<1>0. /\ turn \in [Turns -> TurnType] /\ Nobody \notin Turns
      /\ owners \in [Sessions -> Turns \union {Nobody}]
      /\ cancels \in [Sessions -> Turns \union {Nobody}]
  BY DesktopAssumption DEF Types, Actors
<1>1. ASSUME UNCHANGED <<sessionVars, turn>> PROVE Owned'
  BY <1>1 DEF SessionInv, Owned
<1>2. ASSUME NEW t \in Turns, TurnEnters(t) PROVE Owned'
  <2>1. CASE TurnMoves(t, "done") /\ UNCHANGED <<owners, cancels>>
    BY <2>1 DEF SessionInv, Owned
  <2>2. ASSUME NEW s \in Sessions, NEW kind, owners[s] = Nobody,
               TurnIs(t, "admitted", s, kind, turn[t].host, turn[t].borrowed, turn[t].history,
                      turn[t].saved),
               owners' = [owners EXCEPT ![s] = t], cancels' = [cancels EXCEPT ![s] = t]
        PROVE  Owned'
    BY <1>0, <2>2 DEF SessionInv, Owned
  <2> QED
    BY <1>2, <2>1, <2>2 DEF TurnEnters
<1>3. ASSUME NEW t \in Turns, \/ TurnStarts(t) \/ TurnGivesUp(t) \/ TurnBorrows(t)
                              \/ WorkerConstructs(t) \/ TurnCopies(t) \/ TurnRuns(t)
                              \/ TurnRestores(t) \/ TurnSaves(t)
      PROVE  Owned'
  <2>1. UNCHANGED sessionVars
    BY <1>3 DEF TurnStarts, TurnGivesUp, TurnBorrows, WorkerConstructs, TurnCopies, TurnRuns,
                TurnRestores, TurnSaves
  <2>2. UNCHANGED turn \/ (Active(t) /\ turn'[t].session = turn[t].session)
    BY <1>3 DEF TurnStarts, TurnGivesUp, TurnBorrows, WorkerConstructs, TurnCopies, TurnRuns,
                TurnRestores, TurnSaves
  <2>3. \A u \in Turns : u /= t => turn'[u] = turn[u]
    BY <1>3 DEF TurnStarts, TurnGivesUp, TurnBorrows, WorkerConstructs, TurnCopies, TurnRuns,
                TurnRestores, TurnSaves
  <2> QED
    BY <2>1, <2>2, <2>3 DEF SessionInv, Owned
<1>4. ASSUME NEW t \in Turns, TurnFinishes(t) PROVE Owned'
  BY <1>0, <1>4 DEF TurnFinishes, SessionInv, Owned
<1>5. ASSUME NEW c \in Commands, \/ CommandAnswers(c) \/ CommandCalls(c) \/ CommandGoesOn(c)
                                 \/ CommandBorrows(c) \/ CommandExecutes(c) \/ CommandPutsBack(c)
                                 \/ CommandSaves(c) \/ CommandReplaces(c)
      PROVE  UNCHANGED <<sessionVars, turn>>
  BY <1>5 DEF CommandAnswers, CommandCalls, CommandGoesOn, CommandBorrows, CommandExecutes,
              CommandPutsBack, CommandSaves, CommandReplaces
<1>6. ASSUME (\E a \in Actors : Flight(a)) \/ WarmupEnds PROVE UNCHANGED <<sessionVars, turn>>
  BY <1>6, FlightMoves DEF WarmupEnds
<1> QED
  BY <1>1, <1>2, <1>3, <1>4, <1>5, <1>6, Moves

\* Only a linked turn has its host constructed: a worker is started for it once.
LEMMA SessionStep ==
  ASSUME Types, HostsKnown, SessionInv, Next
  PROVE  SessionInv'
<1>0. /\ \A t \in Turns : turn[t].at = "waiting" /\ ensure[t].at = "construct"
                           => turn[t].kind /= "ordinary"
      /\ Turns \subseteq Actors /\ Commands \subseteq Actors
  BY DEF SessionInv, LinkedWorkers, Actors
<1>1. ASSUME \A t \in Turns : turn'[t].at = "waiting" => turn'[t] = turn[t],
             \A t \in Turns : ensure'[t].at = "construct" => ensure[t].at = "construct"
      PROVE  LinkedWorkers'
  BY <1>0, <1>1 DEF LinkedWorkers
<1>2. ASSUME NEW a \in Actors, Flight(a) PROVE LinkedWorkers'
  <2>1. UNCHANGED turn
    BY <1>2, FlightMoves
  <2>2. \A b \in Actors : ensure'[b].at = "construct" => ensure[b].at = "construct"
    BY <1>2, FlightMoves DEF Joins, Sleeps, Leaves, Starts, Works, Ends, WorkerMoves, WorkerIs
  <2> QED
    BY <1>0, <1>1, <2>1, <2>2
<1>3. ASSUME NEW t \in Turns, TurnStarts(t) PROVE LinkedWorkers'
  <2>1. /\ turn'[t].kind = turn[t].kind /\ \A u \in Turns : u /= t => turn'[u] = turn[u]
        /\ ensure'[t].at = "construct" => turn[t].kind /= "ordinary"
        /\ \A b \in Actors : b /= t => ensure'[b] = ensure[b]
    BY <1>0, <1>3 DEF TurnStarts, TurnMoves, TurnIs, WorkerMoves, WorkerIs
  <2> QED
    BY <1>0, <2>1 DEF LinkedWorkers
<1>4. ASSUME NEW t \in Turns, \/ TurnEnters(t) \/ TurnGivesUp(t) \/ TurnBorrows(t)
                              \/ WorkerConstructs(t) \/ TurnCopies(t) \/ TurnRuns(t)
                              \/ TurnRestores(t) \/ TurnSaves(t) \/ TurnFinishes(t)
      PROVE  LinkedWorkers'
  <2>1. \A u \in Turns : turn'[u].at = "waiting" => turn'[u] = turn[u]
    BY <1>4 DEF TurnEnters, TurnGivesUp, TurnBorrows, WorkerConstructs, TurnCopies, TurnRuns,
                TurnRestores, TurnSaves, TurnFinishes, TurnIs, TurnMoves, TurnReturns, TurnKeeps
  <2>2. UNCHANGED ensure \/ WorkerRests(t)
    BY <1>4 DEF TurnEnters, TurnGivesUp, TurnBorrows, WorkerConstructs, TurnCopies, TurnRuns,
                TurnRestores, TurnSaves, TurnFinishes, flightVars
  <2>3. \A u \in Turns : ensure'[u].at = "construct" => ensure[u].at = "construct"
    BY <1>0, <2>2 DEF WorkerRests, WorkerIs
  <2> QED
    BY <1>1, <2>1, <2>3
<1>5. ASSUME NEW c \in Commands, \/ CommandAnswers(c) \/ CommandCalls(c) \/ CommandGoesOn(c)
                                 \/ CommandBorrows(c) \/ CommandExecutes(c) \/ CommandPutsBack(c)
                                 \/ CommandSaves(c) \/ CommandReplaces(c)
      PROVE  LinkedWorkers'
  <2>1. UNCHANGED turn
    BY <1>5 DEF CommandAnswers, CommandCalls, CommandGoesOn, CommandBorrows, CommandExecutes,
                CommandPutsBack, CommandSaves, CommandReplaces, CommandRest
  <2>2. UNCHANGED ensure \/ \E at \in {"none", "call"} : \E joined, mine : WorkerIs(c, at, joined, mine)
    BY <1>5 DEF CommandAnswers, CommandCalls, CommandGoesOn, CommandBorrows, CommandExecutes,
                CommandPutsBack, CommandSaves, CommandReplaces, WorkerMoves, flightVars
  <2>3. \A u \in Turns : ensure'[u].at = "construct" => ensure[u].at = "construct"
    BY <1>0, <2>2 DEF WorkerIs
  <2> QED
    BY <1>1, <2>1, <2>3
<1>6. ASSUME WarmupEnds PROVE LinkedWorkers'
  BY <1>1, <1>6 DEF WarmupEnds, flightVars
<1> QED
  BY <1>2, <1>3, <1>4, <1>5, <1>6, Moves, OwnedStep DEF SessionInv

\* Hosts are numbers.
LEMMA HostNumbers ==
  ASSUME Types
  PROVE  /\ generation \in Nat /\ slot \in Nat /\ generation <= MaxGeneration
         /\ \A t \in Turns : turn[t].host \in Nat /\ turn[t].borrowed \in Nat
         /\ \A c \in Commands : cmd[c].host \in Nat
<1>1. /\ slot \in 0..MaxGeneration /\ generation \in 0..MaxGeneration
      /\ turn \in [Turns -> TurnType] /\ cmd \in [Commands -> CommandType]
  BY DEF Types
<1>2. \A h \in 0..MaxGeneration : h \in Nat /\ h <= MaxGeneration
  BY DesktopAssumption
<1>3. ASSUME NEW t \in Turns PROVE turn[t].host \in Nat /\ turn[t].borrowed \in Nat
  <2>1. turn[t] \in TurnType
    BY <1>1
  <2>2. turn[t].host \in 0..MaxGeneration /\ turn[t].borrowed \in 0..MaxGeneration
    BY <2>1 DEF TurnType
  <2> QED
    BY <1>2, <2>2
<1>4. ASSUME NEW c \in Commands PROVE cmd[c].host \in Nat
  <2>1. cmd[c] \in CommandType
    BY <1>1
  <2>2. cmd[c].host \in 0..MaxGeneration
    BY <2>1 DEF CommandType
  <2> QED
    BY <1>2, <2>2
<1> QED
  BY <1>1, <1>2, <1>3, <1>4

\* Executions, rebuilds and warmups keep the hosts what they are.
LEMMA HostTypes ==
  ASSUME Types
  PROVE  /\ \A h \in HostIds, s \in Sessions \union {Nobody} :
              PermStep(h, s) => /\ hosts' \in [HostIds -> HostRecordType]
                                /\ asked' \in Seq(Sessions \union {Nobody})
         /\ \A h \in HostIds, c \in Commands :
              Completed(h, c) => /\ hosts' \in [HostIds -> HostRecordType]
                                 /\ asked' \in Seq(Sessions \union {Nobody})
                                 /\ runs' \in SUBSET [rid : Nat, by : Commands]
         /\ WarmupEnds => /\ hosts' \in [HostIds -> HostRecordType]
                          /\ warming' \in SUBSET [expected : HostIds, ws : Workspaces]
         /\ \A a \in Actors :
              Published(a) => /\ hosts' \in [HostIds -> HostRecordType]
                              /\ warming' \in SUBSET [expected : HostIds, ws : Workspaces]
                              /\ generation' \in 0..MaxGeneration /\ slot' \in 0..MaxGeneration
<1>0. /\ hosts \in [HostIds -> HostRecordType] /\ asked \in Seq(Sessions \union {Nobody})
      /\ \A c \in Commands : cmd[c].session \in Sessions \union {Nobody}
      /\ generation \in Nat /\ MaxGeneration \in Nat
      /\ warming \in SUBSET [expected : HostIds, ws : Workspaces]
  <2>1. cmd \in [Commands -> CommandType]
    BY DEF Types
  <2>2. \A c \in Commands : cmd[c].session \in Sessions \union {Nobody}
    BY <2>1 DEF CommandType
  <2> QED
    BY <2>2, HostNumbers, DesktopAssumption DEF Types
<1>1. ASSUME NEW h \in HostIds, NEW perm \in HostType, hosts' = [hosts EXCEPT ![h].perm = perm]
      PROVE  hosts' \in [HostIds -> HostRecordType]
  BY <1>0, <1>1 DEF HostRecordType
<1>2. ASSUME NEW s \in Sessions \union {Nobody}, asked' = Append(asked, s)
      PROVE  asked' \in Seq(Sessions \union {Nobody})
  BY <1>0, <1>2
<1>3. ASSUME NEW h \in HostIds, NEW s \in Sessions \union {Nobody}, PermStep(h, s)
      PROVE  hosts' \in [HostIds -> HostRecordType] /\ asked' \in Seq(Sessions \union {Nobody})
  <2>1. /\ \E perm \in HostType : hosts' = [hosts EXCEPT ![h].perm = perm]
        /\ asked' = asked \/ asked' = Append(asked, s)
    BY <1>3, Zenon DEF PermStep
  <2>2. hosts' \in [HostIds -> HostRecordType]
    BY <1>1, <2>1, Zenon
  <2>3. asked' \in Seq(Sessions \union {Nobody})
    BY <1>0, <1>2, <2>1
  <2> QED
    BY <2>2, <2>3
<1>4. ASSUME NEW h \in HostIds, NEW c \in Commands, Completed(h, c)
      PROVE  /\ hosts' \in [HostIds -> HostRecordType] /\ asked' \in Seq(Sessions \union {Nobody})
             /\ runs' \in SUBSET [rid : Nat, by : Commands]
  <2>1. hosts' \in [HostIds -> HostRecordType] /\ asked' \in Seq(Sessions \union {Nobody})
    BY <1>0, <1>1, <1>2, <1>4, Zenon DEF Completed
  <2>2. \E req \in Pending(h) : req.id = cmd[c].rid
    BY <1>4, Zenon DEF Completed
  <2>3. \A req \in Pending(h) : req.id \in Nat
    BY <1>0 DEF Pending, HostRecordType, HostType, Requests
  <2>4. runs' \in {runs, runs \union {[rid |-> cmd[c].rid, by |-> c]}}
    BY <1>4, Zenon DEF Completed
  <2> QED
    BY <2>1, <2>2, <2>3, <2>4 DEF Types
<1>5. ASSUME WarmupEnds
      PROVE  /\ hosts' \in [HostIds -> HostRecordType]
             /\ warming' \in SUBSET [expected : HostIds, ws : Workspaces]
  <2>1. PICK w \in warming : /\ warming' = warming \ {w}
                             /\ UNCHANGED hosts \/ hosts' = [hosts EXCEPT ![slot].memory = w.ws]
    BY <1>5, Zenon DEF WarmupEnds
  <2>2. w.ws \in Workspaces
    BY <1>0
  <2>3. [hosts EXCEPT ![slot].memory = w.ws] \in [HostIds -> HostRecordType]
    BY <1>0, <2>2 DEF HostRecordType
  <2> QED
    BY <1>0, <2>1, <2>3
<1>6. ASSUME NEW a \in Actors, Published(a)
      PROVE  /\ hosts' \in [HostIds -> HostRecordType]
             /\ warming' \in SUBSET [expected : HostIds, ws : Workspaces]
             /\ generation' \in 0..MaxGeneration /\ slot' \in 0..MaxGeneration
  <2>1. generation + 1 \in HostIds /\ generation + 1 \in 0..MaxGeneration
    BY <1>0, <1>6 DEF Published, HostIds
  <2>2. PICK ws \in Workspaces :
          /\ hosts' = [hosts EXCEPT ![generation + 1] = HostRecord(ws)]
          /\ warming' = warming \union {[expected |-> generation + 1, ws |-> ws]}
    BY <1>6 DEF Published
  <2>3. HostRecord(ws) \in HostRecordType
    BY DEF HostRecord, HostRecordType, HostType, NewHost
  <2> QED
    BY <1>0, <1>6, <2>1, <2>2, <2>3 DEF Published
<1> QED
  BY <1>3, <1>4, <1>5, <1>6

\* Every step keeps the types.
LEMMA TypesStep ==
  ASSUME Types, FlightInv, HostsKnown, SessionInv, Next
  PROVE  Types'
<1> USE DEF Types, hostVars, flightVars, sessionVars, gateVars, Rest, CommandRest
<1>f. flight' \in FlightType
  BY FlightStep
<1>0. \A s : Rewriting(s) \subseteq Actors
  BY DEF Rewriting, Actors
<1>m. ASSUME NEW a \in Actors, NEW s, MarkOverlap(a, s) PROVE disturbed' \in SUBSET Actors
  BY <1>0, <1>m DEF MarkOverlap
<1>1. ASSUME NEW a \in Actors, Flight(a) PROVE Types'
  <2>1. ensure' \in [Actors -> WorkerType] /\ asleep' \in SUBSET Actors
    BY <1>1, FlightMoves DEF Joins, Sleeps, Leaves, Starts, Works, Ends, WorkerMoves, WorkerIs
  <2>2. CASE UNCHANGED hostVars
    BY <1>f, <1>1, <2>1, <2>2, FlightMoves
  <2>3. CASE Published(a)
    BY <1>f, <1>1, <2>1, <2>3, FlightMoves, HostTypes DEF Published
  <2> QED
    BY <1>1, <2>2, <2>3, FlightMoves DEF Joins, Sleeps, Leaves, Starts, Works, Ends
<1>2. ASSUME NEW t \in Turns, TurnEnters(t) PROVE Types'
  <2>1. turn' \in [Turns -> TurnType]
    BY <1>2 DEF TurnEnters, TurnIs, TurnMoves
  <2>2. /\ owners' \in [Sessions -> Turns \union {Nobody}]
        /\ cancels' \in [Sessions -> Turns \union {Nobody}]
    BY <1>2 DEF TurnEnters
  <2> QED
    BY <1>2, <2>1, <2>2 DEF TurnEnters
<1>w. ASSUME NEW t \in Turns, WorkerRests(t) PROVE ensure' \in [Actors -> WorkerType]
  BY <1>w DEF WorkerRests, WorkerIs
<1>n. NoHost \in 0..MaxGeneration
  BY DesktopAssumption DEF NoHost
<1>3. ASSUME NEW t \in Turns, TurnStarts(t) \/ TurnGivesUp(t) \/ TurnBorrows(t) \/ WorkerConstructs(t)
      PROVE Types'
  <2>1. turn' \in [Turns -> TurnType]
    BY <1>3 DEF TurnStarts, TurnGivesUp, TurnBorrows, WorkerConstructs, TurnIs, TurnMoves,
                TurnReturns, TurnKeeps
  <2>2. ensure' \in [Actors -> WorkerType]
    BY <1>3, <1>w DEF TurnStarts, TurnGivesUp, TurnBorrows, WorkerConstructs, WorkerMoves, WorkerIs
  <2>3. slot' \in {slot, NoHost} /\ UNCHANGED Rest
    BY <1>3 DEF TurnStarts, TurnGivesUp, TurnBorrows, WorkerConstructs
  <2> QED
    BY <1>n, <2>1, <2>2, <2>3
<1>4. ASSUME NEW t \in Turns, TurnCopies(t) \/ TurnRuns(t) \/ TurnRestores(t)
      PROVE Types'
  <2>0. t \in Actors /\ turn[t].session \in Sessions \union {Nobody} /\ turn[t].host \in 0..MaxGeneration
    BY DEF Actors, TurnType
  <2>1. turn' \in [Turns -> TurnType]
    BY <1>4 DEF TurnCopies, TurnRuns, TurnRestores, TurnIs, TurnReturns, TurnKeeps
  <2>2. CASE TurnCopies(t)
    BY <1>m, <2>0, <2>1, <2>2 DEF TurnCopies
  <2>3. CASE TurnRuns(t)
    <3>1. hosts' \in [HostIds -> HostRecordType] /\ asked' \in Seq(Sessions \union {Nobody})
      BY <2>0, <2>3, HostTypes DEF TurnRuns
    <3> QED
      BY <2>1, <2>3, <3>1 DEF TurnRuns
  <2>4. CASE TurnRestores(t)
    BY <2>0, <2>1, <2>4 DEF TurnRestores, Restored
  <2> QED
    BY <1>4, <2>2, <2>3, <2>4
<1>5. ASSUME NEW t \in Turns, TurnSaves(t) \/ TurnFinishes(t)
      PROVE Types'
  <2>1. turn' \in [Turns -> TurnType]
    BY <1>5 DEF TurnSaves, TurnFinishes, TurnIs, TurnMoves, TurnReturns
  <2>2. CASE TurnSaves(t)
    <3>1. turn[t].history \in SUBSET Actors
      BY DEF TurnType
    <3>2. histories' \in [Sessions -> SUBSET Actors]
      BY <2>2, <3>1 DEF TurnSaves
    <3> QED
      BY <2>1, <2>2, <3>2 DEF TurnSaves
  <2>3. CASE TurnFinishes(t)
    <3>1. /\ owners' \in [Sessions -> Turns \union {Nobody}]
          /\ cancels' \in [Sessions -> Turns \union {Nobody}]
      BY <2>3 DEF TurnFinishes
    <3> QED
      BY <2>1, <2>3, <3>1 DEF TurnFinishes
  <2> QED
    BY <1>5, <2>2, <2>3
<1>6. ASSUME NEW c \in Commands, \/ CommandAnswers(c) \/ CommandCalls(c) \/ CommandGoesOn(c)
                                 \/ CommandBorrows(c) \/ CommandPutsBack(c)
      PROVE Types'
  <2>0. c \in Actors /\ cmd[c].host \in 0..MaxGeneration
    BY DEF Actors, CommandType
  <2>1. cmd' \in [Commands -> CommandType]
    BY <1>6 DEF CommandAnswers, CommandCalls, CommandGoesOn, CommandBorrows, CommandPutsBack,
                CommandIs, CommandEnds, CommandKeeps, CommandMoves
  <2>2. CASE CommandAnswers(c)
    BY <1>m, <2>0, <2>1, <2>2 DEF CommandAnswers
  <2>3. CASE CommandCalls(c)
    BY <2>1, <2>3 DEF CommandCalls, WorkerMoves, WorkerIs
  <2>4. CASE CommandGoesOn(c)
    BY <2>1, <2>4 DEF CommandGoesOn, WorkerIs
  <2>5. CASE CommandBorrows(c)
    BY <1>n, <2>1, <2>5 DEF CommandBorrows
  <2>6. CASE CommandPutsBack(c)
    BY <2>0, <2>1, <2>6 DEF CommandPutsBack
  <2> QED
    BY <1>6, <2>2, <2>3, <2>4, <2>5, <2>6
<1>7. ASSUME NEW c \in Commands, CommandExecutes(c)
      PROVE Types'
  <2>1. cmd' \in [Commands -> CommandType]
    BY <1>7 DEF CommandExecutes, CommandIs, CommandKeeps
  <2>2. /\ hosts' \in [HostIds -> HostRecordType] /\ asked' \in Seq(Sessions \union {Nobody})
        /\ runs' \in SUBSET [rid : Nat, by : Commands]
    BY <1>7, HostTypes DEF CommandExecutes
  <2> QED
    BY <1>7, <2>1, <2>2 DEF CommandExecutes
<1>8. ASSUME NEW c \in Commands, CommandSaves(c)
      PROVE Types'
  <2>1. cmd' \in [Commands -> CommandType] /\ cmd[c].history \in SUBSET Actors
    BY <1>8 DEF CommandSaves, CommandIs, CommandEnds, CommandType
  <2>2. histories' \in [Sessions -> SUBSET Actors]
    BY <1>8, <2>1 DEF CommandSaves
  <2> QED
    BY <1>8, <2>1, <2>2 DEF CommandSaves
<1>9. CASE WarmupEnds
  BY <1>9, HostTypes DEF WarmupEnds
<1>10. ASSUME NEW c \in Commands, CommandReplaces(c)
       PROVE Types'
  <2>1. cmd' \in [Commands -> CommandType]
    BY <1>10 DEF CommandReplaces, CommandIs, CommandEnds
  <2>2. histories' \in [Sessions -> SUBSET Actors] /\ disturbed' \in SUBSET Actors
    BY <1>10 DEF CommandReplaces
  <2> QED
    BY <1>10, <2>1, <2>2 DEF CommandReplaces
<1> QED
  <2> HIDE DEF Types
  <2> QED
    BY <1>1, <1>2, <1>3, <1>4, <1>5, <1>6, <1>7, <1>8, <1>9, <1>10, Moves

-----------------------------------------------------------------------------
(* Hosts.                                                                  *)

\* What a step does with the places a host can be in, which are the slot, the turns and
\* the commands that use one: a new host comes, hosts stay or are dropped, a turn takes
\* one or gives it back, a command takes one or puts it back.
HostComes ==
  slot' = generation + 1 /\ generation' = generation + 1 /\ UNCHANGED <<turn, cmd>>

HostsStay ==
  /\ slot' \in {slot, NoHost} /\ generation' = generation
  /\ \A t \in Turns : \/ turn'[t].host = NoHost
                      \/ turn'[t].host = turn[t].host /\ turn'[t].borrowed = turn[t].borrowed
  /\ \A c \in Commands : Using(c)' => Using(c) /\ cmd'[c].host = cmd[c].host
  /\ \A c \in Commands : cmd'[c].host \in {cmd[c].host, NoHost}

TurnTakes(t) ==
  /\ slot /= NoHost /\ slot' = NoHost /\ generation' = generation
  /\ turn'[t].host = slot /\ turn'[t].borrowed = generation
  /\ \A u \in Turns : u /= t => turn'[u] = turn[u]
  /\ UNCHANGED cmd

TurnGivesBack(t) ==
  /\ slot = NoHost /\ generation' = generation /\ generation = turn[t].borrowed
  /\ turn[t].host /= NoHost /\ slot' = turn[t].host /\ turn'[t].host = NoHost
  /\ \A u \in Turns : u /= t => turn'[u] = turn[u]
  /\ UNCHANGED cmd

CommandTakesHost(c) ==
  /\ slot /= NoHost /\ slot' = NoHost /\ generation' = generation
  /\ cmd'[c].host = slot
  /\ \A d \in Commands : d /= c => cmd'[d] = cmd[d]
  /\ UNCHANGED turn

CommandGivesBack(c) ==
  /\ Using(c) /\ slot' = cmd[c].host /\ generation' = generation
  /\ cmd'[c].host = cmd[c].host /\ cmd'[c].at \in {"insert", "done"}
  /\ \A d \in Commands : d /= c => cmd'[d] = cmd[d]
  /\ UNCHANGED turn

\* Every step is one of these, and a turn that runs the agent has a host.
LEMMA HostMoves ==
  ASSUME Types, HostsKnown, SessionInv, Next
  PROVE  /\ \/ HostComes \/ HostsStay
            \/ \E t \in Turns : TurnTakes(t) \/ TurnGivesBack(t)
            \/ \E c \in Commands : CommandTakesHost(c) \/ CommandGivesBack(c)
         /\ \A t \in Turns :
              turn'[t].at \in {"clone", "constructed", "running", "settle"} /\ turn'[t].kind = "ordinary"
              => turn'[t].host /= NoHost
<1> DEFINE Goal == \/ HostComes \/ HostsStay
                   \/ \E t \in Turns : TurnTakes(t) \/ TurnGivesBack(t)
                   \/ \E c \in Commands : CommandTakesHost(c) \/ CommandGivesBack(c)
           Held(t) == turn'[t].at \in {"clone", "constructed", "running", "settle"} /\ turn'[t].kind = "ordinary"
                        => turn'[t].host /= NoHost
<1>0. \A t \in Turns : turn[t].at \in {"clone", "constructed", "running", "settle"} /\ turn[t].kind = "ordinary"
                         => turn[t].host /= NoHost
  BY DEF HostsKnown
<1>1. UNCHANGED turn => \A t \in Turns : Held(t)
  BY <1>0
<1>2. ASSUME NEW t \in Turns, \A u \in Turns : u /= t => turn'[u] = turn[u], Held(t)
      PROVE  \A u \in Turns : Held(u)
  BY <1>0, <1>2
<1>3. ASSUME NEW a \in Actors, Flight(a) PROVE Goal /\ \A t \in Turns : Held(t)
  <2>1. UNCHANGED <<turn, cmd>>
    BY <1>3, FlightMoves
  <2>2. CASE UNCHANGED hostVars
    BY <1>1, <2>1, <2>2 DEF HostsStay, hostVars, Using
  <2>3. CASE Published(a)
    BY <1>1, <2>1, <2>3 DEF HostComes, Published
  <2>4. UNCHANGED hostVars \/ Published(a)
    BY <1>3, FlightMoves DEF Joins, Sleeps, Leaves, Starts, Works, Ends
  <2> QED
    BY <1>1, <2>1, <2>2, <2>3, <2>4
<1>4. ASSUME NEW t \in Turns, TurnEnters(t) \/ TurnStarts(t) \/ TurnGivesUp(t) \/ TurnCopies(t)
                              \/ TurnRuns(t) \/ TurnSaves(t) \/ TurnFinishes(t)
                              \/ WorkerConstructs(t)
      PROVE Goal /\ \A u \in Turns : Held(u)
  <2>1. slot' \in {slot, NoHost} /\ UNCHANGED <<generation, cmd>>
    BY <1>4 DEF TurnEnters, TurnStarts, TurnGivesUp, TurnCopies, TurnRuns, TurnSaves, TurnFinishes,
                WorkerConstructs, Rest, hostVars
  <2>2. /\ \/ turn'[t].host = NoHost
           \/ turn'[t].host = turn[t].host /\ turn'[t].borrowed = turn[t].borrowed
        /\ \A u \in Turns : u /= t => turn'[u] = turn[u]
    BY <1>4 DEF TurnEnters, TurnStarts, TurnGivesUp, TurnCopies, TurnRuns, TurnSaves, TurnFinishes,
                WorkerConstructs, TurnIs, TurnMoves, TurnReturns, TurnKeeps
  <2>3. HostsStay
    BY <2>1, <2>2 DEF HostsStay, Using
  <2>4. Held(t)
    <3>1. CASE TurnEnters(t) \/ TurnStarts(t) \/ TurnGivesUp(t) \/ TurnSaves(t) \/ TurnFinishes(t)
      BY <3>1 DEF TurnEnters, TurnStarts, TurnGivesUp, TurnSaves, TurnFinishes, TurnIs, TurnMoves,
                  TurnReturns
    <3>2. CASE TurnCopies(t)
      BY <1>0, <3>2 DEF TurnCopies, TurnIs, TurnKeeps
    <3>3. CASE TurnRuns(t)
      BY <1>0, <3>3 DEF TurnRuns, TurnIs, TurnKeeps
    <3>4. CASE WorkerConstructs(t)
      BY <1>0, <3>4 DEF WorkerConstructs, TurnIs, TurnMoves
    <3> QED
      BY <1>4, <3>1, <3>2, <3>3, <3>4
  <2> QED
    BY <1>2, <2>2, <2>3, <2>4
<1>5. ASSUME NEW t \in Turns, TurnBorrows(t)
      PROVE Goal /\ \A u \in Turns : Held(u)
  <2>1. TurnTakes(t)
    BY <1>5 DEF TurnBorrows, TurnTakes, TurnIs, TurnKeeps, Rest
  <2> QED
    BY <1>2, <2>1 DEF TurnTakes
<1>6. ASSUME NEW t \in Turns, TurnRestores(t)
      PROVE Goal /\ \A u \in Turns : Held(u)
  <2>1. /\ slot' = Restored(t) /\ UNCHANGED <<generation, cmd>>
        /\ turn'[t].host = NoHost /\ turn'[t].at \in {"finishing", "insert"}
        /\ \A u \in Turns : u /= t => turn'[u] = turn[u]
    BY <1>6 DEF TurnRestores, TurnIs, TurnReturns, TurnKeeps, Rest
  <2>2. CASE turn[t].host /= NoHost /\ generation = turn[t].borrowed /\ slot = NoHost
    BY <1>2, <2>1, <2>2 DEF TurnGivesBack, Restored
  <2>3. CASE ~(turn[t].host /= NoHost /\ generation = turn[t].borrowed /\ slot = NoHost)
    <3>1. slot' = slot
      BY <2>1, <2>3 DEF Restored
    <3>2. HostsStay
      BY <2>1, <3>1 DEF HostsStay, Using
    <3> QED
      BY <1>2, <2>1, <3>2
  <2> QED
    BY <2>2, <2>3
<1>7. ASSUME NEW c \in Commands, \/ CommandAnswers(c) \/ CommandCalls(c) \/ CommandGoesOn(c)
                                 \/ CommandExecutes(c) \/ CommandSaves(c) \/ CommandReplaces(c)
      PROVE Goal /\ \A u \in Turns : Held(u)
  <2>1. UNCHANGED <<slot, generation, turn>>
    BY <1>7 DEF CommandAnswers, CommandCalls, CommandGoesOn, CommandExecutes, CommandSaves,
                CommandReplaces,
                CommandRest, hostVars
  <2>2. /\ cmd'[c].host \in {cmd[c].host, NoHost} /\ \A d \in Commands : d /= c => cmd'[d] = cmd[d]
        /\ Using(c)' => cmd'[c].host = cmd[c].host /\ Using(c)
    BY <1>7 DEF CommandAnswers, CommandCalls, CommandGoesOn, CommandExecutes, CommandSaves,
                CommandReplaces,
                CommandIs, CommandEnds, CommandKeeps, CommandMoves, Using
  <2>3. HostsStay
    BY <2>1, <2>2 DEF HostsStay, Using
  <2> QED
    BY <1>1, <2>1, <2>3
<1>8. ASSUME NEW c \in Commands, CommandBorrows(c)
      PROVE Goal /\ \A u \in Turns : Held(u)
  <2>1. /\ UNCHANGED <<generation, turn>> /\ slot' = NoHost
        /\ \A d \in Commands : d /= c => cmd'[d] = cmd[d]
    BY <1>8 DEF CommandBorrows, CommandRest, CommandIs, CommandEnds, CommandKeeps
  <2>2. CASE CommandEnds(c)
    <3>1. HostsStay
      BY <2>1, <2>2 DEF HostsStay, Using, CommandEnds, CommandIs
    <3> QED
      BY <1>1, <2>1, <3>1
  <2>3. CASE slot /= NoHost /\ CommandKeeps(c, "execute", slot, cmd[c].ok, cmd[c].history)
    <3>1. CommandTakesHost(c)
      BY <2>1, <2>3 DEF CommandTakesHost, CommandKeeps, CommandIs
    <3> QED
      BY <1>1, <2>1, <3>1
  <2> QED
    BY <1>8, <2>2, <2>3 DEF CommandBorrows
<1>9. ASSUME NEW c \in Commands, CommandPutsBack(c)
      PROVE Goal /\ \A u \in Turns : Held(u)
  <2>1. UNCHANGED turn /\ CommandGivesBack(c)
    BY <1>9 DEF CommandPutsBack, CommandGivesBack, CommandRest, CommandIs, CommandEnds, CommandKeeps,
                CommandMoves, Using
  <2> QED
    BY <1>1, <2>1
<1>10. ASSUME WarmupEnds
       PROVE  Goal /\ \A t \in Turns : Held(t)
  <2>1. UNCHANGED <<slot, generation, turn, cmd>>
    BY <1>10 DEF WarmupEnds
  <2>2. HostsStay
    BY <2>1 DEF HostsStay, Using
  <2> QED
    BY <1>1, <2>1, <2>2
<1> QED
  <2> HIDE DEF Goal, Held
  <2>1. Goal /\ \A t \in Turns : Held(t)
    BY <1>3, <1>4, <1>5, <1>6, <1>7, <1>8, <1>9, <1>10, Moves
  <2> QED
    BY <2>1 DEF Goal, Held

\* Only published hosts are about.
LEMMA HostsKnownStep ==
  ASSUME Types, HostsKnown, SessionInv, Next
  PROVE  HostsKnown' /\ generation <= generation'
<1> DEFINE known(h, g) == h \in Nat /\ h <= g
<1>1. /\ generation \in Nat /\ known(slot, generation) /\ known(NoHost, generation)
      /\ \A t \in Turns : known(turn[t].host, generation)
      /\ \A c \in Commands : /\ known(cmd[c].host, generation)
                             /\ Using(c) => cmd[c].host /= NoHost
  BY HostNumbers DEF HostsKnown, NoHost
<1>2. /\ generation' \in Nat /\ generation <= generation'
      /\ \A h : known(h, generation) => known(h, generation')
      /\ generation' = generation + 1 => known(generation + 1, generation')
  <2>1. generation' = generation \/ generation' = generation + 1
    BY HostMoves DEF HostComes, HostsStay, TurnTakes, TurnGivesBack, CommandTakesHost, CommandGivesBack
  <2> QED
    BY <1>1, <2>1
<1> DEFINE AllKnown == /\ known(slot', generation')
                       /\ \A t \in Turns : known(turn'[t].host, generation')
                       /\ \A c \in Commands : known(cmd'[c].host, generation')
<1> HIDE DEF known
<1>3. AllKnown
  <2>1. CASE HostComes
    BY <1>1, <1>2, <2>1 DEF HostComes
  <2>2. CASE HostsStay
    BY <1>1, <1>2, <2>2 DEF HostsStay
  <2>3. ASSUME NEW t \in Turns, TurnTakes(t) \/ TurnGivesBack(t)
        PROVE  AllKnown
    BY <1>1, <1>2, <2>3 DEF TurnTakes, TurnGivesBack
  <2>4. ASSUME NEW c \in Commands, CommandTakesHost(c) \/ CommandGivesBack(c)
        PROVE  AllKnown
    BY <1>1, <1>2, <2>4 DEF CommandTakesHost, CommandGivesBack
  <2> QED
    BY <2>1, <2>2, <2>3, <2>4, HostMoves
<1>4. \A c \in Commands : Using(c)' => cmd'[c].host /= NoHost
  BY <1>1, HostMoves
     DEF HostComes, HostsStay, TurnTakes, TurnGivesBack, CommandTakesHost, CommandGivesBack, Using
<1> QED
  BY <1>2, <1>3, <1>4, HostMoves DEF HostsKnown, known

\* A host is in one place.
LEMMA OnePlaceStep ==
  ASSUME Types, HostsKnown, SessionInv, OnePlace, Next
  PROVE  OnePlace'
<1>0. /\ \A t \in Turns : turn[t].host /= NoHost =>
           /\ turn[t].host /= slot
           /\ \A u \in Turns : turn[u].host = turn[t].host => u = t
           /\ \A c \in Commands : Using(c) => cmd[c].host /= turn[t].host
      /\ \A c \in Commands : Using(c) =>
           /\ cmd[c].host /= slot /\ cmd[c].host /= NoHost
           /\ \A d \in Commands : Using(d) /\ cmd[d].host = cmd[c].host => d = c
  BY DEF OnePlace, HostsKnown
<1> DEFINE Apart ==
      /\ \A t \in Turns : turn'[t].host /= NoHost => turn'[t].host /= slot'
      /\ \A t, u \in Turns : turn'[t].host /= NoHost /\ turn'[u].host = turn'[t].host => u = t
      /\ \A t \in Turns, c \in Commands :
           turn'[t].host /= NoHost /\ Using(c)' => cmd'[c].host /= turn'[t].host
      /\ \A c \in Commands : Using(c)' => cmd'[c].host /= slot'
      /\ \A c, d \in Commands : Using(c)' /\ Using(d)' /\ cmd'[d].host = cmd'[c].host => d = c
<1> SUFFICES Apart
  BY DEF OnePlace
<1>1. CASE HostComes
  <2>1. /\ \A t \in Turns : turn[t].host /= generation + 1
        /\ \A c \in Commands : cmd[c].host /= generation + 1
    BY HostNumbers DEF HostsKnown
  <2>2. \A c \in Commands : Using(c)' = Using(c)
    BY <1>1 DEF HostComes, Using
  <2> QED
    BY <1>0, <1>1, <2>1, <2>2 DEF HostComes
<1>2. CASE HostsStay
  BY <1>0, <1>2 DEF HostsStay
<1>3. ASSUME NEW t \in Turns, TurnTakes(t) \/ TurnGivesBack(t)
      PROVE  Apart
  <2>1. \A c \in Commands : Using(c)' = Using(c) /\ cmd'[c] = cmd[c]
    BY <1>3 DEF TurnTakes, TurnGivesBack, Using
  <2>2. CASE TurnTakes(t)
    BY <1>0, <2>1, <2>2 DEF TurnTakes
  <2>3. CASE TurnGivesBack(t)
    BY <1>0, <2>1, <2>3 DEF TurnGivesBack
  <2> QED
    BY <1>3, <2>2, <2>3
<1>4. ASSUME NEW c \in Commands, CommandTakesHost(c) \/ CommandGivesBack(c)
      PROVE  Apart
  <2>1. \A d \in Commands : d /= c => Using(d)' = Using(d) /\ cmd'[d] = cmd[d]
    BY <1>4 DEF CommandTakesHost, CommandGivesBack, Using
  <2>2. UNCHANGED turn
    BY <1>4 DEF CommandTakesHost, CommandGivesBack
  <2>3. CASE CommandTakesHost(c)
    BY <1>0, <2>1, <2>2, <2>3 DEF CommandTakesHost
  <2>4. CASE CommandGivesBack(c)
    <3>1. ~Using(c)'
      BY <2>4 DEF CommandGivesBack, Using
    <3> QED
      BY <1>0, <2>1, <2>2, <2>4, <3>1 DEF CommandGivesBack
  <2> QED
    BY <1>4, <2>3, <2>4
<1> QED
  BY <1>1, <1>2, <1>3, <1>4, HostMoves

\* Once a command has put a host back, it has put it back for good.
LEMMA PutBackStays ==
  ASSUME Types, HostsKnown, SessionInv, Next, NEW h, PutBackByCommand(h)
  PROVE  PutBackByCommand(h)'
<1>1. PICK d \in Commands : cmd[d].host = h /\ cmd[d].at \in {"insert", "done"}
  BY DEF PutBackByCommand
<1>2. cmd'[d].host = h /\ cmd'[d].at \in {"insert", "done"}
  <2>1. ASSUME NEW c \in Commands, \/ CommandAnswers(c) \/ CommandCalls(c) \/ CommandGoesOn(c)
                                   \/ CommandBorrows(c) \/ CommandExecutes(c) \/ CommandPutsBack(c)
                                   \/ CommandSaves(c) \/ CommandReplaces(c)
        PROVE  cmd'[d].host = h /\ cmd'[d].at \in {"insert", "done"}
    BY <1>1, <2>1 DEF CommandAnswers, CommandCalls, CommandGoesOn, CommandBorrows, CommandExecutes,
                      CommandPutsBack, CommandSaves, CommandReplaces, CommandIs, CommandEnds, CommandKeeps, CommandMoves
  <2>2. ASSUME NEW t \in Turns, \/ TurnEnters(t) \/ TurnStarts(t) \/ TurnGivesUp(t) \/ TurnBorrows(t)
                                \/ WorkerConstructs(t) \/ TurnCopies(t) \/ TurnRuns(t)
                                \/ TurnRestores(t) \/ TurnSaves(t) \/ TurnFinishes(t)
        PROVE  UNCHANGED cmd
    BY <2>2 DEF TurnEnters, TurnStarts, TurnGivesUp, TurnBorrows, WorkerConstructs, TurnCopies,
                TurnRuns, TurnRestores, TurnSaves, TurnFinishes, Rest
  <2>3. ASSUME (\E a \in Actors : Flight(a)) \/ WarmupEnds PROVE UNCHANGED cmd
    BY <2>3, FlightMoves DEF WarmupEnds
  <2> QED
    BY <1>1, <2>1, <2>2, <2>3, Moves
<1> QED
  BY <1>1, <1>2 DEF PutBackByCommand


\* Only commands make the slot go back to an older host.
LEMMA OldHostsStep ==
  ASSUME Types, HostsKnown, SessionInv, OldHosts, Next
  PROVE  OldHosts'
<1>0. /\ slot \notin {NoHost, generation} => PutBackByCommand(slot)
      /\ \A t \in Turns :
           turn[t].host \notin {NoHost, turn[t].borrowed} => PutBackByCommand(turn[t].host)
  BY DEF OldHosts, OnlyCommandsGoBack
<1>1. \A h : PutBackByCommand(h) => PutBackByCommand(h)'
  BY PutBackStays
<1>2. CASE HostComes
  <2>1. slot' = generation' /\ UNCHANGED turn
    BY <1>2 DEF HostComes
  <2> QED
    BY <1>0, <1>1, <2>1 DEF OldHosts, OnlyCommandsGoBack
<1>3. CASE HostsStay
  BY <1>0, <1>1, <1>3 DEF HostsStay, OldHosts, OnlyCommandsGoBack
<1>4. ASSUME NEW t \in Turns, TurnTakes(t) PROVE OldHosts'
  BY <1>0, <1>1, <1>4 DEF TurnTakes, OldHosts, OnlyCommandsGoBack
<1>5. ASSUME NEW t \in Turns, TurnGivesBack(t) PROVE OldHosts'
  BY <1>0, <1>1, <1>5 DEF TurnGivesBack, OldHosts, OnlyCommandsGoBack
<1>6. ASSUME NEW c \in Commands, CommandTakesHost(c) PROVE OldHosts'
  BY <1>0, <1>1, <1>6 DEF CommandTakesHost, OldHosts, OnlyCommandsGoBack
<1>7. ASSUME NEW c \in Commands, CommandGivesBack(c) PROVE OldHosts'
  <2>1. PutBackByCommand(slot)'
    BY <1>7 DEF CommandGivesBack, PutBackByCommand
  <2> QED
    BY <1>0, <1>1, <1>7, <2>1 DEF CommandGivesBack, OldHosts, OnlyCommandsGoBack
<1> QED
  BY <1>2, <1>3, <1>4, <1>5, <1>6, <1>7, HostMoves

-----------------------------------------------------------------------------
(* What the hosts carry.                                                   *)

\* An execution on one host changes its permissions alone.
LEMMA PermChange ==
  ASSUME Types, NEW h \in HostIds, NEW perm \in HostType, hosts' = [hosts EXCEPT ![h].perm = perm]
  PROVE  /\ \A g \in HostIds : hosts'[g].ws = hosts[g].ws /\ hosts'[g].memory = hosts[g].memory
         /\ \A g \in HostIds : g /= h => hosts'[g].perm = hosts[g].perm
         /\ hosts'[h].perm = perm
<1>1. hosts \in [HostIds -> HostRecordType]
  BY DEF Types
<1> QED
  BY <1>1 DEF HostRecordType

\* A warmup puts a memory on the host in the slot and changes nothing else of the hosts.
LEMMA MemoryChange ==
  ASSUME Types, NEW ws \in Workspaces, hosts' = [hosts EXCEPT ![slot].memory = ws]
  PROVE  /\ \A g \in HostIds : hosts'[g].ws = hosts[g].ws /\ hosts'[g].perm = hosts[g].perm
         /\ \A g \in HostIds : g /= slot => hosts'[g].memory = hosts[g].memory
         /\ slot \in HostIds => hosts'[slot].memory = ws
<1>1. hosts \in [HostIds -> HostRecordType]
  BY DEF Types
<1> QED
  BY <1>1 DEF HostRecordType

\* A new host takes the place of none that is in use.
LEMMA NewHostChange ==
  ASSUME Types, NEW a, Published(a)
  PROVE  /\ generation + 1 \in HostIds
         /\ \A g \in HostIds : g /= generation + 1 => hosts'[g] = hosts[g]
         /\ hosts'[generation + 1].memory = Absent /\ hosts'[generation + 1].perm.pending = {}
         /\ \A v \in warming' : \/ v \in warming
                                \/ /\ v.expected = generation + 1
                                   /\ v.ws = hosts'[generation + 1].ws
<1>1. hosts \in [HostIds -> HostRecordType] /\ generation \in Nat
  BY HostNumbers DEF Types
<1>2. generation + 1 \in HostIds
  BY <1>1, DesktopAssumption DEF Published, HostIds
<1>3. PICK ws \in Workspaces :
        /\ hosts' = [hosts EXCEPT ![generation + 1] = HostRecord(ws)]
        /\ warming' = warming \union {[expected |-> generation + 1, ws |-> ws]}
  BY DEF Published
<1>4. /\ hosts'[generation + 1] = HostRecord(ws)
      /\ \A g \in HostIds : g /= generation + 1 => hosts'[g] = hosts[g]
  BY <1>1, <1>2, <1>3
<1>5. HostRecord(ws).memory = Absent /\ HostRecord(ws).ws = ws /\ HostRecord(ws).perm.pending = {}
  BY DEF HostRecord, NewHost
<1>6. hosts'[generation + 1].perm.pending = {}
  BY <1>4, <1>5
<1>7. \A v \in warming' : \/ v \in warming
                          \/ v.expected = generation + 1 /\ v.ws = hosts'[generation + 1].ws
  <2> DEFINE n == [expected |-> generation + 1, ws |-> ws]
  <2>1. n.expected = generation + 1 /\ n.ws = ws
    OBVIOUS
  <2> HIDE DEF n
  <2> QED
    BY <1>3, <1>4, <1>5, <2>1 DEF n
<1> QED
  BY <1>2, <1>4, <1>5, <1>6, <1>7

\* Every step, by what it does to the hosts, the requests and the warmups.
LEMMA GateMoves ==
  ASSUME Types, HostsKnown, SessionInv, Next
  PROVE  \/ UNCHANGED <<hosts, warming, asked, runs, generation>>
         \/ (\E a \in Actors : Published(a)) /\ UNCHANGED <<asked, runs>>
         \/ WarmupEnds
         \/ /\ UNCHANGED <<warming, generation>>
            /\ \/ \E h \in HostIds, s \in Sessions \union {Nobody} : PermStep(h, s) /\ UNCHANGED runs
               \/ \E h \in HostIds, c \in Commands : Completed(h, c)
<1> DEFINE Same == UNCHANGED <<hosts, warming, asked, runs, generation>>
           Run == /\ UNCHANGED <<warming, generation>>
                  /\ \/ \E h \in HostIds, s \in Sessions \union {Nobody} :
                          PermStep(h, s) /\ UNCHANGED runs
                     \/ \E h \in HostIds, c \in Commands : Completed(h, c)
<1>1. ASSUME NEW a \in Actors, Flight(a)
      PROVE  Same \/ ((\E b \in Actors : Published(b)) /\ UNCHANGED <<asked, runs>>)
  <2>1. UNCHANGED <<asked, runs>>
    BY <1>1, FlightMoves DEF gateVars
  <2>2. UNCHANGED hostVars \/ Published(a)
    BY <1>1, FlightMoves DEF Joins, Sleeps, Leaves, Starts, Works, Ends
  <2> QED
    BY <2>1, <2>2 DEF hostVars
<1>2. ASSUME NEW t \in Turns, \/ TurnEnters(t) \/ TurnStarts(t) \/ TurnGivesUp(t) \/ TurnBorrows(t)
                              \/ WorkerConstructs(t) \/ TurnCopies(t)
                              \/ TurnRestores(t) \/ TurnSaves(t) \/ TurnFinishes(t)
      PROVE  Same
  BY <1>2 DEF TurnEnters, TurnStarts, TurnGivesUp, TurnBorrows, WorkerConstructs, TurnCopies,
              TurnRestores, TurnSaves, TurnFinishes, Rest, hostVars, gateVars
<1>3. ASSUME NEW t \in Turns, TurnRuns(t) PROVE Same \/ Run
  <2>1. turn \in [Turns -> TurnType]
    BY DEF Types
  <2>2. turn[t].session \in Sessions \union {Nobody}
    BY <2>1 DEF TurnType
  <2> QED
    BY <1>3, <2>2 DEF TurnRuns
<1>4. ASSUME NEW c \in Commands, \/ CommandAnswers(c) \/ CommandCalls(c) \/ CommandGoesOn(c)
                                 \/ CommandBorrows(c) \/ CommandPutsBack(c) \/ CommandSaves(c) \/ CommandReplaces(c)
      PROVE  Same
  BY <1>4 DEF CommandAnswers, CommandCalls, CommandGoesOn, CommandBorrows, CommandPutsBack,
              CommandSaves, CommandReplaces, CommandRest, hostVars, gateVars
<1>5. ASSUME NEW c \in Commands, CommandExecutes(c) PROVE Same \/ Run
  <2>1. cmd[c].host \in HostIds /\ UNCHANGED <<warming, generation>>
    BY <1>5 DEF CommandExecutes
  <2>2. CASE UNCHANGED <<hosts, asked, runs>>
    BY <2>1, <2>2
  <2>3. CASE Completed(cmd[c].host, c)
    BY <2>1, <2>3
  <2>4. CASE PermStep(cmd[c].host, Nobody) /\ UNCHANGED runs
    BY <2>1, <2>4
  <2> QED
    BY <1>5, <2>2, <2>3, <2>4 DEF CommandExecutes
<1> HIDE DEF Same, Run
<1>6. Same \/ Run \/ WarmupEnds \/ ((\E a \in Actors : Published(a)) /\ UNCHANGED <<asked, runs>>)
  BY <1>1, <1>2, <1>3, <1>4, <1>5, Moves
<1> QED
  BY <1>6 DEF Same, Run

\* A memory is prepared for the workspace of the host of its generation, and is put on
\* another host only where a command has put an old one back.
LEMMA MemoriesStep ==
  ASSUME Types, HostsKnown, SessionInv, OldHosts, Memories, Next
  PROVE  Memories'
<1>0. /\ \A h \in HostIds : hosts[h].memory \notin {Absent, hosts[h].ws} => PutBackByCommand(h)
      /\ \A w \in warming : w.expected <= generation /\ hosts[w.expected].ws = w.ws
      /\ warming \in SUBSET [expected : HostIds, ws : Workspaces]
      /\ generation \in Nat /\ generation' \in Nat /\ generation <= generation'
  <2>1. generation' \in Nat
    BY HostNumbers, HostMoves
       DEF HostComes, HostsStay, TurnTakes, TurnGivesBack, CommandTakesHost, CommandGivesBack
  <2> QED
    BY <2>1, HostNumbers, HostsKnownStep DEF Memories, MemoryMatchesWorkspace, Types
<1>1. \A h : PutBackByCommand(h) => PutBackByCommand(h)'
  BY PutBackStays
<1>2. \A w \in warming : w.expected \in HostIds /\ w.expected \in Nat /\ w.expected <= generation'
  <2>1. \A w \in warming : w.expected \in HostIds /\ w.expected \in Nat
    BY <1>0 DEF HostIds
  <2> QED
    BY <1>0, <2>1
<1>3. ASSUME \A h \in HostIds : hosts'[h].ws = hosts[h].ws /\ hosts'[h].memory = hosts[h].memory,
             warming' \subseteq warming
      PROVE  Memories'
  BY <1>0, <1>1, <1>2, <1>3 DEF Memories, MemoryMatchesWorkspace
<1>4. ASSUME NEW a \in Actors, Published(a) PROVE Memories'
  <2>1. \A w \in warming : w.expected /= generation + 1
    BY <1>0, <1>2
  <2>2. generation' = generation + 1
    BY <1>4 DEF Published
  <2>3. generation + 1 \in HostIds /\ generation + 1 <= generation'
    BY <1>0, <1>4, <2>2, NewHostChange
  <2>4. /\ \A g \in HostIds : g /= generation + 1 => hosts'[g] = hosts[g]
        /\ hosts'[generation + 1].memory = Absent
        /\ \A v \in warming' : \/ v \in warming
                               \/ /\ v.expected = generation + 1
                                  /\ v.ws = hosts'[generation + 1].ws
    BY <1>4, NewHostChange
  <2>5. \A h \in HostIds : hosts'[h].memory \notin {Absent, hosts'[h].ws} => PutBackByCommand(h)'
    BY <1>0, <1>1, <2>4
  <2>6. \A v \in warming' : v.expected <= generation' /\ hosts'[v.expected].ws = v.ws
    BY <1>0, <1>2, <2>1, <2>3, <2>4
  <2> QED
    BY <2>5, <2>6 DEF Memories, MemoryMatchesWorkspace
<1>5. ASSUME WarmupEnds PROVE Memories'
  <2>1. PICK w \in warming :
          /\ warming' = warming \ {w}
          /\ \/ UNCHANGED hosts
             \/ /\ slot /= NoHost /\ generation = w.expected
                /\ hosts' = [hosts EXCEPT ![slot].memory = w.ws]
    BY <1>5, Zenon DEF WarmupEnds
  <2>2. CASE UNCHANGED hosts
    BY <1>3, <2>1, <2>2
  <2>3. CASE /\ slot /= NoHost /\ generation = w.expected
             /\ hosts' = [hosts EXCEPT ![slot].memory = w.ws]
    <3>1. /\ \A g \in HostIds : hosts'[g].ws = hosts[g].ws
          /\ \A g \in HostIds : g /= slot => hosts'[g].memory = hosts[g].memory
          /\ slot \in HostIds => hosts'[slot].memory = w.ws
      <4>1. w.ws \in Workspaces
        BY <1>0
      <4> QED
        BY <2>3, <4>1, MemoryChange
    <3>2. slot = generation => hosts[slot].ws = w.ws
      BY <1>0, <2>3
    <3>3. slot /= generation => PutBackByCommand(slot)
      BY <2>3 DEF OldHosts, OnlyCommandsGoBack
    <3>4. \A h \in HostIds : hosts'[h].memory \notin {Absent, hosts'[h].ws} => PutBackByCommand(h)'
      BY <1>0, <1>1, <3>1, <3>2, <3>3
    <3>5. \A v \in warming' : v.expected <= generation' /\ hosts'[v.expected].ws = v.ws
      BY <1>0, <1>2, <2>1, <3>1
    <3> QED
      BY <3>4, <3>5 DEF Memories, MemoryMatchesWorkspace
  <2> QED
    BY <2>1, <2>2, <2>3
<1>6. ASSUME NEW h \in HostIds, UNCHANGED warming,
             \/ \E s \in Sessions \union {Nobody} : PermStep(h, s)
             \/ \E c \in Commands : Completed(h, c)
      PROVE  Memories'
  <2>1. PICK perm \in HostType : hosts' = [hosts EXCEPT ![h].perm = perm]
    BY <1>6, Zenon DEF PermStep, Completed
  <2> QED
    BY <1>3, <1>6, <2>1, PermChange
<1> QED
  BY <1>3, <1>4, <1>5, <1>6, GateMoves

\* A request keeps its id to itself, and one that was carried out is pending nowhere.
LEMMA ApprovalStep ==
  ASSUME Types, HostsKnown, SessionInv, ApprovalInv, Next
  PROVE  ApprovalInv'
<1> DEFINE L == Len(asked)
           P(h) == hosts[h].perm.pending
           Q(h) == hosts'[h].perm.pending
<1>0. /\ L \in Nat
      /\ \A h \in HostIds : \A r \in P(h) : r.id \in Nat /\ r.id <= L /\ r.id /= L + 1
      /\ \A g, h \in HostIds : \A q \in P(g), r \in P(h) : q.id = r.id => g = h /\ q = r
      /\ \A run \in runs : run.rid \in Nat /\ run.rid <= L /\ run.rid /= L + 1
      /\ \A run \in runs, h \in HostIds : \A r \in P(h) : run.rid /= r.id
      /\ \A r1, r2 \in runs : r1.rid = r2.rid => r1 = r2
  <2>1. L \in Nat
    BY DEF Types
  <2>2. ASSUME NEW h \in HostIds, NEW r \in P(h) PROVE r.id \in Nat /\ r.id <= L
    <3>1. hosts[h].perm \in HostType
      BY DEF Types, HostRecordType
    <3>2. r.id \in Nat
      BY <3>1 DEF HostType, Requests
    <3> QED
      BY <3>2 DEF ApprovalInv, Pending
  <2>3. ASSUME NEW run \in runs PROVE run.rid \in Nat /\ run.rid <= L
    <3>1. run \in [rid : Nat, by : Commands]
      BY DEF Types
    <3> QED
      BY <3>1 DEF ApprovalInv
  <2>4. \A n \in Nat : n <= L => n /= L + 1
    BY <2>1
  <2> QED
    BY <2>1, <2>2, <2>3, <2>4 DEF ApprovalInv, Pending, ApprovalSpentOnce
<1>1. ASSUME NEW h \in HostIds, NEW new, new.id = L + 1,
             \A g \in HostIds : g /= h => Q(g) \subseteq P(g),
             \/ Len(asked') = L /\ Q(h) \subseteq P(h)
             \/ Len(asked') = L + 1 /\ Q(h) \subseteq P(h) \union {new},
             \/ UNCHANGED runs
             \/ \E req \in P(h) \ Q(h), c \in Commands : runs' = runs \union {[rid |-> req.id, by |-> c]}
      PROVE  ApprovalInv'
  <2> DEFINE M == Len(asked')
  <2>1. /\ \A n \in Nat : n <= L => n <= M
        /\ M = L + 1 => L + 1 <= M
    BY <1>0, <1>1
  <2>2. ASSUME NEW g \in HostIds, NEW r \in Q(g)
        PROVE  /\ r \in P(g) \/ (g = h /\ r = new /\ M = L + 1)
               /\ r.id <= M
    <3>1. r \in P(g) \/ (g = h /\ r = new /\ M = L + 1)
      BY <1>1
    <3> QED
      BY <1>0, <1>1, <2>1, <3>1
  <2>3. ASSUME NEW f \in HostIds, NEW g \in HostIds, NEW q \in Q(f), NEW r \in Q(g), q.id = r.id
        PROVE  f = g /\ q = r
    BY <1>0, <1>1, <2>2, <2>3
  <2>4. \A run \in runs, g \in HostIds : \A r \in Q(g) : run.rid /= r.id
    BY <1>0, <1>1, <2>2
  <2>5. \A run \in runs : run.rid <= M
    BY <1>0, <2>1
  <2>6. /\ \A run \in runs' : run.rid <= M
        /\ \A run \in runs', g \in HostIds : \A r \in Q(g) : run.rid /= r.id
        /\ \A r1, r2 \in runs' : r1.rid = r2.rid => r1 = r2
    <3>1. CASE UNCHANGED runs
      BY <1>0, <2>4, <2>5, <3>1
    <3>2. ASSUME NEW req \in P(h) \ Q(h), NEW c \in Commands,
                 runs' = runs \union {[rid |-> req.id, by |-> c]}
          PROVE  /\ \A run \in runs' : run.rid <= M
                 /\ \A run \in runs', g \in HostIds : \A r \in Q(g) : run.rid /= r.id
                 /\ \A r1, r2 \in runs' : r1.rid = r2.rid => r1 = r2
      <4> DEFINE n == [rid |-> req.id, by |-> c]
      <4>1. n.rid = req.id /\ req.id <= M
        BY <1>0, <2>1
      <4>2. runs' = runs \union {n}
        BY <3>2
      <4> HIDE DEF n
      <4>3. \A run \in runs : run.rid /= n.rid
        BY <1>0, <4>1
      <4>4. ASSUME NEW g \in HostIds, NEW r \in Q(g) PROVE n.rid /= r.id
        <5>1. CASE r \in P(g)
          BY <1>0, <4>1, <5>1
        <5>2. CASE r = new
          BY <1>0, <1>1, <4>1, <5>2
        <5> QED
          BY <2>2, <5>1, <5>2
      <4> QED
        BY <1>0, <2>4, <2>5, <4>1, <4>2, <4>3, <4>4
    <3> QED
      BY <1>1, <3>1, <3>2
  <2>7. \A g \in HostIds : Pending(g)' = Q(g)
    BY DEF Pending
  <2> HIDE DEF Q
  <2> QED
    BY <2>2, <2>3, <2>6, <2>7 DEF ApprovalInv, ApprovalSpentOnce
<1>2. ASSUME \A g \in HostIds : Q(g) \subseteq P(g), UNCHANGED <<asked, runs>>
      PROVE  ApprovalInv'
  BY <1>0, <1>2 DEF ApprovalInv, ApprovalSpentOnce, Pending
<1>3. ASSUME NEW a \in Actors, Published(a), UNCHANGED <<asked, runs>> PROVE ApprovalInv'
  BY <1>2, <1>3, NewHostChange
<1>4. ASSUME WarmupEnds PROVE ApprovalInv'
  <2>1. PICK w \in warming : UNCHANGED hosts \/ hosts' = [hosts EXCEPT ![slot].memory = w.ws]
    BY <1>4, Zenon DEF WarmupEnds
  <2>2. w.ws \in Workspaces
    BY DEF Types
  <2>3. UNCHANGED <<asked, runs>>
    BY <1>4 DEF WarmupEnds, gateVars
  <2> QED
    BY <1>2, <2>1, <2>2, <2>3, MemoryChange
<1>5. ASSUME NEW call, NEW s
      PROVE  [id |-> L + 1, call |-> call].id = L + 1 /\ Len(Append(asked, s)) = L + 1
  BY DEF Types
<1>6. ASSUME NEW h \in HostIds, NEW s \in Sessions \union {Nobody}, PermStep(h, s), UNCHANGED runs
      PROVE  ApprovalInv'
  <2>1. PICK perm \in HostType, call \in Calls :
          /\ hosts' = [hosts EXCEPT ![h].perm = perm]
          /\ \/ asked' = asked /\ perm.pending \subseteq Pending(h)
             \/ /\ asked' = Append(asked, s)
                /\ perm.pending \subseteq Pending(h) \union {[id |-> Len(asked) + 1, call |-> call]}
    BY <1>6, Zenon DEF PermStep
  <2> DEFINE new == [id |-> L + 1, call |-> call]
  <2>2. new.id = L + 1
    OBVIOUS
  <2>3. (\A g \in HostIds : g /= h => Q(g) = P(g)) /\ Q(h) = perm.pending /\ Pending(h) = P(h)
    BY <2>1, PermChange DEF Pending
  <2>4. \/ Len(asked') = L /\ Q(h) \subseteq P(h)
        \/ Len(asked') = L + 1 /\ Q(h) \subseteq P(h) \union {new}
    <3> HIDE DEF P, Q
    <3> QED
      BY <2>1, <2>3 DEF Types
  <2> HIDE DEF new, P, Q
  <2> QED
    BY <1>1, <1>6, <2>2, <2>3, <2>4
<1>7. ASSUME NEW h \in HostIds, NEW c \in Commands, Completed(h, c)
      PROVE  ApprovalInv'
  <2>1. PICK perm \in HostType, call \in Calls, req \in Pending(h) :
          /\ hosts' = [hosts EXCEPT ![h].perm = perm]
          /\ req.id = cmd[c].rid
          /\ \/ asked' = asked /\ perm.pending \subseteq Pending(h) \ {req}
             \/ /\ asked' = Append(asked, cmd[c].session)
                /\ perm.pending \subseteq
                     (Pending(h) \ {req}) \union {[id |-> Len(asked) + 1, call |-> call]}
          /\ runs' \in {runs, runs \union {[rid |-> cmd[c].rid, by |-> c]}}
    BY <1>7, Zenon DEF Completed
  <2> DEFINE new == [id |-> L + 1, call |-> call]
  <2>2. new.id = L + 1
    OBVIOUS
  <2>3. (\A g \in HostIds : g /= h => Q(g) = P(g)) /\ Q(h) = perm.pending /\ Pending(h) = P(h)
    BY <2>1, PermChange DEF Pending
  <2>4. \/ Len(asked') = L /\ Q(h) \subseteq P(h) \ {req}
        \/ Len(asked') = L + 1 /\ Q(h) \subseteq (P(h) \ {req}) \union {new}
    <3> HIDE DEF P, Q
    <3> QED
      BY <2>1, <2>3 DEF Types
  <2>5. req \in P(h) /\ req /= new
    BY <1>0, <2>2, <2>3
  <2> HIDE DEF new, P, Q
  <2>6. req \in P(h) \ Q(h)
    BY <2>4, <2>5
  <2>7. runs' = runs \/ runs' = runs \union {[rid |-> req.id, by |-> c]}
    BY <2>1
  <2> QED
    BY <1>1, <2>2, <2>3, <2>4, <2>6, <2>7
<1> QED
  BY <1>2, <1>3, <1>4, <1>6, <1>7, GateMoves
-----------------------------------------------------------------------------
(* Histories.                                                              *)

\* How far a turn is says what it has written.
LEMMA TurnShapeStep ==
  ASSUME Types, HostsKnown, SessionInv, TurnShape, Next
  PROVE  TurnShape'
<1> USE DEF TurnIs, TurnMoves, TurnReturns, TurnKeeps
<1> DEFINE Shape(x, t) == /\ x.at \in {"settle", "insert"} => t \in x.history
                          /\ x.saved => x.at \in {"finishing", "done"} /\ x.session \in Sessions
<1>0. \A t \in Turns : Shape(turn[t], t)
  BY DEF TurnShape
<1>1. ASSUME NEW t \in Turns, \A u \in Turns : u /= t => turn'[u] = turn[u], Shape(turn'[t], t)
      PROVE  TurnShape'
  BY <1>0, <1>1 DEF TurnShape
<1>2. UNCHANGED turn => TurnShape'
  BY <1>0 DEF TurnShape
<1>3. ASSUME NEW t \in Turns, TurnEnters(t) \/ TurnStarts(t) \/ TurnGivesUp(t) \/ TurnBorrows(t)
                              \/ WorkerConstructs(t)
      PROVE  TurnShape'
  <2>1. /\ \A u \in Turns : u /= t => turn'[u] = turn[u]
        /\ turn'[t] = turn[t] \/ turn'[t].at \notin {"settle", "insert"}
    BY <1>3 DEF TurnEnters, TurnStarts, TurnGivesUp, TurnBorrows, WorkerConstructs
  <2>2. turn'[t] = turn[t] \/ (turn'[t].saved => turn[t].saved)
    BY <1>3 DEF TurnEnters, TurnStarts, TurnGivesUp, TurnBorrows, WorkerConstructs
  <2>3. turn[t].at \in {"idle", "admitted", "waiting", "constructed", "settle"}
          => ~turn[t].saved
    BY <1>0
  <2>4. turn'[t] = turn[t] \/ ~turn'[t].saved
    BY <1>3, <2>2, <2>3 DEF TurnEnters, TurnStarts, TurnGivesUp, TurnBorrows, WorkerConstructs
  <2> QED
    BY <1>0, <1>1, <2>1, <2>4
<1>4. ASSUME NEW t \in Turns, TurnCopies(t) \/ TurnRuns(t) \/ TurnRestores(t) PROVE TurnShape'
  <2>1. \A u \in Turns : u /= t => turn'[u] = turn[u]
    BY <1>4 DEF TurnCopies, TurnRuns, TurnRestores
  <2>2. ~turn'[t].saved
    BY <1>0, <1>4 DEF TurnCopies, TurnRuns, TurnRestores
  <2>3. turn'[t].at \in {"settle", "insert"} => t \in turn'[t].history
    BY <1>0, <1>4 DEF TurnCopies, TurnRuns, TurnRestores
  <2> QED
    BY <1>1, <2>1, <2>2, <2>3
<1>5. ASSUME NEW t \in Turns, TurnSaves(t) \/ TurnFinishes(t) PROVE TurnShape'
  <2>1. turn[t].session \in Sessions
    BY <1>5 DEF TurnSaves, TurnFinishes, SessionInv, Owned, Active
  <2>2. /\ \A u \in Turns : u /= t => turn'[u] = turn[u]
        /\ turn'[t].at \in {"finishing", "done"} /\ turn'[t].session = turn[t].session
    BY <1>5 DEF TurnSaves, TurnFinishes
  <2> QED
    BY <1>1, <2>1, <2>2
<1>6. ASSUME NEW c \in Commands, \/ CommandAnswers(c) \/ CommandCalls(c) \/ CommandGoesOn(c)
                                 \/ CommandBorrows(c) \/ CommandExecutes(c) \/ CommandPutsBack(c)
                                 \/ CommandSaves(c) \/ CommandReplaces(c)
      PROVE  UNCHANGED turn
  BY <1>6 DEF CommandAnswers, CommandCalls, CommandGoesOn, CommandBorrows, CommandExecutes,
              CommandPutsBack, CommandSaves, CommandReplaces, CommandRest
<1>7. ASSUME (\E a \in Actors : Flight(a)) \/ WarmupEnds PROVE UNCHANGED turn
  BY <1>7, FlightMoves DEF WarmupEnds
<1> QED
  BY <1>2, <1>3, <1>4, <1>5, <1>6, <1>7, Moves

\* And so does how far a command is.
LEMMA CommandShapeStep ==
  ASSUME Types, HostsKnown, SessionInv, CommandShape, Next
  PROVE  CommandShape'
<1> USE DEF CommandIs, CommandEnds, CommandKeeps, CommandMoves
<1> DEFINE Shape(x, c) ==
      /\ x.at \in {"idle", "ensuring"} \/ x.kind /= "approve" => x.session = Nobody
      /\ x.at \in {"idle", "ensuring", "take", "execute"} => ~x.ok
      /\ x.at = "put back" /\ x.ok /\ x.session /= Nobody => c \in x.history
      /\ x.at = "insert" => x.ok /\ x.session /= Nobody /\ c \in x.history
<1>0. \A c \in Commands : Shape(cmd[c], c)
  BY DEF CommandShape
<1>1. ASSUME NEW c \in Commands, \A d \in Commands : d /= c => cmd'[d] = cmd[d], Shape(cmd'[c], c)
      PROVE  CommandShape'
  BY <1>0, <1>1 DEF CommandShape
<1>2. UNCHANGED cmd => CommandShape'
  BY <1>0 DEF CommandShape
<1>3. ASSUME NEW c \in Commands, \/ CommandAnswers(c) \/ CommandCalls(c) \/ CommandGoesOn(c)
                                 \/ CommandBorrows(c) \/ CommandExecutes(c) \/ CommandPutsBack(c)
                                 \/ CommandSaves(c) \/ CommandReplaces(c)
      PROVE  CommandShape'
  <2>1. \A d \in Commands : d /= c => cmd'[d] = cmd[d]
    BY <1>3 DEF CommandAnswers, CommandCalls, CommandGoesOn, CommandBorrows, CommandExecutes,
                CommandPutsBack, CommandSaves, CommandReplaces
  <2>2. Shape(cmd[c], c)
    BY <1>0
  <2>3. Shape(cmd'[c], c)
    <3>1. CASE CommandAnswers(c)
      BY <3>1 DEF CommandAnswers
    <3>2. CASE CommandCalls(c)
      BY <2>2, <3>2 DEF CommandCalls
    <3>3. CASE CommandGoesOn(c)
      BY <2>2, <3>3 DEF CommandGoesOn
    <3>4. CASE CommandBorrows(c)
      BY <2>2, <3>4 DEF CommandBorrows
    <3>5. CASE CommandExecutes(c)
      BY <2>2, <3>5 DEF CommandExecutes
    <3>6. CASE CommandPutsBack(c)
      BY <2>2, <3>6 DEF CommandPutsBack
    <3>7. CASE CommandSaves(c)
      BY <2>2, <3>7 DEF CommandSaves
    <3>8. CASE CommandReplaces(c)
      BY <2>2, <3>8 DEF CommandReplaces
    <3> QED
      BY <1>3, <3>1, <3>2, <3>3, <3>4, <3>5, <3>6, <3>7, <3>8
  <2> QED
    BY <1>1, <2>1, <2>3
<1>4. ASSUME NEW t \in Turns, \/ TurnEnters(t) \/ TurnStarts(t) \/ TurnGivesUp(t) \/ TurnBorrows(t)
                              \/ WorkerConstructs(t) \/ TurnCopies(t) \/ TurnRuns(t)
                              \/ TurnRestores(t) \/ TurnSaves(t) \/ TurnFinishes(t)
      PROVE  UNCHANGED cmd
  BY <1>4 DEF TurnEnters, TurnStarts, TurnGivesUp, TurnBorrows, WorkerConstructs, TurnCopies,
              TurnRuns, TurnRestores, TurnSaves, TurnFinishes, Rest
<1>5. ASSUME (\E a \in Actors : Flight(a)) \/ WarmupEnds PROVE UNCHANGED cmd
  BY <1>5, FlightMoves DEF WarmupEnds
<1> QED
  BY <1>2, <1>3, <1>4, <1>5, Moves

\* What a step does to the histories and their copies: nothing that loses anything, or
\* an actor copies one, or it writes its copy over one, or a transcript replaces one.
Kept ==
  /\ UNCHANGED histories /\ disturbed \subseteq disturbed'
  /\ \A s \in Sessions : /\ Saved(s)' \subseteq Saved(s)
                         /\ \A b \in Rewriting(s)' : b \in Rewriting(s) /\ Copy(b) \subseteq Copy(b)'

Copying(a, s) ==
  /\ UNCHANGED histories /\ MarkOverlap(a, s) /\ Copy(a)' = histories[s]
  /\ \A r \in Sessions :
       /\ Saved(r)' \subseteq Saved(r)
       /\ \A b \in Rewriting(r)' : \/ a = b /\ r = s
                                   \/ b \in Rewriting(r) /\ Copy(b) \subseteq Copy(b)'

Saving(a, s) ==
  /\ a \in Rewriting(s) /\ a \in Copy(a)
  /\ histories' = [histories EXCEPT ![s] = Copy(a)] /\ UNCHANGED disturbed
  /\ \A r \in Sessions :
       /\ Saved(r)' \subseteq IF r = s THEN Saved(r) \union {a} ELSE Saved(r)
       /\ \A b \in Rewriting(r)' :
            /\ b \in Rewriting(r) /\ b /= a
            /\ Copy(b) \subseteq Copy(b)'

Replacing(s) ==
  /\ \E messages \in SUBSET Actors :
       /\ histories' = [histories EXCEPT ![s] = messages]
       /\ disturbed' = disturbed \union (histories[s] \ messages)
  /\ \A r \in Sessions : /\ Saved(r)' \subseteq Saved(r)
                         /\ \A b \in Rewriting(r)' : b \in Rewriting(r) /\ Copy(b) = Copy(b)'

\* A turn that neither copies nor writes.
LEMMA TurnKeepsCopy ==
  ASSUME NEW t \in Turns, \A u \in Turns : u /= t => turn'[u] = turn[u],
         UNCHANGED <<cmd, histories>>, disturbed \subseteq disturbed',
         turn'[t].at \in {"running", "settle", "insert"}
           => /\ turn[t].at \in {"running", "settle", "insert"}
              /\ turn'[t].session = turn[t].session /\ turn[t].history \subseteq turn'[t].history,
         turn'[t].saved => turn[t].saved /\ turn'[t].session = turn[t].session
  PROVE  Kept
<1> SUFFICES ASSUME NEW s \in Sessions
             PROVE  /\ Saved(s)' \subseteq Saved(s)
                    /\ \A b \in Rewriting(s)' : b \in Rewriting(s) /\ Copy(b) \subseteq Copy(b)'
  BY DEF Kept
<1>1. Saved(s)' \subseteq Saved(s)
  BY DEF Saved
<1>2. ASSUME NEW b \in Rewriting(s)' PROVE b \in Rewriting(s) /\ Copy(b) \subseteq Copy(b)'
  <2>1. CASE b = t
    BY <1>2, <2>1, DesktopAssumption DEF Rewriting, Copy
  <2>2. CASE b /= t
    BY <1>2, <2>2 DEF Rewriting, Copy
  <2> QED
    BY <2>1, <2>2
<1> QED
  BY <1>1, <1>2

\* A command that neither copies nor writes.
LEMMA CommandKeepsCopy ==
  ASSUME NEW c \in Commands, \A d \in Commands : d /= c => cmd'[d] = cmd[d],
         UNCHANGED <<turn, histories>>, disturbed \subseteq disturbed',
         cmd'[c].at \in {"take", "execute", "put back", "insert"} /\ cmd'[c].session \in Sessions
           => /\ cmd[c].at \in {"take", "execute", "put back", "insert"}
              /\ cmd'[c].session = cmd[c].session /\ cmd[c].history \subseteq cmd'[c].history,
         cmd'[c].at = "done" /\ cmd'[c].ok /\ cmd'[c].session \in Sessions
           => cmd[c].at = "done" /\ cmd[c].ok /\ cmd[c].session = cmd'[c].session
  PROVE  Kept
<1> SUFFICES ASSUME NEW s \in Sessions
             PROVE  /\ Saved(s)' \subseteq Saved(s)
                    /\ \A b \in Rewriting(s)' : b \in Rewriting(s) /\ Copy(b) \subseteq Copy(b)'
  BY DEF Kept
<1>1. Saved(s)' \subseteq Saved(s)
  BY DEF Saved
<1>2. ASSUME NEW b \in Rewriting(s)' PROVE b \in Rewriting(s) /\ Copy(b) \subseteq Copy(b)'
  <2>1. CASE b = c
    BY <1>2, <2>1, DesktopAssumption DEF Rewriting, Copy
  <2>2. CASE b /= c
    BY <1>2, <2>2 DEF Rewriting, Copy
  <2> QED
    BY <2>1, <2>2
<1> QED
  BY <1>1, <1>2

\* Every step is one of the four.
LEMMA HistoryMoves ==
  ASSUME Types, HostsKnown, SessionInv, CommandShape, TurnShape, Next
  PROVE  \/ Kept
         \/ \E a \in Actors, s \in Sessions : Copying(a, s)
         \/ \E a \in Actors, s \in Sessions : Saving(a, s)
         \/ \E s \in Sessions : Replacing(s)
<1>0. Turns \intersect Commands = {} /\ Turns \subseteq Actors /\ Commands \subseteq Actors
      /\ Nobody \notin Sessions
  BY DesktopAssumption DEF Actors
<1>1. ASSUME UNCHANGED <<turn, cmd, histories, disturbed>> PROVE Kept
  BY <1>1 DEF Kept, Saved, Rewriting, Copy
<1>2. ASSUME (\E a \in Actors : Flight(a)) \/ WarmupEnds PROVE Kept
  BY <1>1, <1>2, FlightMoves DEF WarmupEnds
<1>3. ASSUME NEW t \in Turns, \/ TurnEnters(t) \/ TurnStarts(t) \/ TurnGivesUp(t) \/ TurnBorrows(t)
                              \/ WorkerConstructs(t) \/ TurnRuns(t) \/ TurnRestores(t)
                              \/ TurnFinishes(t)
      PROVE  Kept
  <2> USE DEF TurnIs, TurnMoves, TurnReturns, TurnKeeps
  <2>1. UNCHANGED <<cmd, histories, disturbed>>
    BY <1>3 DEF TurnEnters, TurnStarts, TurnGivesUp, TurnBorrows, WorkerConstructs, TurnRuns,
                TurnRestores, TurnFinishes, Rest
  <2>2. \A u \in Turns : u /= t => turn'[u] = turn[u]
    BY <1>3 DEF TurnEnters, TurnStarts, TurnGivesUp, TurnBorrows, WorkerConstructs, TurnRuns,
                TurnRestores, TurnFinishes
  <2>3. turn'[t].at \in {"running", "settle", "insert"}
          => /\ turn[t].at \in {"running", "settle", "insert"}
             /\ turn'[t].session = turn[t].session /\ turn[t].history \subseteq turn'[t].history
    BY <1>3 DEF TurnEnters, TurnStarts, TurnGivesUp, TurnBorrows, WorkerConstructs, TurnRuns,
                TurnRestores, TurnFinishes
  <2>4. turn[t].at = "idle" => ~turn[t].saved
    BY DEF TurnShape
  <2>5. turn'[t].saved => turn[t].saved /\ turn'[t].session = turn[t].session
    BY <1>3, <2>4 DEF TurnEnters, TurnStarts, TurnGivesUp, TurnBorrows, WorkerConstructs, TurnRuns,
                      TurnRestores, TurnFinishes
  <2> HIDE DEF TurnIs, TurnMoves, TurnReturns, TurnKeeps
  <2> QED
    BY <2>1, <2>2, <2>3, <2>5, TurnKeepsCopy
<1>4. ASSUME NEW t \in Turns, TurnCopies(t) PROVE \E s \in Sessions : Copying(t, s)
  <2> DEFINE s == turn[t].session
  <2>1. s \in Sessions /\ ~turn[t].saved
    BY <1>4 DEF TurnCopies, SessionInv, Owned, Active, TurnShape
  <2>2. /\ \A u \in Turns : u /= t => turn'[u] = turn[u]
        /\ turn'[t].session = s /\ turn'[t].history = histories[s] /\ turn'[t].saved = turn[t].saved
        /\ UNCHANGED <<cmd, histories>> /\ MarkOverlap(t, s)
    BY <1>4 DEF TurnCopies, TurnIs, TurnKeeps
  <2>3. Copy(t)' = histories[s]
    BY <2>2 DEF Copy
  <2>4. ASSUME NEW r \in Sessions PROVE Saved(r)' \subseteq Saved(r)
    BY <2>1, <2>2 DEF Saved
  <2>5. ASSUME NEW r \in Sessions, NEW b \in Rewriting(r)'
        PROVE  \/ t = b /\ r = s
               \/ b \in Rewriting(r) /\ Copy(b) \subseteq Copy(b)'
    <3>1. CASE b = t
      BY <1>0, <2>2, <2>5, <3>1 DEF Rewriting
    <3>2. CASE b /= t
      BY <2>2, <2>5, <3>2 DEF Rewriting, Copy
    <3> QED
      BY <3>1, <3>2
  <2>6. Copying(t, s)
    BY <2>2, <2>3, <2>4, <2>5 DEF Copying
  <2> QED
    BY <2>1, <2>6
<1>5. ASSUME NEW t \in Turns, TurnSaves(t) PROVE \E s \in Sessions : Saving(t, s)
  <2> DEFINE s == turn[t].session
  <2>1. s \in Sessions /\ t \in turn[t].history /\ turn[t].at = "insert"
    BY <1>5 DEF TurnSaves, SessionInv, Owned, Active, TurnShape
  <2>2. /\ \A u \in Turns : u /= t => turn'[u] = turn[u]
        /\ turn'[t].session = s /\ turn'[t].at = "finishing"
        /\ UNCHANGED <<cmd, disturbed>>
        /\ histories' = [histories EXCEPT ![s] = turn[t].history]
    BY <1>5 DEF TurnSaves, TurnIs, TurnReturns
  <2>3. t \in Rewriting(s) /\ Copy(t) = turn[t].history
    BY <2>1 DEF Rewriting, Copy
  <2>4. ASSUME NEW r \in Sessions
        PROVE  Saved(r)' \subseteq IF r = s THEN Saved(r) \union {t} ELSE Saved(r)
    BY <2>2 DEF Saved
  <2>5. ASSUME NEW r \in Sessions, NEW b \in Rewriting(r)'
        PROVE  b \in Rewriting(r) /\ b /= t /\ Copy(b) \subseteq Copy(b)'
    <3>1. b /= t
      BY <1>0, <2>2, <2>5 DEF Rewriting
    <3> QED
      BY <2>2, <2>5, <3>1 DEF Rewriting, Copy
  <2>6. Saving(t, s)
    BY <2>1, <2>2, <2>3, <2>4, <2>5 DEF Saving
  <2> QED
    BY <2>1, <2>6
<1>6. ASSUME NEW c \in Commands, \/ CommandCalls(c) \/ CommandGoesOn(c) \/ CommandBorrows(c)
                                 \/ CommandExecutes(c) \/ CommandPutsBack(c)
      PROVE  Kept
  <2> USE DEF CommandIs, CommandEnds, CommandKeeps, CommandMoves
  <2>0. /\ cmd[c].at \in {"idle", "ensuring"} => cmd[c].session = Nobody
        /\ cmd[c].at \in {"idle", "ensuring", "take", "execute"} => ~cmd[c].ok
    BY DEF CommandShape
  <2>1. UNCHANGED <<turn, histories, disturbed>>
    BY <1>6 DEF CommandCalls, CommandGoesOn, CommandBorrows, CommandExecutes, CommandPutsBack,
                CommandRest
  <2>2. \A d \in Commands : d /= c => cmd'[d] = cmd[d]
    BY <1>6 DEF CommandCalls, CommandGoesOn, CommandBorrows, CommandExecutes, CommandPutsBack
  <2>3. cmd'[c].at \in {"take", "execute", "put back", "insert"} /\ cmd'[c].session \in Sessions
           => /\ cmd[c].at \in {"take", "execute", "put back", "insert"}
              /\ cmd'[c].session = cmd[c].session /\ cmd[c].history \subseteq cmd'[c].history
    BY <1>0, <1>6, <2>0
       DEF CommandCalls, CommandGoesOn, CommandBorrows, CommandExecutes, CommandPutsBack
  <2>4. cmd'[c].at = "done" /\ cmd'[c].ok /\ cmd'[c].session \in Sessions
           => cmd[c].at = "done" /\ cmd[c].ok /\ cmd[c].session = cmd'[c].session
    BY <1>0, <1>6, <2>0
       DEF CommandCalls, CommandGoesOn, CommandBorrows, CommandExecutes, CommandPutsBack
  <2> HIDE DEF CommandIs, CommandEnds, CommandKeeps, CommandMoves
  <2> QED
    BY <2>1, <2>2, <2>3, <2>4, CommandKeepsCopy
<1>7. ASSUME NEW c \in Commands, CommandAnswers(c)
      PROVE  Kept \/ \E s \in Sessions : Copying(c, s)
  <2>1. PICK s \in Sessions \union {Nobody} :
          /\ CommandIs(c, "take", s, "approve", NoHost, FALSE, IF s = Nobody THEN {} ELSE histories[s])
          /\ IF s = Nobody THEN UNCHANGED disturbed ELSE MarkOverlap(c, s)
    BY <1>7 DEF CommandAnswers
  <2>2. /\ \A d \in Commands : d /= c => cmd'[d] = cmd[d]
        /\ cmd'[c].at = "take" /\ cmd'[c].session = s
        /\ cmd'[c].history = IF s = Nobody THEN {} ELSE histories[s]
        /\ UNCHANGED <<turn, histories>> /\ cmd[c].at = "idle"
    BY <1>7, <2>1 DEF CommandAnswers, CommandIs
  <2>3. CASE s = Nobody
    BY <1>0, <2>1, <2>2, <2>3, CommandKeepsCopy
  <2>4. CASE s /= Nobody
    <3>1. s \in Sessions /\ cmd'[c].history = histories[s] /\ MarkOverlap(c, s)
      BY <2>1, <2>2, <2>4
    <3>2. Copy(c)' = histories[s]
      BY <1>0, <2>2, <3>1 DEF Copy
    <3>3. ASSUME NEW r \in Sessions PROVE Saved(r)' \subseteq Saved(r)
      BY <2>2 DEF Saved
    <3>4. ASSUME NEW r \in Sessions, NEW b \in Rewriting(r)'
          PROVE  \/ c = b /\ r = s
                 \/ b \in Rewriting(r) /\ Copy(b) \subseteq Copy(b)'
      <4>1. CASE b = c
        BY <1>0, <2>2, <3>4, <4>1 DEF Rewriting
      <4>2. CASE b /= c
        BY <2>2, <3>4, <4>2 DEF Rewriting, Copy
      <4> QED
        BY <4>1, <4>2
    <3>5. Copying(c, s)
      BY <2>2, <3>1, <3>2, <3>3, <3>4 DEF Copying
    <3> QED
      BY <3>1, <3>5
  <2> QED
    BY <2>3, <2>4
<1>8. ASSUME NEW c \in Commands, CommandSaves(c) PROVE \E s \in Sessions : Saving(c, s)
  <2> DEFINE s == cmd[c].session
  <2>1. s \in Sessions /\ c \in cmd[c].history /\ cmd[c].at = "insert"
    <3>1. cmd \in [Commands -> CommandType]
      BY DEF Types
    <3>2. s \in Sessions \union {Nobody}
      BY <3>1 DEF CommandType
    <3> QED
      BY <1>8, <3>2 DEF CommandSaves, CommandShape
  <2>2. /\ \A d \in Commands : d /= c => cmd'[d] = cmd[d]
        /\ cmd'[c].session = s /\ cmd'[c].at = "done"
        /\ UNCHANGED <<turn, disturbed>>
        /\ histories' = [histories EXCEPT ![s] = cmd[c].history]
    BY <1>8 DEF CommandSaves, CommandIs, CommandEnds
  <2>3. c \in Rewriting(s) /\ Copy(c) = cmd[c].history
    BY <1>0, <2>1 DEF Rewriting, Copy
  <2>4. ASSUME NEW r \in Sessions
        PROVE  Saved(r)' \subseteq IF r = s THEN Saved(r) \union {c} ELSE Saved(r)
    BY <2>2 DEF Saved
  <2>5. ASSUME NEW r \in Sessions, NEW b \in Rewriting(r)'
        PROVE  b \in Rewriting(r) /\ b /= c /\ Copy(b) \subseteq Copy(b)'
    <3>1. b /= c
      BY <1>0, <2>2, <2>5 DEF Rewriting
    <3> QED
      BY <2>2, <2>5, <3>1 DEF Rewriting, Copy
  <2>6. Saving(c, s)
    BY <2>1, <2>2, <2>3, <2>4, <2>5 DEF Saving
  <2> QED
    BY <2>1, <2>6
<1>9. ASSUME NEW c \in Commands, CommandReplaces(c) PROVE \E s \in Sessions : Replacing(s)
  <2>1. /\ \A d \in Commands : d /= c => cmd'[d] = cmd[d]
        /\ cmd'[c].at = "done" /\ cmd'[c].session = cmd[c].session /\ cmd[c].at = "idle"
        /\ UNCHANGED turn
    BY <1>9 DEF CommandReplaces, CommandIs, CommandEnds
  <2>2. cmd'[c].session = Nobody
    BY <2>1 DEF CommandShape
  <2>3. ASSUME NEW r \in Sessions PROVE Saved(r)' \subseteq Saved(r)
    BY <1>0, <2>1, <2>2 DEF Saved
  <2>4. ASSUME NEW r \in Sessions, NEW b \in Rewriting(r)'
        PROVE  b \in Rewriting(r) /\ Copy(b) = Copy(b)'
    <3>1. b /= c
      BY <1>0, <2>1, <2>4 DEF Rewriting
    <3> QED
      BY <2>1, <2>4, <3>1 DEF Rewriting, Copy
  <2>5. PICK s \in Sessions, messages \in SUBSET Actors :
          /\ histories' = [histories EXCEPT ![s] = messages]
          /\ disturbed' = disturbed \union (histories[s] \ messages)
    BY <1>9 DEF CommandReplaces
  <2>6. Replacing(s)
    BY <2>3, <2>4, <2>5 DEF Replacing
  <2> QED
    BY <2>6
<1> QED
  BY <1>0, <1>2, <1>3, <1>4, <1>5, <1>6, <1>7, <1>8, <1>9, Moves

\* Whoever copies a history while another has a copy is marked, and so is the other.
LEMMA OverlapsStep ==
  ASSUME Types, HostsKnown, SessionInv, CommandShape, TurnShape, Overlaps, Next
  PROVE  Overlaps'
<1>0. \A s \in Sessions : \A a, b \in Rewriting(s) : a /= b => a \in disturbed
  BY DEF Overlaps
<1>1. CASE Kept
  BY <1>0, <1>1 DEF Kept, Overlaps
<1>2. ASSUME NEW x \in Actors, NEW s \in Sessions, Copying(x, s) PROVE Overlaps'
  <2>1. disturbed \subseteq disturbed' /\ (Rewriting(s) /= {} => Rewriting(s) \union {x} \subseteq disturbed')
    BY <1>2 DEF Copying, MarkOverlap
  <2>2. \A r \in Sessions : \A b \in Rewriting(r)' : (b = x /\ r = s) \/ b \in Rewriting(r)
    BY <1>2 DEF Copying
  <2>3. ASSUME NEW r \in Sessions, NEW a \in Rewriting(r)', NEW b \in Rewriting(r)', a /= b
        PROVE  a \in disturbed'
    BY <1>0, <2>1, <2>2, <2>3
  <2> QED
    BY <2>3 DEF Overlaps
<1>3. ASSUME NEW x \in Actors, NEW s \in Sessions, Saving(x, s) PROVE Overlaps'
  BY <1>0, <1>3 DEF Saving, Overlaps
<1>4. ASSUME NEW s \in Sessions, Replacing(s) PROVE Overlaps'
  BY <1>0, <1>4 DEF Replacing, Overlaps
<1> QED
  BY <1>1, <1>2, <1>3, <1>4, HistoryMoves

\* Nothing that was saved is lost but by an overlap or a transcript.
LEMMA HistoryStep ==
  ASSUME Types, HostsKnown, SessionInv, CommandShape, TurnShape, Overlaps, HistoryInv, Next
  PROVE  HistoryInv'
<1>0. /\ \A s \in Sessions : \A a \in Saved(s) \ disturbed :
           a \in histories[s] /\ \A b \in Rewriting(s) : a \in Copy(b)
      /\ histories \in [Sessions -> SUBSET Actors]
  BY DEF HistoryInv, Types
<1>1. CASE Kept
  BY <1>0, <1>1 DEF Kept, HistoryInv
<1>2. ASSUME NEW x \in Actors, NEW s \in Sessions, Copying(x, s) PROVE HistoryInv'
  <2>1. disturbed \subseteq disturbed'
    BY <1>2 DEF Copying, MarkOverlap
  <2>2. ASSUME NEW r \in Sessions, NEW a \in Saved(r)' \ disturbed'
        PROVE  a \in histories'[r] /\ \A b \in Rewriting(r)' : a \in Copy(b)'
    BY <1>0, <1>2, <2>1 DEF Copying
  <2> QED
    BY <2>2 DEF HistoryInv
<1>3. ASSUME NEW x \in Actors, NEW s \in Sessions, Saving(x, s) PROVE HistoryInv'
  <2>1. histories'[s] = Copy(x) /\ \A r \in Sessions : r /= s => histories'[r] = histories[r]
    BY <1>0, <1>3 DEF Saving
  <2>2. x \notin disturbed => \A b \in Rewriting(s) : b = x
    BY <1>3 DEF Saving, Overlaps
  <2>3. ASSUME NEW r \in Sessions, NEW a \in Saved(r)' \ disturbed'
        PROVE  a \in histories'[r] /\ \A b \in Rewriting(r)' : a \in Copy(b)'
    BY <1>0, <1>3, <2>1, <2>2 DEF Saving
  <2> QED
    BY <2>3 DEF HistoryInv
<1>4. ASSUME NEW s \in Sessions, Replacing(s) PROVE HistoryInv'
  <2>1. PICK messages \in SUBSET Actors :
          /\ histories' = [histories EXCEPT ![s] = messages]
          /\ disturbed' = disturbed \union (histories[s] \ messages)
    BY <1>4 DEF Replacing
  <2>2. /\ histories'[s] = messages /\ disturbed \subseteq disturbed'
        /\ \A r \in Sessions : r /= s => histories'[r] = histories[r]
        /\ \A a \in histories[s] : a \in messages \/ a \in disturbed'
    BY <1>0, <2>1
  <2>3. ASSUME NEW r \in Sessions, NEW a \in Saved(r)' \ disturbed'
        PROVE  a \in histories'[r] /\ \A b \in Rewriting(r)' : a \in Copy(b)'
    BY <1>0, <1>4, <2>2 DEF Replacing
  <2> QED
    BY <2>3 DEF HistoryInv
<1> QED
  BY <1>1, <1>2, <1>3, <1>4, HistoryMoves
-----------------------------------------------------------------------------
(* The invariant holds always, and gives the properties.                   *)

\* A fresh application.
LEMMA InitInductive == Init => IInv
<1> SUFFICES ASSUME Init PROVE IInv
  OBVIOUS
<1>0. /\ MaxGeneration \in Nat /\ 0 \in 0..MaxGeneration /\ Home \in Workspaces
      /\ Turns \intersect Commands = {} /\ Turns \subseteq Actors /\ Commands \subseteq Actors
  BY DesktopAssumption DEF Actors
<1>t. /\ \A t \in Turns : turn[t] = IdleTurn
      /\ \A c \in Commands : cmd[c] = IdleCommand
      /\ \A a \in Actors : ensure[a] = IdleWorker
      /\ slot = 0 /\ generation = 0 /\ hosts = [h \in HostIds |-> HostRecord(Home)]
      /\ warming = {} /\ asleep = {} /\ asked = << >> /\ runs = {}
      /\ flight = [running |-> FALSE, waiters |-> 0, epoch |-> FALSE, lastResult |-> FALSE]
  BY DEF Init, NoHost
<1>r. /\ IdleTurn.at = "idle" /\ IdleTurn.session = Nobody /\ IdleTurn.host = 0
      /\ IdleTurn.saved = FALSE
      /\ IdleCommand.at = "idle" /\ IdleCommand.session = Nobody /\ IdleCommand.host = 0
      /\ IdleCommand.ok = FALSE
      /\ IdleWorker.at = "none" /\ IdleWorker.mine = TRUE
  BY DEF IdleTurn, IdleCommand, IdleWorker, NoHost
<1>h. \A h \in HostIds : hosts[h].memory = Absent /\ hosts[h].perm.pending = {}
  BY <1>t DEF HostRecord, NewHost
<1>1. Types
  <2>1. IdleTurn \in TurnType /\ IdleCommand \in CommandType /\ IdleWorker \in WorkerType
    BY <1>0 DEF IdleTurn, TurnType, IdleCommand, CommandType, IdleWorker, WorkerType, NoHost
  <2>2. HostRecord(Home) \in HostRecordType
    BY <1>0 DEF HostRecord, HostRecordType, NewHost, HostType
  <2>3. flight \in FlightType
    BY <1>t DEF FlightType
  <2>4. asked \in Seq(Sessions \union {Nobody})
    BY <1>t
  <2> QED
    BY <1>0, <2>1, <2>2, <2>3, <2>4 DEF Init, Types, NoHost
<1>2. FlightInv
  <2>1. Joined = {}
    BY <1>t, <1>r DEF Joined
  <2> QED
    BY <1>0, <1>t, <1>r, <2>1, FS_EmptySet DEF FlightInv
<1>3. SessionInv
  BY <1>t, <1>r DEF SessionInv, Owned, LinkedWorkers, Active
<1>4. HostsKnown
  <2>1. 0 <= 0
    OBVIOUS
  <2> QED
    BY <1>t, <1>r, <2>1 DEF HostsKnown, Using, NoHost
<1>5. OnePlace
  BY <1>t, <1>r DEF OnePlace, Using, NoHost
<1>6. OldHosts
  BY <1>t, <1>r DEF OldHosts, OnlyCommandsGoBack, NoHost
<1>7. Memories
  BY <1>t, <1>h DEF Memories, MemoryMatchesWorkspace
<1>8. ApprovalInv
  BY <1>t, <1>h DEF ApprovalInv, ApprovalSpentOnce, Pending
<1>9. CommandShape /\ TurnShape
  BY <1>t, <1>r DEF CommandShape, TurnShape
<1>10. Overlaps /\ HistoryInv
  BY <1>t, <1>r DEF Overlaps, HistoryInv, Rewriting, Saved
<1> QED
  BY <1>1, <1>2, <1>3, <1>4, <1>5, <1>6, <1>7, <1>8, <1>9, <1>10 DEF IInv

\* Every step keeps every part.
LEMMA NextInductive == IInv /\ [Next]_vars => IInv'
<1> SUFFICES ASSUME IInv, [Next]_vars PROVE IInv'
  OBVIOUS
<1>1. CASE Next
  BY <1>1, TypesStep, FlightStep, SessionStep, HostsKnownStep, OnePlaceStep, OldHostsStep,
     MemoriesStep, ApprovalStep, CommandShapeStep, TurnShapeStep, OverlapsStep, HistoryStep
     DEF IInv
<1>2. CASE UNCHANGED vars
  <2> USE <1>2 DEF vars, hostVars, flightVars, sessionVars, gateVars
  <2>1. Types' /\ FlightInv' /\ SessionInv'
    BY DEF IInv, Types, FlightInv, SessionInv, Owned, LinkedWorkers, Joined, Active
  <2>2. HostsKnown' /\ OnePlace'
    BY DEF IInv, HostsKnown, OnePlace, Using
  <2>3. OldHosts' /\ Memories'
    BY DEF IInv, OldHosts, Memories, OnlyCommandsGoBack, MemoryMatchesWorkspace, PutBackByCommand
  <2>4. ApprovalInv'
    BY DEF IInv, ApprovalInv, ApprovalSpentOnce, Pending
  <2>5. CommandShape' /\ TurnShape' /\ Overlaps' /\ HistoryInv'
    BY DEF IInv, CommandShape, TurnShape, Overlaps, HistoryInv, Rewriting, Saved, Copy
  <2> QED
    BY <2>1, <2>2, <2>3, <2>4, <2>5 DEF IInv
<1> QED
  BY <1>1, <1>2

\* So it holds in every reachable state.
LEMMA Inductive == Spec => []IInv
  BY InitInductive, NextInductive, PTL DEF Spec

\* A host is held by at most one turn or command, and by none while it is in the slot.
LEMMA HeldOnce ==
  ASSUME Types, HostsKnown, OnePlace, NEW h \in HostIds
  PROVE  Cardinality(Holders(h)) <= IF slot = h THEN 0 ELSE 1
<1>1. h /= NoHost
  BY DesktopAssumption DEF HostIds, NoHost
<1>2. \A x \in Holders(h) : slot /= h
  BY <1>1 DEF Holders, OnePlace, Using
<1>3. \A x, y \in Holders(h) : x = y
  BY <1>1 DEF Holders, OnePlace, Using
<1>4. CASE Holders(h) = {}
  BY <1>4, FS_EmptySet
<1>5. ASSUME NEW x \in Holders(h) PROVE Cardinality(Holders(h)) <= IF slot = h THEN 0 ELSE 1
  <2>1. Holders(h) = {x}
    BY <1>3, <1>5
  <2> QED
    BY <1>2, <2>1, FS_Singleton
<1> QED
  BY <1>4, <1>5

\* The type invariant of the application: in particular the count of joiners is right,
\* and a host is in the slot, or with one turn or one command, or gone (AppState,
\* HostInitFlight), with any number of turns, commands, sessions and rebuilds.
THEOREM DesktopTypes == Spec => []TypeOK
<1>1. ASSUME IInv PROVE TypeOK
  <2>0. Types /\ FlightInv /\ HostsKnown /\ OnePlace
    BY <1>1 DEF IInv
  <2>1. slot \in HostIds \union {NoHost}
    BY <2>0, DesktopAssumption DEF Types, HostIds, NoHost
  <2>2. \A h \in HostIds : /\ hosts[h].perm \in HostType /\ hosts[h].ws \in Workspaces
                           /\ hosts[h].memory \in Workspaces \union {Absent}
    <3>1. hosts \in [HostIds -> HostRecordType]
      BY <2>0 DEF Types
    <3> QED
      BY <3>1 DEF HostRecordType
  <2>3. flight.running \in BOOLEAN
    BY <2>0 DEF Types, FlightType
  <2>4. /\ flight.waiters = Cardinality({a \in Actors : ensure[a].at = "joined"})
        /\ asleep \subseteq {a \in Actors : ensure[a].at \in {"call", "joined"}}
    BY <2>0 DEF Types, FlightInv, Joined
  <2>5. \A h \in HostIds : Cardinality(Holders(h)) <= IF slot = h THEN 0 ELSE 1
    BY <2>0, HeldOnce
  <2> QED
    BY <2>0, <2>1, <2>2, <2>3, <2>4, <2>5 DEF TypeOK, Types
<1> QED
  BY <1>1, Inductive, PTL

\* Whoever joins a running initialization returns the result of that very one
\* (HostInitFlight::run): a new flight waits until the last joiner has left.
THEOREM JoinersKeepTheirFlight == Spec => []JoinersGetTheirFlight
<1>1. ASSUME IInv PROVE JoinersGetTheirFlight
  BY <1>1 DEF IInv, FlightInv, JoinersGetTheirFlight
<1> QED
  BY <1>1, Inductive, PTL

\* An active turn is the only one of its session and its cancel flag is the one a cancel
\* request reaches (admit_agent_turn, finish_agent_turn).
THEOREM TurnsOwnTheirSession == Spec => []TurnOwnsSession
<1>1. ASSUME IInv PROVE TurnOwnsSession
  BY <1>1 DEF IInv, SessionInv, Owned, Active, TurnOwnsSession
<1> QED
  BY <1>1, Inductive, PTL

\* A turn never makes the slot fall back to an older host
\* (restore_host_if_generation_matches).
THEOREM TurnsNeverGoBack == Spec => []OnlyCommandsGoBack
<1>1. ASSUME IInv PROVE OnlyCommandsGoBack
  BY <1>1 DEF IInv, OldHosts
<1> QED
  BY <1>1, Inductive, PTL

\* A memory of other roots is on a host only where a command has put an old one back
\* (install_prepared_durable_memory).
THEOREM MemoriesMatch == Spec => []MemoryMatchesWorkspace
<1>1. ASSUME IInv PROVE MemoryMatchesWorkspace
  BY <1>1 DEF IInv, Memories
<1> QED
  BY <1>1, Inductive, PTL

\* An approval is carried out at most once, however many commands answer the prompt
\* (complete_permission_cmd, grant_and_execute).
THEOREM ApprovalsSpentOnce == Spec => []ApprovalSpentOnce
<1>1. ASSUME IInv PROVE ApprovalSpentOnce
  BY <1>1 DEF IInv, ApprovalInv
<1> QED
  BY <1>1, Inductive, PTL

\* What was written into a history without an overlap stays there through every later
\* write-back of a copy (agent_turn and complete_permission_cmd), until a transcript
\* without it is saved or loaded or the chat is deleted (seed_history_from_session).
THEOREM HistoriesKept == Spec => []HistoryKept
<1>1. ASSUME IInv PROVE HistoryKept
  <2>0. Types /\ HistoryInv /\ TurnShape
    BY <1>1 DEF IInv
  <2>1. ASSUME NEW t \in Turns, turn[t].saved, t \notin disturbed
        PROVE  t \in histories[turn[t].session]
    BY <2>0, <2>1 DEF TurnShape, HistoryInv, Saved
  <2>2. ASSUME NEW c \in Commands, cmd[c].at = "done", cmd[c].ok, cmd[c].session /= Nobody,
               c \notin disturbed
        PROVE  c \in histories[cmd[c].session]
    <3>1. cmd \in [Commands -> CommandType]
      BY <2>0 DEF Types
    <3>2. cmd[c].session \in Sessions
      BY <2>2, <3>1 DEF CommandType
    <3> QED
      BY <2>0, <2>2, <3>2 DEF HistoryInv, Saved
  <2> QED
    BY <2>1, <2>2 DEF HistoryKept
<1> QED
  BY <1>1, Inductive, PTL

=============================================================================
