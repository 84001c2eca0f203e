--------------------------- MODULE PermissionGate ---------------------------
(***************************************************************************)
(* One tool host over its life: the model asks for tools, the user answers *)
(* the prompts.  ToolHost::execute as the agent loop calls it, and         *)
(* grant_and_execute of cd-core research.rs, which answers a prompt and    *)
(* runs the approved call.  Both take the host by exclusive reference, so  *)
(* each is one step; DesktopHost has the interleavings of whoever holds it.*)
(***************************************************************************)
EXTENDS ToolPermissions

CONSTANTS MaxRequests,      \* bound on prompts raised
          MaxRuns           \* bound on tool runs

ASSUME GateAssumption == MaxRequests \in Nat /\ MaxRuns \in Nat

VARIABLES host,      \* permission state of the host
          raised,    \* prompts raised so far, which are their ids
          decided,   \* the decisions that took effect, as the user was shown them
          ran        \* the runs of tools, with the approval each was given

vars == <<host, raised, decided, ran>>

Decisions == {"Deny", "AllowOnce", "AllowSessionPath"}

DecisionRecords == [id : Nat, call : Calls, decision : Decisions, typed : BOOLEAN]

RunRecords == [n : Nat, call : Calls, rid : Nat \union {NoRequest}]

TypeOK ==
  /\ host \in HostType
  /\ raised \in Nat
  /\ decided \in SUBSET DecisionRecords
  /\ ran \in SUBSET RunRecords

Init == host = NewHost /\ raised = 0 /\ decided = {} /\ ran = {}

-----------------------------------------------------------------------------
\* execute(call, rid) on a host: whether the tool runs is recorded, not what it
\* returns; a failing tool has used its approval as well.
Execute(before, call, rid) ==
  LET prompts == ExecutePrompts(before, call, rid)
      runs == ExecuteRuns(before, call, rid)
  IN \/ /\ ExecuteMayReject(rid)
        /\ host' = before
        /\ UNCHANGED <<raised, ran>>
     \/ /\ prompts => raised < MaxRequests
        /\ runs => Cardinality(ran) < MaxRuns
        /\ host' = HostAfterExecute(before, call, rid, raised + 1)
        /\ raised' = IF prompts THEN raised + 1 ELSE raised
        /\ ran' = IF runs
                  THEN ran \union {[n |-> Cardinality(ran) + 1, call |-> call, rid |-> rid]}
                  ELSE ran

\* The agent loop executes a tool the model asked for.
ModelCall(call) == Execute(host, call, NoRequest) /\ UNCHANGED decided

\* Mutant: a prompt answered with the wrong phrase is carried out all the same.
DecisionInvalid_Never(req, decision, typed) == FALSE

\* complete_permission fails after it has removed the request.
DecisionInvalid(req, decision, typed) == ~ValidDecision(req.call, decision, typed)

\* A mistyped confirmation, or a session grant a target does not take: the
\* request is gone and nothing runs.
RejectDecision(req, decision, typed) ==
  /\ req \in host.pending
  /\ ~SessionGrantRefused(req.call, decision)
  /\ DecisionInvalid(req, decision, typed)
  /\ host' = ForgetPending(host, req)
  /\ UNCHANGED <<raised, decided, ran>>

\* The decision is Deny.
Deny(req) ==
  /\ req \in host.pending
  /\ host' = ForgetPending(host, req)
  /\ decided' = decided \union
       {[id |-> req.id, call |-> req.call, decision |-> "Deny", typed |-> FALSE]}
  /\ UNCHANGED <<raised, ran>>

\* The decision allows: the call is executed with the arguments stored in the
\* request, or with the ones the client sent along.  A session grant is executed
\* without a request id, so a target that takes no such grant prompts again.
Allow(req, decision, typed, call) ==
  /\ req \in host.pending
  /\ decision /= "Deny"
  /\ ~SessionGrantRefused(req.call, decision)
  /\ ~DecisionInvalid(req, decision, typed)
  /\ decided' = decided \union
       {[id |-> req.id, call |-> req.call, decision |-> decision, typed |-> typed]}
  /\ Execute(GrantDecision(ForgetPending(host, req), req, decision), call,
             IF decision = "AllowOnce" THEN req.id ELSE NoRequest)

Next ==
  \/ \E call \in Calls : ModelCall(call)
  \/ \E req \in host.pending :
       \/ Deny(req)
       \/ \E decision \in Decisions, typed \in BOOLEAN :
            \/ RejectDecision(req, decision, typed)
            \/ \E call \in Calls : Allow(req, decision, typed, call)

Spec == Init /\ [][Next]_vars

-----------------------------------------------------------------------------
\* The calls a session grant never covers: remote pages, harvests, memory that
\* is retracted, purged or rewritten, and MCP tools that write.
OnlyOnce(call) ==
  IF call.tool \in McpTools
  THEN SideEffect[call.tool] /= "Read"
  ELSE /\ SideEffect[call.tool] /= "Read"
       /\ \/ TargetClass[call.target] \in {"destructive memory", "harvest", "confluence"}
          \/ SideEffect[call.tool] = "HardWrite" /\ TargetClass[call.target] = "memory"

\* The user allowed this tool on this target, in answer to this request.
AllowedOnce(run) ==
  \E d \in decided : d.id = run.rid /\ d.decision = "AllowOnce" /\ d.call = run.call

\* The user allowed a path the call's target lies within, or the MCP tool.
AllowedForSession(call) ==
  \E d \in decided :
    /\ d.decision /= "Deny"
    /\ IF call.tool \in McpTools
       THEN d.call.tool = call.tool
       ELSE /\ d.decision = "AllowSessionPath"
            /\ d.call.tool \notin McpTools
            /\ <<call.target, d.call.target>> \in Within

\* Every write, and every use of an MCP tool, was allowed by the user: this tool on
\* this target once, or for the session a grant it falls under, whatever tool and
\* target the client sends with the answer (permissions.rs: grants are UI-originated).
\* That it writes what the user was shown is not said: grant_and_execute runs the
\* arguments of the client if they lead to the same target.
WritesApproved ==
  \A run \in ran :
    SideEffect[run.call.tool] /= "Read" \/ run.call.tool \in McpTools
      => AllowedOnce(run) \/ AllowedForSession(run.call)

\* What a session grant never covers is asked about each time, by tool and target,
\* whatever has been granted before, and a destructive call has its confirmation phrase (#129,
\* #270, #326).
OnlyOnceAsked ==
  \A run \in ran :
    OnlyOnce(run.call) =>
      \E d \in decided :
        /\ d.id = run.rid /\ d.decision = "AllowOnce" /\ d.call = run.call
        /\ SideEffect[run.call.tool] = "HardWrite" => d.typed

\* Allow once is once: no two runs rest on the same request, however often it is
\* answered and whatever approvals are left over on the host.
SpentOnce == \A r1, r2 \in ran : r1.rid = r2.rid /\ r1.rid /= NoRequest => r1 = r2

=============================================================================
