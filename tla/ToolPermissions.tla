-------------------------- MODULE ToolPermissions --------------------------
(***************************************************************************)
(* The permission gate of a tool host: cd-core permissions.rs and the      *)
(* permission half of ToolHost::complete_permission and ToolHost::execute. *)
(* A host is a record; every operator maps a host to the host it becomes.  *)
(*                                                                         *)
(* A tool call is a tool and the target its arguments resolve to.  What    *)
(* the classification of targets and the grant relation on paths compute   *)
(* from strings is given by constants, because only the classes matter.    *)
(***************************************************************************)
EXTENDS Naturals, FiniteSets

CONSTANTS Tools,            \* tool names
          McpTools,         \* those that start with mcp__
          SideEffect,       \* Tools -> Read, SoftWrite, HardWrite
          Targets,          \* what arguments resolve to: paths, mem://, ...
          TargetClass,      \* Targets -> the prefix class of the target
          Within,           \* <<path, grant>>: path is grant or a child of it
          NoRequest         \* no request id

Classes == {"path", "memory", "destructive memory", "harvest", "confluence"}

ASSUME PermissionAssumption ==
  /\ McpTools \subseteq Tools
  /\ SideEffect \in [Tools -> {"Read", "SoftWrite", "HardWrite"}]
  /\ TargetClass \in [Targets -> Classes]
  /\ Within \subseteq Targets \X Targets
  /\ NoRequest \notin Nat

\* resolve_write_target: an MCP call is granted by its tool name, whatever its
\* arguments; any other call by what its arguments name.  That is all the gate tells
\* calls apart by: two with the same tool and target are one call here, though what
\* they write may differ.
Calls ==
  {c \in [tool : Tools, target : Targets \union McpTools] :
     IF c.tool \in McpTools THEN c.target = c.tool ELSE c.target \in Targets}

\* The permission state of a new host.
NewHost == [pending |-> {}, approvedOnce |-> {}, sessionPaths |-> {}, approvedTools |-> {}]

Requests == [id : Nat, call : Calls]

HostType ==
  [pending : SUBSET Requests, approvedOnce : SUBSET Requests,
   sessionPaths : SUBSET Targets, approvedTools : SUBSET McpTools]

-----------------------------------------------------------------------------
\* session_path_allowed, with path_under_grant as the relation Within.
SessionPathAllowed(host, target) == \E grant \in host.sessionPaths : <<target, grant>> \in Within

\* Mutant: a hard write to memory is covered by a session grant like a file.
MayExecuteWithoutPrompt_MemoryGrantable(host, call) ==
  IF call.tool \in McpTools
  THEN SideEffect[call.tool] = "Read" /\ call.tool \in host.approvedTools
  ELSE /\ TargetClass[call.target] \in {"path", "memory"}
       /\ SideEffect[call.tool] = "Read" \/ SessionPathAllowed(host, call.target)

\* may_execute_without_prompt.
MayExecuteWithoutPrompt(host, call) ==
  IF call.tool \in McpTools
  THEN SideEffect[call.tool] = "Read" /\ call.tool \in host.approvedTools
  ELSE /\ TargetClass[call.target] \in {"path", "memory"}
       /\ \/ SideEffect[call.tool] = "Read"
          \/ /\ ~(SideEffect[call.tool] = "HardWrite" /\ TargetClass[call.target] = "memory")
             /\ SessionPathAllowed(host, call.target)

\* needs_prompt: an MCP tool asks on first use even when it only reads.
NeedsPrompt(host, call) ==
  \/ call.tool \in McpTools /\ call.tool \notin host.approvedTools
  \/ SideEffect[call.tool] /= "Read" /\ ~MayExecuteWithoutPrompt(host, call)

\* Mutant: an approval is found by its request id alone.
GrantMatches_ById(host, rid, call) == \E a \in host.approvedOnce : a.id = rid

\* consume_grant: the approval has to name this tool and this target.
GrantMatches(host, rid, call) == [id |-> rid, call |-> call] \in host.approvedOnce

\* consume_grant removes the approval whether it matches or not.
ConsumeGrant(host, rid) ==
  [host EXCEPT !.approvedOnce = {a \in host.approvedOnce : a.id /= rid}]

\* First use of a reading MCP tool becomes a grant for the session.
PromoteTool(host, call) ==
  IF call.tool \in McpTools /\ SideEffect[call.tool] = "Read"
  THEN [host EXCEPT !.approvedTools = @ \union {call.tool}]
  ELSE host

-----------------------------------------------------------------------------
\* ToolHost::execute up to the tool itself.  A malformed write that nobody has
\* approved yet is an error before anything else.  Otherwise it prompts under a
\* fresh request id, refuses an approval that does not fit the call, or lets the
\* tool run.
ExecuteMayReject(rid) == rid = NoRequest

ExecutePrompts(host, call, rid) == NeedsPrompt(host, call) /\ rid = NoRequest

ExecuteRefuses(host, call, rid) ==
  NeedsPrompt(host, call) /\ rid /= NoRequest /\ ~GrantMatches(host, rid, call)

ExecuteRuns(host, call, rid) ==
  NeedsPrompt(host, call) => rid /= NoRequest /\ GrantMatches(host, rid, call)

HostAfterExecute(host, call, rid, fresh) ==
  CASE ExecutePrompts(host, call, rid) ->
         [host EXCEPT !.pending = @ \union {[id |-> fresh, call |-> call]}]
    [] ExecuteRefuses(host, call, rid) -> ConsumeGrant(host, rid)
    [] NeedsPrompt(host, call) /\ ExecuteRuns(host, call, rid) ->
         PromoteTool(ConsumeGrant(host, rid), call)
    [] OTHER -> host

-----------------------------------------------------------------------------
\* validate_decision: risk_for makes every HardWrite a request that has to be
\* confirmed by typing, and confluence and harvest take no session grant.
ValidDecision(call, decision, typed) ==
  \/ decision = "Deny"
  \/ /\ ~(/\ decision = "AllowSessionPath" /\ call.tool \notin McpTools
          /\ TargetClass[call.target] \in {"harvest", "confluence"})
     /\ SideEffect[call.tool] = "HardWrite" => typed

\* complete_permission refuses this before it removes the pending request.
SessionGrantRefused(call, decision) ==
  /\ decision = "AllowSessionPath"
  /\ call.tool \in McpTools /\ SideEffect[call.tool] /= "Read"

\* Mutant: the request stays pending after it has been decided.
ForgetPending_Kept(host, req) == host

\* The request is removed before the decision is validated.
ForgetPending(host, req) == [host EXCEPT !.pending = @ \ {req}]

\* Mutant: a session grant for a path is filed under the approved tools.
GrantDecision_WrongKind(host, req, decision) ==
  CASE decision = "AllowOnce" -> [host EXCEPT !.approvedOnce = @ \union {req}]
    [] decision = "AllowSessionPath" ->
         [host EXCEPT !.approvedTools = @ \union {req.call.target}]
    [] OTHER -> host

\* The grant a valid decision leaves on the host.
GrantDecision(host, req, decision) ==
  CASE decision = "AllowOnce" -> [host EXCEPT !.approvedOnce = @ \union {req}]
    [] decision = "AllowSessionPath" /\ req.call.tool \in McpTools ->
         [host EXCEPT !.approvedTools = @ \union {req.call.tool}]
    [] decision = "AllowSessionPath" /\ req.call.tool \notin McpTools ->
         [host EXCEPT !.sessionPaths = @ \union {req.call.target}]
    [] OTHER -> host

=============================================================================
