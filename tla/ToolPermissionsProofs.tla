----------------------- MODULE ToolPermissionsProofs -----------------------
(***************************************************************************)
(* What the operations of the permission gate do to a host, for every set  *)
(* of tools, targets and grants.  The lemmas serve the gate alone and the  *)
(* desktop application around it.                                          *)
(***************************************************************************)
EXTENDS ToolPermissions, TLAPS

\* consume_grant and the promotion of a reading MCP tool change only the
\* one-time approvals and the approved tools.
LEMMA ConsumeAndPromote ==
  ASSUME NEW h \in HostType, NEW call \in Calls, NEW rid
  PROVE  /\ ConsumeGrant(h, rid) \in HostType
         /\ ConsumeGrant(h, rid).pending = h.pending
         /\ ConsumeGrant(h, rid).approvedOnce \subseteq h.approvedOnce
         /\ ConsumeGrant(h, rid).sessionPaths = h.sessionPaths
         /\ ConsumeGrant(h, rid).approvedTools = h.approvedTools
         /\ PromoteTool(h, call) \in HostType
         /\ PromoteTool(h, call).pending = h.pending
         /\ PromoteTool(h, call).approvedOnce = h.approvedOnce
         /\ PromoteTool(h, call).sessionPaths = h.sessionPaths
         /\ PromoteTool(h, call).approvedTools \subseteq h.approvedTools \union {call.tool}
BY DEF ConsumeGrant, PromoteTool, HostType

\* A request that is forgotten or granted leaves the others as they were.
LEMMA DecideHost ==
  ASSUME NEW h \in HostType, NEW req \in h.pending,
         NEW decision \in {"AllowOnce", "AllowSessionPath"}
  PROVE  LET f == ForgetPending(h, req)
             g == GrantDecision(f, req, decision)
         IN /\ f \in HostType /\ f.pending = h.pending \ {req}
            /\ f.approvedOnce = h.approvedOnce /\ f.approvedTools = h.approvedTools
            /\ f.sessionPaths = h.sessionPaths
            /\ g \in HostType /\ g.pending = f.pending
            /\ g.approvedOnce \subseteq h.approvedOnce
                 \union (IF decision = "AllowOnce" THEN {req} ELSE {})
            /\ g.approvedTools \subseteq h.approvedTools
                 \union (IF decision = "AllowSessionPath" /\ req.call.tool \in McpTools
                         THEN {req.call.tool} ELSE {})
            /\ g.sessionPaths \subseteq h.sessionPaths
                 \union (IF decision = "AllowSessionPath" /\ req.call.tool \notin McpTools
                         THEN {req.call.target} ELSE {})
<1> DEFINE f == ForgetPending(h, req)
           g == GrantDecision(f, req, decision)
<1>1. /\ req \in Requests /\ req.call \in Calls /\ req.call.tool \in Tools
      /\ req.call.tool \notin McpTools => req.call.target \in Targets
  BY DEF HostType, Requests, Calls
<1>2. /\ f \in HostType /\ f.pending = h.pending \ {req}
      /\ f.approvedOnce = h.approvedOnce /\ f.approvedTools = h.approvedTools
      /\ f.sessionPaths = h.sessionPaths
  BY DEF ForgetPending, HostType
<1> HIDE DEF f
<1>3. CASE decision = "AllowOnce"
  <2>1. g = [f EXCEPT !.approvedOnce = @ \union {req}]
    BY <1>3 DEF GrantDecision
  <2> QED
    BY <1>1, <1>2, <1>3, <2>1 DEF HostType, f
<1>4. CASE decision = "AllowSessionPath" /\ req.call.tool \in McpTools
  <2>1. g = [f EXCEPT !.approvedTools = @ \union {req.call.tool}]
    BY <1>4 DEF GrantDecision
  <2> QED
    BY <1>1, <1>2, <1>4, <2>1 DEF HostType, f
<1>5. CASE decision = "AllowSessionPath" /\ req.call.tool \notin McpTools
  <2>1. g = [f EXCEPT !.sessionPaths = @ \union {req.call.target}]
    BY <1>5 DEF GrantDecision
  <2> QED
    BY <1>1, <1>2, <1>5, <2>1 DEF HostType, f
<1> QED
  BY <1>3, <1>4, <1>5

\* execute adds the one request it prompts for, under the fresh id, and leaves
\* every other pending request where it is.
LEMMA ExecutedHost ==
  ASSUME NEW h \in HostType, NEW call \in Calls, NEW rid, NEW fresh \in Nat
  PROVE  LET after == HostAfterExecute(h, call, rid, fresh)
         IN /\ after \in HostType
            /\ after.pending = IF ExecutePrompts(h, call, rid)
                               THEN h.pending \union {[id |-> fresh, call |-> call]}
                               ELSE h.pending
<1> DEFINE after == HostAfterExecute(h, call, rid, fresh)
<1>1. CASE ExecutePrompts(h, call, rid)
  <2>1. ~ExecuteRefuses(h, call, rid) /\ ~ExecuteRuns(h, call, rid)
    BY <1>1 DEF ExecuteRefuses, ExecutePrompts, ExecuteRuns
  <2>2. after = [h EXCEPT !.pending = @ \union {[id |-> fresh, call |-> call]}]
    BY <1>1, <2>1 DEF HostAfterExecute
  <2> QED
    BY <1>1, <2>2 DEF HostType, Requests
<1>2. CASE ExecuteRefuses(h, call, rid)
  <2>1. ~ExecutePrompts(h, call, rid) /\ ~ExecuteRuns(h, call, rid)
    BY <1>2 DEF ExecuteRefuses, ExecutePrompts, ExecuteRuns
  <2>2. after = ConsumeGrant(h, rid)
    BY <1>2, <2>1 DEF HostAfterExecute
  <2> QED
    BY <2>1, <2>2, ConsumeAndPromote
<1>3. CASE NeedsPrompt(h, call) /\ ExecuteRuns(h, call, rid)
  <2>1. ~ExecutePrompts(h, call, rid) /\ ~ExecuteRefuses(h, call, rid)
    BY <1>3 DEF ExecuteRefuses, ExecutePrompts, ExecuteRuns
  <2>2. after = PromoteTool(ConsumeGrant(h, rid), call)
    BY <1>3, <2>1 DEF HostAfterExecute
  <2>3. ConsumeGrant(h, rid) \in HostType /\ ConsumeGrant(h, rid).pending = h.pending
    BY ConsumeAndPromote
  <2> QED
    BY <2>1, <2>2, <2>3, ConsumeAndPromote
<1>4. CASE ~NeedsPrompt(h, call)
  <2>1. ~ExecutePrompts(h, call, rid) /\ after = h
    BY <1>4 DEF HostAfterExecute, ExecutePrompts, ExecuteRefuses
  <2> QED
    BY <2>1
<1> QED
  BY <1>1, <1>2, <1>3, <1>4 DEF ExecutePrompts, ExecuteRefuses, ExecuteRuns

=============================================================================
