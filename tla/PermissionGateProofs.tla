------------------------ MODULE PermissionGateProofs ------------------------
(***************************************************************************)
(* Proofs about PermissionGate for every set of tools, targets and grants: *)
(* the gate is sound whatever the model asks for and whatever the user     *)
(* interface sends back.  The argument: a request id is handed out once,   *)
(* is given to execute only while its request is still pending, and every  *)
(* grant on the host goes back to a decision the user took.                *)
(***************************************************************************)
EXTENDS PermissionGate, ToolPermissionsProofs, FiniteSetTheorems

-----------------------------------------------------------------------------
(* The inductive invariant, over a host, the decisions, and the runs.      *)

\* Request ids up to n were handed out, a pending one to a single request.
IdsKnown(h, n) ==
  /\ \A r \in h.pending : r.id <= n
  /\ \A r1, r2 \in h.pending : r1.id = r2.id => r1 = r2

\* No run was given the id of a request that is still pending.
PendingUnused(h) == \A run \in ran, r \in h.pending : run.rid /= r.id

\* Runs were only given ids that had been handed out.
RunsKnown == \A run \in ran : run.rid /= NoRequest => run.rid <= raised

\* The decisions D allowed this request once, with the phrase it needs.
Granted(req, D) ==
  \E d \in D :
    /\ d.id = req.id /\ d.call = req.call /\ d.decision = "AllowOnce"
    /\ SideEffect[req.call.tool] = "HardWrite" => d.typed

ToolGranted(tool, D) == \E d \in D : d.decision /= "Deny" /\ d.call.tool = tool

PathGranted(path, D) ==
  \E d \in D : /\ d.decision = "AllowSessionPath"
               /\ d.call.tool \notin McpTools /\ d.call.target = path

\* Every grant on the host goes back to a decision.
GrantsDecided(h, D) ==
  /\ \A r \in h.approvedOnce : Granted(r, D)
  /\ \A tool \in h.approvedTools : ToolGranted(tool, D)
  /\ \A path \in h.sessionPaths : PathGranted(path, D)

IInv ==
  /\ TypeOK /\ IsFiniteSet(ran)
  /\ IdsKnown(host, raised) /\ PendingUnused(host) /\ RunsKnown
  /\ GrantsDecided(host, decided)
  /\ WritesApproved /\ OnlyOnceAsked /\ SpentOnce

-----------------------------------------------------------------------------
(* What execute does to a host.                                            *)

\* A call runs without a fresh prompt only under a grant: the one it was given,
\* or one of the session; what a session grant never covers only under the former.
LEMMA RunsUnderGrant ==
  ASSUME NEW h, NEW call \in Calls, NEW rid, ExecuteRuns(h, call, rid)
  PROVE  /\ NeedsPrompt(h, call) =>
              rid /= NoRequest /\ [id |-> rid, call |-> call] \in h.approvedOnce
         /\ OnlyOnce(call) => NeedsPrompt(h, call)
         /\ ~NeedsPrompt(h, call) /\ call.tool \in McpTools => call.tool \in h.approvedTools
         /\ ~NeedsPrompt(h, call) /\ call.tool \notin McpTools /\ SideEffect[call.tool] /= "Read"
              => \E grant \in h.sessionPaths : <<call.target, grant>> \in Within
BY DEF ExecuteRuns, GrantMatches, OnlyOnce, NeedsPrompt, MayExecuteWithoutPrompt,
       SessionPathAllowed

-----------------------------------------------------------------------------
(* One call of execute, on the host as the caller has prepared it.         *)

\* What a host that is prepared for execute(call, rid) satisfies, with the
\* decisions D taken by then.
Prepared(before, rid, D) ==
  /\ before \in HostType
  /\ IdsKnown(before, raised) /\ PendingUnused(before) /\ GrantsDecided(before, D)
  /\ rid \in Nat \union {NoRequest}
  /\ rid /= NoRequest => /\ rid <= raised
                         /\ \A r \in before.pending : r.id /= rid
                         /\ \A run \in ran : run.rid /= rid

\* A later decision takes no earlier one back.
LEMMA GrantsGrow ==
  ASSUME NEW h, NEW D, NEW E, D \subseteq E, GrantsDecided(h, D)
  PROVE  GrantsDecided(h, E)
BY DEF GrantsDecided, Granted, ToolGranted, PathGranted

\* execute leaves a host whose grants are decided and whose requests are known.
LEMMA ExecuteHost ==
  ASSUME TypeOK, NEW call \in Calls, NEW before, NEW rid, Prepared(before, rid, decided'),
         RunsKnown, Execute(before, call, rid)
  PROVE  /\ host' \in HostType /\ raised' \in Nat /\ raised <= raised'
         /\ IdsKnown(host', raised') /\ GrantsDecided(host', decided')
         /\ \A r \in host'.pending : r \in before.pending \/ r.id = raised + 1
<1> USE DEF Prepared
<1>a. CASE host' = before /\ raised' = raised
  BY <1>a DEF TypeOK
<1>b. SUFFICES ASSUME ~(host' = before /\ raised' = raised)
               PROVE  /\ host' \in HostType /\ raised' \in Nat /\ raised <= raised'
                      /\ IdsKnown(host', raised') /\ GrantsDecided(host', decided')
                      /\ \A r \in host'.pending : r \in before.pending \/ r.id = raised + 1
  BY <1>a
<1>0. /\ host' = HostAfterExecute(before, call, rid, raised + 1) /\ raised \in Nat
      /\ raised' = IF ExecutePrompts(before, call, rid) THEN raised + 1 ELSE raised
      /\ before \in HostType /\ NoRequest \notin Nat
  BY <1>b, PermissionAssumption DEF Execute, TypeOK
<1>1. CASE ExecutePrompts(before, call, rid)
  <2>0. ~ExecuteRefuses(before, call, rid) /\ ~ExecuteRuns(before, call, rid)
    BY <1>1 DEF ExecuteRefuses, ExecutePrompts, ExecuteRuns
  <2>1. host' = [before EXCEPT !.pending = @ \union {[id |-> raised + 1, call |-> call]}]
    BY <1>0, <1>1, <2>0 DEF HostAfterExecute
  <2>2. /\ host' \in HostType
        /\ host'.pending = before.pending \union {[id |-> raised + 1, call |-> call]}
        /\ host'.approvedOnce = before.approvedOnce
        /\ host'.approvedTools = before.approvedTools
        /\ host'.sessionPaths = before.sessionPaths
    BY <1>0, <2>1 DEF HostType, Requests
  <2>3. \A r \in before.pending : r.id \in Nat /\ r.id <= raised
    BY <1>0 DEF HostType, Requests, IdsKnown
  <2>4. IdsKnown(host', raised')
    BY <1>0, <1>1, <2>2, <2>3 DEF IdsKnown
  <2> QED
    BY <1>0, <1>1, <2>2, <2>4 DEF GrantsDecided
<1>2. CASE ExecuteRefuses(before, call, rid)
  <2>1. ~ExecutePrompts(before, call, rid) /\ ~ExecuteRuns(before, call, rid)
    BY <1>2 DEF ExecuteRefuses, ExecutePrompts, ExecuteRuns
  <2>2. host' = ConsumeGrant(before, rid)
    BY <1>0, <1>2, <2>1 DEF HostAfterExecute
  <2> QED
    BY <1>0, <2>1, <2>2, ConsumeAndPromote DEF IdsKnown, GrantsDecided
<1>3. CASE NeedsPrompt(before, call) /\ ExecuteRuns(before, call, rid)
  <2>1. ~ExecutePrompts(before, call, rid) /\ ~ExecuteRefuses(before, call, rid)
    BY <1>3 DEF ExecuteRefuses, ExecutePrompts, ExecuteRuns
  <2>2. host' = PromoteTool(ConsumeGrant(before, rid), call)
    BY <1>0, <1>3, <2>1 DEF HostAfterExecute
  <2>3. /\ ConsumeGrant(before, rid) \in HostType
        /\ host' \in HostType /\ host'.pending = before.pending
        /\ host'.approvedOnce \subseteq before.approvedOnce
        /\ host'.sessionPaths = before.sessionPaths
        /\ host'.approvedTools \subseteq before.approvedTools \union {call.tool}
    <3>1. /\ ConsumeGrant(before, rid) \in HostType
          /\ ConsumeGrant(before, rid).pending = before.pending
          /\ ConsumeGrant(before, rid).approvedOnce \subseteq before.approvedOnce
          /\ ConsumeGrant(before, rid).sessionPaths = before.sessionPaths
          /\ ConsumeGrant(before, rid).approvedTools = before.approvedTools
      BY <1>0, ConsumeAndPromote
    <3> QED
      BY <3>1, <2>2, ConsumeAndPromote
  <2>4. Granted([id |-> rid, call |-> call], decided')
    BY <1>3, RunsUnderGrant DEF GrantsDecided
  <2>5. ToolGranted(call.tool, decided')
    BY <2>4 DEF Granted, ToolGranted
  <2> QED
    BY <1>0, <2>1, <2>3, <2>5 DEF IdsKnown, GrantsDecided
<1>4. CASE ~NeedsPrompt(before, call)
  <2>1. ~ExecutePrompts(before, call, rid) /\ host' = before
    BY <1>0, <1>4 DEF HostAfterExecute, ExecutePrompts, ExecuteRefuses
  <2> QED
    BY <1>0, <2>1
<1> QED
  BY <1>1, <1>2, <1>3, <1>4 DEF ExecutePrompts, ExecuteRefuses, ExecuteRuns

\* A call of execute preserves the invariant.
LEMMA ExecuteStep ==
  ASSUME IInv, NEW call \in Calls, NEW before, NEW rid, Prepared(before, rid, decided'),
         decided \subseteq decided', decided' \in SUBSET DecisionRecords,
         Execute(before, call, rid)
  PROVE  IInv'
<1> DEFINE run == [n |-> Cardinality(ran) + 1, call |-> call, rid |-> rid]
<1>1. /\ host' \in HostType /\ raised' \in Nat /\ raised <= raised' /\ raised \in Nat
      /\ IdsKnown(host', raised') /\ GrantsDecided(host', decided')
      /\ \A r \in host'.pending : r \in before.pending \/ r.id = raised + 1
  BY ExecuteHost DEF IInv, TypeOK
<1>2. /\ ran' = ran \/ (ExecuteRuns(before, call, rid) /\ ran' = ran \union {run})
      /\ Cardinality(ran) \in Nat /\ IsFiniteSet(ran) /\ ran \in SUBSET RunRecords
      /\ rid \in Nat \union {NoRequest} /\ NoRequest \notin Nat
  BY FS_CardinalityType, PermissionAssumption DEF Execute, IInv, TypeOK, Prepared
<1>3. run \in RunRecords /\ run.rid = rid /\ run.call = call
  BY <1>2 DEF RunRecords
<1> HIDE DEF run
<1>4. IsFiniteSet(ran') /\ ran' \in SUBSET RunRecords
  BY <1>2, <1>3, FS_AddElement
<1>5. \A r \in ran' : r \in ran \/ (r = run /\ ExecuteRuns(before, call, rid))
  BY <1>2
<1>6. RunsKnown'
  <2>1. \A r \in ran : r.rid /= NoRequest => r.rid \in Nat /\ r.rid <= raised
    BY <1>2 DEF IInv, RunsKnown, RunRecords
  <2>2. rid /= NoRequest => rid <= raised'
    BY <1>1, <1>2 DEF Prepared
  <2> QED
    BY <1>1, <1>2, <1>3, <1>5, <2>1, <2>2 DEF RunsKnown
<1>7. PendingUnused(host)'
  <2> SUFFICES ASSUME NEW r \in ran', NEW q \in host'.pending
               PROVE  r.rid /= q.id
    BY DEF PendingUnused
  <2>1. r.rid \in Nat => r.rid <= raised
    BY <1>2, <1>3, <1>5 DEF IInv, RunsKnown, Prepared
  <2>2. CASE q.id = raised + 1
    BY <1>1, <1>2, <2>1, <2>2, <1>4 DEF RunRecords
  <2>3. CASE q \in before.pending
    BY <1>2, <1>3, <1>5, <2>3 DEF PendingUnused, Prepared, HostType, Requests
  <2> QED
    BY <1>1, <2>2, <2>3
<1>8. WritesApproved'
  <2> SUFFICES ASSUME NEW r \in ran',
                      SideEffect[r.call.tool] /= "Read" \/ r.call.tool \in McpTools
               PROVE  AllowedOnce(r)' \/ AllowedForSession(r.call)'
    BY DEF WritesApproved
  <2>1. CASE r \in ran
    <3>1. AllowedOnce(r) \/ AllowedForSession(r.call)
      BY <2>1 DEF IInv, WritesApproved
    <3> QED
      BY <3>1 DEF AllowedOnce, AllowedForSession
  <2>2. CASE r = run /\ ExecuteRuns(before, call, rid)
    <3>1. CASE NeedsPrompt(before, call)
      <4>1. Granted([id |-> rid, call |-> call], decided')
        BY <2>2, <3>1, RunsUnderGrant DEF Prepared, GrantsDecided
      <4> QED
        BY <4>1, <2>2, <1>3 DEF Granted, AllowedOnce
    <3>2. CASE ~NeedsPrompt(before, call) /\ call.tool \in McpTools
      <4>1. ToolGranted(call.tool, decided')
        BY <2>2, <3>2, RunsUnderGrant DEF Prepared, GrantsDecided
      <4> QED
        BY <4>1, <3>2, <2>2, <1>3 DEF ToolGranted, AllowedForSession
    <3>3. CASE ~NeedsPrompt(before, call) /\ call.tool \notin McpTools
      <4>1. PICK grant \in before.sessionPaths : <<call.target, grant>> \in Within
        BY <2>2, <3>3, <1>3, RunsUnderGrant
      <4>2. PathGranted(grant, decided')
        BY <4>1 DEF Prepared, GrantsDecided
      <4> QED
        BY <4>1, <4>2, <3>3, <2>2, <1>3 DEF PathGranted, AllowedForSession
    <3> QED
      BY <3>1, <3>2, <3>3
  <2> QED
    BY <1>5, <2>1, <2>2
<1>9. OnlyOnceAsked'
  <2> SUFFICES ASSUME NEW r \in ran', OnlyOnce(r.call)
               PROVE  \E d \in decided' :
                        /\ d.id = r.rid /\ d.decision = "AllowOnce" /\ d.call = r.call
                        /\ SideEffect[r.call.tool] = "HardWrite" => d.typed
    BY DEF OnlyOnceAsked, OnlyOnce
  <2>1. CASE r \in ran
    BY <2>1 DEF IInv, OnlyOnceAsked
  <2>2. CASE r = run /\ ExecuteRuns(before, call, rid)
    <3>1. Granted([id |-> rid, call |-> call], decided')
      BY <2>2, <1>3, RunsUnderGrant DEF Prepared, GrantsDecided
    <3> QED
      BY <3>1, <2>2, <1>3 DEF Granted
  <2> QED
    BY <1>5, <2>1, <2>2
<1>10. SpentOnce'
  BY <1>3, <1>5 DEF SpentOnce, IInv, Prepared
<1> QED
  BY <1>1, <1>4, <1>6, <1>7, <1>8, <1>9, <1>10 DEF IInv, TypeOK

-----------------------------------------------------------------------------
(* The actions.                                                            *)

\* The agent loop's call passes no request id, so the host needs no preparing.
LEMMA ModelCallKeeps == ASSUME IInv, NEW call \in Calls, ModelCall(call) PROVE IInv'
<1>1. Prepared(host, NoRequest, decided') /\ decided' = decided
  BY DEF ModelCall, IInv, TypeOK, Prepared
<1> QED
  BY <1>1, ExecuteStep DEF ModelCall, IInv, TypeOK

\* A forgotten request leaves the rest of the invariant alone.
LEMMA ForgetKeeps ==
  ASSUME IInv, NEW req \in host.pending, host' = ForgetPending(host, req),
         decided \subseteq decided', decided' \in SUBSET DecisionRecords,
         raised' = raised, ran' = ran
  PROVE  IInv'
<1>1. /\ host' \in HostType /\ host'.pending \subseteq host.pending
      /\ host'.approvedOnce = host.approvedOnce /\ host'.approvedTools = host.approvedTools
      /\ host'.sessionPaths = host.sessionPaths
  BY DEF IInv, TypeOK, ForgetPending, HostType
<1>2. TypeOK' /\ IsFiniteSet(ran') /\ RunsKnown' /\ SpentOnce'
  BY <1>1 DEF IInv, TypeOK, RunsKnown, SpentOnce
<1>3. IdsKnown(host, raised)' /\ PendingUnused(host)'
  BY <1>1 DEF IInv, IdsKnown, PendingUnused
<1>4. GrantsDecided(host, decided)'
  BY <1>1 DEF IInv, GrantsDecided, Granted, ToolGranted, PathGranted
<1>5. WritesApproved'
  BY DEF IInv, WritesApproved, AllowedOnce, AllowedForSession
<1>6. OnlyOnceAsked'
  BY DEF IInv, OnlyOnceAsked, OnlyOnce
<1> QED
  BY <1>2, <1>3, <1>4, <1>5, <1>6 DEF IInv

LEMMA DenyKeeps == ASSUME IInv, NEW req \in host.pending, Deny(req) PROVE IInv'
<1>1. [id |-> req.id, call |-> req.call, decision |-> "Deny", typed |-> FALSE]
        \in DecisionRecords
  BY DEF IInv, TypeOK, HostType, Requests, DecisionRecords, Decisions
<1> QED
  BY <1>1, ForgetKeeps DEF Deny, IInv, TypeOK

LEMMA RejectKeeps ==
  ASSUME IInv, NEW req \in host.pending, NEW decision, NEW typed,
         RejectDecision(req, decision, typed)
  PROVE  IInv'
BY ForgetKeeps DEF RejectDecision, IInv, TypeOK

\* The answered request is no longer pending and no run was given its id, so its
\* id may be passed to execute, and the grant it leaves goes back to the decision.
LEMMA AllowKeeps ==
  ASSUME IInv, NEW req \in host.pending, NEW decision \in Decisions, NEW typed \in BOOLEAN,
         NEW call \in Calls, Allow(req, decision, typed, call)
  PROVE  IInv'
<1> DEFINE d == [id |-> req.id, call |-> req.call, decision |-> decision, typed |-> typed]
           g == GrantDecision(ForgetPending(host, req), req, decision)
           rid == IF decision = "AllowOnce" THEN req.id ELSE NoRequest
<1>1. /\ decision \in {"AllowOnce", "AllowSessionPath"}
      /\ decided' = decided \union {d} /\ Execute(g, call, rid)
      /\ ValidDecision(req.call, decision, typed)
  BY DEF Allow, Decisions, DecisionInvalid
<1>2. /\ req.id \in Nat /\ req.call \in Calls /\ req.id <= raised
      /\ host \in HostType /\ host.pending \subseteq Requests
  BY DEF IInv, TypeOK, HostType, Requests, IdsKnown
<1>3. /\ d \in DecisionRecords /\ d.id = req.id /\ d.call = req.call
      /\ d.decision = decision /\ d.typed = typed /\ d \in decided'
  BY <1>1, <1>2 DEF DecisionRecords
<1> HIDE DEF d
<1>4. /\ g \in HostType /\ g.pending = host.pending \ {req}
      /\ g.approvedOnce \subseteq host.approvedOnce
           \union (IF decision = "AllowOnce" THEN {req} ELSE {})
      /\ g.approvedTools \subseteq host.approvedTools
           \union (IF decision = "AllowSessionPath" /\ req.call.tool \in McpTools
                   THEN {req.call.tool} ELSE {})
      /\ g.sessionPaths \subseteq host.sessionPaths
           \union (IF decision = "AllowSessionPath" /\ req.call.tool \notin McpTools
                   THEN {req.call.target} ELSE {})
  BY <1>1, <1>2, DecideHost
<1> HIDE DEF g
<1>5. IdsKnown(g, raised) /\ PendingUnused(g)
  BY <1>4 DEF IInv, IdsKnown, PendingUnused
<1>6. GrantsDecided(g, decided')
  <2>1. GrantsDecided(host, decided')
    BY <1>1, GrantsGrow DEF IInv
  <2>2. decision = "AllowOnce" => Granted(req, decided')
    BY <1>1, <1>3 DEF Granted, ValidDecision
  <2>3. decision = "AllowSessionPath" => ToolGranted(req.call.tool, decided')
    BY <1>3 DEF ToolGranted
  <2>4. decision = "AllowSessionPath" /\ req.call.tool \notin McpTools
          => PathGranted(req.call.target, decided')
    BY <1>3 DEF PathGranted
  <2> QED
    BY <1>4, <2>1, <2>2, <2>3, <2>4 DEF GrantsDecided
<1>7. Prepared(g, rid, decided')
  <2>1. \A r \in g.pending : r.id /= req.id
    BY <1>4 DEF IInv, IdsKnown
  <2>2. \A run \in ran : run.rid /= req.id
    BY DEF IInv, PendingUnused
  <2> QED
    BY <1>2, <1>4, <1>5, <1>6, <2>1, <2>2 DEF Prepared
<1>8. decided \subseteq decided' /\ decided' \in SUBSET DecisionRecords
  BY <1>1, <1>3 DEF IInv, TypeOK
<1> QED
  BY <1>1, <1>7, <1>8, ExecuteStep

LEMMA InitInductive == Init => IInv
BY PermissionAssumption, FS_EmptySet
   DEF Init, IInv, TypeOK, NewHost, HostType, IdsKnown, PendingUnused, RunsKnown, GrantsDecided,
       WritesApproved, OnlyOnceAsked, SpentOnce

LEMMA NextInductive == IInv /\ [Next]_vars => IInv'
<1> SUFFICES ASSUME IInv, [Next]_vars PROVE IInv'
  OBVIOUS
<1>1. CASE UNCHANGED vars
  BY <1>1 DEF vars, IInv, TypeOK, IdsKnown, PendingUnused, RunsKnown, GrantsDecided, Granted,
       ToolGranted, PathGranted, WritesApproved, AllowedOnce, AllowedForSession,
       OnlyOnceAsked, SpentOnce
<1>2. CASE Next
  BY <1>2, ModelCallKeeps, DenyKeeps, RejectKeeps, AllowKeeps DEF Next
<1> QED
  BY <1>1, <1>2

-----------------------------------------------------------------------------
\* The permission state, the decisions and the runs keep their types.
THEOREM PermissionTypes == Spec => []TypeOK
<1>1. IInv => TypeOK
  BY DEF IInv
<1> QED
  BY <1>1, InitInductive, NextInductive, PTL DEF Spec

\* Every write, and every use of an MCP tool, goes back to a decision of the user
\* that covers it: its tool and target, or a session grant it falls under.
THEOREM PermissionSound == Spec => []WritesApproved
<1>1. IInv => WritesApproved
  BY DEF IInv
<1> QED
  BY <1>1, InitInductive, NextInductive, PTL DEF Spec

\* No grant for the session ever covers a remote page, a harvest, destructive
\* memory or a writing MCP tool, and a hard write has its phrase typed.
THEOREM DestructiveAsked == Spec => []OnlyOnceAsked
<1>1. IInv => OnlyOnceAsked
  BY DEF IInv
<1> QED
  BY <1>1, InitInductive, NextInductive, PTL DEF Spec

\* Allow once is once, whatever approvals are left over on the host.
THEOREM ApprovalsSpentOnce == Spec => []SpentOnce
<1>1. IInv => SpentOnce
  BY DEF IInv
<1> QED
  BY <1>1, InitInductive, NextInductive, PTL DEF Spec

=============================================================================
