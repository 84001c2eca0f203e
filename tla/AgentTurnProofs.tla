-------------------------- MODULE AgentTurnProofs --------------------------
(***************************************************************************)
(* Proofs about AgentTurn for any tools, questions and corpus, and for any *)
(* number of turns, rounds and changes of the corpus.  The inductive       *)
(* invariant says what is in the hands of a turn at each of its points:    *)
(* which lens it has pinned, between which revisions its evidence was      *)
(* read, what the evidence covers, and what the checkpoint is good for.    *)
(***************************************************************************)
EXTENDS AgentTurn, CheckpointStoreProofs

-----------------------------------------------------------------------------
(* The inductive invariant.                                                *)

TurnType ==
  [at : Points, kind : {"ordinary", "linked", "retry"}, ask : Asks,
   bounded : BOOLEAN, cancel : BOOLEAN, round : Nat, attempt : Nat,
   toolsOff : BOOLEAN, deepen : BOOLEAN, deepened : BOOLEAN,
   synthesizing : BOOLEAN, calls : Nat, tool : Tools \union {NoTool},
   nudged : SUBSET Nat, corrected : BOOLEAN,
   search : {"none", "tried", "stopped"}, full : BOOLEAN]

LogsType == [ok : BOOLEAN, citable : BOOLEAN, empty : BOOLEAN]

\* What an entry of the store may hold.
Kept == Checkpoints \union {NoCheckpoint}

Types ==
  /\ corpus \in Lenses /\ pin \in Lenses \union {NoLens}
  /\ turn \in TurnType
  /\ reads \in SUBSET Tools /\ logs \in LogsType /\ evidence \in SUBSET Items
  /\ slot \in Checkpoints \union {NoCheckpoint}
  /\ store \in StoreOf(Kept)
  /\ turns \in Nat

\* Where each kind of turn may be.
Places ==
  /\ turn.kind = "retry" => turn.at \in {"pin", "enter", "retry", "retrying"}
  /\ turn.at \in {"retry", "retrying"} => turn.kind = "retry"
  /\ turn.at \in {"brief", "briefing", "routes", "kept"} => Linked
  /\ turn.at \in {"idle", "settle"} => turn.kind = "ordinary"
  /\ turn.at \in {"executing", "record"} => turn.calls > 0 /\ turn.tool \in Tools

\* Nothing has been retrieved before a turn has begun, nor by an ordinary turn.
Empty == evidence = {} /\ reads = {} /\ logs = NoLogs

Emptied ==
  /\ turn.at \in {"idle", "pin", "enter", "brief", "briefing", "settle"} => Empty
  /\ turn.kind = "ordinary" => evidence = {}

Pinned ==
  turn.kind /= "ordinary" /\ turn.at /= "pin" => pin \in Lenses /\ pin.events <= corpus.events

\* The evidence of a linked turn was read between the pinned revision and the current
\* one, under the pinned policy.
ReadSince(item) ==
  \/ item.lens = NoLens
  \/ /\ item.lens \in Lenses /\ item.lens.policy = pin.policy
     /\ pin.events <= item.lens.events /\ item.lens.events <= corpus.events

\* A turn at these points has just compared its lens with the corpus, and holds
\* evidence from that lens only, whatever happens to the corpus meanwhile.
Compared == {"retry", "retrying", "routes", "kept", "provider", "concluding"}

EvidenceInv ==
  /\ Linked => \A item \in evidence : ReadSince(item)
  /\ turn.at \in Compared => FromLens(evidence, pin)

\* What a linked turn counts as read is in its evidence.
Covered ==
  /\ Linked => reads \subseteq ToolsOf(evidence) /\ (logs.ok => SearchLogs \in reads)
  /\ turn.at = "routes" => logs.ok /\ TriageTools \subseteq reads

Good(checkpoint) ==
  /\ checkpoint \in Checkpoints /\ checkpoint /= NoCheckpoint
  /\ FromLens(checkpoint.evidence, checkpoint.lens)
  /\ Unread(checkpoint.ask, ToolsOf(checkpoint.evidence)) = {}

CheckpointInv ==
  /\ slot /= NoCheckpoint => Good(slot)
  /\ store[Own] /= NoEntry => Good(store[Own].checkpoint)

\* A retry has a checkpoint, and once it is entered works on its evidence.
RetryInv ==
  /\ turn.kind = "retry" => slot /= NoCheckpoint /\ turn.ask = slot.ask
  /\ turn.at \in {"retry", "retrying"} =>
       evidence = slot.evidence /\ (logs.citable \/ logs.empty)

\* What the ending says is true of the checkpoint that is left and of the evidence
\* that was used.
EndingInv ==
  /\ turn.at /= "settle" => last = NoEnding
  /\ RetryTruthful /\ Grounded
  /\ last.answer /= NoAnswer /\ last.answer.kind /= "ordinary" =>
       FromLens(last.answer.evidence, last.answer.lens)

IInv ==
  /\ Types /\ Places /\ Emptied /\ Pinned
  /\ EvidenceInv /\ Covered /\ CheckpointInv /\ RetryInv /\ EndingInv

-----------------------------------------------------------------------------
(* Steps that only move the turn.                                          *)

Keeps == UNCHANGED <<corpus, pin, found, slot, store, last, turns>>

\* The turn goes to another point, with the question and the kind it has.
Goes(at) == turn' \in TurnType /\ turn'.at = at /\ turn'.kind = turn.kind /\ turn'.ask = turn.ask

\* The points of the rounds, and what a turn has to have when it gets there.
Rounds == {"round", "send", "provider", "prefetch", "tools", "executing", "record", "final",
           "concluding"}

Ready(at) ==
  /\ at \in {"executing", "record"} => turn'.calls > 0 /\ turn'.tool \in Tools
  /\ at \in {"provider", "concluding"} => FromLens(evidence, pin)

\* An ordinary or linked turn that moves to a point of the rounds keeps the invariant.
LEMMA GoesOn ==
  ASSUME IInv, Keeps, NEW at \in Rounds, Goes(at), Ready(at), turn.kind /= "retry",
         turn.at \notin {"idle", "pin", "settle"}
  PROVE  IInv'
<1> USE DEF Keeps, Goes, Ready, Rounds, found, IInv
<1>1. Types'
  BY DEF Types
<1>2. Places'
  BY DEF Places, Linked
<1>3. Emptied' /\ Pinned'
  BY DEF Emptied, Pinned, Empty
<1>4. EvidenceInv'
  BY DEF EvidenceInv, Linked, Compared, ReadSince, FromLens
<1>5. Covered'
  BY DEF Covered, Linked
<1>6. CheckpointInv'
  BY DEF CheckpointInv
<1>7. RetryInv'
  BY DEF RetryInv
<1>8. EndingInv'
  BY DEF EndingInv, RetryTruthful, Grounded
<1> QED
  BY <1>1, <1>2, <1>3, <1>4, <1>5, <1>6, <1>7, <1>8

\* So does one that stays where it is, or starts to wait for what it has prepared.
LEMMA GoesAhead ==
  ASSUME IInv, Keeps, NEW at, Goes(at), turn'.calls = turn.calls, turn'.tool = turn.tool,
         \/ at = turn.at
         \/ turn.at = "retry" /\ at = "retrying"
         \/ turn.at = "brief" /\ at = "briefing"
         \/ turn.at = "routes" /\ at = "kept"
  PROVE  IInv'
<1> USE DEF Keeps, Goes, found, IInv
<1>1. Types'
  BY DEF Types
<1>2. Places'
  BY DEF Places, Linked
<1>3. Emptied' /\ Pinned'
  BY DEF Emptied, Pinned, Empty
<1>4. EvidenceInv'
  BY DEF EvidenceInv, Linked, Compared, ReadSince, FromLens
<1>5. Covered'
  BY DEF Covered, Linked
<1>6. CheckpointInv'
  BY DEF CheckpointInv
<1>7. RetryInv'
  BY DEF RetryInv
<1>8. EndingInv'
  BY DEF EndingInv, RetryTruthful, Grounded
<1> QED
  BY <1>1, <1>2, <1>3, <1>4, <1>5, <1>6, <1>7, <1>8

\* The lens still fits: everything that was read since the pin was read at the pin.
LEMMA CurrentEvidence ==
  ASSUME Types, Pinned, EvidenceInv, Linked, turn.at /= "pin", Current
  PROVE  FromLens(evidence, pin)
<1>1. pin \in Lenses /\ corpus \in Lenses /\ corpus.events = pin.events
  BY DEF Types, Pinned, Linked, Current
<1>2. ASSUME NEW item \in evidence PROVE item.lens \in {pin, NoLens}
  <2>1. ReadSince(item)
    BY <1>2 DEF EvidenceInv
  <2>2. ASSUME item.lens \in Lenses, item.lens.policy = pin.policy,
               pin.events <= item.lens.events, item.lens.events <= corpus.events
        PROVE  item.lens = pin
    <3>1. item.lens.events = pin.events
      BY <1>1, <2>2 DEF Lenses
    <3> QED
      BY <1>1, <2>2, <3>1 DEF Lenses
  <2> QED
    BY <2>1, <2>2 DEF ReadSince
<1> QED
  BY <1>2 DEF FromLens

\* A turn whose snapshot fits sends the provider evidence from its pin only.
LEMMA SentEvidence ==
  ASSUME IInv, turn.kind /= "retry", turn.at /= "pin", SnapshotFits
  PROVE  FromLens(evidence, pin)
<1>1. CASE Linked
  BY <1>1, CurrentEvidence DEF SnapshotFits, IInv
<1>2. CASE ~Linked
  <2>1. turn.kind = "ordinary"
    BY <1>2 DEF IInv, Types, TurnType, Linked
  <2> QED
    BY <2>1 DEF IInv, Emptied, FromLens
<1> QED
  BY <1>1, <1>2

-----------------------------------------------------------------------------
(* Steps that end the turn.                                                *)

\* A turn that has not begun or has returned is one of no particular question.
LEMMA NoTurnType ==
  ASSUME NEW at \in Points
  PROVE  NoTurn(at) \in TurnType /\ NoTurn(at).at = at /\ NoTurn(at).kind = "ordinary"
<1>1. AnyAsk \in Asks
  BY TurnAssumption DEF AnyAsk
<1> QED
  BY <1>1 DEF NoTurn, NewTurn, TurnType

\* An answer about logs: from one lens, on log evidence that it cites.
GoodAnswer(reason, answer) ==
  answer.kind /= "ordinary" =>
    /\ FromLens(answer.evidence, answer.lens)
    /\ SearchLogs \in ToolsOf(answer.evidence)
    /\ answer.cited \in {"valid", "appendix", "host"}
    /\ answer.logs.citable \/ (answer.logs.empty /\ answer.cited /= "appendix")
    /\ answer.ask.broad => TriageTools \subseteq ToolsOf(answer.evidence)
    /\ reason /= "budget_rounds_answer" /\ answer.cited /= "host" =>
         Unread(answer.ask, ToolsOf(answer.evidence)) = {}

\* A turn may end in any state, if what it says of the checkpoint is true of the
\* slot, and an answer is a good one and clears the slot.
LEMMA Ends ==
  ASSUME IInv, NEW reason, NEW told, NEW answer, Finish(reason, told, answer),
         slot' \in {slot, NoCheckpoint},
         told = "preserved" => slot' /= NoCheckpoint,
         answer /= NoAnswer => slot' = NoCheckpoint /\ GoodAnswer(reason, answer)
  PROVE  IInv'
<1>0. /\ turn' \in TurnType /\ turn'.at = "settle" /\ turn'.kind = "ordinary"
      /\ pin' = NoLens /\ reads' = {} /\ evidence' = {} /\ logs' = NoLogs
      /\ corpus' = corpus /\ store' = store /\ turns' = turns
      /\ last'.reason = reason /\ last'.told = told /\ last'.answer = answer
  BY NoTurnType DEF Finish, Ending, Points
<1> USE DEF IInv
<1>1. Types'
  <2>1. NoLogs \in LogsType
    BY DEF NoLogs, LogsType
  <2> QED
    BY <1>0, <2>1 DEF Types
<1>2. Places'
  BY <1>0 DEF Places, Linked
<1>3. Emptied' /\ Pinned'
  <2>1. NoLogs' = NoLogs
    BY DEF NoLogs
  <2> QED
    BY <1>0, <2>1 DEF Emptied, Pinned, Empty
<1>4. EvidenceInv'
  BY <1>0 DEF EvidenceInv, Linked, Compared, FromLens
<1>5. Covered'
  BY <1>0 DEF Covered, Linked
<1>6. CheckpointInv'
  <2>1. slot' /= NoCheckpoint => slot' = slot
    OBVIOUS
  <2> QED
    BY <1>0, <2>1 DEF CheckpointInv
<1>7. RetryInv'
  BY <1>0 DEF RetryInv
<1>8. EndingInv'
  <2>1. RetryTruthful'
    <3>1. slot' /= NoCheckpoint => Unread(slot.ask, ToolsOf(slot.evidence)) = {} /\ slot' = slot
      BY DEF CheckpointInv, Good
    <3> QED
      BY <1>0, <3>1 DEF RetryTruthful
  <2>2. answer /= NoAnswer => GoodAnswer(reason, answer)
    OBVIOUS
  <2>3. Grounded'
    BY <1>0, <2>2 DEF Grounded, GoodAnswer
  <2>4. last'.answer /= NoAnswer /\ last'.answer.kind /= "ordinary" =>
          FromLens(last'.answer.evidence, last'.answer.lens)
    BY <1>0, <2>2 DEF GoodAnswer
  <2> QED
    BY <1>0, <2>1, <2>3, <2>4 DEF EndingInv
<1> QED
  BY <1>1, <1>2, <1>3, <1>4, <1>5, <1>6, <1>7, <1>8

\* The endings without an answer.
LEMMA EndsUnanswered ==
  ASSUME IInv
  PROVE  /\ \A reason : EndTurn(reason) => IInv'
         /\ \A reason : EndUnanswered(reason) => IInv'
         /\ \A reason : Finish(reason, "nothing", NoAnswer) /\ slot' = NoCheckpoint => IInv'
         /\ Cancelled \/ DeadlineEnds => IInv'
<1>1. ASSUME NEW reason, EndTurn(reason) PROVE IInv'
  BY <1>1, Ends DEF EndTurn
<1>2. ASSUME NEW reason, EndUnanswered(reason) PROVE IInv'
  BY <1>2, Ends DEF EndUnanswered, Preserved
<1>3. ASSUME NEW reason, Finish(reason, "nothing", NoAnswer), slot' = NoCheckpoint PROVE IInv'
  BY <1>3, Ends
<1> QED
  BY <1>1, <1>2, <1>3 DEF Cancelled, DeadlineEnds

\* What is shown of a turn's evidence is good if the evidence is.
LEMMA Shows ==
  ASSUME IInv, NEW reason, NEW cited, Show(reason, cited), FromLens(evidence, pin),
         turn.kind /= "ordinary" =>
           /\ SearchLogs \in ToolsOf(evidence)
           /\ cited \in {"valid", "appendix", "host"}
           /\ logs.citable \/ (logs.empty /\ cited /= "appendix")
           /\ turn.ask.broad => TriageTools \subseteq ToolsOf(evidence)
           /\ reason /= "budget_rounds_answer" /\ cited /= "host" =>
                Unread(turn.ask, ToolsOf(evidence)) = {}
  PROVE  IInv'
<1> DEFINE answer == [kind |-> turn.kind, cited |-> cited, lens |-> pin, evidence |-> evidence,
                      ask |-> turn.ask, logs |-> logs]
<1>1. Finish(reason, "nothing", answer) /\ slot' = NoCheckpoint
  BY DEF Show
<1>2. /\ answer.kind = turn.kind /\ answer.cited = cited /\ answer.lens = pin
      /\ answer.evidence = evidence /\ answer.ask = turn.ask /\ answer.logs = logs
  OBVIOUS
<1> HIDE DEF answer
<1>3. GoodAnswer(reason, answer)
  BY <1>2 DEF GoodAnswer
<1> QED
  BY <1>1, <1>3, Ends

\* Having read more tools leaves no more sources unread; the linked logs are one
\* of them, and so are the triage tools of a broad question.
LEMMA FullyRead ==
  ASSUME NEW ask \in Asks, NEW tools, NEW more, tools \subseteq more, Unread(ask, tools) = {}
  PROVE  /\ Unread(ask, more) = {} /\ SearchLogs \in more
         /\ ask.broad => TriageTools \subseteq more
<1>1. \A i \in DOMAIN ask.required : ask.required[i] \intersect more /= {}
  BY DEF Unread
<1>2. /\ ask.required \in Seq(SUBSET Tools) /\ Len(ask.required) > 0
      /\ ask.required[1] \subseteq {SearchLogs}
      /\ ask.broad => \A tool \in TriageTools : \E i \in DOMAIN ask.required :
           ask.required[i] = {tool}
  BY TurnAssumption
<1>3. 1 \in DOMAIN ask.required
  BY <1>2
<1>4. Unread(ask, more) = {}
  BY <1>1 DEF Unread
<1>5. SearchLogs \in more
  BY <1>1, <1>2, <1>3
<1>6. ASSUME ask.broad, NEW tool \in TriageTools PROVE tool \in more
  <2>1. PICK i \in DOMAIN ask.required : ask.required[i] = {tool}
    BY <1>2, <1>6, Zenon
  <2>2. {tool} \intersect more /= {}
    BY <1>1, <2>1
  <2> QED
    BY <2>2
<1> QED
  BY <1>4, <1>5, <1>6

-----------------------------------------------------------------------------
(* The steps of the rounds.                                                *)

\* Fields of a turn's record that a move may change.
LEMMA TurnFields ==
  ASSUME Types
  PROVE  /\ \A at \in Points : LET t == [turn EXCEPT !.at = at]
              IN t \in TurnType /\ t.at = at /\ t.kind = turn.kind /\ t.ask = turn.ask
                 /\ t.calls = turn.calls /\ t.tool = turn.tool
         /\ turn.at \in Points /\ turn.ask \in Asks /\ turn.calls \in Nat
         /\ turn.kind \in {"ordinary", "linked", "retry"} /\ turn.tool \in Tools \union {NoTool}
<1>1. turn \in TurnType
  BY DEF Types
<1> QED
  BY <1>1 DEF TurnType

\* The record of a turn that leaves the provider.
LEMMA LeavesProvider ==
  ASSUME Types, NEW at \in Points
  PROVE  LET t == LeaveProvider(at)
         IN t \in TurnType /\ t.at = at /\ t.kind = turn.kind /\ t.ask = turn.ask
<1>1. turn \in TurnType
  BY DEF Types
<1> QED
  BY <1>1 DEF LeaveProvider, TurnType

\* The record of a turn that has had a call answered.
LEMMA CallAnswered ==
  ASSUME Types, turn.calls > 0
  PROVE  /\ Answered \in TurnType /\ Answered.at = "tools" /\ Answered.kind = turn.kind
         /\ Answered.ask = turn.ask
<1>1. turn \in TurnType
  BY DEF Types
<1>2. turn.calls - 1 \in Nat
  BY <1>1 DEF TurnType
<1> QED
  BY <1>1, <1>2 DEF Answered, TurnType, Points

\* A turn that starts another round.
LEMMA StartsRound ==
  ASSUME NEW t \in TurnType, t.at = "round", t.kind = turn.kind, t.ask = turn.ask, NextRound(t)
  PROVE  Goes("round") /\ Keeps
<1>1. t.round + 1 \in Nat
  BY DEF TurnType
<1> QED
  BY <1>1 DEF NextRound, Goes, Keeps, TurnType

\* A round starts, or the turn ends instead.
LEMMA StartRoundStep ==
  ASSUME IInv, StartRound
  PROVE  IInv'
<1> DEFINE deepen == /\ Linked /\ turn.ask.broad /\ turn.full /\ Missing = {}
                     /\ ~turn.deepened /\ ~logs.empty
<1>1. CASE /\ turn' = [turn EXCEPT !.at = "send", !.deepen = deepen,
                                   !.deepened = @ \/ deepen,
                                   !.synthesizing = Linked /\ Missing = {}]
           /\ Keeps
  <2>1. turn \in TurnType
    BY DEF IInv, Types
  <2>2. ASSUME NEW a \in BOOLEAN, NEW b \in BOOLEAN, NEW c \in BOOLEAN,
               turn' = [turn EXCEPT !.at = "send", !.deepen = a, !.deepened = b,
                                    !.synthesizing = c]
        PROVE  Goes("send")
    <3> DEFINE first  == [turn EXCEPT !.at = "send"]
               second == [first EXCEPT !.deepen = a]
               third  == [second EXCEPT !.deepened = b]
    <3>1. turn' = [third EXCEPT !.synthesizing = c]
      BY <2>2
    <3>2. /\ first \in TurnType
          /\ first.at = "send" /\ first.kind = turn.kind /\ first.ask = turn.ask
      BY <2>1 DEF TurnType, Points
    <3> HIDE DEF first
    <3>3. /\ second \in TurnType
          /\ second.at = first.at /\ second.kind = first.kind /\ second.ask = first.ask
      BY <3>2 DEF TurnType
    <3> HIDE DEF second
    <3>4. /\ third \in TurnType
          /\ third.at = second.at /\ third.kind = second.kind /\ third.ask = second.ask
      BY <3>3 DEF TurnType
    <3> HIDE DEF third
    <3>5. /\ turn' \in TurnType
          /\ turn'.at = third.at /\ turn'.kind = third.kind /\ turn'.ask = third.ask
      BY <3>1, <3>4 DEF TurnType
    <3> QED
      BY <3>2, <3>3, <3>4, <3>5 DEF Goes
  <2>3. Goes("send")
    BY <1>1, <2>2, Zenon
  <2>4. Ready("send") /\ turn.kind /= "retry"
    BY DEF Ready, IInv, Places, StartRound
  <2> QED
    BY <1>1, <2>3, <2>4, GoesOn DEF StartRound, Rounds
<1> QED
  BY <1>1, EndsUnanswered DEF StartRound, Keeps

\* A request goes out with a snapshot that fits, or the turn ends.
LEMMA SendSteps ==
  ASSUME IInv, SendRound \/ SendFinal
  PROVE  IInv'
<1>1. ASSUME NEW at \in {"provider", "concluding"}, turn.at \in {"send", "final"},
             SnapshotFits, turn' = [turn EXCEPT !.at = at], Keeps
      PROVE  IInv'
  <2>1. Goes(at)
    BY <1>1, TurnFields DEF IInv, Goes, Points
  <2>2. turn.kind /= "retry"
    BY <1>1 DEF IInv, Places
  <2>3. Ready(at)
    BY <1>1, <2>2, SentEvidence DEF Ready
  <2> QED
    BY <1>1, <2>1, <2>2, <2>3, GoesOn DEF Rounds
<1> QED
  BY <1>1, EndsUnanswered DEF SendRound, SendFinal, Keeps

\* What the provider's reply leads to, apart from an answer.
LEMMA ProviderSteps ==
  ASSUME IInv,
         \/ ToolsUnsupported \/ Prefetched \/ ContextRejected \/ ProviderFails
         \/ \E n \in 1..MaxBatch : AsksForTools(n)
  PROVE  IInv'
<1>1. turn \in TurnType /\ (turn.at \in {"provider", "prefetch"} => turn.kind /= "retry")
  BY DEF IInv, Types, Places
<1>2. CASE ToolsUnsupported
  <2>1. Goes("prefetch") /\ Ready("prefetch")
    BY <1>1, <1>2 DEF ToolsUnsupported, Goes, Ready, TurnType, Points
  <2> QED
    BY <1>1, <1>2, <2>1, GoesOn DEF ToolsUnsupported, Keeps, Rounds
<1>3. ASSUME turn.at = "prefetch", turn' = [turn EXCEPT !.at = "send"], Keeps
      PROVE  IInv'
  <2>1. Goes("send") /\ Ready("send")
    BY <1>1, <1>3 DEF Goes, Ready, TurnType, Points
  <2> QED
    BY <1>1, <1>3, <2>1, GoesOn DEF Rounds
<1>4. ASSUME turn.at = "provider", turn' = [turn EXCEPT !.at = "send", !.attempt = 1], Keeps
      PROVE  IInv'
  <2>1. Goes("send") /\ Ready("send")
    BY <1>1, <1>4 DEF Goes, Ready, TurnType, Points
  <2> QED
    BY <1>1, <1>4, <2>1, GoesOn DEF Rounds
<1>5. ASSUME NEW n \in 1..MaxBatch, AsksForTools(n) PROVE IInv'
  <2>1. turn.at = "provider"
    BY <1>5 DEF AsksForTools
  <2>2. n \in Nat
    <3>1. MaxBatch \in Nat
      BY TurnAssumption
    <3> QED
      BY <3>1
  <2>3. Goes("tools") /\ Ready("tools")
    <3> DEFINE t == LeaveProvider("tools")
    <3>1. t \in TurnType /\ t.at = "tools" /\ t.kind = turn.kind /\ t.ask = turn.ask
      BY LeavesProvider DEF IInv, Points
    <3>2. turn' = [t EXCEPT !.calls = n, !.synthesizing = FALSE]
      BY <1>5 DEF AsksForTools
    <3> HIDE DEF t
    <3> QED
      BY <2>2, <3>1, <3>2 DEF Goes, Ready, TurnType
  <2> QED
    BY <1>1, <1>5, <2>1, <2>3, GoesOn DEF AsksForTools, Keeps, Rounds
<1>6. CASE Prefetched
  BY <1>3, <1>6, EndsUnanswered DEF Prefetched, Keeps
<1>7. CASE ContextRejected
  BY <1>4, <1>7, EndsUnanswered DEF ContextRejected, Keeps
<1>8. CASE ProviderFails
  BY <1>8, EndsUnanswered DEF ProviderFails
<1> QED
  BY <1>2, <1>5, <1>6, <1>7, <1>8

\* A round that the host ends by asking again goes back to the start.
LEMMA AskAgainSteps ==
  ASSUME IInv,
         \/ \E i \in Nudges : Nudge(i)
         \/ \E cited \in Citations : Correct(cited)
         \/ BatchDone
  PROVE  IInv'
<1>1. turn \in TurnType /\ (turn.at \in {"provider", "tools"} => turn.kind /= "retry")
  BY DEF IInv, Types, Places
<1>2. ASSUME Goes("round"), Keeps, turn.at \in {"provider", "tools"} PROVE IInv'
  BY <1>1, <1>2, GoesOn DEF Rounds, Ready
<1>3. ASSUME NEW i \in Nudges, Nudge(i) PROVE IInv'
  <2>1. i \in Nat
    <3>1. i \in DOMAIN turn.ask.required
      BY <1>3 DEF Nudges, Missing, Unread
    <3>2. turn.ask.required \in Seq(SUBSET Tools)
      BY <1>1, TurnAssumption DEF TurnType
    <3> QED
      BY <3>1, <3>2
  <2> DEFINE left == LeaveProvider("round")
             t == [left EXCEPT !.nudged = @ \union {i}]
  <2>2. left \in TurnType /\ left.at = "round" /\ left.kind = turn.kind /\ left.ask = turn.ask
    BY LeavesProvider DEF IInv, Points
  <2>3. NextRound(t) /\ turn.at = "provider"
    BY <1>3 DEF Nudge
  <2> HIDE DEF left
  <2>4. t \in TurnType /\ t.at = "round" /\ t.kind = turn.kind /\ t.ask = turn.ask
    BY <2>1, <2>2 DEF TurnType
  <2> HIDE DEF t
  <2> QED
    BY <1>2, <2>3, <2>4, StartsRound
<1>4. ASSUME NEW cited, Correct(cited) PROVE IInv'
  <2> DEFINE left == LeaveProvider("round")
             t == [left EXCEPT !.corrected = TRUE]
  <2>1. left \in TurnType /\ left.at = "round" /\ left.kind = turn.kind /\ left.ask = turn.ask
    BY LeavesProvider DEF IInv, Points
  <2>2. NextRound(t) /\ turn.at = "provider"
    BY <1>4 DEF Correct
  <2> HIDE DEF left
  <2>3. t \in TurnType /\ t.at = "round" /\ t.kind = turn.kind /\ t.ask = turn.ask
    BY <2>1 DEF TurnType
  <2> HIDE DEF t
  <2> QED
    BY <1>2, <2>2, <2>3, StartsRound
<1>5. CASE BatchDone
  <2> DEFINE t == [turn EXCEPT !.at = "round"]
  <2>1. NextRound(t) /\ turn.at = "tools"
    BY <1>5 DEF BatchDone
  <2>2. t \in TurnType /\ t.at = "round" /\ t.kind = turn.kind /\ t.ask = turn.ask
    BY TurnFields DEF IInv, Points
  <2> HIDE DEF t
  <2> QED
    BY <1>2, <2>1, <2>2, StartsRound
<1> QED
  BY <1>3, <1>4, <1>5

\* The answer to a request: at that point the evidence is from the pin.
LEMMA AnswerStep ==
  ASSUME IInv, NEW cited \in Citations, Answer(cited)
  PROVE  IInv'
<1>1. /\ turn.at = "provider" /\ FromLens(evidence, pin) /\ turn.ask \in Asks
  BY TurnFields DEF Answer, IInv, EvidenceInv, Compared
<1>2. CASE turn.kind = "ordinary" /\ Show("stop", "none")
  BY <1>1, <1>2, Shows
<1>3. ASSUME Linked, Missing = {}, NEW how \in {"valid", "appendix"}, Show("stop", how),
             logs.citable \/ (logs.empty /\ how = "valid")
      PROVE  IInv'
  <2>1. reads \subseteq ToolsOf(evidence)
    BY <1>3 DEF IInv, Covered
  <2>2. /\ Unread(turn.ask, ToolsOf(evidence)) = {} /\ SearchLogs \in ToolsOf(evidence)
        /\ turn.ask.broad => TriageTools \subseteq ToolsOf(evidence)
    BY <1>1, <1>3, <2>1, FullyRead DEF Missing
  <2>3. logs.citable \/ (logs.empty /\ how /= "appendix")
    BY <1>3
  <2> QED
    BY <1>1, <1>3, <2>2, <2>3, Shows
<1>4. CASE Linked /\ Missing = {}
  <2>1. cited = "valid" => logs.citable \/ logs.empty
    BY DEF Citations
  <2>2. \/ cited = "valid" /\ Show("stop", "valid")
        \/ logs.citable /\ Show("stop", "appendix")
        \/ EndTurn("invalid_grounded_answer")
    BY <1>4 DEF Answer, Linked
  <2> QED
    BY <1>3, <1>4, <2>1, <2>2, EndsUnanswered
<1> QED
  BY <1>2, <1>4, EndsUnanswered DEF Answer

\* One tool call of an answer: refused, started, failed.
LEMMA CallSteps ==
  ASSUME IInv,
         \/ RejectCall
         \/ \E tool \in Tools : ExecuteTool(tool)
         \/ \E stops \in BOOLEAN : ToolFails(stops)
         \/ AwaitPermission
  PROVE  IInv'
<1>1. turn \in TurnType /\ (turn.at \in {"tools", "executing"} => turn.kind /= "retry")
  BY DEF IInv, Types, Places
<1>2. CASE RejectCall
  <2>1. Goes("tools") /\ Ready("tools")
    BY <1>2, CallAnswered DEF RejectCall, Goes, Ready, IInv
  <2> QED
    BY <1>1, <1>2, <2>1, GoesOn DEF RejectCall, Keeps, Rounds
<1>3. ASSUME NEW tool \in Tools, NEW at \in {"record", "executing"}, turn.at = "tools",
             turn.calls > 0, Keeps,
             turn' = [turn EXCEPT !.tool = tool, !.synthesizing = FALSE, !.at = at]
      PROVE  IInv'
  <2>1. Goes(at) /\ Ready(at)
    BY <1>1, <1>3 DEF Goes, Ready, TurnType, Points
  <2> QED
    BY <1>1, <1>3, <2>1, GoesOn DEF Rounds
<1>4. ASSUME NEW tool \in Tools, ExecuteTool(tool) PROVE IInv'
  <2>1. CASE Cancelled
    BY <2>1, EndsUnanswered
  <2>2. CASE ~Cancelled
    <3> DEFINE at == IF tool \in LogTools /\ ~Current THEN "record" ELSE "executing"
    <3>1. /\ turn' = [turn EXCEPT !.tool = tool, !.synthesizing = FALSE, !.at = at]
          /\ Keeps /\ turn.at = "tools" /\ turn.calls > 0
      BY <1>4, <2>2 DEF ExecuteTool, Keeps
    <3>2. at \in {"record", "executing"}
      OBVIOUS
    <3> HIDE DEF at
    <3> QED
      BY <1>3, <3>1, <3>2
  <2> QED
    BY <2>1, <2>2
<1>5. ASSUME NEW stops \in BOOLEAN, ToolFails(stops) PROVE IInv'
  <2>1. Searched(stops) \in {"none", "tried", "stopped"}
    BY <1>1 DEF Searched, TurnType
  <2>2. turn.at = "executing" /\ turn.calls > 0 /\ turn.tool \in Tools
    BY <1>5 DEF ToolFails, IInv, Places
  <2>3. Goes("record") /\ Ready("record")
    BY <1>1, <1>5, <2>1, <2>2 DEF ToolFails, Goes, Ready, TurnType, Points
  <2> QED
    BY <1>1, <1>5, <2>2, <2>3, GoesOn DEF ToolFails, Keeps, Rounds
<1>6. CASE AwaitPermission
  BY <1>6, EndsUnanswered DEF AwaitPermission
<1> QED
  BY <1>2, <1>4, <1>5, <1>6

\* The last request, once the rounds are used up.
LEMMA FinalSteps ==
  ASSUME IInv, StartFinal \/ FinalFails
  PROVE  IInv'
<1>1. ASSUME turn.at = "round", turn' = [turn EXCEPT !.at = "final", !.synthesizing = TRUE], Keeps
      PROVE  IInv'
  <2>1. turn \in TurnType /\ turn.kind /= "retry"
    BY <1>1 DEF IInv, Types, Places
  <2>2. Goes("final") /\ Ready("final")
    BY <1>1, <2>1 DEF Goes, Ready, TurnType, Points
  <2> QED
    BY <1>1, <2>1, <2>2, GoesOn DEF Rounds
<1> QED
  BY <1>1, EndsUnanswered DEF StartFinal, FinalFails, Keeps

\* The last answer: withheld unless there is log evidence, and a complete triage.
LEMMA FinalAnswerStep ==
  ASSUME IInv, NEW cited \in Citations, FinalAnswer(cited)
  PROVE  IInv'
<1>1. turn.at = "concluding" /\ FromLens(evidence, pin) /\ turn.kind /= "retry"
  BY DEF FinalAnswer, IInv, EvidenceInv, Compared, Places
<1>2. CASE ~Linked
  <2>1. turn.kind = "ordinary"
    BY <1>1, <1>2, TurnFields DEF IInv, Linked
  <2> QED
    BY <1>1, <1>2, <2>1, Shows DEF FinalAnswer
<1>3. CASE Linked /\ ~Withheld(cited)
  <2> DEFINE how == IF cited = "valid" THEN "valid" ELSE "appendix"
  <2>1. Show("budget_rounds_answer", how)
    BY <1>3 DEF FinalAnswer
  <2>2. reads \subseteq ToolsOf(evidence) /\ SearchLogs \in reads
    BY <1>3 DEF IInv, Covered, Withheld
  <2>3. turn.ask.broad => TriageTools \subseteq reads
    BY <1>3, Zenon DEF Withheld
  <2>4. /\ how \in {"valid", "appendix", "host"}
        /\ logs.citable \/ (logs.empty /\ how /= "appendix")
    BY <1>3 DEF Citations, Withheld
  <2> HIDE DEF how
  <2> QED
    BY <1>1, <2>1, <2>2, <2>3, <2>4, Shows
<1>4. CASE Linked /\ Withheld(cited)
  BY <1>4, EndsUnanswered DEF FinalAnswer
<1> QED
  BY <1>2, <1>3, <1>4

-----------------------------------------------------------------------------
(* The steps that retrieve evidence, and the checkpoint they leave.        *)

\* More evidence covers more tools.
LEMMA MoreTools ==
  ASSUME NEW items, NEW more, items \subseteq more
  PROVE  ToolsOf(items) \subseteq ToolsOf(more)
BY DEF ToolsOf

\* The checkpoint of a turn that has read every source at one lens is a good one.
LEMMA NewCheckpointGood ==
  ASSUME IInv, Linked, Missing = {}, turn.at /= "pin", FromLens(evidence, pin),
         NewCheckpoint /= NoCheckpoint
  PROVE  Good(NewCheckpoint)
<1>1. /\ NewCheckpoint.ask = turn.ask /\ NewCheckpoint.lens = pin
      /\ NewCheckpoint.evidence = evidence
  BY DEF NewCheckpoint
<1>2. NewCheckpoint \in Checkpoints
  <2>1. turn.ask \in Asks /\ pin \in Lenses /\ evidence \in SUBSET Items /\ logs.empty \in BOOLEAN
    BY TurnFields DEF IInv, Types, Pinned, Linked, LogsType
  <2> QED
    BY <2>1 DEF NewCheckpoint, Checkpoints
<1>3. Unread(turn.ask, ToolsOf(evidence)) = {}
  <2>1. reads \subseteq ToolsOf(evidence) /\ turn.ask \in Asks
    BY TurnFields DEF IInv, Covered
  <2> QED
    BY <2>1, FullyRead DEF Missing
<1> QED
  BY <1>1, <1>2, <1>3 DEF Good

\* A step that only moves a linked or ordinary turn on and replaces the checkpoint.
LEMMA Keeping ==
  ASSUME IInv, NEW at \in {"round", "tools"}, Goes(at), turn.kind /= "retry",
         turn.at \in {"kept", "record"},
         UNCHANGED <<corpus, pin, found, store, last, turns>>,
         slot' = NoCheckpoint \/ slot' = slot \/ Good(slot')
  PROVE  IInv'
<1> USE DEF Goes, found, IInv
<1>1. Types'
  BY DEF Types, Good
<1>2. Places'
  BY DEF Places, Linked
<1>3. Emptied' /\ Pinned'
  BY DEF Emptied, Pinned, Empty
<1>4. EvidenceInv'
  BY DEF EvidenceInv, Linked, Compared, ReadSince, FromLens
<1>5. Covered'
  BY DEF Covered, Linked
<1>6. CheckpointInv'
  <2>1. slot' /= NoCheckpoint => Good(slot')
    BY DEF CheckpointInv
  <2> QED
    BY <2>1 DEF CheckpointInv
<1>7. RetryInv'
  BY DEF RetryInv
<1>8. EndingInv'
  BY DEF EndingInv, RetryTruthful, Grounded
<1> QED
  BY <1>1, <1>2, <1>3, <1>4, <1>5, <1>6, <1>7, <1>8

\* The brief's checkpoint, and the one after each result.
LEMMA KeepSteps ==
  ASSUME IInv, KeepBrief \/ RecordResult
  PROVE  IInv'
<1>1. CASE KeepBrief
  <2>1. Goes("round")
    BY <1>1, TurnFields DEF KeepBrief, Goes, IInv, Points
  <2>2. Linked /\ turn.at = "kept" /\ turn.kind /= "retry" /\ FromLens(evidence, pin)
    BY <1>1 DEF KeepBrief, IInv, Places, EvidenceInv, Compared, Linked
  <2>3. slot' = NoCheckpoint \/ slot' = slot \/ Good(slot')
    <3>1. CASE Checkpointable
      <4>1. slot' = NewCheckpoint /\ Missing = {}
        BY <1>1, <3>1 DEF KeepBrief, Checkpointable
      <4>2. CASE NewCheckpoint /= NoCheckpoint
        <5>1. Good(NewCheckpoint)
          BY <2>2, <4>1, <4>2, NewCheckpointGood
        <5> QED
          BY <4>1, <5>1
      <4> QED
        BY <4>1, <4>2
    <3> QED
      BY <1>1, <3>1 DEF KeepBrief
  <2> QED
    BY <1>1, <2>1, <2>2, <2>3, Keeping DEF KeepBrief
<1>2. CASE RecordResult
  <2>0. turn.at = "record" /\ turn.kind /= "retry" /\ turn.calls > 0
    BY <1>2 DEF RecordResult, IInv, Places
  <2>1. Goes("tools")
    BY <1>2, <2>0, CallAnswered DEF RecordResult, Goes, IInv
  <2>2. slot' = NoCheckpoint \/ slot' = slot \/ Good(slot')
    <3>1. CASE Checkpointable /\ Current
      <4>1. slot' = NewCheckpoint /\ Missing = {} /\ Linked
        BY <1>2, <3>1 DEF RecordResult, Checkpointable, Recorded
      <4>2. FromLens(evidence, pin)
        BY <2>0, <3>1, <4>1, CurrentEvidence DEF IInv
      <4>3. CASE NewCheckpoint /= NoCheckpoint
        <5>1. Good(NewCheckpoint)
          BY <2>0, <4>1, <4>2, <4>3, NewCheckpointGood
        <5> QED
          BY <4>1, <5>1
      <4> QED
        BY <4>1, <4>3
    <3> QED
      BY <1>2, <3>1 DEF RecordResult, Recorded
  <2> QED
    BY <1>2, <2>0, <2>1, <2>2, Keeping DEF RecordResult
<1> QED
  BY <1>1, <1>2

\* A result is read at the current revision, whatever was compared before.
LEMMA ToolReadsStep ==
  ASSUME IInv, NEW hits \in BOOLEAN, NEW stops \in BOOLEAN, ToolReads(hits, stops)
  PROVE  IInv'
<1> DEFINE counts == turn.tool = SearchLogs => hits
           kept == Linked /\ (counts \/ turn.deepen)
           item == [tool |-> turn.tool, lens |-> ReadAt(turn.tool)]
<1>1. /\ turn.at = "executing" /\ turn.kind /= "retry" /\ turn.calls > 0 /\ turn.tool \in Tools
      /\ turn \in TurnType
  BY DEF ToolReads, IInv, Places, Types
<1>2. Goes("record") /\ turn'.calls > 0 /\ turn'.tool \in Tools
  <2>1. Searched(stops) \in {"none", "tried", "stopped"}
    BY <1>1 DEF Searched, TurnType
  <2> QED
    BY <1>1, <2>1 DEF ToolReads, Goes, TurnType, Points
<1>3. /\ reads' = IF counts THEN reads \union {turn.tool} ELSE reads
      /\ evidence' = IF kept THEN evidence \union {item} ELSE evidence
      /\ UNCHANGED <<corpus, pin, slot, store, last, turns>>
  BY DEF ToolReads
<1>4. logs' = IF turn.tool = SearchLogs /\ hits THEN [logs EXCEPT !.ok = TRUE, !.citable = TRUE]
              ELSE logs
  BY DEF ToolReads
<1>5. /\ logs' \in LogsType
      /\ logs'.ok => logs.ok \/ (turn.tool = SearchLogs /\ counts)
  <2>1. logs \in LogsType
    BY DEF IInv, Types
  <2> QED
    BY <1>4, <2>1 DEF LogsType
<1>6. Linked => item \in Items /\ ReadSince(item)
  <2>1. CASE Linked /\ turn.tool \in LogTools
    <3>1. pin \in Lenses /\ corpus \in Lenses /\ pin.events <= corpus.events
      BY <1>1, <2>1 DEF IInv, Types, Pinned, Linked
    <3>2. ReadAt(turn.tool) = [events |-> corpus.events, policy |-> pin.policy]
      BY <2>1 DEF ReadAt
    <3>3. item.tool = turn.tool /\ item.lens = ReadAt(turn.tool)
      OBVIOUS
    <3>4. /\ item.lens \in Lenses /\ item.lens.policy = pin.policy
          /\ item.lens.events = corpus.events
      BY <3>1, <3>2, <3>3 DEF Lenses
    <3>5. corpus.events \in Nat
      BY <3>1 DEF Lenses
    <3> QED
      BY <1>1, <3>1, <3>4, <3>5 DEF ReadSince, Items
  <2>2. CASE turn.tool \notin LogTools
    BY <1>1, <2>2 DEF ReadAt, ReadSince, Items
  <2> QED
    BY <2>1, <2>2
<1>7. turn.tool \in ToolsOf({item})
  <2>1. turn.tool \in Tools
    BY <1>1
  <2>2. Covers(turn.tool) = {turn.tool}
    BY <2>1, TurnAssumption DEF Covers, Briefs
  <2> QED
    BY <2>2 DEF ToolsOf
<1>8. item.tool = turn.tool
  OBVIOUS
<1> HIDE DEF item
<1>9. counts => (Linked => kept)
  OBVIOUS
<1>10. Linked' <=> Linked
  BY <1>2 DEF Goes, Linked
<1>11. kept => Linked
  OBVIOUS
<1> HIDE DEF counts, kept
<1>12. Types'
  <2>1. evidence' \in SUBSET Items
    BY <1>3, <1>6, <1>11 DEF IInv, Types
  <2>2. reads' \in SUBSET Tools
    BY <1>1, <1>3 DEF IInv, Types
  <2> QED
    BY <1>2, <1>3, <1>5, <2>1, <2>2 DEF IInv, Types, Goes
<1>13. Places'
  BY <1>1, <1>2, <1>3 DEF IInv, Places, Goes, Linked
<1>14. Emptied' /\ Pinned'
  BY <1>1, <1>2, <1>3, <1>11 DEF IInv, Emptied, Pinned, Goes, Linked
<1>15. EvidenceInv'
  <2>1. ASSUME Linked PROVE \A x \in evidence' : ReadSince(x)
    BY <1>3, <1>6, <2>1 DEF IInv, EvidenceInv
  <2>2. ASSUME NEW x, ReadSince(x) PROVE ReadSince(x)'
    BY <1>3, <2>2 DEF ReadSince
  <2>3. ASSUME Linked, NEW x \in evidence' PROVE ReadSince(x)'
    BY <2>1, <2>2, <2>3
  <2>4. turn'.at \notin Compared
    BY <1>2 DEF Goes, Compared
  <2> QED
    BY <1>10, <2>3, <2>4 DEF EvidenceInv, Compared, ReadSince
<1>16. Covered'
  <2>1. ASSUME Linked PROVE reads' \subseteq ToolsOf(evidence')
    <3>1. reads \subseteq ToolsOf(evidence)
      BY <2>1 DEF IInv, Covered
    <3>2. ToolsOf(evidence) \subseteq ToolsOf(evidence')
      BY <1>3, MoreTools
    <3>3. kept => turn.tool \in ToolsOf(evidence')
      <4>1. kept => ToolsOf({item}) \subseteq ToolsOf(evidence')
        BY <1>3, MoreTools
      <4> QED
        BY <1>7, <4>1
    <3> QED
      BY <1>3, <1>9, <2>1, <3>1, <3>2, <3>3
  <2>2. ASSUME Linked, logs'.ok PROVE SearchLogs \in reads'
    BY <1>3, <1>5, <2>2 DEF IInv, Covered
  <2> QED
    BY <1>2, <1>10, <2>1, <2>2 DEF Covered, Goes
<1>17. CheckpointInv'
  BY <1>3 DEF IInv, CheckpointInv
<1>18. RetryInv'
  BY <1>1, <1>2 DEF RetryInv, Goes
<1>19. EndingInv'
  BY <1>1, <1>2, <1>3 DEF IInv, EndingInv, RetryTruthful, Grounded, Goes
<1> QED
  BY <1>12, <1>13, <1>14, <1>15, <1>16, <1>17, <1>18, <1>19 DEF IInv

-----------------------------------------------------------------------------
(* The brief and its routes, and the retry.                                *)

\* Ahead of the rounds: an ordinary turn enters, the brief is prepared or fails, the
\* routes fall through.
LEMMA AheadSteps ==
  ASSUME IInv, EnterOrdinary \/ PrepareBrief \/ BriefFails \/ RoutesFallThrough \/ UserCancels
  PROVE  IInv'
<1>1. ASSUME NEW at \in {"round"}, turn' = [turn EXCEPT !.at = at], Keeps,
             turn.at \in {"enter", "brief", "briefing"}, turn.kind /= "retry"
      PROVE  IInv'
  <2>1. Goes(at) /\ Ready(at)
    BY <1>1, TurnFields DEF IInv, Goes, Ready, Points
  <2> QED
    BY <1>1, <2>1, GoesOn DEF Rounds
<1>2. ASSUME turn' = [turn EXCEPT !.at = "briefing"], Keeps, turn.at = "brief"
      PROVE  IInv'
  <2>1. Goes("briefing") /\ turn'.calls = turn.calls /\ turn'.tool = turn.tool
    BY <1>2, TurnFields DEF IInv, Goes, Points
  <2> QED
    BY <1>2, <2>1, GoesAhead
<1>3. turn.at \in {"brief", "briefing"} => turn.kind /= "retry"
  BY DEF IInv, Places, Linked
<1>4. CASE EnterOrdinary
  BY <1>1, <1>4 DEF EnterOrdinary, Keeps
<1>5. CASE PrepareBrief
  BY <1>1, <1>2, <1>3, <1>5 DEF PrepareBrief, Keeps
<1>6. CASE BriefFails
  BY <1>1, <1>3, <1>6 DEF BriefFails, Keeps
<1>7. CASE RoutesFallThrough
  <2>1. Goes("kept") /\ turn'.calls = turn.calls /\ turn'.tool = turn.tool
    BY <1>7, TurnFields DEF RoutesFallThrough, IInv, Goes, Points
  <2> QED
    BY <1>7, <2>1, GoesAhead DEF RoutesFallThrough, Keeps
<1>8. CASE UserCancels
  <2>1. turn \in TurnType /\ turn' = [turn EXCEPT !.cancel = TRUE]
    BY <1>8 DEF UserCancels, IInv, Types
  <2>2. Goes(turn.at) /\ turn'.calls = turn.calls /\ turn'.tool = turn.tool
    BY <2>1 DEF Goes, TurnType
  <2> QED
    BY <1>8, <2>2, GoesAhead DEF UserCancels, Keeps
<1> QED
  BY <1>4, <1>5, <1>6, <1>7, <1>8

\* The core pins again: nothing has been read with the host's pin.
LEMMA EnterLinkedStep ==
  ASSUME IInv, EnterLinked
  PROVE  IInv'
<1>1. CASE \E reason : EndTurn(reason)
  BY <1>1, EndsUnanswered
<1>2. CASE ~\E reason : EndTurn(reason)
  <2> DEFINE at == IF turn.ask.broad THEN "brief" ELSE "round"
  <2>1. /\ turn.at = "enter" /\ Linked /\ pin' = corpus /\ turn' = [turn EXCEPT !.at = at]
        /\ UNCHANGED <<corpus, found, slot, store, last, turns>>
    BY <1>2, Zenon DEF EnterLinked
  <2>2. at \in {"brief", "round"}
    OBVIOUS
  <2> HIDE DEF at
  <2>3. Goes(at) /\ turn.kind = "linked"
    BY <2>1, <2>2, TurnFields DEF IInv, Goes, Points, Linked
  <2>4. corpus \in Lenses /\ corpus.events \in Nat
    BY DEF IInv, Types, Lenses
  <2>5. Empty /\ last = NoEnding
    BY <2>1 DEF IInv, Emptied, EndingInv
  <2>6. Types'
    BY <2>1, <2>3, <2>4 DEF IInv, Types, Goes, found
  <2>7. Places'
    BY <2>2, <2>3 DEF Places, Goes, Linked
  <2>8. Emptied' /\ Pinned'
    BY <2>1, <2>3, <2>4, <2>5 DEF Emptied, Pinned, Empty, Goes, found
  <2>9. EvidenceInv'
    BY <2>1, <2>2, <2>3, <2>5 DEF EvidenceInv, Compared, FromLens, Empty, Goes, found
  <2>10. Covered'
    BY <2>1, <2>2, <2>3, <2>5 DEF IInv, Covered, Empty, Goes, found, NoLogs
  <2>11. CheckpointInv'
    BY <2>1 DEF IInv, CheckpointInv
  <2>12. RetryInv'
    BY <2>2, <2>3 DEF RetryInv, Goes
  <2>13. EndingInv'
    BY <2>1, <2>2, <2>3 DEF IInv, EndingInv, RetryTruthful, Grounded, Goes
  <2> QED
    BY <2>6, <2>7, <2>8, <2>9, <2>10, <2>11, <2>12, <2>13 DEF IInv
<1> QED
  BY <1>1, <1>2

\* The brief is all a turn holds when it is ready, and stands for what counts as read.
LEMMA BriefReadyStep ==
  ASSUME IInv, NEW truncated \in BOOLEAN, NEW empty \in BOOLEAN, BriefReady(truncated, empty)
  PROVE  IInv'
<1> DEFINE at == IF truncated THEN "kept" ELSE "routes"
           brief == [tool |-> IF truncated THEN "truncated brief" ELSE "brief", lens |-> pin]
<1>1. /\ turn.at = "briefing" /\ Linked /\ turn \in TurnType /\ last = NoEnding
      /\ pin \in Lenses /\ corpus \in Lenses /\ pin.events <= corpus.events /\ evidence = {}
  BY DEF BriefReady, IInv, Places, Types, EndingInv, Pinned, Linked, Emptied, Empty
<1>2. Goes(at) /\ at \in {"kept", "routes"} /\ turn.kind = "linked"
  <2>1. at \in {"kept", "routes"} /\ turn.kind = "linked"
    BY <1>1 DEF Linked
  <2>2. turn' = [turn EXCEPT !.full = ~truncated, !.synthesizing = ~truncated, !.at = at]
    BY DEF BriefReady
  <2> HIDE DEF at
  <2>3. ASSUME NEW full \in BOOLEAN, turn' = [turn EXCEPT !.full = full, !.synthesizing = full,
                                                         !.at = at]
        PROVE  Goes(at)
    BY <1>1, <2>1, <2>3 DEF Goes, TurnType, Points
  <2>4. Goes(at)
    BY <2>2, <2>3, Zenon
  <2> QED
    BY <2>1, <2>4
<1>3. /\ evidence' = {brief} /\ UNCHANGED <<corpus, pin, slot, store, last, turns>>
      /\ SearchLogs \in reads' /\ reads' \subseteq {SearchLogs} \union TriageTools
      /\ reads' \subseteq Covers(brief.tool)
      /\ at = "routes" => TriageTools \subseteq reads'
  BY <1>1 DEF BriefReady, Covers
<1>4. logs' \in LogsType /\ logs'.ok
  BY DEF BriefReady, LogsType
<1>5. /\ brief \in Items /\ brief.lens = pin
      /\ pin.events \in Nat /\ corpus.events \in Nat
  BY <1>1 DEF Items, Briefs, Lenses
<1> HIDE DEF brief, at
<1>6. reads' \subseteq ToolsOf(evidence')
  BY <1>3 DEF ToolsOf
<1>7. Types'
  <2>1. reads' \in SUBSET Tools
    BY <1>3, TurnAssumption
  <2> QED
    BY <1>2, <1>3, <1>4, <1>5, <2>1 DEF IInv, Types, Goes
<1>8. Places'
  BY <1>2 DEF Places, Goes, Linked
<1>9. Emptied' /\ Pinned'
  BY <1>1, <1>2, <1>3 DEF Emptied, Pinned, Goes
<1>10. EvidenceInv'
  BY <1>1, <1>2, <1>3, <1>5 DEF EvidenceInv, ReadSince, FromLens
<1>11. Covered'
  BY <1>2, <1>3, <1>4, <1>6 DEF Covered, Goes
<1>12. CheckpointInv'
  BY <1>3 DEF IInv, CheckpointInv
<1>13. RetryInv'
  BY <1>2 DEF RetryInv, Goes
<1>14. EndingInv'
  BY <1>1, <1>2, <1>3 DEF IInv, EndingInv, RetryTruthful, Grounded, Goes
<1> QED
  BY <1>7, <1>8, <1>9, <1>10, <1>11, <1>12, <1>13, <1>14 DEF IInv

\* A route answers from a complete brief, with events to cite.
LEMMA RoutesEndStep ==
  ASSUME IInv, RoutesEnd
  PROVE  IInv'
<1>1. CASE Show("stop", "host")
  <2>1. /\ turn.at = "routes" /\ logs.citable /\ Linked /\ FromLens(evidence, pin)
        /\ logs.ok /\ TriageTools \subseteq reads
    BY DEF RoutesEnd, IInv, Places, EvidenceInv, Compared, Covered
  <2>2. reads \subseteq ToolsOf(evidence) /\ SearchLogs \in reads
    BY <2>1 DEF IInv, Covered
  <2>3. TriageTools \subseteq ToolsOf(evidence) /\ SearchLogs \in ToolsOf(evidence)
    BY <2>1, <2>2
  <2> QED
    BY <1>1, <2>1, <2>3, Shows
<1> QED
  BY <1>1, EndsUnanswered DEF RoutesEnd

\* A retry works on the evidence of its checkpoint, which is from the lens it pinned.
LEMMA EnterRetryStep ==
  ASSUME IInv, EnterRetry
  PROVE  IInv'
<1>1. /\ turn.at = "enter" /\ turn.kind = "retry" /\ turn \in TurnType /\ last = NoEnding
      /\ Good(slot) /\ slot /= NoCheckpoint /\ turn.ask = slot.ask /\ slot.lens = pin
  BY DEF EnterRetry, IInv, Types, EndingInv, RetryInv, CheckpointInv, RetryFits
<1>2. Goes("retry")
  BY <1>1 DEF EnterRetry, Goes, TurnType, Points
<1>3. evidence' = slot.evidence /\ UNCHANGED <<corpus, pin, reads, slot, store, last, turns>>
  BY DEF EnterRetry
<1>4. logs' \in LogsType /\ (logs'.citable \/ logs'.empty)
  <2>1. slot.empty \in BOOLEAN
    BY <1>1 DEF Good, Checkpoints
  <2>2. logs' = [ok |-> TRUE, citable |-> ~slot.empty, empty |-> slot.empty]
    BY DEF EnterRetry
  <2> QED
    BY <2>1, <2>2 DEF LogsType
<1>5. Types'
  <2>1. slot.evidence \in SUBSET Items
    BY <1>1 DEF Good, Checkpoints
  <2> QED
    BY <1>2, <1>3, <1>4, <2>1 DEF IInv, Types, Goes
<1>6. Places'
  BY <1>1, <1>2 DEF Places, Goes, Linked
<1>7. Emptied' /\ Pinned'
  BY <1>1, <1>2, <1>3 DEF IInv, Emptied, Pinned, Goes
<1>8. EvidenceInv'
  BY <1>1, <1>2, <1>3 DEF EvidenceInv, FromLens, Good, Goes, Linked
<1>9. Covered'
  BY <1>1, <1>2 DEF Covered, Goes, Linked
<1>10. CheckpointInv'
  BY <1>3 DEF IInv, CheckpointInv
<1>11. RetryInv'
  BY <1>1, <1>2, <1>3, <1>4 DEF RetryInv, Goes
<1>12. EndingInv'
  BY <1>1, <1>2, <1>3 DEF IInv, EndingInv, RetryTruthful, Grounded, Goes
<1> QED
  BY <1>5, <1>6, <1>7, <1>8, <1>9, <1>10, <1>11, <1>12 DEF IInv

\* A retry goes out, is refused, fails or answers.
LEMMA RetrySteps ==
  ASSUME IInv, RetryStale \/ SendRetry \/ RetryAnswers
  PROVE  IInv'
<1>1. CASE RetryStale
  BY <1>1, EndsUnanswered DEF RetryStale
<1>2. CASE SendRetry
  <2>1. ASSUME turn.at = "retry", turn' = [turn EXCEPT !.at = "retrying"], Keeps PROVE IInv'
    <3>1. Goes("retrying") /\ turn'.calls = turn.calls /\ turn'.tool = turn.tool
      BY <2>1, TurnFields DEF IInv, Goes, Points
    <3> QED
      BY <2>1, <3>1, GoesAhead
  <2> QED
    BY <1>2, <2>1, EndsUnanswered DEF SendRetry, Keeps
<1>3. CASE RetryAnswers
  <2>1. turn.at = "retrying"
    BY <1>3 DEF RetryAnswers
  <2>2. /\ FromLens(evidence, pin) /\ slot /= NoCheckpoint /\ turn.ask = slot.ask
        /\ evidence = slot.evidence /\ (logs.citable \/ logs.empty) /\ Good(slot)
    BY <2>1 DEF IInv, EvidenceInv, Compared, RetryInv, Places, CheckpointInv
  <2>3. /\ Unread(turn.ask, ToolsOf(evidence)) = {} /\ SearchLogs \in ToolsOf(evidence)
        /\ turn.ask.broad => TriageTools \subseteq ToolsOf(evidence)
    BY <2>2, TurnFields, FullyRead DEF Good, IInv
  <2>4. CASE Show("stop", "valid")
    BY <2>2, <2>3, <2>4, Shows
  <2>5. CASE Finish("invalid_grounded_answer", "preserved", NoAnswer) /\ UNCHANGED slot
    BY <2>2, <2>5, Ends
  <2> QED
    BY <1>3, <2>4, <2>5, EndsUnanswered DEF RetryAnswers
<1> QED
  BY <1>1, <1>2, <1>3

-----------------------------------------------------------------------------
(* The host, the user and the other sessions.                              *)

\* A turn begins with nothing in its hands.
LEMMA NewTurnType ==
  ASSUME NEW kind \in {"ordinary", "linked", "retry"}, NEW ask \in Asks, NEW bounded \in BOOLEAN
  PROVE  LET t == NewTurn(kind, ask, bounded)
         IN t \in TurnType /\ t.at = "pin" /\ t.kind = kind /\ t.ask = ask
BY DEF NewTurn, TurnType, Points

\* A step between turns, or of the host ahead of one: nothing is retrieved, nothing is
\* shown, and a checkpoint that appears in the slot or the store is a good one.
LEMMA Between ==
  ASSUME IInv, turn' \in TurnType, turn'.at \in {"idle", "pin", "enter"},
         turn.at \in {"idle", "pin", "settle"},
         UNCHANGED <<corpus, found>>, last' = NoEnding, turns' \in Nat,
         turn'.at = "idle" => turn'.kind = "ordinary",
         pin' \in Lenses \union {NoLens},
         turn'.at = "enter" /\ turn'.kind /= "ordinary" => pin' = corpus,
         slot' = NoCheckpoint \/ slot' = slot \/ Good(slot'),
         turn'.kind = "retry" => slot' /= NoCheckpoint /\ turn'.ask = slot'.ask,
         store' \in StoreOf(Kept),
         store'[Own] /= NoEntry => Good(store'[Own].checkpoint)
  PROVE  IInv'
<1>1. Empty /\ corpus \in Lenses /\ corpus.events \in Nat
  BY DEF IInv, Emptied, Types, Lenses
<1>2. Types'
  BY DEF IInv, Types, found, Good
<1>3. Places'
  BY DEF Places, Linked
<1>4. Emptied' /\ Pinned'
  BY <1>1 DEF Emptied, Pinned, Empty, found
<1>5. EvidenceInv'
  BY <1>1 DEF EvidenceInv, Compared, FromLens, Empty, found
<1>6. Covered'
  BY <1>1 DEF Covered, Empty, found, NoLogs
<1>7. CheckpointInv'
  <2>1. slot' /= NoCheckpoint => Good(slot')
    BY DEF IInv, CheckpointInv
  <2> QED
    BY <2>1 DEF CheckpointInv
<1>8. RetryInv'
  BY DEF RetryInv
<1>9. EndingInv'
  BY DEF EndingInv, RetryTruthful, Grounded, NoEnding, Ending
<1> QED
  BY <1>2, <1>3, <1>4, <1>5, <1>6, <1>7, <1>8, <1>9 DEF IInv

\* The entry of this session in the store is a good checkpoint, whatever is removed.
LEMMA StoreFacts ==
  ASSUME IInv
  PROVE  /\ store \in StoreOf(Kept) /\ Own \in Sessions
         /\ store[Own] /= NoEntry => Good(store[Own].checkpoint)
         /\ \A age : /\ Purged(store, age) \in StoreOf(Kept)
                     /\ Purged(store, age)[Own] \in {NoEntry, store[Own]}
<1>1. store \in StoreOf(Kept) /\ Own \in Sessions
  BY TurnAssumption DEF IInv, Types
<1> QED
  BY <1>1, PurgedEntries DEF IInv, CheckpointInv

\* The user starts a turn, or a retry of what is in the store.
LEMMA BeginSteps ==
  ASSUME IInv,
         \/ \E kind \in {"ordinary", "linked"}, ask \in Asks, bounded \in BOOLEAN :
              BeginTurn(kind, ask, bounded)
         \/ \E bounded, matches \in BOOLEAN, age \in Sequences(store) :
              BeginRetry(bounded, age, matches)
  PROVE  IInv'
<1>1. /\ turns \in Nat /\ pin \in Lenses \union {NoLens} /\ turn \in TurnType
      /\ turn.at = "idle" => turn.kind = "ordinary" /\ last = NoEnding
  BY DEF IInv, Types, Places, EndingInv
<1>2. ASSUME NEW kind \in {"ordinary", "linked"}, NEW ask \in Asks, NEW bounded \in BOOLEAN,
             BeginTurn(kind, ask, bounded)
      PROVE  IInv'
  <2>1. turn' \in TurnType /\ turn'.at = "pin" /\ turn'.kind /= "retry"
    BY <1>2, NewTurnType DEF BeginTurn
  <2>2. store' \in StoreOf(Kept) /\ store'[Own] = NoEntry
    BY <1>2, StoreFacts, WithoutEntries DEF BeginTurn
  <2>3. turn.at = "idle" /\ turns' = turns + 1 /\ UNCHANGED <<corpus, pin, found, slot, last>>
    BY <1>2 DEF BeginTurn
  <2> QED
    BY <1>1, <2>1, <2>2, <2>3, Between
<1>3. ASSUME NEW bounded \in BOOLEAN, NEW matches \in BOOLEAN, NEW age \in Sequences(store),
             BeginRetry(bounded, age, matches)
      PROVE  IInv'
  <2> DEFINE purged == Purged(store, age)
  <2>1. /\ purged \in StoreOf(Kept)
        /\ purged[Own] /= NoEntry => Good(purged[Own].checkpoint)
    BY StoreFacts
  <2>2. /\ turn.at = "idle" /\ turns' = turns + 1
        /\ UNCHANGED <<corpus, pin, found, last>>
    BY <1>3 DEF BeginRetry
  <2>3. \/ /\ purged[Own] /= NoEntry
           /\ turn' = NewTurn("retry", purged[Own].checkpoint.ask, bounded)
           /\ slot' = purged[Own].checkpoint /\ store' = purged
        \/ store' = Without(purged, {Own}) /\ UNCHANGED <<turn, slot>>
    BY <1>3 DEF BeginRetry
  <2> HIDE DEF purged
  <2>4. CASE /\ purged[Own] /= NoEntry
             /\ turn' = NewTurn("retry", purged[Own].checkpoint.ask, bounded)
             /\ slot' = purged[Own].checkpoint /\ store' = purged
    <3>1. Good(slot') /\ slot' /= NoCheckpoint /\ slot'.ask \in Asks
      BY <2>1, <2>4 DEF Good, Checkpoints
    <3>2. turn' \in TurnType /\ turn'.at = "pin" /\ turn'.ask = slot'.ask
      BY <2>4, <3>1, NewTurnType
    <3> QED
      BY <1>1, <2>1, <2>2, <2>4, <3>1, <3>2, Between
  <2>5. CASE store' = Without(purged, {Own}) /\ UNCHANGED <<turn, slot>>
    <3>1. store' \in StoreOf(Kept) /\ store'[Own] = NoEntry
      BY <2>1, <2>5, StoreFacts, WithoutEntries
    <3> QED
      BY <1>1, <2>2, <2>5, <3>1, Between
  <2> QED
    BY <2>3, <2>4, <2>5
<1> QED
  BY <1>2, <1>3

\* The host pins the corpus, or fails to.
LEMMA PinSteps ==
  ASSUME IInv, PinHost \/ PinFails
  PROVE  IInv'
<1>1. turn.at = "pin" /\ last = NoEnding
  BY DEF PinHost, PinFails, IInv, EndingInv
<1>2. /\ store \in StoreOf(Kept) /\ turns \in Nat
      /\ store[Own] /= NoEntry => Good(store[Own].checkpoint)
      /\ pin \in Lenses \union {NoLens} /\ corpus \in Lenses
      /\ turn.kind = "retry" => slot /= NoCheckpoint /\ turn.ask = slot.ask
  BY DEF IInv, Types, CheckpointInv, RetryInv
<1>3. CASE PinHost
  <2>1. /\ turn' \in TurnType /\ turn'.at = "enter" /\ turn'.kind = turn.kind
        /\ turn'.ask = turn.ask
    BY <1>3, TurnFields DEF PinHost, IInv, Points
  <2>2. pin' = IF turn.kind = "ordinary" THEN NoLens ELSE corpus
    BY <1>3 DEF PinHost
  <2> QED
    BY <1>1, <1>2, <1>3, <2>1, <2>2, Between DEF PinHost
<1>4. CASE PinFails
  <2>1. turn' \in TurnType /\ turn'.at = "idle" /\ turn'.kind = "ordinary"
    BY <1>4, NoTurnType DEF PinFails, Points
  <2> QED
    BY <1>1, <1>2, <1>4, <2>1, Between DEF PinFails
<1> QED
  BY <1>3, <1>4

\* The host settles the checkpoint of a turn that has ended, or returns early.
LEMMA SettleSteps ==
  ASSUME IInv,
         \/ \E age \in Sequences(store), bytes \in CheckpointSizes : Settle(age, bytes)
         \/ SettleFails
  PROVE  IInv'
<1>1. /\ turns \in Nat /\ pin \in Lenses \union {NoLens}
      /\ slot \in Checkpoints \union {NoCheckpoint}
      /\ slot /= NoCheckpoint => Good(slot)
  BY DEF IInv, Types, CheckpointInv
<1>2. NoTurn("idle") \in TurnType /\ NoTurn("idle").at = "idle" /\ NoTurn("idle").kind = "ordinary"
  BY NoTurnType DEF Points
<1>3. ASSUME NEW age \in Sequences(store), NEW bytes \in CheckpointSizes, Settle(age, bytes)
      PROVE  IInv'
  <2>1. bytes \in Nat
    BY TurnAssumption
  <2>2. /\ store' \in StoreOf(Kept)
        /\ store'[Own] /= NoEntry => Good(store'[Own].checkpoint)
    <3>1. CASE slot = NoCheckpoint
      BY <1>3, <3>1, StoreFacts, WithoutEntries DEF Settle
    <3>2. CASE slot /= NoCheckpoint
      <4> DEFINE purged == Purged(store, age)
      <4>1. store' = Inserted(purged, Own, bytes, slot)
        BY <1>3, <3>2 DEF Settle
      <4>2. purged \in StoreOf(Kept) /\ Own \in Sessions
        BY StoreFacts
      <4> HIDE DEF purged
      <4>3. /\ store' \in StoreOf(Kept)
            /\ store'[Own] = NoEntry \/ store'[Own].checkpoint = slot
        BY <1>1, <2>1, <4>1, <4>2, InsertedEntries DEF Kept
      <4> QED
        BY <1>1, <3>2, <4>3
    <3> QED
      BY <3>1, <3>2
  <2> QED
    BY <1>1, <1>2, <1>3, <2>2, Between DEF Settle
<1>4. CASE SettleFails
  <2>1. /\ store \in StoreOf(Kept)
        /\ store[Own] /= NoEntry => Good(store[Own].checkpoint)
    BY StoreFacts
  <2> QED
    BY <1>1, <1>2, <1>4, <2>1, Between DEF SettleFails
<1> QED
  BY <1>3, <1>4

\* The corpus only grows, so what was read since the pin still was.
LEMMA CorpusSteps ==
  ASSUME IInv, CorpusChanges \/ PolicyChanges
  PROVE  IInv'
<1>1. /\ corpus \in Lenses /\ corpus' \in Lenses /\ corpus.events \in Nat /\ corpus'.events \in Nat
      /\ corpus.events <= corpus'.events
      /\ UNCHANGED <<pin, turn, reads, logs, evidence, slot, store, last, turns>>
  <2>1. corpus \in Lenses
    BY DEF IInv, Types
  <2> QED
    BY <2>1 DEF CorpusChanges, PolicyChanges, Lenses, found
<1>2. Types'
  BY <1>1 DEF IInv, Types
<1>3. Places' /\ Emptied' /\ Covered'
  BY <1>1 DEF IInv, Places, Emptied, Covered, Linked, Empty
<1>4. Pinned'
  <2>1. pin \in Lenses => pin.events \in Nat
    BY DEF Lenses
  <2> QED
    BY <1>1, <2>1 DEF IInv, Pinned
<1>5. EvidenceInv'
  <2>1. ASSUME NEW item, ReadSince(item) PROVE ReadSince(item)'
    <3>1. item.lens \in Lenses => item.lens.events \in Nat
      BY DEF Lenses
    <3> QED
      BY <1>1, <2>1, <3>1 DEF ReadSince
  <2> QED
    BY <1>1, <2>1 DEF IInv, EvidenceInv, Linked
<1>6. CheckpointInv' /\ RetryInv'
  BY <1>1 DEF IInv, CheckpointInv, RetryInv
<1>7. EndingInv'
  BY <1>1 DEF IInv, EndingInv, RetryTruthful, Grounded
<1> QED
  BY <1>2, <1>3, <1>4, <1>5, <1>6, <1>7 DEF IInv

\* Another session may push this one's checkpoint out of the store, never change it.
LEMMA OtherInsertsStep ==
  ASSUME IInv, NEW s \in Sessions, NEW age, NEW bytes \in CheckpointSizes,
         OtherInserts(s, age, bytes)
  PROVE  IInv'
<1> DEFINE purged == Purged(store, age)
<1>1. /\ purged \in StoreOf(Kept) /\ Own \in Sessions /\ bytes \in Nat
      /\ purged[Own] \in {NoEntry, store[Own]} /\ s /= Own
      /\ store' = Inserted(purged, s, bytes, NoCheckpoint)
      /\ UNCHANGED <<corpus, pin, turn, reads, logs, evidence, slot, last, turns>>
  BY StoreFacts, TurnAssumption DEF OtherInserts, found
<1> HIDE DEF purged
<1>2. store' \in StoreOf(Kept) /\ store'[Own] \in {NoEntry, store[Own]}
  <2>1. /\ store' \in StoreOf(Kept)
        /\ store'[Own] \in {NoEntry, purged[Own]}
    BY <1>1, InsertedEntries DEF Kept
  <2> QED
    BY <1>1, <2>1
<1>3. Types'
  BY <1>1, <1>2 DEF IInv, Types
<1>4. Places' /\ Emptied' /\ Covered' /\ Pinned' /\ RetryInv'
  BY <1>1 DEF IInv, Places, Emptied, Covered, Linked, Empty, Pinned, RetryInv
<1>5. EvidenceInv'
  BY <1>1 DEF IInv, EvidenceInv, Linked, ReadSince
<1>6. CheckpointInv'
  BY <1>1, <1>2 DEF IInv, CheckpointInv
<1>7. EndingInv'
  BY <1>1 DEF IInv, EndingInv, RetryTruthful, Grounded
<1> QED
  BY <1>3, <1>4, <1>5, <1>6, <1>7 DEF IInv

\* A checkpoint is dropped between turns.
LEMMA DropCheckpointStep ==
  ASSUME IInv, DropCheckpoint
  PROVE  IInv'
<1>1. /\ store' \in StoreOf(Kept) /\ store'[Own] = NoEntry
      /\ UNCHANGED <<corpus, pin, turn, reads, logs, evidence, slot, last, turns>>
  BY StoreFacts, WithoutEntries DEF DropCheckpoint, Without, found
<1>2. Types'
  BY <1>1 DEF IInv, Types
<1>3. Places' /\ Emptied' /\ Covered' /\ Pinned' /\ RetryInv'
  BY <1>1 DEF IInv, Places, Emptied, Covered, Linked, Empty, Pinned, RetryInv
<1>4. EvidenceInv' /\ CheckpointInv'
  BY <1>1 DEF IInv, EvidenceInv, CheckpointInv, Linked, ReadSince
<1>5. EndingInv'
  BY <1>1 DEF IInv, EndingInv, RetryTruthful, Grounded
<1> QED
  BY <1>2, <1>3, <1>4, <1>5 DEF IInv

-----------------------------------------------------------------------------
(* The theorems.                                                           *)

\* The application starts without a turn and with an empty store.
LEMMA InitInvariant == Init => IInv
<1> SUFFICES ASSUME Init PROVE IInv
  OBVIOUS
<1>1. turn \in TurnType /\ turn.at = "idle" /\ turn.kind = "ordinary"
  BY NoTurnType DEF Init, Points
<1>2. NoLogs \in LogsType /\ ~NoLogs.ok
  BY DEF NoLogs, LogsType
<1>3. store \in StoreOf(Kept) /\ store[Own] = NoEntry
  BY TurnAssumption DEF Init, EmptyStore, StoreOf
<1>4. Types
  BY <1>1, <1>2, <1>3 DEF Init, Types, Lenses
<1>5. Places /\ Emptied /\ Pinned
  BY <1>1 DEF Init, Places, Emptied, Empty, Pinned, Linked
<1>6. EvidenceInv /\ Covered /\ RetryInv
  BY <1>1, <1>2 DEF Init, EvidenceInv, Covered, RetryInv, Linked, Compared
<1>7. CheckpointInv
  BY <1>3 DEF Init, CheckpointInv
<1>8. EndingInv
  BY <1>1 DEF Init, EndingInv, RetryTruthful, Grounded, NoEnding, Ending
<1> QED
  BY <1>4, <1>5, <1>6, <1>7, <1>8 DEF IInv

\* No step of the host, the provider, the tools, the user or another session breaks
\* the invariant.
LEMMA NextInvariant == IInv /\ [Next]_vars => IInv'
<1> SUFFICES ASSUME IInv, [Next]_vars PROVE IInv'
  OBVIOUS
<1>1. CASE UNCHANGED vars
  <2>1. Types' /\ Places' /\ Emptied' /\ Pinned'
    BY <1>1 DEF vars, IInv, Types, Places, Emptied, Empty, Pinned, Linked
  <2>2. EvidenceInv' /\ Covered' /\ CheckpointInv' /\ RetryInv'
    BY <1>1 DEF vars, IInv, EvidenceInv, Covered, CheckpointInv, RetryInv, Linked, ReadSince
  <2>3. EndingInv'
    BY <1>1 DEF vars, IInv, EndingInv, RetryTruthful, Grounded
  <2> QED
    BY <2>1, <2>2, <2>3 DEF IInv
<1>2. CASE HostStep
  <2>1. CASE \/ RetryInterrupted \/ BriefInterrupted \/ RoutesInterrupted \/ RoundInterrupted
             \/ PrefetchInterrupted \/ ToolInterrupted \/ FinalInterrupted
    BY <2>1, EndsUnanswered DEF RetryInterrupted, BriefInterrupted, RoutesInterrupted,
       RoundInterrupted, PrefetchInterrupted, ToolInterrupted, FinalInterrupted
  <2>2. CASE \/ RejectCall \/ BatchDone \/ \E tool \in Tools : ExecuteTool(tool)
    BY <2>2, CallSteps, AskAgainSteps
  <2>3. CASE PinHost \/ PinFails \/ RetryStale \/ EnterRetry \/ SendRetry
    BY <2>3, PinSteps, RetrySteps, EnterRetryStep
  <2>4. CASE EnterOrdinary \/ EnterLinked \/ PrepareBrief \/ KeepBrief \/ RecordResult
    BY <2>4, AheadSteps, EnterLinkedStep, KeepSteps
  <2>5. CASE StartRound \/ SendRound \/ StartFinal \/ SendFinal
    BY <2>5, StartRoundStep, SendSteps, FinalSteps
  <2>6. CASE \/ \E age \in Sequences(store), bytes \in CheckpointSizes : Settle(age, bytes)
             \/ SettleFails
    BY <2>6, SettleSteps
  <2> QED
    BY <1>2, <2>1, <2>2, <2>3, <2>4, <2>5, <2>6 DEF HostStep
<1>3. CASE Reply
  <2>1. CASE RetryAnswers \/ BriefFails \/ RoutesEnd \/ RoutesFallThrough
    BY <2>1, RetrySteps, AheadSteps, RoutesEndStep
  <2>2. CASE \E truncated, empty \in BOOLEAN : BriefReady(truncated, empty)
    BY <2>2, BriefReadyStep
  <2>3. CASE \/ ToolsUnsupported \/ Prefetched \/ ContextRejected \/ ProviderFails
             \/ \E n \in 1..MaxBatch : AsksForTools(n)
    BY <2>3, ProviderSteps
  <2>4. CASE \/ \E i \in Nudges : Nudge(i)
             \/ \E cited \in Citations : Correct(cited) \/ Answer(cited) \/ FinalAnswer(cited)
    BY <2>4, AskAgainSteps, AnswerStep, FinalAnswerStep
  <2>5. CASE \/ \E stops \in BOOLEAN : ToolFails(stops)
             \/ \E hits, stops \in BOOLEAN : ToolReads(hits, stops)
             \/ AwaitPermission \/ FinalFails
    BY <2>5, CallSteps, ToolReadsStep, FinalSteps
  <2> QED
    BY <1>3, <2>1, <2>2, <2>3, <2>4, <2>5 DEF Reply
<1>4. CASE Environment
  BY <1>4, BeginSteps, CorpusSteps, AheadSteps, OtherInsertsStep, DropCheckpointStep
     DEF Environment
<1> QED
  BY <1>1, <1>2, <1>3, <1>4 DEF Next

\* The invariant holds in every state of every behaviour.
LEMMA Invariant == Spec => []IInv
BY InitInvariant, NextInvariant, PTL DEF Spec

\* The store changes only by the operations of its module, this session's or another's.
LEMMA StoreSteps ==
  ASSUME IInv, CheckpointsBounded, [Next]_vars
  PROVE  CheckpointsBounded'
<1>1. store \in StoreOf(Kept) /\ Own \in Sessions /\ Fits(store)
  BY StoreFacts DEF CheckpointsBounded, Fits
<1>2. \A S : Without(store, S) \in StoreOf(Kept) /\ Fits(Without(store, S))
  BY <1>1, WithoutEntries, WithoutFits
<1>3. \A age : Purged(store, age) \in StoreOf(Kept) /\ Fits(Purged(store, age))
  BY <1>2 DEF Purged
<1>4. \A age : Fits(Without(Purged(store, age), {Own}))
  BY <1>3, WithoutFits
<1>5. ASSUME NEW age, NEW s \in Sessions, NEW bytes \in CheckpointSizes, NEW checkpoint \in Kept
      PROVE  Fits(Inserted(Purged(store, age), s, bytes, checkpoint))
  <2>1. bytes \in Nat
    BY TurnAssumption
  <2> QED
    BY <1>3, <2>1, InsertedFits
<1>6. slot \in Kept /\ NoCheckpoint \in Kept
  BY DEF IInv, Types, Kept
<1>7. \/ store' = store \/ Fits(store')
  <2>1. CASE UNCHANGED vars
    BY <2>1 DEF vars
  <2>2. CASE HostStep
    <3>1. ASSUME NEW age \in Sequences(store), NEW bytes \in CheckpointSizes, Settle(age, bytes)
          PROVE  Fits(store')
      BY <1>1, <1>2, <1>5, <1>6, <3>1 DEF Settle
    <3>2. CASE \/ PinHost \/ PinFails \/ RetryStale \/ EnterRetry \/ SendRetry \/ RetryInterrupted
               \/ EnterOrdinary \/ EnterLinked \/ PrepareBrief \/ BriefInterrupted
               \/ RoutesInterrupted \/ KeepBrief \/ StartRound \/ SendRound \/ RoundInterrupted
      BY <3>2, Zenon DEF PinHost, PinFails, RetryStale, EnterRetry, SendRetry, RetryInterrupted,
         EnterOrdinary, EnterLinked, PrepareBrief, BriefInterrupted, RoutesInterrupted, KeepBrief,
         StartRound, SendRound, RoundInterrupted, Cancelled, DeadlineEnds, EndTurn, EndUnanswered,
         Finish
    <3>3. CASE \/ PrefetchInterrupted \/ RejectCall \/ ToolInterrupted \/ RecordResult
               \/ \E tool \in Tools : ExecuteTool(tool)
               \/ BatchDone \/ StartFinal \/ SendFinal \/ FinalInterrupted \/ SettleFails
      BY <3>3, Zenon DEF PrefetchInterrupted, RejectCall, ToolInterrupted, RecordResult,
         ExecuteTool, BatchDone, NextRound, StartFinal, SendFinal, FinalInterrupted, SettleFails, Cancelled,
         DeadlineEnds, EndTurn, EndUnanswered, Finish
    <3> QED
      BY <2>2, <3>1, <3>2, <3>3 DEF HostStep
  <2>3. CASE Reply
    <3>1. CASE \/ RetryAnswers \/ BriefFails \/ RoutesEnd \/ RoutesFallThrough
               \/ \E truncated, empty \in BOOLEAN : BriefReady(truncated, empty)
               \/ ToolsUnsupported \/ Prefetched \/ ContextRejected \/ ProviderFails
               \/ \E n \in 1..MaxBatch : AsksForTools(n)
      BY <3>1, Zenon DEF RetryAnswers, BriefFails, RoutesEnd, RoutesFallThrough, BriefReady,
         ToolsUnsupported, Prefetched, ContextRejected, ProviderFails, AsksForTools,
         Show, EndTurn, EndUnanswered, Finish
    <3>2. CASE \/ \E i \in Nudges : Nudge(i)
               \/ \E cited \in Citations : Correct(cited) \/ Answer(cited) \/ FinalAnswer(cited)
      BY <3>2, Zenon DEF Nudge, Correct, NextRound, Answer, FinalAnswer, Show, EndTurn, Finish
    <3>3. CASE \/ \E stops \in BOOLEAN : ToolFails(stops)
               \/ \E hits, stops \in BOOLEAN : ToolReads(hits, stops)
               \/ AwaitPermission \/ FinalFails
      BY <3>3, Zenon DEF ToolFails, ToolReads, AwaitPermission, FinalFails, EndTurn, EndUnanswered,
         Finish
    <3> QED
      BY <2>3, <3>1, <3>2, <3>3 DEF Reply
  <2>4. CASE Environment
    <3>1. ASSUME NEW kind, NEW ask, NEW bounded, BeginTurn(kind, ask, bounded)
          PROVE  Fits(store')
      BY <1>2, <3>1 DEF BeginTurn
    <3>2. ASSUME NEW bounded, NEW age, NEW matches, BeginRetry(bounded, age, matches)
          PROVE  Fits(store')
      BY <1>3, <1>4, <3>2 DEF BeginRetry
    <3>3. ASSUME NEW s \in Sessions, NEW age, NEW bytes \in CheckpointSizes,
                 OtherInserts(s, age, bytes)
          PROVE  Fits(store')
      BY <1>5, <1>6, <3>3 DEF OtherInserts
    <3>4. CASE CorpusChanges \/ PolicyChanges \/ UserCancels
      BY <3>4 DEF CorpusChanges, PolicyChanges, UserCancels
    <3>5. CASE DropCheckpoint
      BY <1>2, <3>5 DEF DropCheckpoint
    <3> QED
      BY <2>4, <3>1, <3>2, <3>3, <3>4, <3>5 DEF Environment
  <2> QED
    BY <2>1, <2>2, <2>3, <2>4 DEF Next
<1> QED
  BY <1>1, <1>7 DEF CheckpointsBounded, Fits

\* Every variable of the turn keeps its type: no batch of calls is walked below its
\* last call, no checkpoint is built without a pinned lens, and the store's sequence
\* numbers stay numbers.
THEOREM AgentTypes == Spec => []TypeOK
<1>1. IInv => TypeOK
  BY DEF IInv, Types, TypeOK, TurnType, LogsType, StoreOf, Entry, Kept
<1> QED
  BY <1>1, Invariant, PTL

\* No answer that is shown and no checkpoint mixes revisions of the corpus or of its
\* noise policy, however often either changes while tools and the provider work.
THEOREM AnswersFromOneRevision == Spec => []OneRevision
<1>1. IInv => OneRevision
  BY DEF IInv, CheckpointInv, Good, EndingInv, OneRevision
<1> QED
  BY <1>1, Invariant, PTL

\* A turn that tells the user its evidence is preserved leaves a checkpoint with every
\* source the question needs; one that shows an answer leaves none.
THEOREM PreservedMeansRetry == Spec => []RetryTruthful
<1>1. IInv => RetryTruthful
  BY DEF IInv, EndingInv
<1> QED
  BY <1>1, Invariant, PTL

\* A linked turn or a retry shows an answer only on log evidence it or the host cites,
\* with a complete triage if it was asked for one, and with every source it was asked
\* for unless the rounds ran out or a route answered.
THEOREM AnswersGrounded == Spec => []Grounded
<1>1. IInv => Grounded
  BY DEF IInv, EndingInv
<1> QED
  BY <1>1, Invariant, PTL

\* The checkpoints of all sessions stay within the store's limits of entries and of
\* bytes, whatever sizes are inserted and however inserts and purges interleave.
THEOREM StoreBounded == Spec => []CheckpointsBounded
<1>1. Init => CheckpointsBounded
  BY EmptyFits DEF Init, CheckpointsBounded, Fits
<1>2. IInv /\ CheckpointsBounded /\ [Next]_vars => CheckpointsBounded'
  BY StoreSteps
<1> QED
  BY <1>1, <1>2, Invariant, PTL DEF Spec

=============================================================================
