----------------------------- MODULE PlansProofs -----------------------------
(***************************************************************************)
(* Proofs about Plans and the prompts it is composed with, for any number  *)
(* of plans, requests, surfaces and ticks: only approved plans run, the    *)
(* approval of a command implements what Verdicts promises (its safety),   *)
(* and no prompt is drawn after its end was announced.                     *)
(***************************************************************************)
EXTENDS Plans, PromptsProofs

\* What a turn waits for is what it asked.
Linked ==
    /\ turn.pc \in {"announce", "wait"} => turn.plan \in PlanIds /\ turn.ask \in PlanReqs
    /\ turn.pc = "ask" => turn.ask \in ExecReqs \cup Questions
    /\ \A r \in PlanReqs : req[r].pc \in {"idle", "announce", "wait"}
    /\ \A r \in ExecReqs : req[r].pc # "idle" => turn.pc = "ask" /\ turn.ask = r

PlansInv ==
    /\ PromptInv
    /\ plan \in [PlanIds -> PlanRecord] /\ turn \in TurnRecord
    /\ sticky \in BOOLEAN /\ forced \in BOOLEAN
    /\ deciding \subseteq PlanReqs \X PlanAnswers
    /\ Linked
    /\ RunsApproved

-----------------------------------------------------------------------------
(* What a step does to the requests.                                       *)

\* A request of a plan is drawn by the chat, not by registered surfaces.
PlanRequest ==
    \E r \in PlanReqs : \E q :
        /\ Set(r, q) /\ Sound(r, q) /\ q.shown \subseteq req[r].shown
        /\ q.pc \in {"idle", "announce", "wait"}

\* One request at a time, or all of them with the clock or the process.
RequestStep ==
    \/ UNCHANGED req
    \/ \E r \in ExecReqs \cup Questions : UseTool(r) /\ (Ask(r) \/ AskUnattended(r))
    \/ \E r \in ExecReqs \cup Questions, d \in Answers : Resolve(r, d)
    \/ \E r \in Reqs : Loop(r) \/ Show(r) \/ Abort(r)
    \/ turn.pc = "ask" /\ req[turn.ask].pc = "done" /\ Set(turn.ask, Unasked)
    \/ PlanRequest
    \/ req' = [r \in Reqs |-> IF r \in Pending THEN Later(req[r]) ELSE req[r]]
    \/ req' = [r \in Reqs |-> Unasked]

\* A plan's request waits, is answered or is forgotten.
LEMMA PlanRequests ==
    ASSUME PlansInv, NEW a \in PlanReqs
    PROVE  /\ Set(a, Unasked) => PlanRequest
           /\ Set(a, [Unasked EXCEPT !.pc = "announce", !.left = Window]) => PlanRequest
           /\ Set(a, Waiting(req[a])) => PlanRequest
           /\ \A d \in PlanAnswers : HasLiveFuture(a) /\ Set(a, [req[a] EXCEPT !.fut = d])
                                    => PlanRequest
  <1>1. a \notin ExecReqs /\ req[a] \in Prompt /\ Orderly(a, req[a])
        /\ req[a].pc \in {"idle", "announce", "wait"}
    BY PromptsAssumption DEF PlansInv, PromptInv, Sound, Reqs, Linked
  <1>2. Unasked \in Prompt /\ Sound(a, Unasked) /\ Unasked.shown = {} /\ Unasked.pc = "idle"
    BY UnaskedSound DEF Sound, Unasked
  <1>3. Set(a, Unasked) => PlanRequest
    BY <1>2 DEF PlanRequest
  <1>4. Set(a, [Unasked EXCEPT !.pc = "announce", !.left = Window]) => PlanRequest
    <2> DEFINE q == [Unasked EXCEPT !.pc = "announce", !.left = Window]
    <2>1. q \in Prompt
      <3>1. "announce" \in Pcs /\ Window \in 0..Window
        BY PromptsAssumption DEF Pcs
      <3> QED
        BY <1>2, <3>1 DEF Prompt
    <2>2. q.shown = {} /\ q.shut = 0 /\ q.pc = "announce"
      BY DEF Unasked
    <2>3. Sound(a, q)
      BY <1>1, <2>1, <2>2 DEF Sound, Orderly
    <2> QED
      BY <2>2, <2>3 DEF PlanRequest
  <1>5. Set(a, Waiting(req[a])) => PlanRequest
    <2> SUFFICES ASSUME NEW q, q = req[a], Set(a, Waiting(q)) PROVE PlanRequest
      OBVIOUS
    <2>1. Waiting(q) \in Prompt /\ Waiting(q).pc = "wait" /\ Waiting(q).shown = q.shown
          /\ Waiting(q).shut = q.shut
      BY <1>1 DEF Waiting, Prompt, Pcs, Timers
    <2> QED
      BY <1>1, <2>1 DEF PlanRequest, Sound, Orderly
  <1>6. ASSUME NEW d \in PlanAnswers, HasLiveFuture(a), Set(a, [req[a] EXCEPT !.fut = d])
        PROVE  PlanRequest
    <2> DEFINE q == [req[a] EXCEPT !.fut = d]
    <2>1. Sound(a, q) /\ q.shown = req[a].shown /\ q.pc = req[a].pc
      BY <1>1 DEF Sound, Prompt, Orderly
    <2> QED
      BY <1>1, <1>6, <2>1 DEF PlanRequest
  <1> QED
    BY <1>3, <1>4, <1>5, <1>6

\* Every step is one of these.
LEMMA RequestSteps == ASSUME PlansInv, Next PROVE RequestStep
  <1>1. CASE Turn
    <2>1. CASE Announced
      <3>1. turn.ask \in PlanReqs
        BY <2>1 DEF Announced, PlansInv, Linked
      <3> QED
        BY <2>1, <3>1, PlanRequests DEF Announced, RequestStep
    <2>2. CASE TurnWakes
      <3>1. turn.ask \in PlanReqs
        BY <2>2 DEF TurnWakes, PlansInv, Linked
      <3> QED
        BY <2>2, <3>1, PlanRequests DEF TurnWakes, RequestStep
    <2>3. CASE Applied \/ ToolDone
      BY <2>3 DEF Applied, ToolDone, RequestStep
    <2>4. ASSUME NEW auto \in BOOLEAN, NewPlan(auto) PROVE RequestStep
      BY <2>4, PlanRequests DEF NewPlan, NextAsk, Unused, Propose, RequestStep
    <2> QED
      BY <1>1, <2>1, <2>2, <2>3, <2>4 DEF Turn
  <1>2. CASE Agent
    <2>1. ASSUME NEW auto \in BOOLEAN, NewPlan(auto) PROVE RequestStep
      BY <2>1, PlanRequests DEF NewPlan, NextAsk, Unused, Propose, RequestStep
    <2>2. CASE ProposeRevised
      BY <2>2, PlanRequests DEF ProposeRevised, NextAsk, Unused, Propose, RequestStep
    <2>3. ASSUME NEW r \in ExecReqs \cup Questions, UseTool(r) PROVE RequestStep
      BY <2>3 DEF UseTool, RequestStep
    <2> QED
      BY <1>2, <2>1, <2>2, <2>3
         DEF Agent, StartTurn, EndTurn, Supersede, UpdateSteps, EndPlan, RequestStep
  <1>3. CASE User
    <2>1. ASSUME NEW p \in PlanIds, NEW d \in PlanAnswers, ResolveApproval(p, d)
          PROVE  RequestStep
      BY <2>1 DEF ResolveApproval, RequestStep
    <2>2. CASE AbortTurn
      <3>1. turn.pc = "announce" => turn.ask \in PlanReqs
        BY DEF PlansInv, Linked
      <3>2. turn.pc \in {"wait", "ask"} => turn.ask \in Reqs
        BY DEF PlansInv, Linked, Reqs
      <3> QED
        BY <2>2, <3>1, <3>2, PlanRequests DEF AbortTurn, RequestStep
    <2> QED
      BY <1>3, <2>1, <2>2 DEF User, Cancel, Resume, SetSticky, PlanOff, RequestStep
  <1>4. ASSUME NEW x \in deciding, ResolveFuture(x) PROVE RequestStep
    <2>1. x[1] \in PlanReqs /\ x[2] \in PlanAnswers
      BY <1>4 DEF PlansInv
    <2> QED
      BY <1>4, <2>1, PlanRequests DEF ResolveFuture, RequestStep
  <1>5. ASSUME NEW r \in Reqs, Loop(r) \/ Show(r) PROVE RequestStep
    BY <1>5 DEF RequestStep
  <1>6. CASE Elapse \/ Crash
    BY <1>6 DEF Elapse, Crash, RequestStep
  <1> QED
    BY <1>1, <1>2, <1>3, <1>4, <1>5, <1>6 DEF Next

\* Requests stay sound.
LEMMA RequestsInv == ASSUME PlansInv, RequestStep PROVE PromptInv'
  <1> PromptInv
    BY DEF PlansInv
  <1>1. CASE UNCHANGED req
    BY <1>1 DEF PromptInv
  <1>2. ASSUME NEW r \in ExecReqs \cup Questions, Ask(r) \/ AskUnattended(r)
        PROVE  PromptInv'
    BY <1>2, AskInv, AskUnattendedInv
  <1>3. ASSUME NEW r \in ExecReqs \cup Questions, NEW d \in Answers, Resolve(r, d)
        PROVE  PromptInv'
    BY <1>3, ResolveInv
  <1>4. ASSUME NEW r \in Reqs, Loop(r) \/ Show(r) \/ Abort(r) PROVE PromptInv'
    BY <1>4, CollectInv, FireInv, WakeInv, DrainInv, ShutInv, ShowInv, AbortInv DEF Loop
  <1>5. CASE turn.pc = "ask" /\ Set(turn.ask, Unasked)
    <2>1. turn.ask \in Reqs
      BY <1>5 DEF PlansInv, Linked, Reqs
    <2> QED
      BY <1>5, <2>1, UnaskedSound, SetKeepsInv
  <1>6. CASE PlanRequest
    BY <1>6, SetKeepsInv DEF PlanRequest, Reqs
  <1>7. CASE req' = [r \in Reqs |-> IF r \in Pending THEN Later(req[r]) ELSE req[r]]
    BY <1>7, LaterSound DEF PromptInv, Sound
  <1>8. CASE req' = [r \in Reqs |-> Unasked]
    BY <1>8, UnaskedSound DEF PromptInv, Sound
  <1> QED
    BY <1>1, <1>2, <1>3, <1>4, <1>5, <1>6, <1>7, <1>8 DEF RequestStep

\* What is asked is what the turn waits for: a request that is not forgotten
\* stays with its turn.
LEMMA RequestsLinked ==
    ASSUME PlansInv, RequestStep
    PROVE  /\ \A r \in PlanReqs : req'[r].pc \in {"idle", "announce", "wait"}
           /\ \A r \in ExecReqs : req[r].pc = "idle" /\ req'[r].pc # "idle"
                                     => turn' = [turn EXCEPT !.pc = "ask", !.ask = r]
  <1> DEFINE A == \A r \in PlanReqs : req'[r].pc \in {"idle", "announce", "wait"}
             B == \A r \in ExecReqs : req[r].pc = "idle" /\ req'[r].pc # "idle"
                                       => turn' = [turn EXCEPT !.pc = "ask", !.ask = r]
  <1>0. /\ req \in [Reqs -> Prompt] /\ \A r \in PlanReqs : req[r].pc \in {"idle", "announce", "wait"}
        /\ \A r \in ExecReqs : req[r].pc = "idle" => req[r].fut = "none" /\ req[r].timer = "off"
        /\ PlanReqs \subseteq Reqs /\ ExecReqs \subseteq Reqs /\ ExecReqs \cap PlanReqs = {}
        /\ Questions \cap PlanReqs = {} /\ Unasked.pc = "idle"
    BY PromptsAssumption DEF PlansInv, PromptInv, Sound, Honest, Linked, Reqs, Unasked
  <1>1. ASSUME UNCHANGED req PROVE A /\ B
    BY <1>0, <1>1
  <1>2. ASSUME NEW r \in ExecReqs \cup Questions, UseTool(r),
               Ask(r) \/ AskUnattended(r)
        PROVE  A /\ B
    BY <1>0, <1>2 DEF UseTool, Ask, AskUnattended, Set
  <1>3. ASSUME NEW r \in ExecReqs \cup Questions, NEW d \in Answers, Resolve(r, d)
        PROVE  A /\ B
    BY <1>0, <1>3 DEF Resolve, Set, Prompt
  <1>4. ASSUME NEW r \in Reqs, Loop(r) \/ Show(r) \/ Abort(r) PROVE A /\ B
    <2>1. ASSUME NEW q, Set(r, q), req[r].pc # "idle", q.pc = req[r].pc \/ r \notin PlanReqs
          PROVE  A /\ B
      BY <1>0, <2>1 DEF Set
    <2>2. \A q, why : q \in Prompt => /\ Cancelled(q, why).pc = q.pc
                                     /\ [Cancelled(q, why) EXCEPT !.timer = "off"].pc = q.pc
      BY DEF Cancelled, Prompt
    <2>3. req[r] \in Prompt
      BY <1>0
    <2>4. CASE Collect(r)
      BY <2>1, <2>3, <2>4 DEF Collect, Prompt
    <2>5. CASE Fire(r)
      <3>1. CASE req[r].pc = "idle"
        BY <1>0, <2>2, <2>3, <2>5, <3>1 DEF Fire, Set
      <3>2. CASE req[r].pc # "idle"
        BY <2>1, <2>2, <2>3, <2>5, <3>2 DEF Fire
      <3> QED
        BY <3>1, <3>2
    <2>6. CASE Wake(r)
      BY <2>1, <2>3, <2>6 DEF Wake, Woken
    <2>7. CASE Drain(r)
      <3>1. r \notin PlanReqs
        BY <1>0, <2>7 DEF Drain
      <3> QED
        BY <2>1, <2>7, <3>1 DEF Drain
    <2>8. CASE Shut(r)
      <3>1. r \notin PlanReqs
        BY <1>0, <2>8 DEF Shut
      <3> QED
        BY <2>1, <2>8, <3>1 DEF Shut
    <2>9. CASE Show(r)
      <3>1. r \notin PlanReqs /\ req[r].pc # "idle"
        BY <1>0, <2>9, PromptsAssumption DEF Show
      <3> QED
        BY <2>1, <2>9, <3>1 DEF Show
    <2>10. CASE Abort(r)
      BY <2>1, <2>2, <2>3, <2>10 DEF Abort
    <2> QED
      BY <1>4, <2>4, <2>5, <2>6, <2>7, <2>8, <2>9, <2>10 DEF Loop
  <1>5. ASSUME Set(turn.ask, Unasked) PROVE A /\ B
    BY <1>0, <1>5 DEF Set
  <1>6. ASSUME PlanRequest PROVE A /\ B
    BY <1>0, <1>6 DEF PlanRequest, Set
  <1>7. ASSUME req' = [r \in Reqs |-> IF r \in Pending THEN Later(req[r]) ELSE req[r]]
        PROVE  A /\ B
    BY <1>0, <1>7 DEF Later, Prompt
  <1>8. ASSUME req' = [r \in Reqs |-> Unasked] PROVE A /\ B
    BY <1>0, <1>8
  <1>9. A /\ B
    BY <1>1, <1>2, <1>3, <1>4, <1>5, <1>6, <1>7, <1>8 DEF RequestStep
  <1> QED
    BY <1>9

-----------------------------------------------------------------------------
(* What a step does to the plans and the turn.                             *)

Approved(r) ==
    r.mode = "forced" /\ r.status \in {"approved", "executing", "paused"}
        => r.ask = 0 /\ r.decision = "approve"

PlanStep ==
    \/ UNCHANGED <<plan, recent>>
    \/ \E p \in PlanIds, r \in PlanRecord : Save(p, r) /\ Approved(r) /\ r.status # "none"
    \/ /\ plan' = [p \in PlanIds |-> IF p \in Interrupted
                                   THEN [plan[p] EXCEPT !.status = "paused"] ELSE plan[p]]
       /\ \E order \in Orders(Interrupted) :
             recent' = Without(recent, Interrupted)
                          \cup ((Active \ Interrupted) \X Interrupted) \cup order

\* Saving a record that runs only if it is approved is one.
LEMMA SaveSteps ==
    ASSUME NEW p \in PlanIds, NEW r, r \in PlanRecord, Approved(r), r.status # "none",
           Save(p, r)
    PROVE  PlanStep
  BY DEF PlanStep

\* A stored plan of a sound state.
LEMMA PlanSound == ASSUME PlansInv, NEW p \in PlanIds PROVE plan[p] \in PlanRecord /\ Approved(plan[p])
  BY DEF PlansInv, RunsApproved, Stored, Approved, PlanRecord

\* A plan that ends, and one that is put up for approval.
LEMMA StatusSound ==
    ASSUME NEW r \in PlanRecord, NEW s \in Statuses \ {"none", "approved", "executing", "paused"}
    PROVE  /\ [r EXCEPT !.status = s] \in PlanRecord /\ Approved([r EXCEPT !.status = s])
           /\ [r EXCEPT !.status = s].status # "none"
  BY DEF PlanRecord, Approved

\* A plan that was approved runs, or is over.
LEMMA RunsOn ==
    ASSUME NEW r \in PlanRecord, Approved(r), r.status \in {"approved", "executing", "paused"},
           NEW s \in Statuses
    PROVE  /\ [r EXCEPT !.status = s] \in PlanRecord /\ Approved([r EXCEPT !.status = s])
           /\ [r EXCEPT !.status = s].status = s
  BY DEF PlanRecord, Approved

\* A decision lets a plan run only if it is an approval.
LEMMA AfterSound ==
    ASSUME NEW r \in PlanRecord, NEW d \in PlanAnswers \cup {"timeout"}, NEW live \in BOOLEAN
    PROVE  /\ After(r, d, live) \in PlanRecord /\ Approved(After(r, d, live))
           /\ After(r, d, live).status # "none"
  <1> DEFINE s == CASE d = "approve" -> IF live THEN "executing" ELSE "approved"
                    [] d = "reject" -> "rejected"
                    [] d = "revise" -> "awaiting_approval"
                    [] d = "timeout" -> "aborted"
             e == IF d = "timeout" THEN "none" ELSE d
  <1>1. d \in {"approve", "reject", "revise", "timeout"}
    BY PlansAssumption
  <1>2. s \in Statuses \ {"none"} /\ (s \in {"approved", "executing", "paused"} => d = "approve")
    BY <1>1 DEF Statuses, Terminal
  <1>3. e \in PlanAnswers \cup {"none"} /\ (d = "approve" => e = "approve")
    OBVIOUS
  <1>4. After(r, d, live) = [r EXCEPT !.ask = 0, !.decision = e, !.status = s]
    BY DEF After
  <1> HIDE DEF s, e
  <1> QED
    BY <1>2, <1>3, <1>4 DEF PlanRecord, Approved

\* The plan that is up for approval does not run.
LEMMA ProposedSound ==
    ASSUME NEW r \in PlanRecord, NEW a \in PlanReqs
    PROVE  LET q == [r EXCEPT !.mode = "forced", !.status = "awaiting_approval", !.ask = a,
                              !.decision = "none"]
           IN  q \in PlanRecord /\ Approved(q) /\ q.status # "none"
  BY DEF PlanRecord, Approved, Statuses

\* A new plan.
LEMMA NewPlanSteps == ASSUME PlansInv, NEW auto \in BOOLEAN, NewPlan(auto) PROVE PlanStep
  <1>1. NoPlan \in PlanRecord
    BY DEF NoPlan, PlanRecord, Statuses
  <1>2. PICK p \in PlanIds :
           \/ Save(p, [NoPlan EXCEPT !.status = "executing", !.mode = "auto"])
           \/ \E a \in PlanReqs : Propose(p, NoPlan, a)
    BY DEF NewPlan, Fresh, NextAsk, Unused
  <1>3. CASE Save(p, [NoPlan EXCEPT !.status = "executing", !.mode = "auto"])
    <2>1. /\ [NoPlan EXCEPT !.status = "executing", !.mode = "auto"] \in PlanRecord
          /\ Approved([NoPlan EXCEPT !.status = "executing", !.mode = "auto"])
          /\ [NoPlan EXCEPT !.status = "executing", !.mode = "auto"].status # "none"
      BY <1>1 DEF PlanRecord, Approved, Statuses
    <2> QED
      BY <1>3, <2>1, SaveSteps
  <1>4. ASSUME NEW a \in PlanReqs, Propose(p, NoPlan, a) PROVE PlanStep
    BY <1>1, <1>4, ProposedSound, SaveSteps DEF Propose
  <1> QED
    BY <1>2, <1>3, <1>4

\* Every step does one of these to the plans.
LEMMA PlanSteps == ASSUME PlansInv, Next PROVE PlanStep
  <1>0. \A p \in PlanIds : plan[p] \in PlanRecord /\ Approved(plan[p])
    BY PlanSound
  <1>1. Current \subseteq PlanIds
    BY DEF Current, Active, Stored
  <1>2. ASSUME NEW p \in PlanIds, NEW s \in Statuses \ {"none", "approved", "executing", "paused"},
               Save(p, [plan[p] EXCEPT !.status = s])
        PROVE  PlanStep
    BY <1>0, <1>2, StatusSound, SaveSteps
  <1>3. {"aborted", "completed", "blocked"} \subseteq Statuses \ {"none", "approved", "executing", "paused"}
    BY DEF Statuses, Terminal
  <1>4. CASE Turn
    <2>1. CASE Announced
      <3>1. turn.plan \in PlanIds
        BY <2>1 DEF Announced, PlansInv, Linked
      <3>2. CASE turn.cron
        <4>1. Save(turn.plan, After(plan[turn.plan], "reject", TRUE))
          BY <2>1, <3>2 DEF Announced
        <4> QED
          BY <1>0, <3>1, <4>1, AfterSound, SaveSteps, PlansAssumption
      <3> QED
        BY <2>1, <3>2 DEF Announced, PlanStep
    <2>2. CASE TurnWakes
      <3>1. turn.plan \in PlanIds
        BY <2>2 DEF TurnWakes, PlansInv, Linked
      <3>2. UNCHANGED <<plan, recent>> \/ Save(turn.plan, After(plan[turn.plan], "timeout", TRUE))
        BY <2>2 DEF TurnWakes
      <3> QED
        BY <1>0, <3>1, <3>2, AfterSound, SaveSteps DEF PlanStep
    <2>3. CASE Applied \/ ToolDone
      BY <2>3 DEF Applied, ToolDone, PlanStep
    <2> QED
      BY <1>4, <2>1, <2>2, <2>3, NewPlanSteps DEF Turn
  <1>5. CASE Agent
    <2>1. CASE ProposeRevised
      <3>1. PICK p \in PlanIds, a \in PlanReqs : Propose(p, plan[p], a)
        BY <1>1, <2>1 DEF ProposeRevised, NextAsk, Unused
      <3> QED
        BY <1>0, <3>1, ProposedSound, SaveSteps DEF Propose
    <2>2. ASSUME NEW auto \in BOOLEAN, Supersede(auto) PROVE PlanStep
      BY <1>1, <1>2, <1>3, <2>2 DEF Supersede
    <2>3. ASSUME NEW finished \in BOOLEAN, UpdateSteps(finished) PROVE PlanStep
      <3>1. PICK p \in Current :
               Save(p, [plan[p] EXCEPT !.status =
                  IF @ \in {"approved", "paused", "executing"}
                  THEN (IF finished THEN "completed" ELSE "executing") ELSE @])
        BY <2>3 DEF UpdateSteps
      <3>0. p \in PlanIds /\ plan[p].status # "none"
        BY <1>1 DEF Current, Active, Stored
      <3> DEFINE q == [plan[p] EXCEPT !.status =
                         IF @ \in {"approved", "paused", "executing"}
                         THEN (IF finished THEN "completed" ELSE "executing") ELSE @]
      <3>2. q \in PlanRecord /\ Approved(q) /\ q.status # "none"
        <4>1. CASE plan[p].status \in {"approved", "paused", "executing"}
          <5>1. q = [plan[p] EXCEPT !.status = IF finished THEN "completed" ELSE "executing"]
            BY <1>0, <3>0, <4>1 DEF PlanRecord
          <5> QED
            BY <1>0, <3>0, <4>1, <5>1, RunsOn DEF Statuses, Terminal
        <4>2. CASE plan[p].status \notin {"approved", "paused", "executing"}
          BY <1>0, <3>0, <4>2 DEF PlanRecord, Approved
        <4> QED
          BY <4>1, <4>2
      <3> QED
        BY <3>0, <3>1, <3>2, SaveSteps
    <2>4. ASSUME NEW s \in {"completed", "blocked", "aborted"}, EndPlan(s) PROVE PlanStep
      BY <1>1, <1>2, <1>3, <2>4 DEF EndPlan
    <2>5. ASSUME NEW r, UseTool(r) PROVE PlanStep
      BY <2>5 DEF UseTool, PlanStep
    <2> QED
      BY <1>5, <2>1, <2>2, <2>3, <2>4, <2>5, NewPlanSteps DEF Agent, StartTurn, EndTurn, PlanStep
  <1>6. CASE User
    <2>1. ASSUME NEW p \in PlanIds, NEW d \in PlanAnswers, ResolveApproval(p, d)
          PROVE  PlanStep
      BY <1>0, <2>1, AfterSound, SaveSteps DEF ResolveApproval, HasLiveFuture
    <2>2. ASSUME NEW p \in PlanIds, Cancel(p) PROVE PlanStep
      BY <1>2, <1>3, <2>2 DEF Cancel
    <2>3. ASSUME NEW p \in PlanIds, Resume(p) PROVE PlanStep
      <3>1. "executing" \in Statuses
        BY DEF Statuses
      <3> QED
        BY <1>0, <2>3, <3>1, RunsOn, SaveSteps DEF Resume
    <2>4. CASE PlanOff
      BY <1>1, <1>2, <1>3, <2>4 DEF PlanOff, PlanStep
    <2> QED
      BY <1>6, <2>1, <2>2, <2>3, <2>4 DEF User, SetSticky, AbortTurn, Resolve, planVars, PlanStep
  <1>7. CASE Crash
    BY <1>7 DEF Crash, PlanStep
  <1> QED
    BY <1>4, <1>5, <1>6, <1>7 DEF Next, ResolveFuture, Elapse, planVars, PlanStep

\* No step of a plan lets it run unapproved.
LEMMA PlansKept == ASSUME PlansInv, PlanStep PROVE plan' \in [PlanIds -> PlanRecord] /\ RunsApproved'
  <1>0. plan \in [PlanIds -> PlanRecord] /\ \A p \in PlanIds : Approved(plan[p])
    BY PlanSound DEF PlansInv
  <1>1. plan' \in [PlanIds -> PlanRecord] /\ \A p \in PlanIds : Approved(plan'[p])
    <2>1. CASE UNCHANGED <<plan, recent>>
      BY <1>0, <2>1
    <2>2. ASSUME NEW p \in PlanIds, NEW r \in PlanRecord, Save(p, r), Approved(r)
          PROVE  plan' \in [PlanIds -> PlanRecord] /\ \A q \in PlanIds : Approved(plan'[q])
      <3> DEFINE w == IF r.status \in Terminal /\ r.ask = 0 THEN NoPlan ELSE r
      <3>1. plan' = [plan EXCEPT ![p] = w]
        BY <2>2 DEF Save
      <3>2. NoPlan \in PlanRecord /\ Approved(NoPlan)
        BY DEF NoPlan, PlanRecord, Approved, Statuses
      <3>3. w \in PlanRecord /\ Approved(w)
        BY <2>2, <3>2
      <3> HIDE DEF w
      <3> QED
        BY <1>0, <3>1, <3>3
    <2>3. CASE plan' = [p \in PlanIds |-> IF p \in Interrupted
                                THEN [plan[p] EXCEPT !.status = "paused"] ELSE plan[p]]
      <3>1. ASSUME NEW p \in Interrupted
            PROVE  /\ [plan[p] EXCEPT !.status = "paused"] \in PlanRecord
                   /\ Approved([plan[p] EXCEPT !.status = "paused"])
        BY <1>0, RunsOn DEF Interrupted, Stored, Statuses
      <3> QED
        BY <1>0, <2>3, <3>1
    <2> QED
      BY <2>1, <2>2, <2>3 DEF PlanStep
  <1> QED
    BY <1>1 DEF RunsApproved, Stored, Approved, PlanRecord

\* A plan that is touched comes last, one that is over is taken out.
LEMMA SaveOrders ==
    ASSUME PlansInv, recent \in Orders(Active), NEW p \in PlanIds, NEW r \in PlanRecord,
           Save(p, r), r.status # "none"
    PROVE  (recent \in Orders(Active))'
  <1> DEFINE other == Without(recent, {p})
  <1>1. /\ recent \subseteq Active \X Active
        /\ \A a \in Active : <<a, a>> \notin recent
        /\ \A a, b \in Active : a # b => (<<a, b>> \in recent \/ <<b, a>> \in recent)
        /\ \A a, b, c \in Active : <<a, b>> \in recent /\ <<b, c>> \in recent
                                    => <<a, c>> \in recent
    BY DEF Orders
  <1>2. \A a, b : <<a, b>> \in other <=> <<a, b>> \in recent /\ a # p /\ b # p
    BY DEF Without
  <1>3. other \subseteq (Active \ {p}) \X (Active \ {p})
    BY <1>1 DEF Without
  <1>4. plan \in [PlanIds -> PlanRecord]
    BY DEF PlansInv
  <1>5. CASE r.status \in Terminal
    <2>1. Active' = Active \ {p}
      BY <1>4, <1>5 DEF Save, Active, Stored, NoPlan
    <2>2. recent' = other
      BY <1>5 DEF Save
    <2> QED
      BY <1>1, <1>2, <1>3, <2>1, <2>2 DEF Orders
  <1>6. CASE r.status \notin Terminal
    <2>1. Active' = Active \cup {p}
      BY <1>4, <1>6 DEF Save, Active, Stored
    <2>2. recent' = other \cup ((Active \ {p}) \X {p})
      BY <1>6 DEF Save
    <2>3. \A a, b : <<a, b>> \in recent' <=>
             \/ <<a, b>> \in recent /\ a # p /\ b # p
             \/ a \in Active /\ a # p /\ b = p
      BY <1>2, <2>2
    <2>4. recent' \subseteq Active' \X Active'
      BY <1>3, <2>1, <2>2
    <2> HIDE DEF other
    <2> QED
      BY <1>1, <2>1, <2>3, <2>4 DEF Orders
  <1> QED
    BY <1>5, <1>6

\* A restart touches the plans whose turn died, in the order it finds them.
LEMMA CrashOrders ==
    ASSUME PlansInv, recent \in Orders(Active), NEW order \in Orders(Interrupted),
           plan' = [p \in PlanIds |-> IF p \in Interrupted
                                     THEN [plan[p] EXCEPT !.status = "paused"] ELSE plan[p]],
           recent' = Without(recent, Interrupted)
                        \cup ((Active \ Interrupted) \X Interrupted) \cup order
    PROVE  (recent \in Orders(Active))'
  <1>1. /\ recent \subseteq Active \X Active
        /\ \A a \in Active : <<a, a>> \notin recent
        /\ \A a, b \in Active : a # b => (<<a, b>> \in recent \/ <<b, a>> \in recent)
        /\ \A a, b, c \in Active : <<a, b>> \in recent /\ <<b, c>> \in recent
                                    => <<a, c>> \in recent
    BY DEF Orders
  <1>2. /\ order \subseteq Interrupted \X Interrupted
        /\ \A a \in Interrupted : <<a, a>> \notin order
        /\ \A a, b \in Interrupted : a # b => (<<a, b>> \in order \/ <<b, a>> \in order)
        /\ \A a, b, c \in Interrupted : <<a, b>> \in order /\ <<b, c>> \in order
                                        => <<a, c>> \in order
    BY DEF Orders
  <1>3. Interrupted \subseteq Active
    BY DEF Interrupted, Active, Terminal
  <1>4. Active' = Active
    <2>1. \A p \in PlanIds : plan[p] \in PlanRecord
      BY DEF PlansInv
    <2>2. ASSUME NEW p \in PlanIds
          PROVE  plan'[p].status = IF p \in Interrupted THEN "paused" ELSE plan[p].status
      BY <2>1, <2>2 DEF PlanRecord
    <2> QED
      BY <2>2 DEF Active, Stored, Interrupted, Terminal
  <1>5. \A a, b : <<a, b>> \in recent' <=>
           \/ <<a, b>> \in recent /\ a \notin Interrupted /\ b \notin Interrupted
           \/ a \in Active \ Interrupted /\ b \in Interrupted
           \/ <<a, b>> \in order
    BY DEF Without
  <1>6. recent' \subseteq Active \X Active
    BY <1>1, <1>2, <1>3 DEF Without
  <1> QED
    BY <1>1, <1>2, <1>3, <1>4, <1>5, <1>6 DEF Orders

\* The turn waits for what it asked, and the gate and the decisions keep
\* their types.
TurnInv ==
    /\ turn \in TurnRecord /\ sticky \in BOOLEAN /\ forced \in BOOLEAN
    /\ deciding \subseteq PlanReqs \X PlanAnswers
    /\ turn.pc \in {"announce", "wait"} => turn.plan \in PlanIds /\ turn.ask \in PlanReqs
    /\ turn.pc = "ask" => turn.ask \in ExecReqs \cup Questions

LEMMA TurnSteps == ASSUME PlansInv, Next PROVE TurnInv'
  <1>0. TurnInv /\ turn \in TurnRecord
    BY DEF PlansInv, Linked, TurnInv
  <1>1. Current \subseteq PlanIds /\ PlanReqs \subseteq Reqs
    BY DEF Current, Active, Stored, Reqs
  <1>2. /\ \A d : Disarmed(d) \in BOOLEAN
        /\ NoTurn \in TurnRecord /\ NoTurn.pc = "none"
        /\ [NoTurn EXCEPT !.pc = "act", !.cron = turn.cron] \in TurnRecord
    BY <1>0 DEF TurnInv, Disarmed, NoTurn, TurnRecord
  <1>3. ASSUME GoOn PROVE turn' \in TurnRecord /\ turn'.pc = "act"
    BY <1>2, <1>3 DEF GoOn, TurnRecord, NoTurn
  <1>4. ASSUME NEW p \in PlanIds, NEW r, NEW a \in PlanReqs, Propose(p, r, a)
        PROVE  turn' \in TurnRecord /\ turn'.pc = "announce" /\ turn'.plan = p /\ turn'.ask = a
    BY <1>0, <1>1, <1>4 DEF Propose, TurnRecord
  <1>5. ASSUME NEW auto \in BOOLEAN, NewPlan(auto) PROVE TurnInv'
    <2>1. PICK p \in PlanIds :
             \/ GoOn /\ forced' = Disarmed("approve")
             \/ \E a \in PlanReqs : Propose(p, NoPlan, a) /\ UNCHANGED forced
      BY <1>5 DEF NewPlan, Fresh, NextAsk, Unused
    <2>2. UNCHANGED <<sticky, deciding>>
      BY <1>5 DEF NewPlan
    <2> QED
      BY <1>0, <1>2, <1>3, <1>4, <2>1, <2>2 DEF TurnInv
  <1>6. CASE Turn
    <2>1. CASE Announced
      BY <1>0, <2>1 DEF Announced, Goto, TurnInv, TurnRecord
    <2>2. CASE TurnWakes
      <3>1. \/ turn' = NoTurn /\ UNCHANGED forced
            \/ Goto("applied") /\ UNCHANGED forced
            \/ GoOn /\ \E d : forced' = Disarmed(d)
        BY <2>2 DEF TurnWakes
      <3>2. Goto("applied") => turn' \in TurnRecord /\ turn'.pc = "applied"
        BY <1>0 DEF Goto, TurnRecord
      <3> QED
        BY <1>0, <1>2, <1>3, <2>2, <3>1, <3>2 DEF TurnWakes, TurnInv
    <2>3. CASE Applied \/ ToolDone
      BY <1>0, <1>2, <1>3, <2>3 DEF Applied, ToolDone, TurnInv
    <2> QED
      BY <1>5, <1>6, <2>1, <2>2, <2>3 DEF Turn
  <1>7. CASE Agent
    <2>1. ASSUME NEW arm, NEW cron \in BOOLEAN, StartTurn(arm, cron) PROVE TurnInv'
      BY <1>0, <1>2, <2>1 DEF StartTurn, TurnInv, TurnRecord, NoTurn
    <2>2. CASE EndTurn
      BY <1>0, <1>2, <2>2 DEF EndTurn, TurnInv
    <2>3. CASE ProposeRevised
      <3>1. PICK p \in PlanIds, a \in PlanReqs : Propose(p, plan[p], a)
        BY <1>1, <2>3 DEF ProposeRevised, NextAsk, Unused
      <3> QED
        BY <1>0, <1>4, <2>3, <3>1 DEF ProposeRevised, TurnInv
    <2>4. ASSUME NEW auto \in BOOLEAN, Supersede(auto) PROVE TurnInv'
      BY <1>0, <2>4 DEF Supersede, TurnInv, TurnRecord
    <2>5. ASSUME NEW finished, UpdateSteps(finished) PROVE TurnInv'
      BY <1>0, <2>5 DEF UpdateSteps, TurnInv
    <2>6. ASSUME NEW s, EndPlan(s) PROVE TurnInv'
      BY <1>0, <2>6 DEF EndPlan, TurnInv
    <2>7. ASSUME NEW r \in ExecReqs \cup Questions, UseTool(r) PROVE TurnInv'
      BY <1>0, <2>7 DEF UseTool, TurnInv, TurnRecord, Reqs
    <2> QED
      BY <1>5, <1>7, <2>1, <2>2, <2>3, <2>4, <2>5, <2>6, <2>7 DEF Agent
  <1>8. CASE User
    <2>1. ASSUME NEW p \in PlanIds, NEW d \in PlanAnswers, ResolveApproval(p, d)
          PROVE  TurnInv'
      <3>1. plan[p].ask \in PlanReqs
        BY <2>1 DEF ResolveApproval, PlansInv, PlanRecord
      <3> QED
        BY <1>0, <2>1, <3>1 DEF ResolveApproval, TurnInv
    <2>2. CASE AbortTurn
      BY <1>0, <1>2, <2>2 DEF AbortTurn, TurnInv
    <2> QED
      BY <1>0, <1>8, <2>1, <2>2 DEF User, Cancel, Resume, SetSticky, PlanOff, planVars, TurnInv
  <1>9. ASSUME NEW x, ResolveFuture(x) PROVE TurnInv'
    BY <1>0, <1>9 DEF ResolveFuture, TurnInv
  <1>10. CASE Crash
    BY <1>0, <1>2, <1>10 DEF Crash, TurnInv
  <1>11. CASE UNCHANGED planVars
    BY <1>0, <1>11 DEF planVars, TurnInv
  <1> QED
    BY <1>6, <1>7, <1>8, <1>9, <1>10, <1>11 DEF Next, Elapse

\* A turn that waits for a tool's verdict stays with it.
LEMMA AskingStays ==
    ASSUME PlansInv, Next, turn.pc = "ask"
    PROVE  UNCHANGED turn \/ Set(turn.ask, Unasked) \/ req' = [r \in Reqs |-> Unasked]
  <1>1. CASE Turn
    <2>1. ~Announced /\ ~Applied
      BY DEF Announced, Applied
    <2>2. TurnWakes => turn.pc = "wait"
      BY DEF TurnWakes
    <2>3. ToolDone => Set(turn.ask, Unasked)
      BY DEF ToolDone
    <2> QED
      BY <1>1, <2>1, <2>2, <2>3 DEF Turn
  <1>2. CASE Agent
    <2>1. \A arm, cron : StartTurn(arm, cron) => turn.pc = "none"
      BY DEF StartTurn, NoTurn
    <2>2. /\ EndTurn \/ ProposeRevised => turn.pc = "act"
          /\ \A x : Supersede(x) \/ UpdateSteps(x) \/ EndPlan(x) \/ UseTool(x) => turn.pc = "act"
      BY DEF EndTurn, ProposeRevised, Supersede, UpdateSteps, EndPlan, UseTool
    <2> QED
      BY <1>2, <2>1, <2>2 DEF Agent
  <1>3. CASE User
    BY <1>3 DEF User, ResolveApproval, Cancel, Resume, SetSticky, PlanOff, AbortTurn, planVars, NoTurn
  <1>4. CASE Crash
    BY <1>4 DEF Crash
  <1> QED
    BY <1>1, <1>2, <1>3, <1>4 DEF Next, ResolveFuture, Elapse, planVars

\* Each command that is asked for belongs to the turn that waits for it.
LEMMA LinksKept == ASSUME PlansInv, Next PROVE Linked'
  <1>1. TurnInv'
    BY TurnSteps
  <1>2. \A r \in PlanReqs : req'[r].pc \in {"idle", "announce", "wait"}
    BY RequestSteps, RequestsLinked
  <1>0. \A r \in ExecReqs : req[r].pc = "idle" /\ req'[r].pc # "idle"
                             => turn' = [turn EXCEPT !.pc = "ask", !.ask = r]
    BY RequestSteps, RequestsLinked
  <1>3. ASSUME NEW r \in ExecReqs, req'[r].pc # "idle" PROVE turn'.pc = "ask" /\ turn'.ask = r
    <2>1. CASE req[r].pc = "idle"
      <3>1. turn' = [turn EXCEPT !.pc = "ask", !.ask = r] /\ turn \in TurnRecord
        BY <1>0, <1>3, <2>1 DEF PlansInv
      <3> QED
        BY <3>1 DEF TurnRecord
    <2>2. CASE req[r].pc # "idle"
      <3>1. turn.pc = "ask" /\ turn.ask = r
        BY <2>2 DEF PlansInv, Linked
      <3>2. ~Set(r, Unasked)
        BY <1>3 DEF Set, Unasked, PlansInv, PromptInv, Reqs
      <3>3. req' # [x \in Reqs |-> Unasked]
        BY <1>3 DEF Unasked, Reqs
      <3> QED
        BY <3>1, <3>2, <3>3, AskingStays
    <2> QED
      BY <2>1, <2>2
  <1> QED
    BY <1>1, <1>2, <1>3 DEF Linked, TurnInv

-----------------------------------------------------------------------------
(* The invariant holds.                                                    *)

\* At the start nothing is asked and no plan is stored.
LEMMA PlansInitInv == Init => PlansInv
  <1> SUFFICES ASSUME Init PROVE PlansInv
    OBVIOUS
  <1>1. PromptInv
    BY UnaskedSound DEF Init, PromptInv, Sound
  <1>2. NoPlan \in PlanRecord /\ NoPlan.status = "none"
    BY DEF NoPlan, PlanRecord, Statuses
  <1>3. NoTurn \in TurnRecord /\ NoTurn.pc = "none"
    BY DEF NoTurn, TurnRecord
  <1>4. Linked
    BY <1>3 DEF Init, Linked, Reqs, Unasked
  <1>5. RunsApproved
    BY <1>2 DEF Init, RunsApproved, Stored
  <1> QED
    BY <1>1, <1>2, <1>3, <1>4, <1>5 DEF Init, PlansInv

\* The invariant is inductive.
LEMMA PlansNextInv == ASSUME PlansInv, [Next]_vars PROVE PlansInv'
  <1>1. CASE Next
    <2>1. PromptInv'
      BY <1>1, RequestSteps, RequestsInv
    <2>2. plan' \in [PlanIds -> PlanRecord] /\ RunsApproved'
      BY <1>1, PlanSteps, PlansKept
    <2>3. TurnInv' /\ Linked'
      BY <1>1, TurnSteps, LinksKept
    <2> QED
      BY <2>1, <2>2, <2>3 DEF PlansInv, TurnInv
  <1>2. CASE UNCHANGED vars
    BY <1>2 DEF vars, planVars, PlansInv, PromptInv, Linked, RunsApproved, Stored
  <1> QED
    BY <1>1, <1>2

\* The invariant that carries the proofs: the state of each request, the plans
\* and what the turn waits for, together.
THEOREM PlansInvariant == Spec => []PlansInv
  BY PlansInitInv, PlansNextInv, PTL DEF Spec

\* "The plan starts executing" on Approve and on nothing else, whatever the
\* order of decisions, revisions, timeouts, cancellations and restarts.
THEOREM OnlyApprovedRuns == Spec => []RunsApproved
  <1>1. PlansInv => RunsApproved
    BY DEF PlansInv
  <1> QED
    BY <1>1, PlansInvariant, PTL

\* No callback of the event loop, no handler and no turn leaves a record that is
\* not of its type, or two plans that current_for_session cannot tell apart.
THEOREM PlansTyped == Spec => []PlansTypeOK
  <1>1. PlansInv => PlansTypes
    BY DEF PlansInv, PlansTypes, PromptInv, PromptsTypeOK, Prompt, Pcs, Timers
  <1>2. Init => recent \in Orders(Active)
    BY DEF Init, Orders, Active, Stored, NoPlan
  <1>3. PlansInv /\ recent \in Orders(Active) /\ [Next]_vars => (recent \in Orders(Active))'
    <2>1. ASSUME PlansInv, recent \in Orders(Active), UNCHANGED <<plan, recent>>
          PROVE  (recent \in Orders(Active))'
      BY <2>1 DEF Active, Stored
    <2>2. ASSUME PlansInv, recent \in Orders(Active), PlanStep
          PROVE  (recent \in Orders(Active))'
      BY <2>1, <2>2, SaveOrders, CrashOrders DEF PlanStep
    <2> QED
      BY <2>1, <2>2, PlanSteps DEF vars, planVars
  <1>4. PlansInv /\ recent \in Orders(Active) => PlansTypeOK
    BY <1>1 DEF PlansTypeOK
  <1> QED
    BY <1>2, <1>3, <1>4, PlansInvariant, PTL DEF Spec

-----------------------------------------------------------------------------
(* The approval of commands implements Verdicts.                           *)

\* A crash takes the one command with it that the turn was waiting for.
LEMMA CrashPromised ==
    ASSUME PlansInv, req' = [r \in Reqs |-> Unasked]
    PROVE  Promised
  <1>1. /\ AnswerIn(Unasked) = "unanswered" /\ OutcomeIn(Unasked) = "unasked"
        /\ ExecReqs \subseteq Reqs /\ PromptInv
    BY PromptsAssumption DEF AnswerIn, OutcomeIn, Unasked, Reqs, PlansInv
  <1>2. \A r \in ExecReqs : req[r].pc = "idle"
                             => AnswerIn(req[r]) = "unanswered" /\ OutcomeIn(req[r]) = "unasked"
    BY <1>1, PromptsAssumption DEF PromptInv, Sound, Honest, AnswerIn, OutcomeIn
  <1>3. CASE \A r \in ExecReqs : req[r].pc = "idle"
    BY <1>1, <1>2, <1>3, UnseenStep
  <1>4. ASSUME NEW r \in ExecReqs, req[r].pc # "idle" PROVE Promised
    <2>1. \A x \in ExecReqs : x # r => req[x].pc = "idle"
      BY <1>4 DEF PlansInv, Linked
    <2>2. req[r] \in Prompt
      BY <1>1 DEF PromptInv
    <2>3. OutcomeIn(req[r]) # "unasked"
      BY <1>4, <2>2, PromptsAssumption DEF OutcomeIn, Prompt
    <2> DEFINE an == [x \in ExecReqs |-> Answered(x)]
               out == [x \in ExecReqs |-> Outcome(x)]
    <2>4. /\ an' = [an EXCEPT ![r] = "unanswered"]
          /\ out' = [out EXCEPT ![r] = "unasked"]
          /\ out[r] # "unasked"
      BY <1>1, <1>2, <2>1, <2>3 DEF Answered, Outcome, AnswerIn, OutcomeIn
    <2>5. Promise!Forget(r)
      BY <2>4 DEF Promise!Forget, Promise!Unanswered
    <2> QED
      BY <2>5 DEF Promised, Promise!Next
  <1> QED
    BY <1>3, <1>4

\* Every step is a step of the promise, or shows nothing.
LEMMA StepsPromised == ASSUME PlansInv, [Next]_vars PROVE Promised
  <1> PromptInv
    BY DEF PlansInv
  <1>1. CASE UNCHANGED req
    BY <1>1, UnseenStep
  <1>2. CASE UNCHANGED vars
    BY <1>1, <1>2 DEF vars
  <1>3. ASSUME NEW r \in ExecReqs \cup Questions, Ask(r) \/ AskUnattended(r)
        PROVE  Promised
    <2>1. CASE r \in ExecReqs
      BY <1>3, <2>1, AskPromised, AskUnattendedPromised
    <2>2. CASE r \notin ExecReqs
      BY <1>3, <2>2, OtherUnseen DEF Ask, AskUnattended, Reqs
    <2> QED
      BY <2>1, <2>2
  <1>4. ASSUME NEW r \in ExecReqs \cup Questions, NEW d \in Answers, Resolve(r, d)
        PROVE  Promised
    BY <1>4, ResolvePromised
  <1>5. ASSUME NEW r \in Reqs, Loop(r) \/ Show(r) \/ Abort(r) PROVE Promised
    BY <1>5, CollectPromised, FirePromised, WakePromised, DrainPromised, ShutPromised,
       ShowPromised, AbortPromised DEF Loop
  <1>6. CASE turn.pc = "ask" /\ req[turn.ask].pc = "done" /\ Set(turn.ask, Unasked)
    <2>1. turn.ask \in Reqs
      BY <1>6 DEF PlansInv, Linked, Reqs
    <2>2. req[turn.ask].result # "unasked"
      BY <2>1, PromptsAssumption DEF PromptInv, Prompt
    <2> QED
      BY <1>6, <2>1, <2>2, ForgetPromised
  <1>7. CASE PlanRequest
    BY <1>7, OtherUnseen, PromptsAssumption DEF PlanRequest, Reqs
  <1>8. CASE req' = [r \in Reqs |-> IF r \in Pending THEN Later(req[r]) ELSE req[r]]
    BY <1>8, LaterUnseen, UnseenStep DEF PromptInv, Reqs
  <1>9. CASE req' = [r \in Reqs |-> Unasked]
    BY <1>9, CrashPromised
  <1> QED
    BY <1>1, <1>2, <1>3, <1>4, <1>5, <1>6, <1>7, <1>8, <1>9, RequestSteps DEF RequestStep

\* The approval manager implements the safety of Verdicts: a decision that a
\* surface was told counts is what the caller of the command's approval gets,
\* unless its run was stopped, and a timeout only ends what nobody answered.
THEOREM VerdictsImplemented == Spec => Promise!Safety
  <1>1. Init => Promise!Init
    BY PromptsAssumption DEF Init, Unasked, Answered, Outcome, Reqs, Promise!Init, Promise!Unanswered
  <1>2. PlansInv /\ [Next]_vars => [Promise!Next]_(Promise!vars)
    BY StepsPromised DEF Promised
  <1> QED
    BY <1>1, <1>2, PlansInvariant, PTL DEF Spec, Promise!Safety

-----------------------------------------------------------------------------
(* No card after its end.                                                  *)

\* No step shows a prompt to a surface that was told of its end.
LEMMA StepsNotLate == ASSUME PlansInv, Next PROVE \A r \in Reqs : NotLate(r)
  <1> PromptInv
    BY DEF PlansInv
  <1>0. req \in [Reqs -> Prompt] /\ Unasked.shown = {}
    BY DEF PromptInv, Unasked
  <1>1. CASE UNCHANGED req
    BY <1>1 DEF NotLate
  <1>2. ASSUME NEW r \in ExecReqs \cup Questions, Ask(r) \/ AskUnattended(r)
        PROVE  \A x \in Reqs : NotLate(x)
    <2>1. r \in Reqs /\ req[r] \in Prompt
      BY <1>0 DEF Reqs
    <2>2. \A pc : Asked(pc).shown = {}
      BY DEF Asked, Unasked
    <2>3. CASE Ask(r)
      BY <2>1, <2>2, <2>3, SetNotLate DEF Ask
    <2>4. CASE AskUnattended(r)
      BY <2>1, <2>4, SetNotLate DEF AskUnattended, Prompt
    <2> QED
      BY <1>2, <2>3, <2>4
  <1>3. ASSUME NEW r \in ExecReqs \cup Questions, NEW d \in Answers, Resolve(r, d)
        PROVE  \A x \in Reqs : NotLate(x)
    BY <1>0, <1>3, SetNotLate DEF Resolve, Reqs, Prompt
  <1>4. ASSUME NEW r \in Reqs, Loop(r) \/ Show(r) \/ Abort(r)
        PROVE  \A x \in Reqs : NotLate(x)
    <2>1. \A q \in Prompt : \A why :
             /\ Cancelled(q, why).shown = q.shown
             /\ [Cancelled(q, why) EXCEPT !.timer = "off"].shown = q.shown
      BY DEF Cancelled, Prompt
    <2>2. CASE Collect(r)
      BY <1>0, <2>2, SetNotLate DEF Collect, Prompt
    <2>3. CASE Fire(r)
      BY <1>0, <2>1, <2>3, SetNotLate DEF Fire
    <2>4. CASE Wake(r)
      BY <1>0, <2>4, SetNotLate DEF Wake, Prompt
    <2>5. CASE Shut(r)
      BY <1>0, <2>5, SetNotLate DEF Shut, Prompt
    <2>6. CASE Abort(r)
      BY <1>0, <2>1, <2>6, SetNotLate DEF Abort
    <2>7. CASE Show(r) \/ Drain(r)
      <3>1. NotLate(r)
        BY <2>7, ShowNotLate, DrainNotLate
      <3>2. \A x \in Reqs : x # r => req'[x] = req[x]
        BY <1>0, <2>7 DEF Show, Drain, Set
      <3> QED
        BY <3>1, <3>2 DEF NotLate
    <2> QED
      BY <1>4, <2>2, <2>3, <2>4, <2>5, <2>6, <2>7 DEF Loop
  <1>5. CASE Set(turn.ask, Unasked)
    BY <1>0, <1>5 DEF Set, NotLate
  <1>6. CASE PlanRequest
    BY <1>6, SetNotLate DEF PlanRequest, Reqs
  <1>7. CASE req' = [r \in Reqs |-> IF r \in Pending THEN Later(req[r]) ELSE req[r]]
    BY <1>0, <1>7 DEF NotLate, Later, Prompt
  <1>8. CASE req' = [r \in Reqs |-> Unasked]
    BY <1>0, <1>8 DEF NotLate
  <1> QED
    BY <1>1, <1>2, <1>3, <1>4, <1>5, <1>6, <1>7, <1>8, RequestSteps DEF RequestStep

\* "Never retire a card before the request that drew it has gone out": no
\* surface draws a prompt after it was told that the prompt is over.
THEOREM NoCardAfterItsEnd == Spec => NoLateCard
  <1>1. PlansInv /\ [Next]_vars
          => [\A r \in Reqs : \A s \in req'[r].shown \ req[r].shown : s > req[r].shut]_req
    BY StepsNotLate DEF NotLate, vars
  <1> QED
    BY <1>1, PlansInvariant, PTL DEF Spec, NoLateCard
=============================================================================
