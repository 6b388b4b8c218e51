-------------------------------- MODULE Plans --------------------------------
(***************************************************************************)
(* Plan mode of one conversation: the plans and their approval             *)
(* (plans/manager.py), the plan tool of the agent (agent/tools/plan.py),   *)
(* the gate in front of side effects (agent/loop.py) and the users'        *)
(* requests (channels/feature_rpc.py).  Turns of a conversation run one    *)
(* after the other; users act on a plan at any time, so at every await of  *)
(* a turn.  The store is written before each await: memory and disk agree  *)
(* whenever another task runs, or the process dies.                        *)
(*                                                                         *)
(* A plan that is over and has no open approval never runs again: its slot *)
(* is free for a new plan, as the number of a closed approval is.          *)
(***************************************************************************)
EXTENDS Prompts, Orderings

CONSTANTS
    PlanIds            \* bound: the slots for plans, numbered

ASSUME PlansAssumption ==
    /\ PlanIds \subseteq Nat \ {0} /\ PlanReqs \subseteq Nat \ {0}
    /\ PlanAnswers = {"approve", "reject", "revise"}

VARIABLES
    plan,              \* the stored plans
    recent,            \* the order of the active ones by updatedAt: <<earlier, later>>
    sticky,            \* the standing plan mode, on disk
    forced,            \* whether the gate is armed, in memory
    turn,              \* the turn that runs, and where it is
    deciding           \* decisions whose handlers have yet to wake the turn

planVars == <<plan, recent, sticky, forced, turn, deciding>>
vars     == <<req, planVars>>

Terminal == {"completed", "blocked", "rejected", "aborted"}
Statuses == Terminal \cup {"none", "awaiting_approval", "approved", "executing", "paused"}

\* ask: its approval that is not resolved yet; decision: the last resolved.
NoPlan == [status |-> "none", mode |-> "forced", ask |-> 0, decision |-> "none"]
NoTurn == [pc |-> "none", cron |-> FALSE, auto |-> FALSE, plan |-> 0, ask |-> 0]

Stored == {p \in PlanIds : plan[p].status # "none"}
Active == {p \in Stored : plan[p].status \notin Terminal}
Fresh  == {p \in PlanIds : plan[p].status = "none" /\ \A q \in PlanIds \ Stored : p <= q}

\* current_for_session: the active plan that was touched last.
Current == {p \in Active : \A q \in Active \ {p} : <<q, p>> \in recent}

\* Mutant of Save: the plan is not touched.
SaveUntouched(p, r) ==
    /\ plan' = [plan EXCEPT ![p] = IF r.status \in Terminal /\ r.ask = 0 THEN NoPlan ELSE r]
    /\ UNCHANGED recent

\* Every mutation of a plan touches it and saves it.
Save(p, r) ==
    LET over  == r.status \in Terminal
        other == Without(recent, {p})
    IN  /\ plan' = [plan EXCEPT ![p] = IF over /\ r.ask = 0 THEN NoPlan ELSE r]
        /\ recent' = IF over THEN other ELSE other \cup ((Active \ {p}) \X {p})

GateActive == forced \/ \E p \in Current : plan[p].status = "awaiting_approval"

Goto(pc) == turn' = [turn EXCEPT !.pc = pc]
GoOn     == turn' = [NoTurn EXCEPT !.pc = "act", !.cron = turn.cron]

-----------------------------------------------------------------------------
\* A message starts a turn.  A normal one arms the gate in the standing mode,
\* "/plan <task>" arms it for its task, and turns the system writes do not.
StartTurn(arm, cron) ==
    /\ turn = NoTurn
    /\ turn' = [NoTurn EXCEPT !.pc = "act", !.cron = cron]
    /\ forced' = (forced \/ arm = "task" \/ (arm = "message" /\ sticky))
    /\ UNCHANGED <<req, plan, recent, sticky, deciding>>

EndTurn ==
    /\ turn.pc = "act"
    /\ turn' = NoTurn
    /\ UNCHANGED <<req, plan, recent, sticky, forced, deciding>>

\* A new approval for plan p: it takes the place of the one p has.
Unused(p)  == {a \in PlanReqs : /\ req[a] = Unasked
                                /\ \A q \in PlanIds \ {p} : plan[q].ask # a
                                /\ \A x \in deciding : x[1] # a}
NextAsk(p) == {a \in Unused(p) : \A b \in Unused(p) : a <= b}

\* The proposal is stored with its approval, then announced.
Propose(p, r, a) ==
    /\ Save(p, [r EXCEPT !.mode = "forced", !.status = "awaiting_approval", !.ask = a,
                         !.decision = "none"])
    /\ turn' = [turn EXCEPT !.pc = "announce", !.auto = FALSE, !.plan = p, !.ask = a]
    /\ Set(a, [Unasked EXCEPT !.pc = "announce", !.left = Window])

\* A plan under review is revised in place, any other active one aborted
\* first; auto: an unattended policy and no review asked for.
ProposeRevised ==
    /\ turn.pc = "act"
    /\ \E p \in Current : \E a \in NextAsk(p) :
          plan[p].status = "awaiting_approval" /\ Propose(p, plan[p], a)
    /\ UNCHANGED <<sticky, forced, deciding>>

Supersede(auto) ==
    /\ turn.pc = "act" /\ \E p \in Fresh : NextAsk(p) # {}
    /\ auto => ~forced /\ ~sticky /\ ~turn.cron
    /\ \E p \in Current :
          /\ plan[p].status # "awaiting_approval"
          /\ Save(p, [plan[p] EXCEPT !.status = "aborted"])
    /\ turn' = [turn EXCEPT !.pc = "new", !.auto = auto]
    /\ UNCHANGED <<req, sticky, forced, deciding>>

\* What the tool does with the gate once it has the decision.
Disarmed(told) ==
    forced /\ ~(told = "approve" \/ (told \in {"reject", "timeout"} /\ ~sticky))

\* A new plan: a tracking plan starts at once, any other is proposed.
NewPlan(auto) ==
    /\ \/ turn.pc = "new" /\ auto = turn.auto
       \/ /\ turn.pc = "act" /\ Current = {}
          /\ auto => ~forced /\ ~sticky /\ ~turn.cron
    /\ \E p \in Fresh :
          IF auto
          THEN /\ Save(p, [NoPlan EXCEPT !.status = "executing", !.mode = "auto"])
               /\ forced' = Disarmed("approve")
               /\ GoOn /\ UNCHANGED req
          ELSE /\ \E a \in NextAsk(p) : Propose(p, NoPlan, a)
               /\ UNCHANGED forced
    /\ UNCHANGED <<sticky, deciding>>

-----------------------------------------------------------------------------
\* _apply_decision.
After(r, d, live) ==
    [r EXCEPT !.ask = 0,
              !.decision = IF d = "timeout" THEN "none" ELSE d,
              !.status = CASE d = "approve" -> IF live THEN "executing" ELSE "approved"
                           [] d = "reject" -> "rejected"
                           [] d = "revise" -> "awaiting_approval"
                           [] d = "timeout" -> "aborted"]

\* Mutant of Waiting: the deadline that has passed by now is no deadline.
WaitingOn(q) == [q EXCEPT !.pc = "wait", !.fut = "pending",
                          !.timer = IF q.left > 0 THEN "armed" ELSE "off"]

\* request_and_wait: the deadline was set when the plan was proposed.
Waiting(q) == [q EXCEPT !.pc = "wait", !.fut = "pending", !.timer = "armed"]

\* The surfaces have been told.  A scheduled run is refused at once; any
\* other turn waits from now on.
Announced ==
    LET p == turn.plan
        a == turn.ask
    IN  /\ turn.pc = "announce"
        /\ IF turn.cron
           THEN /\ Save(p, After(plan[p], "reject", TRUE))
                /\ Set(a, Unasked)
                /\ Goto("applied")
           ELSE /\ Set(a, Waiting(req[a]))
                /\ Goto("wait") /\ UNCHANGED <<plan, recent>>
        /\ UNCHANGED <<sticky, forced, deciding>>

HasLiveFuture(a) == req[a].pc = "wait" /\ req[a].fut = "pending"

\* resolve_approval, up to the await in which the decision is announced, by a
\* client that saw this approval or names no revision.  An approval ends the
\* standing mode.
ResolveApproval(p, d) ==
    LET a == plan[p].ask
        live == HasLiveFuture(a)
    IN  /\ a # 0
        /\ Save(p, After(plan[p], d, live))
        /\ sticky' = (sticky /\ d # "approve")
        /\ forced' = (forced /\ d # "approve")
        /\ deciding' = IF live THEN deciding \cup {<<a, d>>} ELSE deciding
        /\ UNCHANGED <<req, turn>>

\* The rest of it: the turn is woken if it still waits.
ResolveFuture(x) ==
    /\ x \in deciding /\ deciding' = deciding \ {x}
    /\ IF HasLiveFuture(x[1]) THEN Set(x[1], [req[x[1]] EXCEPT !.fut = x[2]])
       ELSE UNCHANGED req
    /\ UNCHANGED <<plan, recent, sticky, forced, turn>>

\* wait_for over a future that is done when its timer cancels it: Python 3.11
\* returns the result, later versions time out.
Told(q) == {Verdict(q)} \cup (IF "abort" \notin q.cut THEN {q.fut} \cap PlanAnswers ELSE {})

\* The turn goes on: stopped, with a timeout that it records itself, or with
\* the decision that a surface has recorded.
TurnWakes ==
    LET p == turn.plan
        a == turn.ask
    IN  /\ turn.pc = "wait" /\ (Woken(a) \/ req[a].cut # {})
        /\ \E d \in Told(req[a]) :
              /\ Set(a, Unasked)
              /\ IF d = "timeout" THEN Save(p, After(plan[p], d, TRUE))
                 ELSE UNCHANGED <<plan, recent>>
              /\ CASE d = "cancelled" -> turn' = NoTurn /\ UNCHANGED forced
                   [] d = "timeout"   -> Goto("applied") /\ UNCHANGED forced
                   [] OTHER           -> GoOn /\ forced' = Disarmed(d)
        /\ UNCHANGED <<sticky, deciding>>

\* A refusal or a timeout that the turn recorded has been announced.
Applied ==
    /\ turn.pc = "applied"
    /\ GoOn /\ forced' = Disarmed("timeout")
    /\ UNCHANGED <<req, plan, recent, sticky, deciding>>

\* The run is stopped while it waits.
AbortTurn ==
    /\ \/ /\ turn.pc \in {"new", "applied"}
          /\ turn' = NoTurn /\ UNCHANGED req
       \/ /\ turn.pc = "announce"
          /\ turn' = NoTurn
          /\ Set(turn.ask, Unasked)
       \/ /\ turn.pc \in {"wait", "ask"}
          /\ Abort(turn.ask) /\ UNCHANGED turn
    /\ UNCHANGED <<plan, recent, sticky, forced, deciding>>

-----------------------------------------------------------------------------
\* update_steps: the plan is under way again, and over with its last step.
UpdateSteps(finished) ==
    /\ turn.pc = "act"
    /\ \E p \in Current :
          Save(p, [plan[p] EXCEPT !.status =
              IF @ \in {"approved", "paused", "executing"}
              THEN (IF finished THEN "completed" ELSE "executing") ELSE @])
    /\ UNCHANGED <<req, sticky, forced, turn, deciding>>

\* The tool's complete and abort also drop the gate; block does not.
EndPlan(s) ==
    /\ turn.pc = "act"
    /\ \E p \in Current : Save(p, [plan[p] EXCEPT !.status = s])
    /\ forced' = (forced /\ s = "blocked")
    /\ UNCHANGED <<req, sticky, turn, deciding>>

\* A tool with side effects passes the gate, then asks for its command; a
\* question passes always.  A schedule may be set up to ask all the same.
UseTool(r) ==
    /\ turn.pc = "act"
    /\ r \in ExecReqs => ~GateActive
    /\ IF turn.cron THEN AskUnattended(r) \/ (r \in ExecReqs /\ Ask(r)) ELSE Ask(r)
    /\ turn' = [turn EXCEPT !.pc = "ask", !.ask = r]
    /\ UNCHANGED <<plan, recent, sticky, forced, deciding>>

\* The tool has its verdict; its next request is a new one.
ToolDone ==
    /\ turn.pc = "ask" /\ req[turn.ask].pc = "done"
    /\ IF req[turn.ask].result = "cancelled" THEN turn' = NoTurn ELSE GoOn
    /\ Set(turn.ask, Unasked)
    /\ UNCHANGED <<plan, recent, sticky, forced, deciding>>

-----------------------------------------------------------------------------
\* plan.cancel ends any plan; the turn that waits for it is not told.
Cancel(p) ==
    /\ p \in Stored
    /\ Save(p, [plan[p] EXCEPT !.status = "aborted"])
    /\ UNCHANGED <<req, sticky, forced, turn, deciding>>

\* Mutant of Resume: a plan that awaits its approval is resumable too.
ResumeAny(p) ==
    /\ p \in Active
    /\ Save(p, [plan[p] EXCEPT !.status = "executing"])
    /\ UNCHANGED <<req, sticky, forced, turn, deciding>>

Resume(p) ==
    /\ plan[p].status \in {"paused", "approved"}
    /\ Save(p, [plan[p] EXCEPT !.status = "executing"])
    /\ UNCHANGED <<req, sticky, forced, turn, deciding>>

SetSticky(on) ==
    /\ sticky' = on /\ forced' = (forced /\ on)
    /\ UNCHANGED <<req, plan, recent, turn, deciding>>

\* "/plan off", a message of the conversation.
PlanOff ==
    /\ turn = NoTurn
    /\ sticky' = FALSE /\ forced' = FALSE
    /\ \/ Current = {} /\ UNCHANGED <<plan, recent>>
       \/ \E p \in Current : Save(p, [plan[p] EXCEPT !.status = "aborted"])
    /\ UNCHANGED <<req, turn, deciding>>

\* recover_on_start: the plans whose turn died with the process.
Interrupted == {p \in Stored : plan[p].status = "executing"}

Crash ==
    /\ plan' = [p \in PlanIds |-> IF p \in Interrupted
                                   THEN [plan[p] EXCEPT !.status = "paused"] ELSE plan[p]]
    /\ \E order \in Orders(Interrupted) :
          recent' = Without(recent, Interrupted)
                       \cup ((Active \ Interrupted) \X Interrupted) \cup order
    /\ req' = [r \in Reqs |-> Unasked]
    /\ turn' = NoTurn /\ forced' = FALSE /\ deciding' = {}
    /\ UNCHANGED sticky

Pending == {r \in Reqs : req[r].pc \in {"announce", "notify", "wait"}}

Elapse ==
    /\ \E r \in Pending : req[r].left > 0
    /\ req' = [r \in Reqs |-> IF r \in Pending THEN Later(req[r]) ELSE req[r]]
    /\ UNCHANGED planVars

-----------------------------------------------------------------------------
Init ==
    /\ req = [r \in Reqs |-> Unasked]
    /\ plan = [p \in PlanIds |-> NoPlan] /\ recent = {}
    /\ sticky = FALSE /\ forced = FALSE
    /\ turn = NoTurn /\ deciding = {}

\* What the event loop does for a prompt by itself.
Loop(r) == Collect(r) \/ Fire(r) \/ Wake(r) \/ Drain(r) \/ Shut(r)

Turn ==
    \/ Announced \/ TurnWakes \/ Applied \/ ToolDone
    \/ \E auto \in BOOLEAN : turn.pc = "new" /\ NewPlan(auto)

Agent ==
    \/ \E arm \in {"message", "task", "system"}, cron \in BOOLEAN : StartTurn(arm, cron)
    \/ EndTurn
    \/ ProposeRevised
    \/ \E auto \in BOOLEAN : Supersede(auto) \/ (turn.pc = "act" /\ NewPlan(auto))
    \/ \E finished \in BOOLEAN : UpdateSteps(finished)
    \/ \E s \in {"completed", "blocked", "aborted"} : EndPlan(s)
    \/ \E r \in ExecReqs \cup Questions : UseTool(r)

User ==
    \/ \E p \in PlanIds, d \in PlanAnswers : ResolveApproval(p, d)
    \/ \E r \in ExecReqs \cup Questions, d \in Answers : Resolve(r, d) /\ UNCHANGED planVars
    \/ \E p \in PlanIds : Cancel(p) \/ Resume(p)
    \/ \E on \in BOOLEAN : SetSticky(on)
    \/ PlanOff
    \/ AbortTurn

Next ==
    \/ Agent
    \/ User
    \/ Turn
    \/ \E x \in deciding : ResolveFuture(x)
    \/ \E r \in Reqs : (Loop(r) \/ Show(r)) /\ UNCHANGED planVars
    \/ Elapse
    \/ Crash

Spec == Init /\ [][Next]_vars

\* asyncio runs what is ready, sends to surfaces end, time passes; users and
\* agents owe nothing.  Telling a surface of a request (Show) may hang.
Fairness ==
    /\ WF_vars(Turn) /\ WF_vars(Elapse)
    /\ \A r \in Reqs : WF_vars(Loop(r) /\ UNCHANGED planVars)
    /\ WF_vars(\E x \in deciding : ResolveFuture(x))

FairSpec == Spec /\ Fairness

-----------------------------------------------------------------------------
(* Properties.                                                             *)

PlanRecord == [status : Statuses, mode : {"auto", "forced"}, ask : {0} \cup PlanReqs,
               decision : PlanAnswers \cup {"none"}]

TurnRecord == [pc : {"none", "act", "new", "announce", "wait", "applied", "ask"},
               cron : BOOLEAN, auto : BOOLEAN, plan : PlanIds \cup {0}, ask : Reqs \cup {0}]

PlansTypes ==
    /\ PromptsTypeOK
    /\ plan \in [PlanIds -> PlanRecord] /\ turn \in TurnRecord
    /\ sticky \in BOOLEAN /\ forced \in BOOLEAN
    /\ deciding \subseteq PlanReqs \X PlanAnswers

\* Every record has its type, and `recent` orders exactly the active plans
\* (current_for_session finds one as long as there is a plan that is not over).
PlansTypeOK == PlansTypes /\ recent \in Orders(Active)

\* "The plan starts executing" on Approve and on nothing else: through
\* revisions, restarts, resumes and late answers, a plan under review runs
\* only if the decision stored for its present approval is an approval.
RunsApproved ==
    \A p \in Stored :
        plan[p].mode = "forced" /\ plan[p].status \in {"approved", "executing", "paused"}
            => plan[p].ask = 0 /\ plan[p].decision = "approve"

\* A turn that waits for the user goes on: on a decision, or on the timeout.
TurnsGoOn == (turn.pc \notin {"none", "act"}) ~> (turn.pc \in {"none", "act"})

\* "First valid decision wins": once a surface's decision is recorded, the turn
\* that waits for it does not run into the deadline and record a timeout.
FirstDecisionWins ==
    turn.pc = "wait" /\ plan[turn.plan].ask # turn.ask => "timeout" \notin req[turn.ask].cut
=============================================================================
