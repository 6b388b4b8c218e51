-------------------------------- MODULE Goals --------------------------------
(***************************************************************************)
(* The standing goal of one conversation: its record (goals/manager.py,    *)
(* goals/store.py), the runtime that judges delivered turns and submits    *)
(* the next one (goals/runtime.py), the commands and controls of users     *)
(* (goals/commands.py, agent/loop.py), and the turns of the conversation.  *)
(* A step runs from one await to the next.                                 *)
(*                                                                         *)
(* A revision serves to tell whether the record was written since it was   *)
(* read, so the model keeps that answer (`fresh`) with each reader.  A     *)
(* queue is named by the slot its worker has; a worker that takes over a   *)
(* queue takes its slot.                                                   *)
(***************************************************************************)
EXTENDS Integers, Sequences, FiniteSets

CONSTANTS
    MaxTurns,            \* max_turns: the turn budget of a goal
    MaxParse,            \* MAX_PARSE_FAILURES
    MaxTransport,        \* MAX_TRANSPORT_FAILURES
    MaxCompaction,       \* MAX_COMPACTION_FAILURES
    MaxRetries,          \* max_retries of a quality gate
    Conditions,          \* what a goal can wait for
    Slots,               \* bound: queues at one time, numbered
    MaxActs              \* bound: acts of users, conditions that begin to hold, restarts

ASSUME GoalsAssumption ==
    /\ MaxTurns \in Nat \ {0} /\ MaxParse \in Nat \ {0} /\ MaxTransport \in Nat \ {0}
    /\ MaxCompaction \in Nat \ {0} /\ MaxRetries \in Nat
    /\ "process" \in Conditions /\ Conditions \subseteq {"plan", "subagents", "process"}
    /\ Slots \subseteq Nat \ {0} /\ IsFiniteSet(Slots)
    /\ MaxActs \in Nat

VARIABLES
    goal,       \* the stored record
    held,       \* the conditions that hold
    epoch,      \* _goal_user_epochs: messages users sent
    inbox,      \* messages that wait for the turn lock
    run,        \* the turn that holds it
    queue,      \* the work in each queue
    worker,     \* the worker of each queue
    curq,       \* _queues: the queue new work goes to, or 0
    reg,        \* _workers: the worker that is registered, or 0
    route,      \* _routes has an entry
    timer,      \* _wake_timers: a barrier is polled
    draft,      \* the goal whose contract is being drafted, or 0
    chip,       \* a resume control between its write and its wake
    acts,
    excused     \* history: users did what the code does not carry the goal over

goalVars == <<goal, held, epoch, inbox, run, queue, worker, curq, reg, route, timer,
              draft, chip, acts, excused>>

Statuses == {"none", "active", "paused", "done", "cleared"}
Outcomes == {"ok", "aborted", "overflow", "failed"}
Verdicts == {"done", "continue", "wait", "needs_input", "garbled", "unreachable"}
NoGate   == -1

\* id: the generation; asked: last_verdict is needs_input; crit: the version of
\* subgoals, gates and contract; gate: the failures of its gate, if it has one.
NoGoal == [id |-> 0, st |-> "none", used |-> 0, wait |-> "none", asked |-> FALSE, parse |-> 0,
           transport |-> 0, compaction |-> 0, gate |-> NoGate, crit |-> 0, contract |-> FALSE]

NoTurn == [kind |-> "none", epoch |-> 0, bind |-> 0, made |-> 0]
Wake   == [kind |-> "wake", how |-> "ok", epoch |-> 0, id |-> 0]

\* id, epoch: the goal and the user epoch it works for; fresh: no write since it
\* read the record; saw: the criteria it gave to the judge; next: what it does
\* once its notice is delivered.
NoWorker == [pc |-> "none", cancelled |-> FALSE, id |-> 0, epoch |-> 0, fresh |-> FALSE,
             saw |-> 0, next |-> "rest"]
Getting  == [NoWorker EXCEPT !.pc = "get"]

IsActive == goal.st = "active"
IsLive   == goal.st \notin {"none", "cleared"}

\* What every write of the record does to those who read it before.
Stale(w)     == [s \in Slots |-> [w[s] EXCEPT !.fresh = FALSE]]
StaleChip    == IF chip = "none" THEN "none" ELSE "stale"

Paused(g)    == [g EXCEPT !.st = "paused", !.wait = "none"]
Unsuccessful(how) == how # "ok"

Act == acts < MaxActs /\ acts' = acts + 1

-----------------------------------------------------------------------------
(* The runtime's queues and workers.                                       *)

Unused == {s \in Slots : /\ s # curq /\ s # reg /\ queue[s] = <<>>
                         /\ worker[s] = NoWorker}

Enqueue(w, work) ==
    \E q \in IF curq # 0 THEN {curq} ELSE {s \in Unused : \A t \in Unused : s <= t} :
        /\ queue' = [queue EXCEPT ![q] = Append(@, work)]
        /\ curq' = q
        /\ IF reg = 0
             THEN reg' = q /\ worker' = [w EXCEPT ![q] = [NoWorker EXCEPT !.pc = "new"]]
             ELSE UNCHANGED reg /\ worker' = w

\* cancel_session: a worker sees its cancellation at its next step.
CancelSession(w) ==
    /\ timer' = FALSE /\ route' = FALSE /\ curq' = 0 /\ reg' = 0
    /\ worker' = IF reg = 0 THEN w ELSE [w EXCEPT ![reg].cancelled = TRUE]
    /\ queue' = IF curq \in {0, reg} THEN queue ELSE [queue EXCEPT ![curq] = <<>>]

Live(s) == worker[s].pc # "none" /\ ~worker[s].cancelled

Begin(s) ==
    /\ Live(s) /\ worker[s].pc = "new"
    /\ worker' = [worker EXCEPT ![s] = Getting]
    /\ UNCHANGED <<goal, held, epoch, inbox, run, queue, curq, reg, route, timer, draft, chip,
                   acts, excused>>

\* The second without work is over.
Retire(s) ==
    /\ Live(s) /\ worker[s].pc = "get" /\ queue[s] = <<>>
    /\ worker' = [worker EXCEPT ![s] = NoWorker]
    /\ reg' = IF reg = s THEN 0 ELSE reg
    /\ curq' = IF curq = s THEN 0 ELSE curq
    /\ UNCHANGED <<goal, held, epoch, inbox, run, queue, route, timer, draft, chip,
                   acts, excused>>

\* Mutant of Successor: whoever is registered.
SuccessorAlways(s) == worker[s].pc # "new" /\ queue[s] # <<>>

\* The finally block of a worker that has begun hands its queue on.
Successor(s) == worker[s].pc # "new" /\ queue[s] # <<>> /\ reg = 0

Unwind(s) ==
    /\ worker[s].cancelled
    /\ IF Successor(s)
         THEN /\ worker' = [worker EXCEPT ![s] = [NoWorker EXCEPT !.pc = "new"]]
              /\ reg' = s
              /\ UNCHANGED queue
         ELSE /\ worker' = [worker EXCEPT ![s] = NoWorker]
              /\ queue' = [queue EXCEPT ![s] = <<>>]
              /\ UNCHANGED reg
    /\ UNCHANGED <<goal, held, epoch, inbox, run, curq, route, timer, draft, chip,
                   acts, excused>>

-----------------------------------------------------------------------------
(* One piece of work.                                                      *)

Goto(s, w) == worker' = [worker EXCEPT ![s] = w]
Save(s, g, w) ==
    /\ goal' = g /\ chip' = StaleChip
    /\ worker' = [Stale(worker) EXCEPT ![s] = w]

\* _after_turn: a notice is delivered, then the loop rests, parks or goes on.
Notice(w, next) == [w EXCEPT !.pc = "notice", !.next = next, !.fresh = FALSE, !.saw = 0]
NextAfter(g) == IF g.st # "active" THEN "rest" ELSE IF g.wait # "none" THEN "park" ELSE "run"

\* The loop leaves a goal that somebody changed: no notice, no next turn.
Leave(s) ==
    /\ Goto(s, Getting)
    /\ timer' = (timer /\ goal.st \notin {"paused", "done"})
    /\ UNCHANGED <<goal, chip>>

Working(s, pc) == Live(s) /\ worker[s].pc = pc
Rest == <<held, epoch, inbox, run, curq, reg, route, draft, acts, excused>>

\* The turn was executed for this goal; a failure of a turn that a newer
\* message has overtaken is not the goal's.
Concerns(it) ==
    /\ IsActive /\ it.id = goal.id
    /\ Unsuccessful(it.how) => it.epoch = epoch

Blockers == held \cap {"plan", "subagents"}

\* What a turn that did not succeed makes of the goal.
AfterFailure(g, how) ==
    CASE how = "aborted"  -> Paused(g)
      [] how = "failed"   -> [Paused(g) EXCEPT !.asked = TRUE]
      [] how = "overflow" ->
           LET h == [g EXCEPT !.compaction = @ + 1, !.asked = FALSE]
           IN  IF h.compaction >= MaxCompaction THEN Paused(h) ELSE h

AfterTurn(s) ==
    /\ Working(s, "get") /\ queue[s] # <<>> /\ Head(queue[s]).kind = "turn"
    /\ queue' = [queue EXCEPT ![s] = Tail(@)]
    /\ LET it == Head(queue[s])
           w  == [Getting EXCEPT !.id = it.id, !.epoch = it.epoch]
       IN  \/ /\ ~Concerns(it)
              /\ Goto(s, Getting) /\ UNCHANGED <<goal, chip>>
           \/ /\ Concerns(it) /\ it.how = "ok" /\ Blockers # {} /\ goal.wait = "none"
              /\ \E b \in Blockers :
                    /\ "plan" \in Blockers => b = "plan"
                    /\ Save(s, [goal EXCEPT !.wait = b], Notice(w, "park"))
           \/ /\ Concerns(it) /\ it.how = "ok" /\ (Blockers = {} \/ goal.wait # "none")
              /\ Goto(s, [w EXCEPT !.pc = "processes", !.fresh = TRUE]) /\ UNCHANGED <<goal, chip>>
           \/ /\ Concerns(it) /\ Unsuccessful(it.how)
              /\ LET g == AfterFailure(goal, it.how)
                 IN  Save(s, g, Notice(w, IF g.st = "active" THEN "run" ELSE "rest"))
    /\ UNCHANGED timer /\ UNCHANGED Rest

\* waiting_state: a barrier whose condition is over is cleared.
Resolved(g) == IF g.wait \in held THEN g ELSE [g EXCEPT !.wait = "none"]

\* evaluate_after_turn up to the judge: a goal that still waits is left to the
\* poller, any other has used a turn.
Evaluate(s) ==
    /\ Working(s, "processes")
    /\ LET w == worker[s]
           g == Resolved(goal)
           h == [g EXCEPT !.used = @ + 1, !.compaction = 0]
       IN  IF ~w.fresh THEN Leave(s)
           ELSE /\ IF g.wait # "none"
                     THEN Goto(s, Notice(w, "park")) /\ UNCHANGED <<goal, chip>>
                     ELSE Save(s, h, [w EXCEPT !.pc = IF h.gate = NoGate THEN "judge" ELSE "gate",
                                               !.saw = h.crit])
                /\ UNCHANGED timer
    /\ UNCHANGED queue /\ UNCHANGED Rest

\* _evaluate_gates: its gate passes, or another turn has to make it pass.
GateRan(s, passed) ==
    /\ Working(s, "gate")
    /\ LET w == worker[s]
           h == [goal EXCEPT !.gate = IF passed THEN 0 ELSE @ + 1]
           g == IF ~passed /\ (h.gate > MaxRetries \/ h.used >= MaxTurns) THEN Paused(h) ELSE h
       IN  IF ~w.fresh THEN Leave(s)
           ELSE /\ IF passed THEN Save(s, h, [w EXCEPT !.pc = "judge"])
                             ELSE Save(s, g, Notice(w, NextAfter(g)))
                /\ UNCHANGED timer
    /\ UNCHANGED queue /\ UNCHANGED Rest

\* _apply_judge_result.
Judged(g, v) ==
    LET h == [g EXCEPT !.asked = (v = "needs_input"),
                       !.parse = IF v = "garbled" THEN @ + 1 ELSE 0,
                       !.transport = IF v = "unreachable" THEN @ + 1 ELSE 0]
    IN  CASE v = "done"        -> [h EXCEPT !.st = "done", !.wait = "none"]
          [] v = "wait"        -> [h EXCEPT !.wait = "process"]
          [] v = "needs_input" -> Paused(h)
          [] OTHER -> IF \/ h.transport >= MaxTransport \/ h.parse >= MaxParse
                         \/ h.used >= MaxTurns
                        THEN Paused(h) ELSE h

\* Mutant of Unchanged: the goal is still the one that was judged.
UnchangedGoal(w) == w.id = goal.id /\ IsActive

\* compare_and_update with the record that was judged.
Unchanged(w) == w.fresh

JudgeAnswered(s, v) ==
    /\ Working(s, "judge")
    /\ v = "wait" => goal.used <= MaxTurns     \* bound: see README
    /\ LET g == Judged(goal, v)
       IN  IF ~Unchanged(worker[s]) THEN Leave(s)
           ELSE Save(s, g, Notice(worker[s], NextAfter(g))) /\ UNCHANGED timer
    /\ UNCHANGED queue /\ UNCHANGED Rest

\* _schedule_wait_wake.
Schedule == timer \/ (IsActive /\ goal.wait # "none")

NoticeDelivered(s) ==
    /\ Working(s, "notice")
    /\ CASE worker[s].next = "rest" -> timer' = FALSE /\ Goto(s, Getting)
         [] worker[s].next = "park" -> timer' = Schedule /\ Goto(s, Getting)
         [] worker[s].next = "run"  -> UNCHANGED timer /\ Goto(s, [worker[s] EXCEPT !.pc = "yield"])
    /\ UNCHANGED <<goal, chip, queue>> /\ UNCHANGED Rest

\* _resume_wait.
ResumeWait(s) ==
    /\ Working(s, "get") /\ queue[s] # <<>> /\ Head(queue[s]).kind = "wake"
    /\ queue' = [queue EXCEPT ![s] = Tail(@)]
    /\ LET g == Resolved(goal)
           w == [Getting EXCEPT !.pc = "yield", !.id = g.id, !.epoch = epoch]
       IN  IF ~IsActive THEN Goto(s, Getting) /\ UNCHANGED <<goal, chip, timer>>
           ELSE IF g.wait # "none"
             THEN timer' = Schedule /\ Goto(s, Getting) /\ UNCHANGED <<goal, chip>>
           ELSE /\ timer' = FALSE
                /\ IF g = goal THEN Goto(s, w) /\ UNCHANGED <<goal, chip>> ELSE Save(s, g, w)
    /\ UNCHANGED Rest

\* _run_next after it has let arrivals go first.
RunNext(s) ==
    /\ Working(s, "yield")
    /\ IF worker[s].epoch = epoch /\ IsActive /\ worker[s].id = goal.id
         THEN Goto(s, [worker[s] EXCEPT !.pc = "submit", !.fresh = TRUE])
         ELSE Goto(s, Getting)
    /\ UNCHANGED <<goal, chip, timer, queue>> /\ UNCHANGED Rest

Submitted(s) ==
    /\ Working(s, "submit")
    /\ inbox' = Append(inbox, [kind |-> "goal", epoch |-> worker[s].epoch, id |-> worker[s].id])
    /\ Goto(s, Getting)
    /\ UNCHANGED <<goal, held, epoch, run, queue, curq, reg, route, timer, draft, chip,
                   acts, excused>>

\* No surface took the turn: the goal is paused, unless it was changed or a
\* message has arrived.
SubmitFailed(s) ==
    /\ Working(s, "submit")
    /\ LET w == worker[s]
       IN  CASE w.epoch # epoch           -> Goto(s, Getting) /\ UNCHANGED <<goal, chip, timer>>
             [] w.epoch = epoch /\ w.fresh  -> /\ Save(s, AfterFailure(goal, "failed"), Notice(w, "rest"))
                                               /\ UNCHANGED timer
             [] w.epoch = epoch /\ ~w.fresh -> /\ Goto(s, Getting) /\ UNCHANGED <<goal, chip>>
                                               /\ timer' = (timer /\ goal.st # "paused")
    /\ UNCHANGED queue /\ UNCHANGED Rest

\* wake_later: one look at the barrier.  When it finds none, whoever cleared it
\* goes on.
Poll ==
    /\ timer
    /\ IsActive /\ goal.wait # "none" => goal.wait \notin held
    /\ timer' = FALSE
    /\ IF IsActive /\ goal.wait # "none"
         THEN /\ goal' = Resolved(goal) /\ chip' = StaleChip
              /\ Enqueue(Stale(worker), Wake)
         ELSE UNCHANGED <<goal, chip, queue, worker, curq, reg>>
    /\ UNCHANGED <<held, epoch, inbox, run, route, draft, acts, excused>>

-----------------------------------------------------------------------------
(* The turns of the conversation.                                          *)

\* resume_for_user_input: the last verdict was a question, and nobody resumed.
Asked == goal.st = "paused" /\ goal.asked

\* A message of a user: the epoch moves, and a goal that asked is resumed.
Arrive(kind) ==
    /\ Act
    /\ epoch' = epoch + 1
    /\ inbox' = Append(inbox, [kind |-> kind, epoch |-> epoch + 1, id |-> 0])
    /\ IF Asked
         THEN /\ goal' = [goal EXCEPT !.st = "active"]
              /\ worker' = Stale(worker) /\ chip' = StaleChip
         ELSE UNCHANGED <<goal, worker, chip>>
    /\ excused' = (excused \/ kind = "command")
    /\ UNCHANGED <<held, run, queue, curq, reg, route, timer, draft>>

\* Mutant of StillWanted: arrivals do not matter.
StillWantedAnyway(m) == IsActive /\ m.id = goal.id

\* A goal's turn is run if no message came and the goal is the same and active.
StillWanted(m) == m.epoch = epoch /\ IsActive /\ m.id = goal.id

\* before_goal: the generation the turn is executed for.
Bound == IF goal.st \in {"active", "paused"} THEN goal.id ELSE 0

InTurn == run.kind \in {"chat", "goal", "set"}

\* A message gets the turn lock: its turn runs, or it is a command, or a goal's
\* turn nobody wants any more.
StartTurn ==
    /\ run = NoTurn /\ inbox # <<>>
    /\ inbox' = Tail(inbox)
    /\ LET m == Head(inbox)
       IN  run' = IF m.kind = "chat" \/ (m.kind = "goal" /\ StillWanted(m))
                    THEN [kind |-> m.kind, epoch |-> m.epoch, bind |-> Bound, made |-> 0]
                    ELSE NoTurn
    /\ UNCHANGED <<goal, held, epoch, queue, worker, curq, reg, route, timer, draft, chip,
                   acts, excused>>

\* The turn ends, its answer is delivered and the runtime told (_goal_binding,
\* _goal_after_delivery).
EndTurn(how) ==
    /\ InTurn
    /\ LET id == IF run.bind # 0 THEN run.bind
                 ELSE IF run.made = goal.id THEN run.made ELSE 0
           e  == IF run.kind = "set" THEN epoch ELSE run.epoch
       IN  Enqueue(worker, [kind |-> "turn", how |-> how, epoch |-> e, id |-> id])
    /\ run' = NoTurn /\ route' = TRUE
    /\ UNCHANGED <<goal, held, epoch, inbox, timer, draft, chip, acts, excused>>

\* The answer of "/goal unwait" is delivered.
Unwaited ==
    /\ run.kind = "unwait" /\ run' = NoTurn
    /\ Enqueue(worker, Wake)
    /\ UNCHANGED <<goal, held, epoch, inbox, route, timer, draft, chip, acts, excused>>

\* A turn starts a process or subagents, or proposes a plan.
Hold(c) ==
    /\ InTurn /\ c \notin held /\ Act
    /\ held' = held \cup {c}
    /\ UNCHANGED <<goal, epoch, inbox, run, queue, worker, curq, reg, route, timer, draft, chip,
                   excused>>

\* It is over; the registry of processes wakes the conversation.
Release(c) ==
    /\ c \in held /\ held' = held \ {c}
    /\ IF c = "process" /\ route
         THEN Enqueue(worker, Wake)
         ELSE UNCHANGED <<queue, worker, curq, reg>>
    /\ UNCHANGED <<goal, epoch, inbox, run, route, timer, draft, chip, acts, excused>>

-----------------------------------------------------------------------------
(* What users do to the goal.                                              *)

\* A write of the record by somebody else than a worker.
Store(g) == goal' = g /\ chip' = StaleChip

\* cancel_session leaves work behind that its worker will hand on.
Cut == reg # 0 /\ queue[reg] # <<>>

\* Somebody has read the record and will find it changed.
Midway == chip = "fresh" \/ \E s \in Slots : Live(s) /\ worker[s].fresh

NewGoal == [NoGoal EXCEPT !.id = goal.id + 1, !.st = "active"]

\* "/goal <text>" as a message, whose turn becomes the goal's first, or the
\* goal tool in a turn that runs.
SetGoal ==
    /\ Act /\ (run = NoTurn \/ InTurn)
    /\ goal' = NewGoal
    /\ run' = IF run = NoTurn
                THEN [kind |-> "set", epoch |-> epoch, bind |-> Bound, made |-> goal.id + 1]
                ELSE [run EXCEPT !.made = goal.id + 1]
    /\ draft' = goal.id + 1 /\ chip' = StaleChip
    /\ CancelSession(Stale(worker))
    /\ excused' = (excused \/ Cut \/ Bound # 0 \/ run.bind # 0)
    /\ UNCHANGED <<held, epoch, inbox>>

\* attach_contract.
AttachContract ==
    /\ draft # 0 /\ draft' = 0
    /\ IF draft = goal.id /\ IsLive /\ ~goal.contract
         THEN /\ Store([goal EXCEPT !.contract = TRUE, !.crit = @ + 1])
              /\ worker' = Stale(worker)
              /\ excused' = (excused \/ Midway)
         ELSE UNCHANGED <<goal, chip, worker, excused>>
    /\ UNCHANGED <<held, epoch, inbox, run, queue, curq, reg, route, timer, acts>>

\* The criteria of a goal that is not over change; it gets its gate, or loses
\* it; it waits for a process.
Edited(g) ==
    UNION { IF g.st = "done" THEN {} ELSE {[g EXCEPT !.crit = @ + 1]},
            {[g EXCEPT !.crit = @ + 1, !.gate = IF @ = NoGate THEN 0 ELSE NoGate]},
            IF g.st = "active" THEN {[g EXCEPT !.wait = "process"]} ELSE {} }

\* "/subgoal", "/goal gate", "/goal wait": commands, which take the turn lock.
Edit ==
    /\ Act /\ run = NoTurn /\ IsLive
    /\ \E g \in Edited(goal) : Store(g)
    /\ worker' = Stale(worker) /\ excused' = (excused \/ Midway)
    /\ UNCHANGED <<held, epoch, inbox, run, queue, curq, reg, route, timer, draft>>

\* "/goal unwait".
Unwait ==
    /\ Act /\ run = NoTurn /\ IsLive
    /\ Store([goal EXCEPT !.wait = "none"])
    /\ run' = IF goal.wait = "none" THEN NoTurn ELSE [NoTurn EXCEPT !.kind = "unwait"]
    /\ worker' = Stale(worker)
    /\ excused' = (excused \/ (goal.wait = "none" /\ Midway))
    /\ UNCHANGED <<held, epoch, inbox, queue, curq, reg, route, timer, draft>>

Cleared(g) == [NoGoal EXCEPT !.id = g.id, !.st = "cleared", !.used = g.used]

\* "/goal pause" and "/goal clear" once they have the lock, a reset of the
\* conversation, and the pause and stop controls of a client at any time.
Halt(st) ==
    /\ Act /\ (IsLive \/ (st = "cleared" /\ goal # NoGoal))
    /\ Store(IF st = "paused" THEN Paused(goal) ELSE Cleared(goal))
    /\ CancelSession(Stale(worker))
    /\ excused' = (excused \/ Cut)
    /\ UNCHANGED <<held, epoch, inbox, run, draft>>

Resumed(g) == [g EXCEPT !.st = "active", !.used = 0, !.parse = 0, !.transport = 0,
                        !.compaction = 0, !.wait = "none"]

\* "/goal resume".
CommandResume ==
    /\ Act /\ run = NoTurn /\ IsLive
    /\ Store(Resumed(goal)) /\ worker' = Stale(worker)
    /\ excused' = TRUE
    /\ UNCHANGED <<held, epoch, inbox, run, queue, curq, reg, route, timer, draft>>

\* The resume control of a client (goal_control).
ControlResume ==
    /\ Act /\ chip = "none" /\ IsLive
    /\ goal' = Resumed(goal) /\ worker' = Stale(worker) /\ chip' = "fresh"
    /\ UNCHANGED <<held, epoch, inbox, run, queue, curq, reg, route, timer, draft,
                   excused>>

ControlWake ==
    /\ chip # "none" /\ chip' = "none"
    /\ IF chip = "fresh" THEN Enqueue(worker, Wake)
                         ELSE UNCHANGED <<queue, worker, curq, reg>>
    /\ UNCHANGED <<goal, held, epoch, inbox, run, route, timer, draft, acts, excused>>

-----------------------------------------------------------------------------
\* Mutant of Sweep: parked goals are left alone.
SweepRunnable == IsActive /\ goal.wait = "none"

\* resume_active_goals.
Sweep == IsActive

\* The process ends, and is started again: the record is what is left.
Restart ==
    /\ Act
    /\ \E s \in {t \in Slots : \A u \in Slots : t <= u} :
          /\ queue' = [t \in Slots |-> IF t = s /\ Sweep THEN <<Wake>> ELSE <<>>]
          /\ worker' = [t \in Slots |-> IF t = s /\ Sweep THEN [NoWorker EXCEPT !.pc = "new"]
                                                          ELSE NoWorker]
          /\ curq' = IF Sweep THEN s ELSE 0
          /\ reg' = IF Sweep THEN s ELSE 0
    /\ epoch' = 0 /\ inbox' = <<>> /\ run' = NoTurn /\ route' = FALSE /\ timer' = FALSE
    /\ draft' = 0 /\ chip' = "none" /\ excused' = FALSE
    /\ UNCHANGED <<goal, held>>

GoalsInit ==
    /\ goal = NoGoal /\ held = {} /\ epoch = 0 /\ inbox = <<>> /\ run = NoTurn
    /\ queue = [s \in Slots |-> <<>>] /\ worker = [s \in Slots |-> NoWorker]
    /\ curq = 0 /\ reg = 0 /\ route = FALSE /\ timer = FALSE /\ draft = 0 /\ chip = "none"
    /\ acts = 0 /\ excused = FALSE

\* What a worker does by itself, and what it waits for.
Work(s) ==
    \/ Begin(s) \/ Unwind(s) \/ AfterTurn(s) \/ Evaluate(s) \/ NoticeDelivered(s)
    \/ ResumeWait(s) \/ RunNext(s) \/ Submitted(s) \/ SubmitFailed(s)
    \/ \E passed \in BOOLEAN : GateRan(s, passed)
    \/ \E v \in Verdicts : JudgeAnswered(s, v)

User ==
    \/ \E kind \in {"chat", "command"} : Arrive(kind)
    \/ SetGoal \/ Edit \/ Unwait \/ CommandResume \/ ControlResume
    \/ \E st \in {"paused", "cleared"} : Halt(st)

GoalsNext ==
    \/ User
    \/ \E s \in Slots : Work(s) \/ Retire(s)
    \/ Poll
    \/ StartTurn \/ Unwaited
    \/ \E how \in Outcomes : EndTurn(how)
    \/ \E c \in Conditions : Hold(c) \/ Release(c)
    \/ AttachContract
    \/ ControlWake
    \/ Restart

GoalsSpec == GoalsInit /\ [][GoalsNext]_goalVars

\* asyncio runs what is ready; judges, gates, notices and turns end (each has
\* a timeout); the poller looks again every second.  Nothing is owed by users,
\* the drafter, or what a goal waits for.
GoalsFair ==
    /\ GoalsSpec
    /\ \A s \in Slots : WF_goalVars(Work(s)) /\ WF_goalVars(Retire(s))
    /\ WF_goalVars(Poll) /\ WF_goalVars(StartTurn) /\ WF_goalVars(Unwaited)
    /\ WF_goalVars(ControlWake)
    /\ WF_goalVars(\E how \in Outcomes : EndTurn(how))

-----------------------------------------------------------------------------
(* Properties.                                                             *)

\* Every record has its type, and turns are evaluated one after the other: of
\* the workers that are not being cancelled, one is left at any time
\* ("serializes evaluation per session").
GoalsTypeOK ==
    /\ goal \in [id : Nat, st : Statuses, used : Nat, wait : Conditions \cup {"none"},
                 asked : BOOLEAN, parse : Nat, transport : Nat, compaction : Nat,
                 gate : Nat \cup {NoGate}, crit : Nat, contract : BOOLEAN]
    /\ goal.wait # "none" => IsActive
    /\ held \subseteq Conditions /\ curq \in Slots \cup {0} /\ reg \in Slots \cup {0}
    /\ \A s \in Slots : Live(s) <=> s = reg
    /\ \A s \in Slots : queue[s] # <<>> => s = curq \/ worker[s].pc # "none"
    /\ chip \in {"none", "fresh", "stale"} /\ {route, timer} \subseteq BOOLEAN

\* The step of a worker that ends or pauses a goal has a turn of that goal in
\* hand, and it is done only on the criteria it has now: not by the verdict on
\* an earlier goal, and not by one that a new subgoal, gate or contract met on
\* its way (compare_and_update, goal_binding).
VerdictFits ==
    [][\A s \in Slots :
         worker'[s] # worker[s] /\ acts' = acts /\ IsActive /\ goal'.st \in {"done", "paused"}
            => /\ \E t \in Slots :
                    /\ Live(t)
                    /\ \/ worker[t].id = goal.id
                       \/ (queue[t] # <<>> /\ Head(queue[t]).id = goal.id)
               /\ goal'.st = "done" => \E t \in Slots : Live(t) /\ worker[t].saw = goal.crit]_goalVars

\* No turn the goal wrote itself goes ahead of a message of a user ("a
\* continuation is discarded whenever that epoch changes").
UserFirst ==
    [][run = NoTurn /\ run'.kind = "goal" =>
         \A i \in DOMAIN inbox' : inbox'[i].kind = "goal"]_goalVars

\* "It stopped on its own" never happens: whatever messages, pauses, resumes,
\* failures, waits and restarts it meets, a goal comes to its end, to a pause,
\* or to a condition that still holds, unless users did one of the things that
\* the code does not carry the goal over (excused): a wake while a cancelled
\* worker has a queue behind it, a change while an answer is judged, a goal set
\* over a live one, a slash command that drops the continuation, or a /goal
\* resume, which wakes nobody.
Settled == IsActive => goal.wait \in held
NeverJustStops == <>[](~excused => Settled)
=============================================================================
