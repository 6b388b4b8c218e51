# A TLA+ verification of Flowly

Flowly is a personal agent runtime in Python (asyncio, SQLite). This directory
holds TLA+ models of its parts, the TLC configurations that check them and
TLAPS proofs about them. They are the parts that decide *when* something runs
and *whether* it may: the task **Board**, through which users, chats, voice
calls, a dispatcher and the workers of several bots share durable work; the
**cron** scheduler; the **agenda** of messages an agent writes first; the
**prompts** that hold an agent until its user decides, with **plan mode** on top;
and the standing **goals** that keep a conversation working.

`PROJECT.json` lists components, runs, mutants, findings, hazards and theorems,
and says which source lines every definition translates.

## The system and its parts

| Part (under `src/flowly/`) | State it keeps | Operations | Hard because |
| --- | --- | --- | --- |
| Board store, `board/store.py` | SQLite tables `cards`, `card_runs`, `card_links`, `card_notes`, `card_events` | add, move, update, note, assign, link, delete, claim, heartbeat, finish, recover | claims outlive the call that made them; leases expire by the clock; workers come back late; an older runtime may share the file |
| Voice ledger, `board/voice_commands.py` | table `card_commands`, process identity | enqueue, claim, boundary, stop, recovery read, response | an instruction must not run twice, and the worker's host answers late or never |
| Orchestrator, `board/orchestrator.py` | asyncio tasks, two kinds of semaphores, a wake event, cancel requests | run, goal, cancel, dispatch, stop | every await is a point where users, cancellations, crashes and the clock get in |
| Board actions, `board/actions.py` | none | one handler per request of a client | clients act on what they saw earlier |
| Profile host, `profile_host.py` | worker processes of other bots | run, stop, reconcile a task | processes that survive the primary, or do not |
| Agent loop, sub-agents, `agent/` | turns, runs, steering queues | turns, spawns, aborts | cancellation in the middle of a turn |
| Cron, `cron/service.py` | jobs file, timer, active runs | tick, run, retry, pause, archive, stop | a timer chain that must not break, at-most-once across crashes |
| Approvals, clarify, plans | futures under deadlines, plan files | request, resolve, time out | a decision races its deadline |
| Goals, `goals/` | goal file, queue, worker and poller per conversation | evaluate, continue, wait, pause, resume, edit | compare-and-update across awaits, users who change the goal while it is judged |
| Agenda, `agenda/` | wake-ups, daily budget | schedule, wake, settle | late turns, budget across crashes, files that stay locked |
| Sessions, compaction, gateway, channels, live voice, desktop runtime, … | see `PROJECT.json` | | mostly I/O around the parts above |

A card's life: a client adds it (`apply_board_action`), it becomes *ready*,
the dispatcher or an explicit Run starts an execution (`_execute`), which
waits for a slot of the global budget, then for the bot's turn, claims the card
(a token, a lease and a row of `card_runs`), spawns a worker and renews the
lease until the worker returns; then the claim is finished with the outcome,
and the card moves on, is queued again after a delay, or is blocked.
`recover_expired_claims` takes over when the lease runs out. A voice card
carries a queue of instructions; each claim delivers one, and the worker takes
further ones at its turn boundaries.

What makes these parts correct: a claim has exactly one open run and one
worker; a live lease is nobody else's; attempts are counted; a revision tells
every change; instructions are delivered once and in order; late answers change
nothing that moved on; nothing that waits waits for ever.

A cron job's life: its next time is kept in `jobs.json`; the timer sleeps to the
earliest one and starts a pass, which takes a lock that other processes honour,
moves recurring jobs on, and runs the due jobs one after the other. A run ends
with a record in the archive and then the job in `jobs.json`; a failed one may be
retried, a limited one completes the job. Users edit, pause, archive and run jobs
at any time. Correct means: nothing due is forgotten, nothing fires twice over any
crash, and what users stopped stays stopped.

An agenda item's life: the agent plans it, or a goal does; when it is due, a
policy decides whether the owner may be written to now, a slot of the daily
budget that all agents share is reserved, and a hidden turn is put on the bus. The
service waits for that turn for ten minutes; the turn may speak later. Correct
means: the owner's limits hold, no slot is used twice, and an item or a slot is lost to
failures only, each of which loses a bounded number.

A prompt's life: a tool asks, surfaces draw a card, somebody answers or the
deadline passes, the card is closed. A plan's approval is a prompt whose answer is
stored before it wakes the turn. Correct means: an accepted answer is the answer,
and only an approved plan runs.

A goal's life: a user sets it, and the turn that follows is its first. When a turn's
answer has been delivered, the runtime queues it for the conversation's worker, which
parks the goal if the turn left a plan, subagents or a process to wait for, runs its
quality gates, asks a judge, and submits the next turn, until the judge is content,
asks for input, or a budget is used up. Users write, command and control at any time.
Correct means: a verdict reaches only the goal it is about, users go first, and the
goal never simply stops.

The list of hazards in `PROJECT.json` places each of these at the line where it
could fail.

## Modules

| Module | Models | Uses |
| --- | --- | --- |
| `CardCommands` | the ledger's queries and updates, as operators on a table | |
| `BoardStore` | every operation of the store, each one atomic step, called in any order | `CardCommands` |
| `VoiceCommands` | steering, stopping, recovering and answering a voice task; the recovery job's await | `BoardStore` |
| `BoardOrchestrator` | executions, semaphores, cancellation, goals, dispatcher, shutdown, crash | all of the above |
| `CronService` | jobs and files, timer, pass, runs by schedule and by hand, shutdown, crash, start | |
| `AgendaService` | agents with an agenda file each, the budget file they share, wake-ups, turns, policy | |
| `Verdicts` | what a caller who asks the user may rely on (abstract) | |
| `Prompts` | approvals and questions down to futures, timers and cancellations; implements `Verdicts` | `Verdicts` |
| `Plans` | plan mode of one conversation: plans, gate, turns, users; composed with `Prompts` | `Prompts` |
| `Goals` | the goal of one conversation: record, runtime, judge and gates, turns, commands, restart | |
| `Orderings` | queues and recency as orders, for the semaphores' lines and the active plans | |
| `BoardStoreProofs` | theorems about `BoardStore` | TLAPS |
| `VoiceCommandsProofs` | lemmas about the ledger: what each command keeps of types and order | `BoardStoreProofs` |
| `BoardOrchestratorProofs` | theorems about the composed Board, the ledger's among them | `VoiceCommandsProofs` |
| `CronServiceProofs`, `AgendaServiceProofs`, `GoalsProofs` | theorems about these modules | TLAPS |
| `PromptsProofs` | lemmas about one request | TLAPS |
| `PlansProofs` | theorems about `Plans` and `Prompts`, and that commands implement `Verdicts` | `PromptsProofs` |
| `MC…` | constants and symmetry sets for TLC | |

### State

*Store.* A table is a function whose DOMAIN is the set of its rows: `cards` by
id, `runs` by the claim token that opened them, `cmds` by `seq`; `links` is a
set of pairs. `0` is NULL. A card has the columns control flow depends on:
status, assignee, schedule, revision, token, lease, attempts and their limit.
Clock, tokens and sequence numbers are counters.

*Revisions.* Operations take an `expected_revision` and refuse when it does not
match; the check and the write are under one lock. A request that is accepted is
therefore one step on the state its client saw, and a refused one no step. What
remains to show is that the revision moves with every change (`RevisionMoves`).

*Ledger.* A worker run is named by the instruction it was started for, which is
the code's idempotency key. The row of a stop keeps the run it asks about.

*Orchestrator.* An execution is a coroutine of `_execute`, named by who started
it and the card; its `pc` is the await it is at. A step is what runs between two
awaits, so `Enter` goes from the global semaphore to the claim when the bot's
turn is free, and `SpawnCancelled` includes what a waiting `cancel_card` does
right behind the settled claim. Semaphores are counted from the pcs and handed
out first come, first served: `line` is a strict order of those who wait, and says
only who is before whom. `pend` is a cancellation that was requested and is
not delivered yet. The worker itself (`_board_spawn` in `agent/loop.py`) is
external: it may report its start, ask for the next instruction at a turn
boundary, return, fail with any of the errors `_execute` tells apart, or
unwind a cancellation.

*Cron.* `jobs` is the list in memory, `disk` the file, `archive` the newest run
record of each job. A step runs from one await to the next, so a pass is
`PassBegins`, then one `PassGoesOn` per job, with everything else in between.
`exec` holds the tasks of `_execute_job` by run id and `active` the slot a job's
run holds. `Settle` has a second outcome: the process dies after the run record
is written and before `jobs.json` is. `fired`, `spent` and `owed` are history for
the properties: the last due time that was started, that the schedule of a job has its
final result, and the run ids clients were given. What users do to put a job back on
the schedule (a new schedule, a resume) makes it unspent.

*Agenda.* Several processes, one per agent. Inside a process nothing comes between
two awaits, which `Idle(a)` states; between processes anything does, so the
budget is read in `Consider` and reserved in `Reserve`; `tick.run` is the item a pass
has decided to wake and not yet reserved a slot for. `wake` is the task of
`_wake`, `future` its entry in `_turns`, `lane` the queue of hidden turns on a
conversation's lock. A turn the service no longer waits for stays in its lane.
Each step chooses the calls that do not get their file's lock in time (`missed`), and
what the code then leaves undone is not done: the budget's calls do nothing and say
nothing (`budget.py:65`, 85, 107), the store's raise (`store.py:115`) and end the pass
or the task they are called from, before its `try` too (`WakeDies`). `fails` counts
such steps; the history `lost` holds the slots that a step or a process left reserved
behind it, `stranded` the items whose end or recovery did not reach the file, `taken`
how many slots were reserved for an item, which names the next.

*Prompts.* A request is a record: the future, the timer, the cancellations on
their way to the waiter, the surfaces that drew the card and those told to drop
it. asyncio runs callbacks in the order they became ready, so a completed future
beats a timer that falls due later but not one already collected in the same pass
(`Collect`, then `Fire`); a task whose future is done is cancelled all the same.

*Plans.* The turn is a record with the await it is at. A decision by a surface has
two parts, the durable one (`ResolveApproval`) and the one that wakes the turn
(`ResolveFuture`), with an await in between. A plan that is over and has no open
approval can never run again, and its slot is reused. `recent` orders the active plans
by when they were written last, which is what `current_for_session` compares.

*Goals.* A step runs from one await to the next, and `worker[s].pc` is the await a
worker is at. The store compares revisions for equality only, so each reader has a
flag, `fresh`: nobody has written since it read. A queue is named by the slot of its
worker; `curq` is the one new work goes to and `reg` the worker that is registered,
which `cancel_session` and the finally block of a cancelled worker can set apart. A
message takes the turn lock in the order of arrival; a goal's own turn is a message
like any other. `excused` is history: users did one of the things after which the code
leaves an active goal alone (see Observations).

### Abstractions

Board:

- Titles, texts, results, notes, events and `run_id` are left out; so are
  priorities (any order is possible) and owner visibility (one owner).
- A repeated command id or idempotency key returns the old receipt and changes
  nothing: no step.
- The recovery job's cursor and the limits of its queries leave open which
  orphans are read: any choice within the budget.
- In the composed model the clock is relative: `now` stays 1 and `Elapse` moves
  every lease and schedule one tick nearer. A lease lasts one tick and a retry
  waits one. With a lease of 60 s and heartbeats every 20 s this lets the lease of
  a live worker lapse, which in the code takes a suspended machine.
- In the composed model users add, move (to the columns in `Moves`), assign,
  unassign, retry, delete, run, cancel, steer and answer (the cards in `EditCards`); edits of schedule and
  limits, notes, links and clearing a column are checked on the store alone, and
  `set_run_id` and `set_worker_run_id` of a background worker, which no guard of
  the orchestrator reads, only there too.

Cron: a recurring job is an interval (cron expressions differ in the times, not in
the control). `updated_at_ms` is compared only with the time of the newest run
record; `seen` keeps that comparison. Files can always be written. Another process
on `.tick.lock` (`rival`) is external.

Agenda: the policy is complete, in ticks, with the quiet hours over midnight as by
default; the review is an await of bounded length. Notes, history and list limits are
left out. A slot is named by its item and by how many slots the item took before,
instead of a random token. A call that waits for a lock takes no time on the clock; an
error of reading or writing a file has the effect of a lock that is not had; the bus
takes every message. A request of the owner or of a tool that is refused because its
first file is locked changes nothing and is no step.

Prompts and plans: steps are "finished or not"; revision numbers and decision ids
decide which requests are refused, and a refused request changes nothing. Python
3.11 and 3.12 differ in what `wait_for` returns for a future that is done when the
timer fires; both are allowed. The callbacks told of a plan never suspend
(`push/approval_push.py`), so its announcement is the one await of `_broadcast`.

Goals: a verdict of the judge is any verdict, a gate passes or not, and there is one
gate. A process, a pid and a deadline are one condition, polled alike and, if it is a
process, waking the conversation when it ends. Contract, subgoals and gates count as one
version of the criteria. The contract is attached when its draft lands, or never. A
second draft replaces the first, which is refused by its goal id. `GoalRuntime.kickoff`
has no caller that sets its id. Every message has a run id, as those of the web surface
and of goals do (see Observations for one that has none).

## Runs

All counts are distinct states; each run finishes within a few minutes on two workers.

| Run | Instance | Shows |
| --- | --- | --- |
| `Store` | 1 card, 4 claims, 3 attempts, 4 ticks, 403 k | types, claim and run log, lease, attempts, revision, stale workers |
| `StoreLinks` | 3 cards, 2 claims, no trigger in the file, 475 k | links stay acyclic |
| `Orch` | 2 cards, 2 bots, budget 2, moves to ready, crash and shutdown, 1.35 M | one worker per card, a running worker can be cancelled, no claim without a worker |
| `OrchVoice` | 1 voice task, 3 commands, moves to archived, a restart, 780 k | once-only, ordered delivery under the real executor; stops; late answers |
| `OrchLive` | 1 card, 2 bots, fair, 118 k | claims end, ready cards run, cancels return, the dispatcher rests |
| `OrchContend` | 3 cards, 1 of them the user's to edit, a goal with 2 children, budget 1, fair, 89 k | types, budget and queue; a goal gets through a single slot |
| `Cron` | 2 jobs, 3 ticks, 1 edit, 2 starts, another process on the lock, 648 k | a pass starts nothing that changed while it waited |
| `CronLive` | 1 job, 2 edits, 1 run by hand, 2 starts, fair, 330 k | at most one run at a time, none twice, none lost, nothing stopped comes back, due jobs run |
| `Agenda` | 2 agents, 3 items of which 2 are planned, budget 1, 1 edit, 1 end of a process, 1 step with calls that get no lock, 3 ticks of a 3-tick day, 709 k | limits, attempts; every slot is a wake-up's or lost to a failed call or an end; items are stranded by failed calls only |
| `Plans` | 2 plans, 1 open approval, 1 command, 1 question, 2 surfaces, fair, 268 k | only approved plans run, waits end, `Prompts` implements `Verdicts`, cards close after they open |
| `Goals` | 3 acts (of users, conditions that begin to hold, a restart), 2 turns, fair, 1.06 M | one worker, verdicts fit, users first, no goal just stops |
| `PlanTimeout` | as `Plans` | violated, see Findings |

Bounds. On the Board `MaxRev` stops users from editing a card beyond a revision
(workers and recovery are not stopped by it), `MaxClaims`, `MaxTime`,
`CommandLimit` and `MaxEpoch` bound claims, clock, commands and restarts. One card
with four claims is enough for a stale worker to meet each stage of a later claim;
three cards are the smallest cycle that a check of direct children misses; three
commands are an instruction in flight, one behind it and a stop; two cards and a
budget of two or one give every contention for slot and bot. A second job is what
makes a cron pass wait between its list and a job; two edits are a pause during a
run and a resume. Two agents and a budget of one are the race for the last slot;
two attempts are one failure and one giving up. In `Agenda` any calls of one step may
fail together, which is each failure the code has, met at each stage of an attempt and
its successors, with a process that ends before or after it. `EditOrFail` keeps a run
from going on once it had an edit and a failing step, as that multiplies the states by
four; what follows these two, and two failing steps, are covered by the proof only. In `Agenda` two branches are not
reached: the limit on concurrent wakes of one process, and a pending check-in when
a goal is resumed. Two plans are one that runs and one that supersedes it; one
number for approvals is enough as a revised plan reuses its own. Three acts on a goal
are setting it and two more: a pause and a resume, a plan and its edit, a message and a
restart. A verdict to wait does not count against the turn budget in the code; the
model stops waiting one turn after it. In `OrchContend` a goal has up to two
children, so that one can fail while the other still runs or waits (`Reap`); the
third card is for the goal's parent. There users edit, run, cancel and delete one
card only (`EditCards`), which may be the parent, a child or neither: acting on
every card multiplies the states beyond what a fair run checks.

Each property is shown to depend on the code by a mutant, an operator next to the
one it replaces that changes it the way a plausible bug would.

Symmetry is used for cards and jobs in safety runs only. Deadlock is not checked:
at its bounds a model may stop, and a board with nothing to do rests.

Fairness. asyncio runs every task that is ready, so steps that wait for nothing but
the loop are weakly fair, each under the smallest action that names the task.
`FairSpec` of the Board: executions advance and workers end (turns have timeouts);
goals continue when their children have returned; the dispatcher scans at least
every 15 seconds (`RECOVERY_SECONDS`); a process that was stopped is started again;
time passes. `CronFair`: passes and runs go on, as the inactivity watchdog ends
runs that hang. `FairSpec` of `Plans`: the turn, timers and handlers go on and time
passes, but telling a surface of a request may hang for ever. `GoalsFair`: workers,
turns, judges and gates go on, each under a timeout of its own, and the poller looks
again every second; what a goal waits for need never end. No fairness is
assumed of users, agents, hosts, heartbeats or crashes.

Refinement. `DecisionKept` is the abstract specification `Verdicts`, fairness
included, under the mapping in `Prompts`: the accepted answer is the one in the
future, and the caller's outcome is the result of the request once its finally
block is through. The decisive step is the order of the loop's callbacks: the
mutant that accepts answers after the deadline breaks it, since the answer can then
fall between the pass that collects the timer and the one that runs it.

## Findings

`PlanTimeout`: `propose` stores the approval and awaits its broadcast before
`request_and_wait` creates the future. A user who decides in that await is told
"resolved", but nothing wakes the turn; it waits for a future that nobody completes,
times out and writes *aborted* over the decision, the approval included.
`channels/feature_rpc.py:1300` promises that the first valid decision wins.

Observations. These were met while modelling or reading and no run of the project
is spent on them; the models contain the behaviour, and the properties above are
stated so that they hold beside it.

Board:

- A goal cancelled by the user ends *done*: `run_goal` writes the parent's status
  unconditionally (`orchestrator.py:424`; `content/docs/features/board.md:153`).
- A goal's parent is *in progress* without a claim, so after a crash nothing moves
  it, and `reset_orphaned` has no caller (`orchestrator.py:410`; `board.md:157`).
- A card reassigned while it waits for its bot's turn runs beside another card of
  the new bot (`orchestrator.py:179`; `store.py:1522`).
- A ready voice task without a claimable instruction (Retry with an unverified
  outcome) is dispatched, refused and dispatched again without a pause
  (`orchestrator.py:740`, against the comment at 697). `OrchLive`, which shows that
  the dispatcher rests, has no voice cards.
- A cancellation delivered outside the worker's await leaves the card in
  `_cancel_requests`, and a later shutdown of its next run is recorded as the user's
  (`orchestrator.py:464`). A stop confirmed after the task was archived brings the
  card back (`voice_commands.py:526`). A response recorded by a process that died
  stays in delivery and is shown as unknown (`voice_commands.py:387`).
- `board.md:321` says that the Board has no claim locks, heartbeats or polling
  dispatcher, and line 155 that a card that errors goes back to `todo`, while it is
  blocked when its attempts are used up or it is a voice card.

Cron:

- A pass that finds the tick lock held returns before the code that re-arms the
  timer (`service.py:1058`; the comment at 1084 calls it the single point that
  keeps the chain alive). With `Rivals = TRUE` TLC finds `DueRuns` violated.
- A one-shot run by hand before its time counts as run at the next start and is
  completed without ever firing (`_recompute_next_runs`;
  `content/docs/features/cron.md:43`).
- A run by hand resets the retry counter of the schedule (`_run_job_body`;
  `cron.md:42`).
- A job rescheduled while its one-shot run is under way is marked completed when the
  run ends; and a start counts recurring intervals from the start.

Agenda:

- A goal can have two pending check-ins: scheduling replaces pending ones, not one
  that runs and is retried later (`store.py:240`; `docs/engineering/agent-goals.md:147`).
- A message of a turn the service gave up on is counted as unanswered but not in the
  daily budget; `WithinLimits` is therefore about messages the service waited for.
- `_turns` is keyed by item: a late turn may complete the future of the next attempt.
- `stop()` cancels a wake-up that never ran without giving back its slot, and a
  process that dies between delivery and confirmation loses it; it expires.
- `_settle` swallows the timeout of the lock (`budget.py:107`). A release that is lost
  leaves the slot reserved until it expires, although the turn was silent, failed or
  came late (`budget.py:7` says that a silent turn gives it back). A confirm that is
  lost lets the slot of a sent message expire, so that a day may bring one message more
  than the owner allows; `WithinLimits` is about confirmed slots. `counts` answers
  zero without the lock, so that only `reserve` stands between a wake-up and the limit.
- When `start` raises after `reserve` (`service.py:248`) the slot stays reserved, and the
  item pending, which takes another one at the next pass.
- The goal and the conversation are read before the `try` of `_wake`
  (`service.py:258-266`), and `delivered` and the calls that settle the item come after
  it (284-295). One that raises ends the task with the item *running*, and nothing in a
  live process looks at it again; a restart recovers it, if its own call gets the lock.
  `StrandedByFailureOnly` and `SlotsAccountedFor` say that there is no other way there.
- A goal that is closed or resumed while the agenda's file is locked keeps its check-in
  or gets none, and an owner's message is then not noticed by the agenda.

Prompts and plans:

- A question's surfaces are told inside the deadline, so an accepted answer can be
  lost to it (`clarify/manager.py:92-104`). `DecisionKept` is stated of commands.
- `plan.cancel` does not wake the turn that waits, and a later approval revives the
  plan. An approval that was open at a restart never times out.
- A refused, completed or aborted plan drops the gate for the rest of its turn.
- A run stopped while its prompt is being drained or closed leaves cards open.

Goals (the first five are what `excused` stands for in `NeverJustStops`):

- `cancel_session` while work is queued behind a busy worker: its finally block starts a
  successor on the old queue and registers it, so a later wake goes to a new queue that
  nobody reads until the successor retires (`runtime.py:220`).
- A contract draft, subgoal, gate or `/goal wait` that lands while the goal is judged, or
  between the resume control and its wake, makes the compare-and-update conflict, and
  the loop leaves the goal active without a next turn (`manager.py:511`;
  `commands.py:170` "must never delay or block the work itself").
- A goal that replaces a live one: the turn stays bound to the previous goal, so the
  new goal's first turn is not judged (`session/commands.py:47`; `tools/goal.py`).
- A slash command other than `/goal` moves the user epoch, which drops the
  continuation, and is not judged itself.
- `/goal resume` does not wake the runtime; the resume control does.
- A goal set by a message without a run id, as plain channels may send it, is bound to no
  run (`session/commands.py:53`), and the runtime drops its first turn
  (`runtime.py:240-246`). The model has no such message.
- `pause` keeps the last verdict, so a goal that once asked and that the user paused is
  resumed by the next message (`manager.py:124`).
- A process that ends while a turn is in flight starts a second chain of turns.

## Proofs

Every safety property that a run checks is also a theorem, for any number of cards,
profiles, jobs, agents, plans or queues, any values of the bounds, and any numbers of
attempts, retries, slots and ticks. The pattern is the same in each module: an
inductive invariant, a lemma that every action keeps it, and the properties as
consequences of it (invariants) or of one step from it (action properties).

| Module | Inductive invariant | Theorems (the run's property) |
| --- | --- | --- |
| `BoardStoreProofs` | `StoreInv` | `StoreTypes` (`TypeOK`), `ClaimAndRunAgree` (`ClaimMatchesRun`), `ClaimIsRunning` (`ClaimedIsRunning`), `AttemptsNumbered` (`AttemptsNumberRuns`), `DependenciesAcyclic` (`LinksAcyclic`), `SettledForGood` (`RunsSettleOnce`), `RevisionTells` (`RevisionMoves`), `LeaseProtects` (`LiveLeaseKept`) |
| `BoardOrchestratorProofs` | `OrchInv` | `OrchTypes` (`OrchTypeOK`), `ClaimsHaveWorkers` (`NoOrphanClaim`), `DoubtBlocks` (`DoubtBlocksWork`), `InstructionsInOrder` (`NoOvertaking`), `DeliveredOnce` (`NoReplay`), `LateAnswersFenced` (`ReconcileFenced`), `OneOwnWorker`, and without goals `OneWorker` (`OneWorkerPerCard`) and `WorkersCancellable` (`RunningIsCancellable`) |
| `CronServiceProofs` | `CronInv` | `CronTyped` (`CronTypeOK`), `NoDoubleRun` (`OneRunPerJob`), `RunsKept` (`RunsAccounted`), `StartsAreDue` (`NoStaleStart`), `DueTimesFireOnce` (`FiresOnce`), `StoppedJobsStay` (`StoppedStays`) |
| `AgendaServiceProofs` | `AgendaInv` | `AgendaTyped` (`AgendaTypeOK`), `LimitsKept` (`WithinLimits`), `SlotsAccounted` (`SlotsAccountedFor`), `StrandedExplained` (`StrandedByFailureOnly`) |
| `PlansProofs` | `PlansInv` | `PlansTyped` (`PlansTypeOK`), `OnlyApprovedRuns` (`RunsApproved`), `NoCardAfterItsEnd` (`NoLateCard`), `VerdictsImplemented` |
| `GoalsProofs` | `GoalsInv` | `GoalsTyped` (`GoalsTypeOK`), `VerdictsFit` (`VerdictFits`), `UsersGoFirst` (`UserFirst`) |

### Assumptions

They are the `ASSUME`s of the modules, which TLC evaluates on every run, and say what
the code's constants are: the modes of a card are disjoint, the default profile is a
profile, limits and delays are natural numbers, a lease, a day and a period are at least
one tick, there is at least one slot and one surface, quiet hours begin the day and leave a part
of it, a wake-up is over before it counts as stale, a judge may always tell a goal to wait for a process, and requests of different
kinds have different names. The sets of cards, jobs, items and agents may be infinite;
the queues of a conversation are finitely many.

### Why the invariants are what they are

*Store.* `StoreInv` is the conjunction of `TypeOK`, `ClaimMatchesRun` and
`ClaimedIsRunning`, none of which is inductive alone: that a finished claim closes the
only open run of its card needs both directions of `ClaimMatchesRun`, a new claim's token
is unused only by the bounds in `TypeOK`, and that every claim has a lease needs the
clock to be positive. The operations fall into groups with a lemma each: edits that leave
claim, attempts and lease alone (`Edit`), inserts, removals, taking a claim, and
releasing claims (`ReleaseInv`, shared by finishing and recovery).
`AttemptsNumberRuns` is inductive relative to it: a claim's token is larger than every
token so far, so its run comes last as its attempt does, and a deletion takes all runs
of a card or none. `LinksAcyclic` says of every set of cards that one of them waits for
none of the others, which needs no induction over paths: when `link_cards` does not find
the parent below the child, the cards below the child are closed under links, and a set
either has a member outside of them, whose first member stays first, or lies inside,
where the parent is not.

*Ledger and orchestrator.* `OrchInv` is `StoreInv`; `LedgerInv`, that of two rows of a
card at most one is with a worker or in doubt, none waits behind a doubt or a stop, and
none was taken before an earlier one; `ExecsOK` and `BooksOK`, the executions, their
`line` and the budget; `ControlOK`, registry, cancel requests and phase; and
`NoOrphanClaim`. The store's invariant survives because every orchestrator step does to
the tables what a store operation does (`BoardTablesKept`); the ledger's needs, beyond
the queries of one call, that whatever is in delivery is under the claim of its card. The
budget needs counting: a slot is taken only when fewer than `MaxParallel` executions are
inside, and each step lets at most one in.

*One worker.* With goals `OneWorkerPerCard` does not hold for every constant, since a goal
child enters without a look at the registry (see Not modelled). `OneOwnWorker` has no
hypothesis and says what the code does guarantee: a card whose goal execution is not
running has at most one worker, since `start_card` and `dispatch_once` look for each
other's tasks. `OneWorker` and `WorkersCancellable` are the run's properties under
`MaxChildren = 0`, as in the run.

*Cron.* A crash may fall between any two writes, so `CronInv` relates memory, `jobs.json`
and the archive at every point: memory differs from the file only by the results of a run
that awaits its alert (`InMemory`); a record the file does not know can neither put the
job back on the schedule nor back in time (`Unrecovered`); and a one-shot that is spent
is over in the file, or will be after what a start makes of file and archive
(`SpentOver`). `FiresOnce` follows as every due time a job can still have lies beyond the
one it fired last, or its schedule is not spent. `NoStaleStart` and `StoppedStays` are
steps from it.

*Agenda.* `AgendaInv` ties the three places an attempt is recorded in: the item's file,
the wake task of its process, and the slot in the budget all agents share. `taken` bounds
the names of the slots there are, so that a new one is new; with it, each reserved slot is
that of a wake-up that runs, or is lost, and what the failing calls of a step leave behind
is lost or stranded by that step. `CountInv` is what bounds `lost`: a process has at most
`MaxWakes` wake-ups, with room for one more when a pass may reserve, and a step that fails
loses one slot, other than the end of a process. `WithinLimits` then needs only that a slot
is added to a day with room (`SlotFits`), over cardinalities of the sets of a day's slots,
and that a wake-up's slot is still there when its
message confirms it (`LiveKeepsMine`).

*Prompts and plans.* `Sound` is the invariant of one request and `PromptInv` of all; every
callback sets one request to a sound one (`SetKeepsInv`). `PlansInv` adds that the turn
waits for what it asked. `VerdictsImplemented` is `Spec => Promise!Safety`: initial states
map to initial states, and every step of `Plans`, those of users, the loop's callbacks, a
crash among them, to a step of `Verdicts` or a stutter. The lemma that carries it is
`Honest`: a timer that is due has found its future without an answer.

*Goals.* A compare-and-update is modelled by `fresh`, nobody wrote the record since it was
read. `GoalsInv` says what that is worth: a reader that is fresh works for the active goal,
and at the gate and the judge has the criteria of now (`Current`). `GoalsTypeOK` is
inductive with it, its one-worker part because whoever starts a worker finds none
registered. For `UserFirst` no message is from a later epoch than the present one, and a user's
message is from a later one than everything that waits before it (`InboxOK`): so a turn of
the present epoch has no user's message behind it.

### What is only model-checked

Liveness: `ClaimsEnd`, `ReadyRuns`, `CancelReturns`, `GoalsEnd`, `DueRuns`, `TurnsGoOn`,
`NeverJustStops`, and of `DecisionKept` the fairness of `Verdicts`; temporal reasoning
under fairness, and `ENABLED` with it, are out of the prover's reach.
`OneWorkerPerCard` and `RunningIsCancellable` are proved for `MaxChildren = 0`.
`FirstDecisionWins` is the finding above and is false.

## Not modelled

On the Board: `reset_orphaned` (called by tests only), `bind_stop_goal` (belongs to
the host's stop protocol), idempotency keys and fingerprints, owner visibility, voice
events and observers; what notifications say, and a primary that dies while an
isolated worker of another bot survives. Goals are left out of the run that checks
`OneWorkerPerCard`: when the lease of a live goal child lapses while an explicit run
of that card waits, the model reaches two workers, since `start_card` and the
dispatcher look at the registry and goals enter through neither.

In cron: failed writes, the alert cooldown, `stop()` on its own. In the agenda: the
effects of the daily review other than wake-ups planned by its tools. In plan mode:
sub-agents and other conversations. Of goals: a store that cannot be written, a notice
that raises, owner checks and the judge's own prompts and parsing.

The repository has a quarter of a million lines, most of which are adapters to
messaging services and model providers, user interface, prompts, parsing and
installers, where there is no state machine to check; the share of lines the models
stand for is accordingly small. All components are listed with their reasons in
`PROJECT.json`. Of those left out, the profile host, session
compaction and the sub-agents' announce queue have concurrent state of their own.

## Plan

1. **The one-worker theorems with goals**: a condition on goal children under which
   `OneWorkerPerCard` holds with `MaxChildren` arbitrary, in place of `MaxChildren = 0`;
   and the safety part of what `TurnsGoOn` and `ClaimsEnd` rest on (a turn that waits
   has a timer, a claim has a lease that ends).
2. **Host protocol**: `run_task`, `stop_task`, `reconcile_task` and
   `bind_stop_goal`, replacing the external answers of the ledger.
3. **An abstract board** (a card is free, owned or settled) implemented by
   `BoardStore` under a refinement mapping, checked and then proved.
