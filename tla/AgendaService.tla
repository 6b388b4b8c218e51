--------------------------- MODULE AgendaService ---------------------------
(***************************************************************************)
(* The agenda: wake-ups an agent plans for itself, and the limits on the   *)
(* messages it writes first.  src/flowly/agenda/{service,store,budget,     *)
(* policy}.py, with the hooks the agent loop, its tools and the owner's    *)
(* remote calls have into it.                                              *)
(*                                                                         *)
(* One process per agent.  A process has its own agenda file; the budget   *)
(* file is shared by all of them, and only its lock orders what they do to *)
(* it.  Inside a process the code between two awaits is one step, so a     *)
(* pass over the due wake-ups excludes the process's other steps, but not  *)
(* the steps of other agents.  A wake-up's turn runs in the agent loop on  *)
(* its own: the service waits for it a limited time, and a turn it stopped *)
(* waiting for may still speak.                                            *)
(*                                                                         *)
(* Each call to a file, the agenda's, the goals' or the budget's, waits a  *)
(* limited time for the file's lock.  A step that gets here without one of *)
(* them goes on as the code does: the budget's calls answer that nothing   *)
(* was found or do nothing (budget.py:65, 85, 107), the others raise       *)
(* (store.py:115), and what the caller had left to do is not done.  A      *)
(* request of the owner or a tool that fails this way is not a step.       *)
(*                                                                         *)
(* Time is in ticks from 1; 0 stands for never.  Notes, history, previews, *)
(* the size limits of the list and the phone notification are left out.    *)
(***************************************************************************)
EXTENDS Naturals, FiniteSets, Sequences

CONSTANTS Agents,         \* the agents (profiles) of one owner
          Convs,          \* conversations
          Host,           \* [Convs -> Agents]: whose conversation
          Items,          \* ids of wake-ups
          Session,        \* [Items -> Convs]: the conversation one is about
          CheckIns,       \* the wake-ups that check on the agent's goal
          Kept,           \* follow-ups with keep_if_owner_replies
          Levels,         \* the proactivity levels the owner uses
          GlobalCap,      \* GLOBAL_DAILY_CAP (code: 6)
          MaxUnanswered,  \* MAX_UNANSWERED (code: 3)
          MaxAttempts,    \* MAX_ATTEMPTS (code: 3)
          MaxWakes,       \* MAX_CONCURRENT_WAKES (code: 2)
          DayTicks,       \* one calendar day
          QuietTicks,     \* the ticks of a day inside the quiet hours
          AwakeTicks,     \* OWNER_AWAKE_MS (30 min)
          TurnTimeout,    \* TURN_TIMEOUT_SECONDS (10 min)
          ReviewTimeout,  \* REVIEW_TIMEOUT_SECONDS (10 min)
          StaleAfter,     \* STALE_RESERVATION_MS (30 min)
          RetryDelay,     \* RETRY_DELAY_MS (30 min)
          Backoff,        \* BACKOFF_BASE_MS (12 h)
          MaxItems,       \* bound: wake-ups planned
          MaxTime,        \* bound: the clock
          MaxEdits,       \* bound: what the owner and the tools do
          MaxEnds,        \* bound: how often a process ends
          MaxFails        \* bound: steps with a call that gets no lock

VARIABLES now,      \* the clock
          item,     \* the agenda files: [st, due, att]
          conv,     \* conversations[k]: [unanswered, last]
          ownerAt,  \* lastOwnerAt: when the owner last wrote to the agent
          goal,     \* whether the agent's goal is active
          level,    \* settings.level
          budget,   \* budget.json: entries [tok, who, at, st]
          up,       \* whether the agent's process runs
          edits,    \* how much the owner and the tools did so far
          ends,     \* how many processes ended so far
          fails,    \* how many steps had a call that got no lock
          tick,     \* the pass: [pc, at, todo, run]
          wake,     \* _running and _wake: [st, n, at, until]
          future,   \* _turns
          lane,     \* turns of the loop, queued on the lock of "system:k"
          busy,     \* subagents.is_busy: a turn of the owner runs in k
          taken,    \* history: slots ever reserved for a wake-up
          starts,   \* history: turns ever started for a wake-up
          confirmed,\* history: slots kept by a message
          lost,     \* history: slots left reserved by a process that ended, or
                    \* by a step that did not get the lock it needed
          stranded  \* history: wake-ups whose end, or whose recovery, did not
                    \* reach the agenda's file

procVars    == <<tick, wake, future, lane, busy>>
historyVars == <<taken, starts, confirmed, lost, stranded>>
agendaVars  == <<now, item, conv, ownerAt, goal, level, budget, up, edits, ends, fails, procVars,
                 historyVars>>

Owner(i) == Host[Session[i]]
AllLevels == {"off", "low", "normal", "high"}
DailyCap  == [off |-> 0, low |-> 1, normal |-> 2, high |-> 4]

ASSUME AgendaAssumption ==
    /\ Host \in [Convs -> Agents] /\ Session \in [Items -> Convs]
    /\ CheckIns \subseteq Items /\ Kept \subseteq Items \ CheckIns
    /\ Levels \subseteq AllLevels /\ Levels # {}
    /\ {GlobalCap, MaxUnanswered, MaxAttempts, MaxWakes, DayTicks} \subseteq Nat \ {0}
    /\ {TurnTimeout, ReviewTimeout, StaleAfter, RetryDelay, Backoff, AwakeTicks} \subseteq Nat
    /\ QuietTicks \subseteq 0..(DayTicks - 1) /\ QuietTicks # 0..(DayTicks - 1)
    /\ 0 \in QuietTicks \* overnight, as by default (22:00 to 09:00)
    /\ TurnTimeout + ReviewTimeout <= StaleAfter
    /\ MaxItems \in Nat /\ MaxTime \in Nat \ {0} /\ MaxEdits \in Nat /\ MaxEnds \in Nat
    /\ MaxFails \in Nat

Day(t)  == t \div DayTicks
Open    == {"pending", "running"}
Outcome == {"sent", "silent", "failed"}

\* Every record has its type; a budget slot is named once; a future is there
\* exactly while a task of a live process waits for it (_wake).
AgendaTypeOK ==
    /\ now \in 1..MaxTime
    /\ item \in [Items -> [st : Open \cup {"unplanned", "settled"}, due : Nat,
                           att : 0..MaxAttempts]]
    /\ conv \in [Convs -> [unanswered : Nat, last : Nat]]
    /\ ownerAt \in [Agents -> 0..now]
    /\ goal \in [Agents -> BOOLEAN] /\ level \in [Agents -> Levels]
    /\ \A e \in budget : /\ e.tok \in Items \X Nat /\ e.who = Owner(e.tok[1])
                         /\ e.at <= now /\ e.st \in {"reserved", "sent"}
    /\ \A e, f \in budget : e.tok = f.tok => e = f
    /\ up \in [Agents -> BOOLEAN] /\ edits \in 0..MaxEdits /\ ends \in 0..MaxEnds
    /\ fails \in 0..MaxFails
    /\ \A a \in Agents : /\ tick[a].pc \in {"idle", "review", "pass", "reserve"}
                         /\ tick[a].todo \subseteq Items /\ tick[a].run \subseteq tick[a].todo
                         /\ ~up[a] => tick[a].pc = "idle"
    /\ \A i \in Items : /\ wake[i].st \in {"none", "created", "waiting"}
                        /\ future[i] \in Outcome \cup {"none", "open"}
                        /\ wake[i].st = "waiting" <=> future[i] # "none"
                        /\ wake[i].st # "none" => up[Owner(i)]
    /\ \A k \in Convs : lane[k] \in Seq(Items)
    /\ busy \in [Convs -> BOOLEAN]

-----------------------------------------------------------------------------
(* The agenda file.                                                        *)

History == [st |-> "settled", due |-> 0, att |-> 0]

\* settle, cancel and their like: the wake-ups in S leave the list.
Settled(S) == [i \in Items |-> IF i \in S /\ item[i].st \in Open
                               THEN History ELSE item[i]]

Pending(S) == {i \in S : item[i].st = "pending"}

\* One wake-up after a turn that came to nothing: again at t, or given up
\* after MAX_ATTEMPTS; one that is no longer listed stays gone.
Failed(i, t) ==
    IF item[i].st \notin Open THEN item[i]
    ELSE IF item[i].att + 1 >= MaxAttempts THEN History
    ELSE [st |-> "pending", due |-> t, att |-> item[i].att + 1]

RetryOrGiveUp(i) == [item EXCEPT ![i] = Failed(i, now + RetryDelay)]

\* Mutant of RecoverInterrupted: wake-ups left running stay as they are.
RecoverNothing(a) == item

\* At start: a wake-up left running belongs to a process that died.
RecoverInterrupted(a) ==
    [i \in Items |-> IF Owner(i) = a /\ item[i].st = "running"
                     THEN Failed(i, now + 1) ELSE item[i]]

Delivered(k) == [conv EXCEPT ![k].unanswered = @ + 1, ![k].last = now]

(* The budget file.                                                        *)

\* Mutant of Live: a reservation stops counting after one turn's time.
LiveBriefly(t) == {e \in budget : e.st = "reserved" => t <= e.at + TurnTimeout}

Live(t) == {e \in budget : e.st = "reserved" => t <= e.at + StaleAfter}

Today(entries, t) == {e \in entries : Day(e.at) = Day(t)}

ByAgent(entries, a) == {e \in entries : e.who = a}

\* Mutant of Spent: reserve trusts the count that decide saw.
NeverSpent(a, t) == FALSE

Spent(a, t) ==
    LET today == Today(Live(t), t)
    IN  \/ Cardinality(today) >= GlobalCap
        \/ Cardinality(ByAgent(today, a)) >= DailyCap[level[a]]

Release(toks) == {e \in budget : e.tok \notin toks}

Confirm(tok) == {IF e.tok = tok THEN [e EXCEPT !.st = "sent"] ELSE e : e \in budget}

(* The locks.                                                              *)

\* The calls in missed wait in vain for their file's lock in this step.
Miss(missed) ==
    /\ fails' = fails + (IF missed = {} THEN 0 ELSE 1)
    /\ fails' <= MaxFails

\* _settle, which says nothing of a lock it did not get: the slot becomes
\* what settling it makes of the file, or stays reserved under nobody.
SettleSlot(tok, file, missed) ==
    IF "budget" \in missed THEN lost' = lost \cup {tok} /\ UNCHANGED budget
    ELSE budget' = file /\ UNCHANGED lost

\* The last store call of a wake-up's task: without it the item stays
\* running in the file, and no task is left to change that.
SettleItem(i, file, missed) ==
    IF missed \cap {"agenda", "count"} # {} THEN stranded' = stranded \cup {i} /\ UNCHANGED item
    ELSE item' = file /\ UNCHANGED stranded

\* The message in k is counted as unanswered.
Count(k, missed) == conv' = IF "count" \in missed THEN conv ELSE Delivered(k)

-----------------------------------------------------------------------------
(* policy.decide: the first rule that applies to wake-up i at time t.      *)

Quiet(t) == t % DayTicks \in QuietTicks

\* The end of the quiet window t is in.
QuietUntil(t) ==
    CHOOSE u \in t..(t + DayTicks) : ~Quiet(u) /\ \A x \in t..(u - 1) : Quiet(x)

\* The owner wrote a moment ago: they are up.
OwnerAwake(a, t) == ownerAt[a] # 0 /\ ownerAt[a] <= t /\ t <= ownerAt[a] + AwakeTicks

\* Tomorrow, when the quiet hours are over.
NextDayStart(t) == QuietUntil((Day(t) + 1) * DayTicks)

AllowedAt(k) == conv[k].last + Backoff * 2^(conv[k].unanswered - 1)

Run        == [act |-> "run", till |-> 0]
Drop       == [act |-> "drop", till |-> 0]
Defer(t)   == [act |-> "defer", till |-> t]

\* counts found nothing when its lock was not had.
Decision(i, t, missed) ==
    LET a == Owner(i)
        k == Session[i]
        today == IF "budget" \in missed THEN {} ELSE Today(Live(t), t)
    IN  CASE \/ level[a] = "off"
             \/ i \in CheckIns /\ ~goal[a]
             \/ conv[k].unanswered >= MaxUnanswered -> Drop
          [] OTHER ->
             IF Quiet(t) /\ ~OwnerAwake(a, t) THEN Defer(QuietUntil(t))
             ELSE IF conv[k].unanswered > 0 /\ t < AllowedAt(k) THEN Defer(AllowedAt(k))
             ELSE IF \/ Cardinality(ByAgent(today, a)) >= DailyCap[level[a]]
                     \/ Cardinality(today) >= GlobalCap THEN Defer(NextDayStart(t))
             ELSE IF busy[k] THEN Defer(t + 1)
             ELSE Run

-----------------------------------------------------------------------------
(* The service.                                                            *)

\* The process runs and is not inside a pass.
Idle(a) == up[a] /\ tick[a].pc \in {"idle", "review"}

Wakes(a) == {i \in Items : Owner(i) = a /\ wake[i].st # "none"}

NoTick == [pc |-> "idle", at |-> 0, todo |-> {}, run |-> {}]
NoWake == [st |-> "none", n |-> 0, at |-> 0, until |-> 0]

Due(a, t) == {i \in Pending(Items) : Owner(i) = a /\ item[i].due <= t}

\* tick: the time is read first; the daily review may take a while.  A tick
\* that begins with nothing due changes nothing and is left out.
TickStart(a) ==
    /\ up[a] /\ tick[a].pc = "idle" /\ Due(a, now) # {}
    /\ tick' = [tick EXCEPT ![a] = [pc |-> "review", at |-> now, todo |-> {}, run |-> {}]]
    /\ UNCHANGED <<now, item, conv, ownerAt, goal, level, budget, up, edits, ends, fails, wake, future,
                   lane, busy, historyVars>>

\* The review is over: the wake-ups due at the time the tick began.  _loop
\* catches what the pass raises, here and below, and the tick is over.
TickPass(a) ==
    /\ tick[a].pc = "review"
    /\ \E missed \in SUBSET {"agenda"} :
          /\ Miss(missed)
          /\ LET due == IF missed = {} THEN Due(a, tick[a].at) ELSE {}
             IN  tick' = [tick EXCEPT ![a] =
                            IF due = {} THEN NoTick ELSE [@ EXCEPT !.pc = "pass", !.todo = due]]
    /\ UNCHANGED <<now, item, conv, ownerAt, goal, level, budget, up, edits, ends, wake, future, lane,
                   busy, historyVars>>

\* The pass once it is done with i: on to the rest, or over.
Past(a, i) ==
    IF tick[a].todo = {i} THEN NoTick
    ELSE [tick[a] EXCEPT !.pc = "pass", !.todo = @ \ {i}, !.run = {}]

Earliest(a, i) ==
    /\ i \in tick[a].todo
    /\ \A j \in tick[a].todo : item[i].due <= item[j].due

\* One wake-up per conversation at a time.
Skipped(a, i) == \E j \in Wakes(a) : Session[j] = Session[i]

\* _consider up to reserve: policy.decide on the facts of this moment.  When
\* a fact cannot be read, or the decision not be written, the pass is over.
Consider(a, i) ==
    /\ tick[a].pc = "pass" /\ Earliest(a, i)
    /\ IF Cardinality(Wakes(a)) >= MaxWakes THEN
          tick' = [tick EXCEPT ![a] = NoTick] /\ UNCHANGED <<item, fails>>
       ELSE IF Skipped(a, i) THEN
          tick' = [tick EXCEPT ![a] = Past(a, i)] /\ UNCHANGED <<item, fails>>
       ELSE \E missed \in SUBSET {"budget", "agenda"} :
          /\ Miss(missed)
          /\ IF "agenda" \in missed THEN tick' = [tick EXCEPT ![a] = NoTick] /\ UNCHANGED item
             ELSE LET d == Decision(i, tick[a].at, missed)
                  IN  /\ tick' = [tick EXCEPT ![a] =
                                    IF d.act = "run" THEN [@ EXCEPT !.pc = "reserve", !.run = {i}]
                                    ELSE Past(a, i)]
                      /\ item' = CASE d.act = "drop"  -> Settled({i})
                                   [] d.act = "defer" -> [item EXCEPT ![i].due = d.till]
                                   [] OTHER           -> item
    /\ UNCHANGED <<now, conv, ownerAt, goal, level, budget, up, edits, ends, wake, future, lane, busy,
                   historyVars>>

\* No slot for i: it is due again tomorrow, unless defer raises.
NoSlot(a, i, missed) ==
    /\ item' = IF "agenda" \in missed THEN item
               ELSE [item EXCEPT ![i].due = NextDayStart(tick[a].at)]
    /\ UNCHANGED <<budget, wake, taken, starts, lost>>

\* A slot for i, then start and its task; when start raises the slot is left
\* reserved and the item pending.
TakeSlot(a, i, missed) ==
    LET tok == <<i, taken[i]>>
    IN  /\ budget' = Live(tick[a].at) \cup
                       {[tok |-> tok, who |-> a, at |-> tick[a].at, st |-> "reserved"]}
        /\ taken' = [taken EXCEPT ![i] = @ + 1]
        /\ IF "agenda" \in missed THEN lost' = lost \cup {tok} /\ UNCHANGED <<item, wake, starts>>
           ELSE /\ item' = [item EXCEPT ![i].st = "running"]
                /\ wake' = [wake EXCEPT ![i] = [st |-> "created", n |-> taken[i],
                                                    at |-> tick[a].at, until |-> 0]]
                /\ starts' = [starts EXCEPT ![i] = @ + 1]
                /\ UNCHANGED lost

\* reserve for the wake-up that decide let run.  Another agent may have taken
\* the last slot since decide looked; a lock that is not had looks the same.
Reserve(a, i) ==
    /\ tick[a].pc = "reserve" /\ tick[a].run = {i}
    /\ \E missed \in SUBSET {"budget", "agenda"} :
          /\ Miss(missed)
          /\ tick' = [tick EXCEPT ![a] = IF "agenda" \in missed THEN NoTick ELSE Past(a, i)]
          /\ IF Spent(a, tick[a].at) \/ "budget" \in missed THEN NoSlot(a, i, missed)
             ELSE TakeSlot(a, i, missed)
    /\ UNCHANGED <<now, conv, ownerAt, goal, level, up, edits, ends, future, lane, busy, confirmed,
                   stranded>>

\* _wake: the task runs, and its turn is on the bus.
WakeBegin(i) ==
    /\ Idle(Owner(i)) /\ wake[i].st = "created"
    /\ wake' = [wake EXCEPT ![i].st = "waiting", ![i].until = now + TurnTimeout]
    /\ future' = [future EXCEPT ![i] = "open"]
    /\ lane' = [lane EXCEPT ![Session[i]] = Append(@, i)]
    /\ UNCHANGED <<now, item, conv, ownerAt, goal, level, budget, up, edits, ends, fails, tick, busy,
                   historyVars>>

\* Mutant of Over: the future outlives the task.
OverKeepsFuture(i) == /\ wake' = [wake EXCEPT ![i] = NoWake]
                      /\ UNCHANGED future

Over(i) == /\ wake' = [wake EXCEPT ![i] = NoWake]
           /\ future' = [future EXCEPT ![i] = "none"]

Slot(i) == <<i, wake[i].n>>

\* The goal or the conversation cannot be read for the prompt, before the
\* task's try: it dies, and neither the item nor the slot hears of it.
WakeDies(i) ==
    /\ Idle(Owner(i)) /\ wake[i].st = "created"
    /\ Miss({"agenda"})
    /\ Over(i)
    /\ lost' = lost \cup {Slot(i)} /\ stranded' = stranded \cup {i}
    /\ UNCHANGED <<now, item, conv, ownerAt, goal, level, budget, up, edits, ends, tick, lane, busy, taken,
                   starts, confirmed>>

\* The task's generic except: its slot back, and another try or none.
TurnLost(i, missed) ==
    /\ SettleSlot(Slot(i), Release({Slot(i)}), missed)
    /\ SettleItem(i, RetryOrGiveUp(i), missed)
    /\ UNCHANGED <<conv, confirmed>>

\* The service gives up waiting; the turn goes on without it.
WakeTimeout(i) ==
    /\ Idle(Owner(i)) /\ future[i] = "open" /\ now >= wake[i].until
    /\ Over(i)
    /\ \E missed \in SUBSET {"budget", "agenda"} : Miss(missed) /\ TurnLost(i, missed)
    /\ UNCHANGED <<now, ownerAt, goal, level, up, edits, ends, tick, lane, busy, taken, starts>>

\* A message went out: confirm, then delivered, then settle.
TurnSpoke(i, missed) ==
    /\ SettleSlot(Slot(i), Confirm(Slot(i)), missed)
    /\ confirmed' = IF "budget" \in missed THEN confirmed
                    ELSE confirmed \cup {[tok |-> Slot(i), at |-> wake[i].at]}
    /\ Count(Session[i], missed)
    /\ SettleItem(i, Settled({i}), missed)

TurnSilent(i, missed) ==
    /\ SettleSlot(Slot(i), Release({Slot(i)}), missed)
    /\ SettleItem(i, Settled({i}), missed)
    /\ UNCHANGED <<conv, confirmed>>

\* The wake-up's task continues with the outcome its future was given.
WakeResumes(i) ==
    /\ Idle(Owner(i)) /\ future[i] \in Outcome
    /\ Over(i)
    /\ \E missed \in SUBSET {"budget", "count", "agenda"} :
          /\ Miss(missed)
          /\ \/ future[i] = "sent" /\ TurnSpoke(i, missed)
             \/ future[i] = "silent" /\ "count" \notin missed /\ TurnSilent(i, missed)
             \/ future[i] = "failed" /\ "count" \notin missed /\ TurnLost(i, missed)
    /\ UNCHANGED <<now, ownerAt, goal, level, up, edits, ends, tick, lane, busy, taken, starts>>

\* A message of a turn nobody waits for: counted and settled, as far as the
\* locks allow.
SpokeLate(i, k, missed) ==
    /\ Count(k, missed)
    /\ item' = IF missed = {} THEN Settled({i}) ELSE item

\* The first turn on the conversation's lock ends: turn_finished hands its
\* outcome to whoever waits for the wake-up.
TurnFinished(k, how) ==
    /\ Idle(Host[k]) /\ lane[k] # <<>>
    /\ lane' = [lane EXCEPT ![k] = Tail(@)]
    /\ LET i == Head(lane[k])
       IN  IF future[i] = "open" THEN
              future' = [future EXCEPT ![i] = how] /\ UNCHANGED <<item, conv, fails>>
           ELSE IF how = "sent" THEN
              /\ \E missed \in SUBSET {"count", "agenda"} : Miss(missed) /\ SpokeLate(i, k, missed)
              /\ UNCHANGED future
           ELSE UNCHANGED <<future, item, conv, fails>>
    /\ UNCHANGED <<now, ownerAt, goal, level, budget, up, edits, ends, tick, wake, busy, historyVars>>

-----------------------------------------------------------------------------
(* The owner, the agent's tools, and the process.                          *)

Edit == edits < MaxEdits /\ edits' = edits + 1

\* An id that is new to the agenda.
Fresh(i) ==
    /\ item[i].st = "unplanned"
    /\ Cardinality({j \in Items : item[j].st # "unplanned"}) < MaxItems

\* schedule: a follow-up, or the goal's check-in in place of a pending one.
Plan(i, due) ==
    LET a == Owner(i)
        replaced == IF i \in CheckIns THEN {j \in CheckIns : Owner(j) = a /\ item[j].st = "pending"}
                    ELSE {}
    IN  /\ Edit /\ Idle(a) /\ Fresh(i)
        /\ i \in CheckIns => goal[a]
        /\ item' = [Settled(replaced) EXCEPT ![i].st = "pending", ![i].due = due]
        /\ UNCHANGED <<now, conv, ownerAt, goal, level, budget, up, ends, fails, procVars, historyVars>>

\* The follow_up tool cancels one that has not started.
Cancel(i) ==
    /\ Edit /\ Idle(Owner(i)) /\ item[i].st = "pending" /\ i \notin CheckIns
    /\ item' = Settled({i})
    /\ UNCHANGED <<now, conv, ownerAt, goal, level, budget, up, ends, fails, procVars, historyVars>>

\* Paused, done or dropped: the goal's file, then cancel_for_objective.
CloseGoal(a) ==
    /\ Edit /\ Idle(a) /\ goal[a]
    /\ goal' = [goal EXCEPT ![a] = FALSE]
    /\ \E missed \in SUBSET {"agenda"} :
          /\ Miss(missed)
          /\ item' = IF missed = {} THEN Settled(Pending({i \in CheckIns : Owner(i) = a})) ELSE item
    /\ UNCHANGED <<now, conv, ownerAt, level, budget, up, ends, procVars, historyVars>>

\* Resumed, or undone: the goal's file, then restore_for_objective keeps a
\* pending check-in or plans one, at its old time when that is ahead.
ResumeGoal(a, i, due) ==
    /\ Edit /\ Idle(a) /\ ~goal[a]
    /\ i \in CheckIns /\ Owner(i) = a
    /\ goal' = [goal EXCEPT ![a] = TRUE]
    /\ \E missed \in SUBSET {"agenda"} :
          /\ Miss(missed)
          /\ IF missed # {} \/ Pending({j \in CheckIns : Owner(j) = a}) # {} THEN UNCHANGED item
             ELSE /\ Fresh(i)
                  /\ item' = [item EXCEPT ![i].st = "pending", ![i].due = due]
    /\ UNCHANGED <<now, conv, ownerAt, level, budget, up, ends, procVars, historyVars>>

SetLevel(a, l) ==
    /\ Edit /\ Idle(a) /\ level[a] # l
    /\ level' = [level EXCEPT ![a] = l]
    /\ UNCHANGED <<now, item, conv, ownerAt, goal, budget, up, ends, fails, procVars, historyVars>>

\* owner_wrote, as the loop takes the owner's message: their silence is over,
\* and the follow-ups it settles go away; the turn runs in any case.
OwnerWrites(k) ==
    /\ Edit /\ Idle(Host[k]) /\ ~busy[k]
    /\ busy' = [busy EXCEPT ![k] = TRUE]
    /\ \E missed \in SUBSET {"agenda"} :
          /\ Miss(missed)
          /\ IF missed # {} THEN UNCHANGED <<conv, ownerAt, item>>
             ELSE /\ conv' = [conv EXCEPT ![k].unanswered = 0]
                  /\ ownerAt' = [ownerAt EXCEPT ![Host[k]] = now]
                  /\ item' = Settled(Pending({i \in Items \ (CheckIns \cup Kept) : Session[i] = k}))
    /\ UNCHANGED <<now, goal, level, budget, up, ends, tick, wake, future, lane, historyVars>>

OwnerTurnEnds(k) ==
    /\ Idle(Host[k]) /\ busy[k]
    /\ busy' = [busy EXCEPT ![k] = FALSE]
    /\ UNCHANGED <<now, item, conv, ownerAt, goal, level, budget, up, edits, ends, fails, tick, wake, future, lane,
                   historyVars>>

\* What a process leaves behind: its tasks and its turns are gone, and the
\* slots it still held in the file `left` are nobody's.
Gone(a, left) ==
    /\ ends < MaxEnds /\ ends' = ends + 1
    /\ up' = [up EXCEPT ![a] = FALSE]
    /\ tick' = [tick EXCEPT ![a] = NoTick]
    /\ wake' = [i \in Items |-> IF Owner(i) = a THEN NoWake ELSE wake[i]]
    /\ future' = [i \in Items |-> IF Owner(i) = a THEN "none" ELSE future[i]]
    /\ lane' = [k \in Convs |-> IF Host[k] = a THEN <<>> ELSE lane[k]]
    /\ busy' = [k \in Convs |-> busy[k] /\ Host[k] # a]
    /\ lost' = lost \cup {e.tok : e \in {f \in left : f.who = a /\ f.st = "reserved"}}
    /\ UNCHANGED <<now, item, conv, ownerAt, goal, level, edits, taken, starts, confirmed, stranded>>

\* stop: every task that waits is cancelled and gives its slot back, if it
\* gets the lock; one that was created and never ran does not.
Stop(a) ==
    /\ Idle(a)
    /\ LET waiting == {Slot(i) : i \in {j \in Wakes(a) : wake[j].st = "waiting"}}
       IN  \E missed \in SUBSET waiting : Miss(missed) /\ budget' = Release(waiting \ missed)
    /\ Gone(a, budget')

Crash(a) == up[a] /\ UNCHANGED <<budget, fails>> /\ Gone(a, budget)

RunningOf(a) == {i \in Items : Owner(i) = a /\ item[i].st = "running"}

\* start, by whatever supervises the gateway; it goes on without a recovery
\* that raises.
Start(a) ==
    /\ ~up[a]
    /\ up' = [up EXCEPT ![a] = TRUE]
    /\ \E missed \in SUBSET {"agenda"} :
          /\ Miss(missed)
          /\ item' = IF missed = {} THEN RecoverInterrupted(a) ELSE item
          /\ stranded' = IF missed = {} THEN stranded \ RunningOf(a) ELSE stranded \cup RunningOf(a)
    /\ UNCHANGED <<now, conv, ownerAt, goal, level, budget, edits, ends, procVars, taken, starts, confirmed,
                   lost>>

\* Timers fire on time and ready tasks run before the clock moves on.
Advance ==
    /\ now < MaxTime
    /\ \A i \in Items : wake[i].st # "none" => future[i] = "open" /\ now < wake[i].until
    /\ \A a \in Agents : \/ tick[a].pc = "idle"
                         \/ tick[a].pc = "review" /\ now < tick[a].at + ReviewTimeout
    /\ now' = now + 1
    /\ UNCHANGED <<item, conv, ownerAt, goal, level, budget, up, edits, ends, fails, procVars, historyVars>>

-----------------------------------------------------------------------------
AgendaInit ==
    /\ now = 1 /\ edits = 0 /\ ends = 0 /\ fails = 0 /\ budget = {}
    /\ \E planned \in SUBSET Items :
          /\ Cardinality(planned) <= MaxItems
          /\ \A i, j \in planned \cap CheckIns : Owner(i) = Owner(j) => i = j
          /\ item = [i \in Items |-> [st |-> IF i \in planned THEN "pending" ELSE "unplanned",
                                     due |-> 0, att |-> 0]]
    /\ conv = [k \in Convs |-> [unanswered |-> 0, last |-> 0]]
    /\ ownerAt = [a \in Agents |-> 0]
    /\ goal \in [Agents -> BOOLEAN]
    /\ \A a \in Agents : goal[a] \/ \E i \in CheckIns : Owner(i) = a /\ item[i].st = "unplanned"
    /\ level \in [Agents -> Levels \ {"off"}]
    /\ up = [a \in Agents |-> TRUE]
    /\ tick = [a \in Agents |-> NoTick]
    /\ wake = [i \in Items |-> NoWake] /\ future = [i \in Items |-> "none"]
    /\ lane = [k \in Convs |-> <<>>] /\ busy = [k \in Convs |-> FALSE]
    /\ taken = [i \in Items |-> 0] /\ starts = [i \in Items |-> 0]
    /\ confirmed = {} /\ lost = {} /\ stranded = {}

ServiceStep(a) == \/ TickStart(a) \/ TickPass(a)
                  \/ \E i \in Items : Consider(a, i) \/ Reserve(a, i)

WakeStep(i) == WakeBegin(i) \/ WakeDies(i) \/ WakeTimeout(i) \/ WakeResumes(i)

OwnerStep ==
    \/ \E i \in Items : Plan(i, now + 1)
    \/ \E i \in Items : Cancel(i)
    \/ \E a \in Agents : \/ CloseGoal(a)
                         \/ \E i \in CheckIns : ResumeGoal(a, i, now + 1)
                         \/ \E l \in Levels : SetLevel(a, l)
    \/ \E k \in Convs : OwnerWrites(k) \/ OwnerTurnEnds(k)

AgendaNext ==
    \/ \E a \in Agents : ServiceStep(a) \/ Stop(a) \/ Crash(a) \/ Start(a)
    \/ \E i \in Items : WakeStep(i)
    \/ \E k \in Convs, how \in Outcome : TurnFinished(k, how)
    \/ OwnerStep
    \/ Advance

AgendaSpec == AgendaInit /\ [][AgendaNext]_agendaVars

-----------------------------------------------------------------------------
OnDay(S, d) == {e \in S : Day(e.at) = d}

\* The most an agent may send a day at any of the owner's levels.
TopCap == CHOOSE c \in {DailyCap[l] : l \in Levels} : \A l \in Levels : DailyCap[l] <= c

\* The messages whose slot was confirmed keep within the owner's limits for the
\* day of their slot, over all agents, whatever process dies or lock is not had,
\* however slots are taken at the same moment, given back or expire (budget.py
\* reserve, _live); and no wake-up is tried more than MAX_ATTEMPTS times, whether
\* its turns fail, time out, take the process down with them or end unrecorded
\* (retry_or_give_up, recover_interrupted).
WithinLimits ==
    /\ \A d \in 0..Day(MaxTime) :
          /\ Cardinality(OnDay(confirmed, d)) <= GlobalCap
          /\ \A a \in Agents :
                Cardinality({c \in OnDay(confirmed, d) : Owner(c.tok[1]) = a}) <= TopCap
    /\ \A i \in Items : starts[i] <= MaxAttempts

\* The slots reserved in the shared budget are those of the wake-ups that run,
\* and the lost ones.  A wake-up that runs has its slot when it is needed,
\* whatever other agents' reserve drops as stale and whatever calls fail; and a
\* slot is left behind only by a step that did not get a lock, one slot for each,
\* or by a process that ended, at most MAX_CONCURRENT_WAKES (_consider, _wake,
\* _settle, stop).
SlotsAccountedFor ==
    /\ {e.tok : e \in {f \in budget : f.st = "reserved"}} \ lost
          = {Slot(i) : i \in {j \in Items : wake[j].st # "none"}}
    /\ Cardinality(lost) <= fails + MaxWakes * ends

\* A wake-up marked running in a live process has a task that waits for its
\* turn, unless a store call of that task, or of the recovery at start, did not
\* get the lock; a start that can read and write the file leaves none behind
\* (start, _wake, turn_finished).
StrandedByFailureOnly ==
    \A i \in Items : item[i].st = "running" /\ up[Owner(i)] =>
        wake[i].st # "none" \/ i \in stranded
=============================================================================
