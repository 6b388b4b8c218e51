---------------------------- MODULE CronService ----------------------------
(* The cron scheduler of flowly/cron/service.py: jobs in memory, their     *)
(* copy in jobs.json, the archive of run records, the wake timer, the pass *)
(* that runs due jobs, runs started by hand, shutdown, crash and restart.  *)
(* A step runs from one await to the next.  Times are ticks; 0 stands for  *)
(* None in `next`, `timer`, `active` and `lastId`.  A job's updated_at is  *)
(* compared with the time of its newest run record only; `seen` is that    *)
(* record's id at the time of the update.                                  *)
EXTENDS Integers, FiniteSets, FiniteSetsExt, Functions

CONSTANTS Jobs,        \* ids of jobs
          Limits,      \* repeat_times users give to recurring jobs, 0: none
          Period,      \* every_ms
          Grace,       \* _compute_grace_ms
          Backoff,     \* retry_backoff_ms
          RetryMax,    \* retry_max_attempts
          Rivals,      \* another process may hold the tick lock
          MaxTime, MaxEdits, MaxManual, MaxEpoch

ASSUME CronAssumption ==
    /\ Limits \subseteq Nat
    /\ Period \in Nat \ {0} /\ Backoff \in Nat \ {0}
    /\ Grace \in Nat /\ RetryMax \in Nat
    /\ MaxTime \in Nat /\ MaxEdits \in Nat /\ MaxManual \in Nat /\ MaxEpoch \in Nat
    /\ Rivals \in BOOLEAN

VARIABLES now,      \* the wall clock
          mode,     \* "up", "stopping" (shutdown drains) or "down"
          jobs,     \* _store.jobs; what a start would load while down
          disk,     \* jobs.json
          archive,  \* the newest run record of each job
          active,   \* _active_runs: the run that holds the job's slot
          exec,     \* run id -> the task that executes it
          pass,     \* the scheduler pass
          timer,    \* the time the wake task sleeps to
          rival,    \* another process holds .tick.lock
          nextRun,  \* run ids are fresh
          edits, manual, epoch,  \* bounded: user edits, manual runs, starts
          fired,    \* history: due time of the job's last scheduled run
          spent,    \* history: the schedule's last result is on disk, and
                    \* no user has put the job back on the schedule since
          owed      \* history: runs announced and not yet recorded

bounds == <<edits, manual, epoch>>
cronVars == <<now, mode, jobs, disk, archive, active, exec, pass, timer, rival, nextRun,
              bounds, fired, spent, owed>>

Kinds      == {"at", "every"}
Lifecycles == {"scheduled", "paused", "completed", "archived"}
Times      == 1..MaxTime

Job    == [kind : Kinds, at : Nat, life : Lifecycles, next : Nat, last : BOOLEAN,
           lastId : Nat, seen : Nat, retry : Nat, reps : Nat, limit : Nat]
Record == [id : Nat, life : Lifecycles, next : Nat, retry : Nat, reps : Nat]
Phases == {"reserved", "body", "alert", "publish"}
Exec   == [job : Jobs, manual : BOOLEAN, phase : Phases, reps : Nat, retry : Nat]

NoRecord == [id |-> 0, life |-> "scheduled", next |-> 0, retry |-> 0, reps |-> 0]
Idle     == [on |-> "idle", due |-> {}, cur |-> 0]

\* The lifecycle record add_job makes.
NewJob(kind, at, next, limit) ==
    [kind |-> kind, at |-> at, life |-> "scheduled", next |-> next, last |-> FALSE,
     lastId |-> 0, seen |-> 0, retry |-> 0, reps |-> 0,
     limit |-> IF kind = "at" THEN 1 ELSE limit]

\* The gateway is about to start and finds jobs that have not run yet.
StoredJobs == {NewJob("at", t, t, 1) : t \in Times}
              \cup {NewJob("every", 0, 1 + Period, n) : n \in Limits}

CronInit ==
    /\ now = 1 /\ mode = "down"
    /\ \E S \in SUBSET Jobs : disk \in [S -> StoredJobs]
    /\ jobs = disk
    /\ archive = [j \in Jobs |-> NoRecord]
    /\ active = [j \in Jobs |-> 0] /\ exec = << >>
    /\ pass = Idle /\ timer = 0 /\ rival = FALSE
    /\ nextRun = 1 /\ edits = 0 /\ manual = 0 /\ epoch = 0
    /\ fired = [j \in Jobs |-> 0] /\ spent = [j \in Jobs |-> FALSE] /\ owed = {}

-----------------------------------------------------------------------------
(* Schedules and the timer.                                                *)

\* _compute_next_run: an interval starts now, a past one-shot has no next run.
ComputeNextRun(kind, at) ==
    IF kind = "every" THEN now + Period ELSE IF at > now THEN at ELSE 0

\* A job the scheduler may run now.
DueNow(J) == J.life = "scheduled" /\ J.next # 0 /\ now >= J.next

\* _get_next_wake_ms: running jobs do not wake the scheduler.
NextWake(js, act) ==
    LET T == {js[j].next : j \in {i \in DOMAIN js : /\ js[i].life = "scheduled"
                                                    /\ js[i].next # 0
                                                    /\ act[i] = 0}}
    IN  IF T = {} THEN 0 ELSE Min(T)

\* _arm_timer: replaces the sleeping wake task; a stopped service has none.
Arm == timer' = IF mode' = "up" THEN NextWake(jobs', active') ELSE 0

-----------------------------------------------------------------------------
(* What users do.  Every edit saves the store and re-arms the timer.       *)

Edit(js) ==
    /\ mode # "down" /\ edits < MaxEdits
    /\ edits' = edits + 1
    /\ jobs' = js /\ disk' = js
    /\ UNCHANGED <<now, mode, active, exec, pass, rival, nextRun, manual, epoch, owed>>
    /\ Arm

\* updated_at = now.
Stamped(j, J) == [J EXCEPT !.seen = archive[j].id]

\* add_job: a one-shot runs once; one whose time has passed gets no due time.
AddJob(j, kind, at, limit) ==
    /\ j \notin DOMAIN jobs
    /\ Edit([i \in DOMAIN jobs \cup {j} |->
               IF i # j THEN jobs[i]
               ELSE NewJob(kind, at, ComputeNextRun(kind, at), limit)])
    /\ UNCHANGED <<archive, fired, spent>>

\* update_job with a new schedule, which must have a next run; whatever the
\* lifecycle was, the job is scheduled again.
Reschedule(j, kind, at) ==
    /\ j \in DOMAIN jobs
    /\ ComputeNextRun(kind, at) # 0
    /\ Edit([jobs EXCEPT ![j] =
               [Stamped(j, @) EXCEPT !.kind = kind, !.at = at, !.life = "scheduled",
                         !.next = ComputeNextRun(kind, at), !.retry = 0, !.reps = 0,
                         !.limit = IF kind = jobs[j].kind THEN jobs[j].limit
                                   ELSE IF kind = "at" THEN 1 ELSE 0]])
    /\ spent' = [spent EXCEPT ![j] = FALSE]
    /\ UNCHANGED <<archive, fired>>

\* enable_job(FALSE), also while the job runs.
Pause(j) ==
    /\ j \in DOMAIN jobs /\ jobs[j].life = "scheduled"
    /\ Edit([jobs EXCEPT ![j] = [Stamped(j, @) EXCEPT !.life = "paused", !.next = 0]])
    /\ UNCHANGED <<archive, fired, spent>>

\* enable_job(TRUE): terminal jobs must be rescheduled.
Resume(j) ==
    /\ j \in DOMAIN jobs /\ jobs[j].life \in {"scheduled", "paused"}
    /\ ComputeNextRun(jobs[j].kind, jobs[j].at) # 0
    /\ Edit([jobs EXCEPT ![j] = [Stamped(j, @) EXCEPT !.life = "scheduled",
                                   !.next = ComputeNextRun(jobs[j].kind, jobs[j].at)]])
    /\ spent' = [spent EXCEPT ![j] = FALSE]
    /\ UNCHANGED <<archive, fired>>

\* remove_job: refused while the job runs; archives, or purges the history too.
ArchiveJob(j) ==
    /\ j \in DOMAIN jobs /\ active[j] = 0
    /\ Edit([jobs EXCEPT ![j] = [Stamped(j, @) EXCEPT !.life = "archived", !.next = 0]])
    /\ UNCHANGED <<archive, fired, spent>>

PurgeJob(j) ==
    /\ j \in DOMAIN jobs /\ active[j] = 0
    /\ Edit(Restrict(jobs, DOMAIN jobs \ {j}))
    /\ archive' = [archive EXCEPT ![j] = NoRecord]
    /\ fired' = [fired EXCEPT ![j] = 0]
    /\ spent' = [spent EXCEPT ![j] = FALSE]

-----------------------------------------------------------------------------
(* Runs.                                                                   *)

\* Mutant of CanReserve: the slot is not looked at.
CanReserveAnyway(j) == mode = "up"

\* reserve_run: a job has one run at a time, and none starts while stopping.
CanReserve(j) == mode = "up" /\ active[j] = 0

Task(j, J, byHand, phase) ==
    [job |-> j, manual |-> byHand, phase |-> phase, reps |-> J.reps, retry |-> J.retry]

\* The run slot is taken under a fresh id.  _execute_job goes to its first
\* await in the same step, unless the task that will call it is detached.
Reserve(j, J, byHand, phase) ==
    /\ active' = [active EXCEPT ![j] = nextRun]
    /\ exec' = [r \in DOMAIN exec \cup {nextRun} |->
                   IF r = nextRun THEN Task(j, J, byHand, phase) ELSE exec[r]]
    /\ nextRun' = nextRun + 1
    /\ owed' = owed \cup {nextRun}

\* cron_run: a run by hand of any job that is not archived; `detached` is
\* wait = false, the child task has not run yet when the answer is sent.
RunNow(j, detached) ==
    /\ manual < MaxManual
    /\ j \in DOMAIN jobs /\ jobs[j].life # "archived"
    /\ CanReserve(j)
    /\ Reserve(j, jobs[j], TRUE, IF detached THEN "reserved" ELSE "body")
    /\ manual' = manual + 1
    /\ UNCHANGED <<now, mode, jobs, disk, archive, pass, timer, rival, edits, epoch, fired, spent>>

\* run_job of the detached child; it gives up if its reservation was retired.
ChildEnters(r) ==
    /\ exec[r].phase = "reserved"
    /\ exec' = IF active[exec[r].job] = r
               THEN [exec EXCEPT ![r] = Task(@.job, jobs[@.job], TRUE, "body")]
               ELSE Restrict(exec, DOMAIN exec \ {r})
    /\ UNCHANGED <<now, mode, jobs, disk, archive, active, pass, timer, rival, nextRun,
                   bounds, fired, spent, owed>>

\* The parts of _run_job_body: what is noted after every run; a retry; the
\* end of a fire; the slot a scheduled run uses up.
Marked(j, J, r) == [Stamped(j, J) EXCEPT !.last = TRUE, !.lastId = r]

\* Mutant of Retried: the retry puts the job back on the schedule.
RetriedAnyway(J) == [J EXCEPT !.life = "scheduled", !.retry = @ + 1, !.next = now + Backoff]

Retried(J)    == [J EXCEPT !.retry = @ + 1, !.next = now + Backoff]
Cleared(J)    == [J EXCEPT !.retry = 0]
Completed(J)  == [J EXCEPT !.life = "completed", !.next = 0]
Exhausted(J)  == J.kind = "at" \/ (J.limit # 0 /\ J.reps >= J.limit)
Counted(J)    == LET K == [J EXCEPT !.reps = @ + 1]
                 IN  IF Exhausted(K) THEN Completed(K) ELSE K

RecordOf(r, J) == [id |-> r, life |-> J.life, next |-> J.next, retry |-> J.retry,
                   reps |-> J.reps]

\* Mutant of LoseMemory: the run slots survive.
LoseAllButSlots ==
    /\ mode' = "down" /\ jobs' = disk'
    /\ active' = active /\ exec' = << >> /\ pass' = Idle /\ timer' = 0

\* Everything in memory is lost; jobs is what the next start will find.
LoseMemory ==
    /\ mode' = "down" /\ jobs' = disk'
    /\ active' = [j \in Jobs |-> 0] /\ exec' = << >> /\ pass' = Idle /\ timer' = 0

\* The end of _run_job_body and of _execute_job: the run record, then the
\* store, then the slot; listeners are told afterwards.  The process may die
\* between the two files.
Settle(r, J, terminal) ==
    LET j == exec[r].job
    IN  /\ archive' = [archive EXCEPT ![j] = RecordOf(r, J)]
        /\ spent' = [spent EXCEPT ![j] = @ \/ (terminal /\ ~exec[r].manual)]
        /\ \/ /\ jobs' = [jobs EXCEPT ![j] = J] /\ disk' = jobs'
              /\ active' = [active EXCEPT ![j] = IF @ = r THEN 0 ELSE @]
              /\ exec' = [exec EXCEPT ![r].phase = "publish"]
              /\ owed' = owed \ {r}
              /\ UNCHANGED <<mode, pass, timer>>
           \/ /\ disk' = disk /\ LoseMemory /\ owed' = {}
        /\ UNCHANGED <<now, rival, nextRun, bounds, fired>>

\* The job callback returns or fails.  A failed scheduled run with attempts
\* left is retried; a real failure may await an alert before it is counted.
BodyEnds(r, ok) ==
    LET e == exec[r]
        J == Marked(e.job, jobs[e.job], r)
        retrying == ~ok /\ ~e.manual /\ J.retry < RetryMax
        K == Cleared(J)
    IN  /\ e.phase = "body"
        /\ \/ retrying /\ Settle(r, Retried(J), FALSE)
           \/ ~retrying /\ Settle(r, IF e.manual THEN K ELSE Counted(K), TRUE)
           \/ /\ ~ok /\ ~retrying
              /\ jobs' = [jobs EXCEPT ![e.job] = K]
              /\ exec' = [exec EXCEPT ![r].phase = "alert"]
              /\ UNCHANGED <<now, mode, disk, archive, active, pass, timer, rival, nextRun,
                             bounds, fired, spent, owed>>

AlertEnds(r) ==
    LET e == exec[r]
        J == jobs[e.job]
    IN  /\ e.phase = "alert"
        /\ Settle(r, IF e.manual THEN J ELSE Counted(J), TRUE)

\* Mutant of Published: a run by hand leaves the timer alone.
PublishedQuietly(r) ==
    /\ exec[r].phase = "publish"
    /\ exec' = Restrict(exec, DOMAIN exec \ {r})
    /\ pass' = IF exec[r].manual THEN pass ELSE [pass EXCEPT !.cur = 0]
    /\ UNCHANGED <<now, mode, jobs, disk, archive, active, timer, rival, nextRun, bounds,
                   fired, spent, owed>>

\* on_complete has been awaited: run_job arms the timer, the pass goes on.
Published(r) ==
    /\ exec[r].phase = "publish"
    /\ exec' = Restrict(exec, DOMAIN exec \ {r})
    /\ UNCHANGED <<now, mode, jobs, disk, archive, active, rival, nextRun, bounds,
                   fired, spent, owed>>
    /\ IF exec[r].manual THEN Arm /\ pass' = pass
       ELSE timer' = timer /\ pass' = [pass EXCEPT !.cur = 0]

-----------------------------------------------------------------------------
(* The scheduler pass.                                                     *)

\* The wake task has slept: it starts a pass unless one is under way, which
\* will re-arm the timer when it ends.
TimerFires ==
    /\ mode = "up" /\ timer # 0 /\ now >= timer
    /\ timer' = 0
    /\ pass' = IF pass.on = "idle" THEN [pass EXCEPT !.on = "begin"] ELSE pass
    /\ UNCHANGED <<now, mode, jobs, disk, archive, active, exec, rival, nextRun, bounds,
                   fired, spent, owed>>

\* Mutant of Runnable: the list of due jobs is trusted.
RunnableStale(j, J) == active[j] = 0

\* The second look at a due job, after the jobs before it were awaited.
Runnable(j, J) == DueNow(J) /\ active[j] = 0

\* _advance_next_run: recurring jobs move on, and are saved, before they run.
Advanced(J) == IF J.kind = "every" THEN [J EXCEPT !.next = now + Period] ELSE J

\* Mutant of SaveAdvanced: the new due time stays in memory.
SaveNothing == disk' = disk

\* The save in _advance_next_run, or of fast-forwarded jobs, if anything moved.
SaveAdvanced == disk' = IF jobs' = jobs THEN disk ELSE jobs'

\* The loop of _run_due_jobs from one await to the next: to the first job that
\* is still runnable, passing over jobs before it that are not, or to the end
\* of the pass, which saves, gives back the lock and re-arms the timer.
Loop(js, due) ==
    LET ready == {j \in due \cap DOMAIN js : Runnable(j, js[j])}
    IN  /\ \/ /\ mode = "up"
              /\ \E j \in ready, over \in SUBSET (due \ ready) :
                    /\ jobs' = [js EXCEPT ![j] = Advanced(@)]
                    /\ SaveAdvanced
                    /\ Reserve(j, js[j], FALSE, "body")
                    /\ pass' = [on |-> "loop", due |-> due \ ({j} \cup over), cur |-> nextRun]
                    /\ fired' = [fired EXCEPT ![j] = js[j].next]
              /\ UNCHANGED <<mode, timer>>
           \/ /\ mode # "up" \/ ready = {}
              /\ jobs' = js /\ disk' = js
              /\ pass' = Idle
              /\ UNCHANGED <<mode, active, exec, nextRun, owed, fired>>
              /\ Arm
        /\ UNCHANGED <<now, archive, rival, bounds, spent>>

\* Recurring jobs that are later than the grace window skip to their next time.
FastForward(J) ==
    IF DueNow(J) /\ J.kind = "every" /\ now - J.next > Grace
    THEN [J EXCEPT !.next = now + Period] ELSE J

\* _on_timer.  A pass that finds the lock held by another process returns
\* before the code that re-arms the timer.
PassBegins ==
    /\ pass.on = "begin"
    /\ \/ /\ rival
          /\ pass' = Idle
          /\ UNCHANGED <<now, mode, jobs, disk, archive, active, exec, timer, rival, nextRun,
                         bounds, fired, spent, owed>>
       \/ /\ ~rival
          /\ LET js == [j \in DOMAIN jobs |-> FastForward(jobs[j])]
             IN  Loop(js, {j \in DOMAIN js : DueNow(js[j])})

PassGoesOn ==
    /\ pass.on = "loop" /\ pass.cur = 0
    /\ Loop(jobs, pass.due)

-----------------------------------------------------------------------------
(* Shutdown, crash and restart.                                            *)

\* _persist_cancelled_run: a terminal result.  A run by hand leaves retries
\* and slots as they were when it began.
Cancelled(J, r, e) ==
    LET K == Marked(e.job, J, r)
        L == [K EXCEPT !.retry = 0, !.reps = e.reps + 1]
    IN  IF e.manual THEN [K EXCEPT !.retry = IF e.phase = "reserved" THEN @ ELSE e.retry]
        ELSE IF Exhausted(L) THEN Completed(L) ELSE L

CancelRuns(phases) ==
    LET hit == {j \in DOMAIN jobs : active[j] # 0 /\ exec[active[j]].phase \in phases}
        new == [j \in DOMAIN jobs |->
                  IF j \in hit THEN Cancelled(jobs[j], active[j], exec[active[j]]) ELSE jobs[j]]
    IN  /\ jobs' = new
        /\ disk' = IF hit = {} THEN disk ELSE new
        /\ archive' = [j \in Jobs |-> IF j \in hit THEN RecordOf(active[j], new[j])
                                      ELSE archive[j]]
        /\ spent' = [j \in Jobs |-> spent[j] \/ (j \in hit /\ ~exec[active[j]].manual)]
        /\ active' = [j \in Jobs |-> IF j \in hit THEN 0 ELSE active[j]]
        /\ owed' = owed \ {active[j] : j \in hit}

\* Mutant of StopPhases: reservations are left to their tasks.
NoPhases == {}

\* shutdown, to its first await: no more wakes, and reservations whose task
\* has not run become cancelled runs.
StopPhases == {"reserved"}
Shutdown ==
    /\ mode = "up" /\ mode' = "stopping"
    /\ timer' = 0
    /\ CancelRuns(StopPhases)
    /\ UNCHANGED <<now, exec, pass, rival, nextRun, bounds, fired>>

Pending == {r \in DOMAIN exec : exec[r].phase # "reserved"}

\* All tasks ended within the grace period.
Drained ==
    /\ mode = "stopping" /\ Pending = {} /\ pass = Idle
    /\ disk' = disk /\ LoseMemory
    /\ UNCHANGED <<now, archive, rival, nextRun, bounds, fired, spent, owed>>

\* The grace period is over: what still runs is cancelled and recorded.
GraceEnds ==
    /\ mode = "stopping" /\ (Pending # {} \/ pass # Idle)
    /\ CancelRuns({"body", "alert"})
    /\ mode' = "down"
    /\ exec' = << >> /\ pass' = Idle /\ timer' = 0
    /\ UNCHANGED <<now, rival, nextRun, bounds, fired>>

Crash ==
    /\ mode # "down"
    /\ disk' = disk /\ LoseMemory /\ owed' = {}
    /\ UNCHANGED <<now, archive, rival, nextRun, bounds, fired, spent>>

\* _recover_orphan_archives: a record the job does not know and that is not
\* older than the job's last update is applied to it.
Recovered(j, J) ==
    LET R == archive[j]
    IN  IF R.id \in {0, J.lastId, J.seen} THEN J
        ELSE [J EXCEPT !.last = TRUE, !.lastId = R.id, !.retry = R.retry, !.next = R.next,
                       !.reps = IF R.reps > @ THEN R.reps ELSE @, !.life = R.life]

\* _recompute_next_runs.
Recompute(J) ==
    IF J.life # "scheduled" THEN [J EXCEPT !.next = 0]
    ELSE IF J.retry > 0 /\ J.next # 0 THEN J
    ELSE IF J.kind = "every" THEN [J EXCEPT !.next = now + Period]
    ELSE IF J.last THEN Completed(J)
    ELSE [J EXCEPT !.next = IF @ # 0 THEN @ ELSE J.at]

Start ==
    /\ mode = "down" /\ epoch < MaxEpoch
    /\ mode' = "up" /\ epoch' = epoch + 1
    /\ jobs' = [j \in DOMAIN disk |-> Recompute(Recovered(j, disk[j]))]
    /\ disk' = jobs'
    /\ UNCHANGED <<now, archive, active, exec, pass, rival, nextRun, edits, manual,
                   fired, spent, owed>>
    /\ Arm

\* reload: jobs that run keep the record their run will write to.
Reload ==
    /\ Edit([j \in DOMAIN disk |->
               Recompute(IF active[j] # 0 THEN jobs[j] ELSE Recovered(j, disk[j]))])
    /\ UNCHANGED <<archive, fired, spent>>

-----------------------------------------------------------------------------

\* Another process takes and gives back the tick lock (external).
RivalTakes ==
    /\ Rivals /\ ~rival /\ pass.on # "loop" /\ rival' = TRUE
    /\ UNCHANGED <<now, mode, jobs, disk, archive, active, exec, pass, timer, nextRun,
                   bounds, fired, spent, owed>>

RivalReleases ==
    /\ rival /\ rival' = FALSE
    /\ UNCHANGED <<now, mode, jobs, disk, archive, active, exec, pass, timer, nextRun,
                   bounds, fired, spent, owed>>

Tick ==
    /\ now < MaxTime /\ now' = now + 1
    /\ UNCHANGED <<mode, jobs, disk, archive, active, exec, pass, timer, rival, nextRun,
                   bounds, fired, spent, owed>>

UserEdits ==
    \/ \E j \in Jobs, at \in Times : AddJob(j, "at", at, 1) \/ Reschedule(j, "at", at)
    \/ \E j \in Jobs, n \in Limits : AddJob(j, "every", 0, n)
    \/ \E j \in Jobs : Reschedule(j, "every", 0)
    \/ \E j \in Jobs : Pause(j) \/ Resume(j) \/ ArchiveJob(j) \/ PurgeJob(j)
    \/ Reload

RunGoesOn(r) ==
    \/ ChildEnters(r)
    \/ \E ok \in BOOLEAN : BodyEnds(r, ok)
    \/ AlertEnds(r)
    \/ Published(r)

PassStep == TimerFires \/ PassBegins \/ PassGoesOn

CronNext ==
    \/ UserEdits
    \/ \E j \in Jobs, detached \in BOOLEAN : RunNow(j, detached)
    \/ \E r \in DOMAIN exec : RunGoesOn(r)
    \/ PassStep
    \/ Shutdown \/ Drained \/ GraceEnds \/ Crash \/ Start
    \/ RivalTakes \/ RivalReleases
    \/ Tick

CronSpec == CronInit /\ [][CronNext]_cronVars

\* Tasks that are ready run, jobs end (the inactivity watchdog ends those that
\* hang), and another process does not keep the lock.
CronFair == /\ CronSpec
            /\ WF_cronVars(PassStep)
            /\ WF_cronVars(\E r \in DOMAIN exec : RunGoesOn(r))
            /\ WF_cronVars(RivalReleases)

-----------------------------------------------------------------------------
(* Properties.                                                             *)

\* Every table holds what its type says.
CronTypeOK ==
    /\ now \in Nat /\ mode \in {"up", "stopping", "down"}
    /\ DOMAIN jobs \subseteq Jobs /\ jobs \in [DOMAIN jobs -> Job]
    /\ disk \in [DOMAIN jobs -> Job]
    /\ archive \in [Jobs -> Record]
    /\ DOMAIN exec \subseteq 1..(nextRun - 1) /\ exec \in [DOMAIN exec -> Exec]
    /\ active \in [Jobs -> Nat]
    /\ \A j \in Jobs : active[j] # 0 => active[j] \in DOMAIN exec /\ j \in DOMAIN jobs
    /\ pass \in [on : {"idle", "begin", "loop"}, due : SUBSET Jobs, cur : Nat]
    /\ timer \in Nat /\ rival \in BOOLEAN /\ nextRun \in Nat \ {0}
    /\ edits \in Nat /\ manual \in Nat /\ epoch \in Nat
    /\ fired \in [Jobs -> Nat] /\ spent \in [Jobs -> BOOLEAN] /\ owed \subseteq Nat

\* A job never executes twice at a time, whether the timer or users start it
\* (reserve_run; content/docs/features/cron.md, "Double-fire guard").
OneRunPerJob ==
    \A r, s \in DOMAIN exec :
        /\ exec[r].phase \in {"body", "alert"} /\ exec[s].phase \in {"body", "alert"}
        /\ exec[r].job = exec[s].job
        => r = s

\* Every run id that was given out is running or has its record on disk, and a
\* clean shutdown leaves none behind; only a crash loses runs (shutdown).
RunsAccounted == owed \subseteq {active[j] : j \in Jobs}

\* The runs a step starts from the schedule.
Starts == {r \in DOMAIN exec' \ DOMAIN exec : ~exec'[r].manual}

\* No due time fires twice, over crashes, restarts and retries: those of a
\* recurring job only grow (_advance_next_run), and a one-shot whose final
\* result is on disk is not run again unless users reschedule or resume it,
\* even when the process died before jobs.json was written
\* (_recover_orphan_archives).
FiresOnce ==
    [][\A r \in Starts : LET j == exec'[r].job
                        IN  IF jobs[j].kind = "every" THEN fired'[j] > fired[j]
                                                      ELSE ~spent[j]]_cronVars

\* What the schedule starts is scheduled and due when it starts, not when the
\* pass made its list (_run_due_jobs resolves each job again).
NoStaleStart ==
    [][\A r \in Starts : LET j == exec'[r].job
                        IN  /\ j \in DOMAIN jobs /\ jobs[j].life = "scheduled"
                            /\ jobs[j].next \in 1..now]_cronVars

\* A job that users paused or archived is put back on the schedule by users
\* only: not by a run that was under way and ends or is retried, a shutdown, or
\* the recovery of its record after a crash (_run_job_body).
StoppedStays ==
    [][edits' = edits =>
         \A j \in DOMAIN jobs \cap DOMAIN jobs' :
             jobs[j].life \in {"paused", "archived"} => jobs'[j].life # "scheduled"]_cronVars

\* A due job does not stay due: it is run, or taken off the schedule
\* (_arm_timer, "the self-perpetuating timer chain").
Due(j) == mode = "up" /\ j \in DOMAIN jobs /\ DueNow(jobs[j])
DueRuns == \A j \in Jobs : Due(j) ~> ~Due(j)
=============================================================================
