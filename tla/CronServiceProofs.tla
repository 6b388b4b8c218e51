------------------------ MODULE CronServiceProofs ------------------------
(***************************************************************************)
(* The safety properties of CronService for any set of jobs and every      *)
(* value of the periods, limits and bounds: the inductive invariant        *)
(* CronInv, and the theorems that rest on it.                              *)
(***************************************************************************)
EXTENDS CronService, WellFoundedInduction, TLAPS

-----------------------------------------------------------------------------
(* The inductive invariant.                                                *)

\* What the run that holds the job's slot does.
Phase(j) == IF active[j] = 0 THEN "none" ELSE exec[active[j]].phase

\* The slot is held by a task of its job that still has to end; no job has a
\* second one, and only runs by hand wait for their task to start.
RunInv ==
    /\ \A j \in Jobs : active[j] # 0 => /\ exec[active[j]].job = j
                                        /\ exec[active[j]].phase # "publish"
                                        /\ mode = "stopping" => exec[active[j]].phase # "reserved"
    /\ \A r \in DOMAIN exec : exec[r].phase \in {"body", "alert"} => active[exec[r].job] = r

\* A process that is down has nothing in memory, and jobs is what it will load.
DownInv ==
    mode = "down" => /\ \A j \in Jobs : active[j] = 0
                     /\ DOMAIN exec = {} /\ pass.on = "idle" /\ jobs = disk

OwedInv == \A r \in owed : r # 0 /\ \E j \in Jobs : active[j] = r

\* A job nobody has added has no history.
Fresh(j) == archive[j].id = 0 /\ fired[j] = 0 /\ ~spent[j]

\* The job knows its newest run record.
Knows(j, J) == archive[j].id \in {0, J.lastId, J.seen}

\* What holds of the job in memory and of its copy in jobs.json: run ids are
\* from the past, and so is the last due time of a recurring job.
Sound(j, J) ==
    /\ J.seen <= archive[j].id
    /\ J.lastId < nextRun
    /\ \/ active[j] = 0
       \/ J.lastId < active[j]
       \/ Phase(j) = "alert" /\ J.lastId = active[j] /\ J.last /\ J.retry = 0
    /\ mode # "down" => Knows(j, J)
    /\ J.kind = "every" /\ J.next # 0 => J.next > fired[j]

\* A run that awaits its alert has been noted in the job in memory.
Noted(j, J) == Phase(j) = "alert" => J.lastId = active[j] /\ J.last /\ J.retry = 0

\* Memory differs from jobs.json by the results of a run that awaits its alert.
InMemory(j) ==
    /\ Noted(j, jobs[j])
    /\ \/ jobs[j] = disk[j]
       \/ /\ Phase(j) = "alert"
          /\ jobs[j].kind = disk[j].kind /\ jobs[j].at = disk[j].at
          /\ jobs[j].life = disk[j].life /\ jobs[j].next = disk[j].next

\* A record that jobs.json does not know cannot put the job back on the
\* schedule or back in time.
Unrecovered(j) ==
    ~Knows(j, disk[j]) =>
        /\ disk[j].life # "scheduled" => archive[j].life # "scheduled"
        /\ disk[j].kind = "every" /\ archive[j].next # 0 => archive[j].next > fired[j]

\* The schedule of a one-shot that is spent is over: in jobs.json, or in what a
\* start will make of jobs.json and the archive.
SpentOver(j) ==
    spent[j] /\ disk[j].kind = "at" /\ disk[j].life = "scheduled" =>
        /\ mode = "down"
        /\ IF Knows(j, disk[j]) THEN disk[j].last /\ disk[j].retry = 0
                                ELSE archive[j].life # "scheduled"

\* What is recorded of the job is past.
History(j) ==
    /\ archive[j].id < nextRun
    /\ active[j] # 0 => archive[j].id < active[j]
    /\ fired[j] <= now

JobInv(j) ==
    /\ History(j)
    /\ Sound(j, jobs[j]) /\ Sound(j, disk[j])
    /\ InMemory(j) /\ Unrecovered(j) /\ SpentOver(j)

CronInv ==
    /\ CronTypeOK /\ RunInv /\ DownInv /\ OwedInv
    /\ \A j \in Jobs \ DOMAIN jobs : Fresh(j)
    /\ \A j \in DOMAIN jobs : JobInv(j)

-----------------------------------------------------------------------------
(* Times and the timer.                                                    *)

USE CronAssumption

LEMMA NextRunTyped ==
    ASSUME now \in Nat, NEW kind \in Kinds, NEW at \in Nat
    PROVE  /\ ComputeNextRun(kind, at) \in Nat
           /\ kind = "every" => ComputeNextRun(kind, at) > now
  BY DEF ComputeNextRun, Kinds

\* The earliest of some times is one of them.
LEMMA MinTyped ==
    ASSUME NEW T \in SUBSET Nat, T # {}
    PROVE  Min(T) \in T
  <1> DEFINE Before == {p \in Nat \X Nat : p[1] < p[2]}
  <1>1. IsWellFoundedOn(Before, Nat)
    BY NatLessThanWellFounded, Zenon DEF OpToRel
  <1> HIDE DEF Before
  <1>2. PICK x \in T : \A y \in T : ~(<<y, x>> \in Before)
    BY <1>1, WFMin
  <1>3. \A y \in T : ~(y < x)
    BY <1>2 DEF Before
  <1>4. \A y \in T : x <= y
    BY <1>3
  <1> QED
    BY <1>4 DEF Min

LEMMA WakeTyped ==
    ASSUME NEW js, NEW act, js \in [DOMAIN js -> Job]
    PROVE  NextWake(js, act) \in Nat
  <1> DEFINE W == {i \in DOMAIN js : js[i].life = "scheduled" /\ js[i].next # 0 /\ act[i] = 0}
             T == {js[j].next : j \in W}
  <1>1. T \subseteq Nat
    BY DEF Job
  <1>2. NextWake(js, act) = IF T = {} THEN 0 ELSE Min(T)
    BY DEF NextWake
  <1> HIDE DEF T
  <1> QED
    BY <1>1, <1>2, MinTyped

LEMMA ArmTyped ==
    ASSUME jobs' \in [DOMAIN jobs' -> Job], Arm
    PROVE  timer' \in Nat
  BY WakeTyped DEF Arm
-----------------------------------------------------------------------------
(* What the parts of a run and of a start do to a job's record.            *)

\* Nothing that a schedule depends on has changed.
SameSchedule(K, J) == K.kind = J.kind /\ K.at = J.at /\ K.life = J.life /\ K.next = J.next

\* The last schedule is over, or nothing a schedule depends on has changed.
SameOrOver(K, J) ==
    /\ K.kind = J.kind /\ K.at = J.at
    /\ \/ K.life = J.life /\ K.next = J.next
       \/ K.life = "completed" /\ K.next = 0

SameRuns(K, J) == K.last = J.last /\ K.lastId = J.lastId /\ K.seen = J.seen

LEMMA StampedIs ==
    ASSUME archive \in [Jobs -> Record], NEW j \in Jobs, NEW J \in Job
    PROVE  /\ Stamped(j, J) \in Job
           /\ SameSchedule(Stamped(j, J), J)
           /\ Stamped(j, J) = [J EXCEPT !.seen = archive[j].id]
           /\ Stamped(j, J).last = J.last /\ Stamped(j, J).lastId = J.lastId
           /\ Stamped(j, J).seen = archive[j].id /\ Stamped(j, J).retry = J.retry
  BY DEF Stamped, Job, Record, SameSchedule

LEMMA MarkedIs ==
    ASSUME archive \in [Jobs -> Record], NEW j \in Jobs, NEW J \in Job, NEW r \in Nat
    PROVE  LET K == Marked(j, J, r)
           IN  /\ K \in Job /\ SameSchedule(K, J)
               /\ K.last /\ K.lastId = r /\ K.seen = archive[j].id /\ K.retry = J.retry
  <1> DEFINE L == Stamped(j, J)
  <1>1. L \in Job /\ SameSchedule(L, J) /\ L.seen = archive[j].id /\ L.retry = J.retry
    BY StampedIs
  <1>2. Marked(j, J, r) = [L EXCEPT !.last = TRUE, !.lastId = r]
    BY DEF Marked
  <1> HIDE DEF L
  <1> QED
    BY <1>1, <1>2 DEF Job, SameSchedule

LEMMA RetriedIs ==
    ASSUME now \in Nat, NEW J \in Job
    PROVE  LET K == Retried(J)
           IN  /\ K \in Job /\ K.kind = J.kind /\ K.at = J.at /\ K.life = J.life
               /\ K.next > now /\ SameRuns(K, J)
  <1> DEFINE due == now + Backoff
             tries == J.retry + 1
  <1>1. due \in Nat /\ due > now /\ tries \in Nat
    BY DEF Job
  <1>2. Retried(J) = [J EXCEPT !.retry = tries, !.next = due]
    BY DEF Retried, Job
  <1> HIDE DEF due, tries
  <1> QED
    BY <1>1, <1>2 DEF Job, SameRuns

LEMMA ClearedIs ==
    ASSUME NEW J \in Job
    PROVE  LET K == Cleared(J)
           IN  /\ K \in Job /\ SameSchedule(K, J) /\ SameRuns(K, J) /\ K.retry = 0
  BY DEF Cleared, Job, SameSchedule, SameRuns

LEMMA CompletedIs ==
    ASSUME NEW J \in Job
    PROVE  LET K == Completed(J)
           IN  /\ K \in Job /\ SameOrOver(K, J) /\ SameRuns(K, J)
               /\ K.life = "completed" /\ K.next = 0 /\ K.retry = J.retry
  BY DEF Completed, Job, Lifecycles, SameOrOver, SameRuns

LEMMA CountedIs ==
    ASSUME NEW J \in Job
    PROVE  LET K == Counted(J)
           IN  /\ K \in Job /\ SameOrOver(K, J) /\ SameRuns(K, J)
               /\ J.kind = "at" => K.life = "completed"
  <1> DEFINE L == [J EXCEPT !.reps = @ + 1]
  <1>1. L \in Job /\ SameSchedule(L, J) /\ SameRuns(L, J)
    BY DEF Job, SameSchedule, SameRuns
  <1>2. Counted(J) = IF Exhausted(L) THEN Completed(L) ELSE L
    BY DEF Counted
  <1>3. L.kind = "at" => Exhausted(L)
    BY DEF Exhausted
  <1> HIDE DEF L
  <1> QED
    BY <1>1, <1>2, <1>3, CompletedIs DEF SameSchedule, SameOrOver, SameRuns

LEMMA CancelledIs ==
    ASSUME archive \in [Jobs -> Record], NEW j \in Jobs, NEW J \in Job, NEW r \in Nat,
           NEW e \in Exec, e.job = j
    PROVE  LET K == Cancelled(J, r, e)
           IN  /\ K \in Job /\ SameOrOver(K, J)
               /\ K.last /\ K.lastId = r /\ K.seen = archive[j].id
               /\ ~e.manual /\ J.kind = "at" => K.life = "completed"
  <1> DEFINE K == Marked(j, J, r)
             L == [K EXCEPT !.retry = 0, !.reps = e.reps + 1]
             M == [K EXCEPT !.retry = IF e.phase = "reserved" THEN @ ELSE e.retry]
  <1>1. K \in Job /\ SameSchedule(K, J) /\ K.last /\ K.lastId = r /\ K.seen = archive[j].id
    BY MarkedIs
  <1>2. Cancelled(J, r, e) = IF e.manual THEN M ELSE IF Exhausted(L) THEN Completed(L) ELSE L
    BY DEF Cancelled
  <1> HIDE DEF K
  <1> DEFINE kept == IF e.phase = "reserved" THEN K.retry ELSE e.retry
             used == e.reps + 1
  <1>3. /\ M \in Job /\ SameSchedule(M, K) /\ SameRuns(M, K)
        /\ L \in Job /\ SameSchedule(L, K) /\ SameRuns(L, K)
    <2>1. kept \in Nat /\ used \in Nat
      BY <1>1 DEF Job, Exec
    <2>2. M = [K EXCEPT !.retry = kept] /\ L = [K EXCEPT !.retry = 0, !.reps = used]
      BY <1>1 DEF Job
    <2> HIDE DEF kept, used, M, L
    <2>3. M \in Job /\ SameSchedule(M, K) /\ SameRuns(M, K)
      BY <1>1, <2>1, <2>2 DEF Job, SameSchedule, SameRuns
    <2>4. L \in Job /\ SameSchedule(L, K) /\ SameRuns(L, K)
      BY <1>1, <2>1, <2>2 DEF Job, SameSchedule, SameRuns
    <2> QED
      BY <2>3, <2>4
  <1>4. L.kind = "at" => Exhausted(L)
    BY DEF Exhausted
  <1>5. e.manual \in BOOLEAN
    BY DEF Exec
  <1> HIDE DEF L, M
  <1>6. /\ Completed(L) \in Job /\ SameOrOver(Completed(L), L) /\ SameRuns(Completed(L), L)
        /\ Completed(L).life = "completed"
    BY <1>3, CompletedIs
  <1> QED
    BY <1>1, <1>2, <1>3, <1>4, <1>5, <1>6 DEF SameSchedule, SameOrOver, SameRuns

LEMMA RecordTyped ==
    ASSUME NEW J \in Job, NEW r \in Nat
    PROVE  /\ RecordOf(r, J) \in Record
           /\ RecordOf(r, J).id = r /\ RecordOf(r, J).life = J.life /\ RecordOf(r, J).next = J.next
  BY DEF RecordOf, Record, Job

LEMMA RecoveredIs ==
    ASSUME archive \in [Jobs -> Record], NEW j \in Jobs, NEW J \in Job
    PROVE  LET K == Recovered(j, J)
           IN  /\ K \in Job /\ K.kind = J.kind /\ K.at = J.at /\ K.seen = J.seen
               /\ Knows(j, J) => K = J
               /\ ~Knows(j, J) => /\ K.last /\ K.lastId = archive[j].id
                                  /\ K.life = archive[j].life /\ K.next = archive[j].next
  BY DEF Recovered, Knows, Job, Record

LEMMA RecomputeIs ==
    ASSUME now \in Nat, NEW J \in Job
    PROVE  LET K == Recompute(J)
           IN  /\ K \in Job /\ K.kind = J.kind /\ K.at = J.at /\ SameRuns(K, J) /\ K.retry = J.retry
               /\ K.kind = "every" /\ K.next # 0 => K.next > now \/ K.next = J.next
               /\ J.life # "scheduled" => K.life # "scheduled"
               /\ J.kind = "at" /\ J.last /\ J.retry = 0 => K.life # "scheduled"
  <1> DEFINE due == now + Period
  <1>1. due \in Nat /\ due > now /\ J.next \in Nat /\ J.at \in Nat /\ J.retry \in Nat
    BY DEF Job
  <1>2. CASE J.life # "scheduled"
    <2>1. Recompute(J) = [J EXCEPT !.next = 0]
      BY <1>2 DEF Recompute
    <2> QED
      BY <1>2, <2>1 DEF Job, SameRuns
  <1>3. CASE J.life = "scheduled" /\ J.retry > 0 /\ J.next # 0
    BY <1>1, <1>3 DEF Recompute, SameRuns
  <1>4. CASE J.life = "scheduled" /\ ~(J.retry > 0 /\ J.next # 0) /\ J.kind = "every"
    <2>1. Recompute(J) = [J EXCEPT !.next = due]
      BY <1>4 DEF Recompute
    <2> HIDE DEF due
    <2> QED
      BY <1>1, <1>4, <2>1 DEF Job, SameRuns
  <1>5. CASE J.life = "scheduled" /\ ~(J.retry > 0 /\ J.next # 0) /\ J.kind # "every" /\ J.last
    <2>1. Recompute(J) = Completed(J)
      BY <1>5 DEF Recompute
    <2> QED
      BY <1>5, <2>1, CompletedIs DEF SameOrOver
  <1>6. CASE J.life = "scheduled" /\ ~(J.retry > 0 /\ J.next # 0) /\ J.kind # "every" /\ ~J.last
    <2> DEFINE first == IF J.next # 0 THEN J.next ELSE J.at
    <2>1. Recompute(J) = [J EXCEPT !.next = first]
      BY <1>6 DEF Recompute, Job
    <2>2. first \in Nat
      BY <1>1
    <2> HIDE DEF first
    <2> QED
      BY <1>6, <2>1, <2>2 DEF Job, SameRuns
  <1> QED
    BY <1>2, <1>3, <1>4, <1>5, <1>6

LEMMA AdvancedIs ==
    ASSUME now \in Nat, NEW J \in Job
    PROVE  LET K == Advanced(J)
           IN  /\ K \in Job /\ K.kind = J.kind /\ K.at = J.at /\ K.life = J.life
               /\ SameRuns(K, J) /\ K.retry = J.retry
               /\ J.kind = "every" => K.next > now
               /\ J.kind # "every" => K = J
  BY DEF Advanced, Job, SameRuns

LEMMA FastForwardIs ==
    ASSUME now \in Nat, NEW J \in Job
    PROVE  LET K == FastForward(J)
           IN  /\ K \in Job /\ K.kind = J.kind /\ K.at = J.at /\ K.life = J.life
               /\ SameRuns(K, J) /\ K.retry = J.retry
               /\ K = J \/ (K.kind = "every" /\ K.next > now)
  BY DEF FastForward, DueNow, Job, SameRuns

LEMMA NewJobIs ==
    ASSUME NEW kind \in Kinds, NEW at \in Nat, NEW next \in Nat, NEW limit \in Nat
    PROVE  LET K == NewJob(kind, at, next, limit)
           IN  /\ K \in Job /\ K.kind = kind /\ K.next = next /\ K.lastId = 0 /\ K.seen = 0
  BY DEF NewJob, Job, Lifecycles
-----------------------------------------------------------------------------
(* Jobs a step does not touch, jobs whose record is saved, and jobs that   *)
(* are left as jobs.json has them.                                         *)

LEMMA JobKept ==
    ASSUME CronTypeOK, NEW j \in DOMAIN jobs, JobInv(j),
           jobs'[j] = jobs[j], disk'[j] = disk[j], archive'[j] = archive[j],
           active'[j] = active[j], Phase(j)' = "alert" <=> Phase(j) = "alert",
           fired'[j] = fired[j], spent'[j] = spent[j], mode' = "down" <=> mode = "down",
           now' \in Nat, now' >= now, nextRun' \in Nat, nextRun' >= nextRun
    PROVE  JobInv(j)'
  <1>1. /\ j \in Jobs /\ jobs[j] \in Job /\ disk[j] \in Job
        /\ archive[j] \in Record /\ active[j] \in Nat /\ fired[j] \in Nat
        /\ now \in Nat /\ nextRun \in Nat
    BY DEF CronTypeOK
  <1>2. History(j)'
    BY <1>1 DEF JobInv, History, Record
  <1>3. ASSUME NEW J \in Job, Sound(j, J) PROVE Sound(j, J)'
    BY <1>1, <1>3 DEF Sound, Knows, Job
  <1>4. Sound(j, jobs[j])' /\ Sound(j, disk[j])'
    <2>1. Sound(j, jobs[j]) /\ Sound(j, disk[j])
      BY DEF JobInv
    <2> QED
      BY <1>1, <1>3, <2>1 DEF Sound, Knows
  <1>5. InMemory(j)'
    BY DEF JobInv, InMemory, Noted
  <1>6. Unrecovered(j)' /\ SpentOver(j)'
    BY DEF JobInv, Unrecovered, SpentOver, Knows
  <1> QED
    BY <1>2, <1>4, <1>5, <1>6 DEF JobInv

\* Memory and jobs.json get the same record.
LEMMA JobSaved ==
    ASSUME NEW j, NEW K, (jobs')[j] = K, (disk')[j] = K, mode' # "down" \/ Knows(j, K)',
           History(j)', Sound(j, K)', Noted(j, K)',
           (spent')[j] /\ K.kind = "at" => K.life # "scheduled"
    PROVE  JobInv(j)'
  <1>1. InMemory(j)' /\ Sound(j, jobs[j])' /\ Sound(j, disk[j])'
    BY DEF InMemory, Noted, Sound, Knows
  <1>2. Knows(j, disk[j])'
    BY DEF Sound, Knows
  <1>3. Unrecovered(j)' /\ SpentOver(j)'
    BY <1>2 DEF Unrecovered, SpentOver, Knows
  <1> QED
    BY <1>1, <1>3 DEF JobInv

\* What the process knew of a job is lost.
LEMMA JobLost ==
    ASSUME CronTypeOK, NEW j \in DOMAIN jobs, JobInv(j), mode # "down",
           jobs'[j] = disk[j], disk'[j] = disk[j], archive'[j] = archive[j], active'[j] = 0,
           fired'[j] = fired[j], spent'[j] = spent[j], mode' = "down",
           now' = now, nextRun' = nextRun
    PROVE  JobInv(j)'
  <1>1. History(j)'
    BY DEF JobInv, History
  <1>2. Phase(j)' = "none"
    BY DEF Phase
  <1>3. Sound(j, jobs[j])' /\ Sound(j, disk[j])'
    BY DEF JobInv, Sound
  <1>4. InMemory(j)'
    BY <1>2 DEF InMemory, Noted
  <1>5. Knows(j, disk[j]) /\ Knows(j, disk[j])'
    BY DEF JobInv, Sound, Knows
  <1>6. spent[j] /\ disk[j].kind = "at" => disk[j].life # "scheduled"
    BY DEF JobInv, SpentOver
  <1>7. Unrecovered(j)' /\ SpentOver(j)'
    BY <1>5, <1>6 DEF Unrecovered, SpentOver
  <1> QED
    BY <1>1, <1>3, <1>4, <1>7 DEF JobInv

LEMMA NoTasks == DOMAIN << >> = {} /\ << >> \in [{} -> Exec]
  OBVIOUS

LEMMA InitInv == CronInit => CronInv
  <1> SUFFICES ASSUME CronInit PROVE CronInv
    OBVIOUS
  <1>1. PICK S \in SUBSET Jobs : disk \in [S -> StoredJobs]
    BY DEF CronInit
  <1>2. ASSUME NEW J \in StoredJobs
        PROVE  J \in Job /\ J.lastId = 0 /\ J.seen = 0 /\ J.next \in Nat
    <2>1. CASE \E t \in Times : J = NewJob("at", t, t, 1)
      BY <2>1, NewJobIs DEF Times, Kinds, Job
    <2>2. CASE \E n \in Limits : J = NewJob("every", 0, 1 + Period, n)
      BY <2>2, NewJobIs DEF Kinds, Job
    <2> QED
      BY <1>2, <2>1, <2>2 DEF StoredJobs
  <1>3. DOMAIN jobs = S /\ jobs = disk /\ jobs \in [DOMAIN jobs -> Job]
    BY <1>1, <1>2 DEF CronInit
  <1>4. NoRecord \in Record /\ NoRecord.id = 0
    BY DEF NoRecord, Record, Lifecycles
  <1>5. DOMAIN exec = {} /\ exec \in [DOMAIN exec -> Exec]
    BY NoTasks DEF CronInit
  <1>6. CronTypeOK
    <2>1. /\ archive \in [Jobs -> Record] /\ active \in [Jobs -> Nat]
          /\ fired \in [Jobs -> Nat] /\ spent \in [Jobs -> BOOLEAN] /\ owed \subseteq Nat
      BY <1>4 DEF CronInit
    <2>2. /\ now \in Nat /\ mode \in {"up", "stopping", "down"}
          /\ timer \in Nat /\ nextRun \in Nat \ {0}
          /\ edits \in Nat /\ manual \in Nat /\ epoch \in Nat
      BY DEF CronInit
    <2>6. rival \in BOOLEAN
      BY DEF CronInit
    <2>3. pass \in [on : {"idle", "begin", "loop"}, due : SUBSET Jobs, cur : Nat]
      BY DEF CronInit, Idle
    <2>4. /\ DOMAIN jobs \subseteq Jobs /\ jobs \in [DOMAIN jobs -> Job]
          /\ disk \in [DOMAIN jobs -> Job]
      BY <1>3
    <2>5. \A j \in Jobs : active[j] = 0
      BY DEF CronInit
    <2> QED
      BY <1>5, <2>1, <2>2, <2>3, <2>4, <2>5, <2>6 DEF CronTypeOK
  <1>7. RunInv /\ DownInv /\ OwedInv
    BY <1>3, <1>5 DEF CronInit, RunInv, DownInv, OwedInv, Idle
  <1>8. \A j \in Jobs \ DOMAIN jobs : Fresh(j)
    BY <1>4 DEF CronInit, Fresh
  <1>9. ASSUME NEW j \in DOMAIN jobs PROVE JobInv(j)
    <2>1. /\ j \in Jobs /\ disk[j] \in StoredJobs /\ archive[j].id = 0 /\ active[j] = 0
          /\ fired[j] = 0 /\ ~spent[j] /\ now = 1 /\ nextRun = 1 /\ mode = "down"
      BY <1>1, <1>3, <1>4 DEF CronInit
    <2>2. Phase(j) = "none" /\ Knows(j, disk[j])
      BY <2>1 DEF Phase, Knows
    <2>3. Sound(j, disk[j])
      BY <1>2, <2>1, <2>2 DEF Sound
    <2> QED
      BY <1>3, <2>1, <2>2, <2>3
         DEF JobInv, History, InMemory, Noted, Unrecovered, SpentOver
  <1> QED
    BY <1>6, <1>7, <1>8, <1>9 DEF CronInv
-----------------------------------------------------------------------------
(* Edits.                                                                  *)

\* What an edit may make of a job, besides what it was.
Saveable(j, J) == /\ J \in Job
                  /\ Sound(j, J) /\ Noted(j, J)
                  /\ spent'[j] /\ J.kind = "at" => J.life # "scheduled"

LEMMA OldSaveable ==
    ASSUME CronInv, mode # "down", NEW j \in DOMAIN jobs, spent'[j] = spent[j]
    PROVE  Saveable(j, jobs[j])
  <1>1. /\ jobs[j] \in Job /\ Sound(j, jobs[j]) /\ Noted(j, jobs[j])
        /\ jobs[j].kind = disk[j].kind /\ jobs[j].life = disk[j].life
    BY DEF CronInv, CronTypeOK, JobInv, InMemory
  <1>2. spent[j] /\ disk[j].kind = "at" => disk[j].life # "scheduled"
    BY DEF CronInv, JobInv, SpentOver
  <1> QED
    BY <1>1, <1>2 DEF Saveable

LEMMA EditInv ==
    ASSUME CronInv, NEW js, Edit(js), js = [j \in DOMAIN js |-> js[j]], DOMAIN js \subseteq Jobs,
           \A j \in Jobs : active[j] # 0 => j \in DOMAIN js,
           archive' \in [Jobs -> Record], fired' \in [Jobs -> Nat], spent' \in [Jobs -> BOOLEAN],
           \A j \in Jobs \ DOMAIN js : Fresh(j)',
           \A j \in DOMAIN js : /\ archive'[j] = archive[j] /\ fired'[j] = fired[j]
                                /\ History(j) /\ Saveable(j, js[j])
    PROVE  CronInv'
  <1>1. /\ mode # "down" /\ jobs' = js /\ disk' = js /\ edits' = edits + 1
        /\ UNCHANGED <<now, mode, active, exec, pass, rival, nextRun, manual, epoch, owed>>
        /\ Arm
    BY DEF Edit
  <1>2. js \in [DOMAIN js -> Job]
    BY DEF Saveable
  <1>3. timer' \in Nat
    BY <1>1, <1>2, ArmTyped
  <1>4. CronTypeOK /\ RunInv /\ DownInv /\ OwedInv
    BY DEF CronInv
  <1>5. CronTypeOK'
    BY <1>1, <1>2, <1>3, <1>4 DEF CronTypeOK
  <1>6. RunInv' /\ DownInv' /\ OwedInv'
    BY <1>1, <1>4 DEF RunInv, DownInv, OwedInv
  <1>7. ASSUME NEW j \in DOMAIN js PROVE JobInv(j)'
    <2>1. archive'[j] = archive[j] /\ fired'[j] = fired[j] /\ History(j) /\ Saveable(j, js[j])
      OBVIOUS
    <2>2. Phase(j)' = Phase(j)
      BY <1>1 DEF Phase
    <2>3. History(j)'
      BY <1>1, <2>1 DEF History
    <2>4. Sound(j, js[j])' /\ Noted(j, js[j])'
      <3> DEFINE K == js[j]
      <3>1. Sound(j, K) /\ Noted(j, K)
        BY <2>1 DEF Saveable
      <3> QED
        BY <1>1, <2>1, <2>2, <3>1 DEF Sound, Noted, Knows
    <2>5. spent'[j] /\ js[j].kind = "at" => js[j].life # "scheduled"
      BY <2>1 DEF Saveable
    <2> HIDE DEF Saveable
    <2> QED
      BY <1>1, <2>3, <2>4, <2>5 DEF JobInv, InMemory, Noted, Sound, Knows, Unrecovered, SpentOver
  <1> QED
    BY <1>1, <1>5, <1>6, <1>7 DEF CronInv

\* The part all edits of one known job share.
LEMMA EditOne ==
    ASSUME CronInv, NEW j \in DOMAIN jobs, NEW J, Edit([jobs EXCEPT ![j] = J]),
           archive' = archive, fired' = fired, spent' \in [Jobs -> BOOLEAN],
           \A i \in Jobs \ {j} : spent'[i] = spent[i],
           Saveable(j, J)
    PROVE  CronInv'
  <1> DEFINE js == [jobs EXCEPT ![j] = J]
  <1>1. CronTypeOK /\ mode # "down"
    BY DEF CronInv, Edit
  <1>2. DOMAIN js = DOMAIN jobs /\ js = [i \in DOMAIN js |-> js[i]] /\ js[j] = J
        /\ \A i \in DOMAIN jobs \ {j} : js[i] = jobs[i]
    BY <1>1 DEF CronTypeOK
  <1>3. \A i \in Jobs \ DOMAIN js : Fresh(i)'
    BY <1>2 DEF CronInv, Fresh
  <1>4. ASSUME NEW i \in DOMAIN js
        PROVE  /\ archive'[i] = archive[i] /\ fired'[i] = fired[i]
               /\ History(i) /\ Saveable(i, js[i])
    <2>1. History(i)
      BY <1>2 DEF CronInv, JobInv
    <2>2. i # j => Saveable(i, js[i])
      BY <1>1, <1>2, OldSaveable DEF CronTypeOK
    <2> QED
      BY <1>2, <2>1, <2>2
  <1>5. DOMAIN js \subseteq Jobs /\ \A i \in Jobs : active[i] # 0 => i \in DOMAIN js
    BY <1>1, <1>2 DEF CronTypeOK
  <1>6. Edit(js) /\ archive' \in [Jobs -> Record] /\ fired' \in [Jobs -> Nat]
    BY <1>1 DEF CronTypeOK
  <1> HIDE DEF js
  <1> QED
    BY <1>2, <1>3, <1>4, <1>5, <1>6, EditInv
\* A record that keeps its runs and is stamped by the edit.
LEMMA StampedSaveable ==
    ASSUME CronInv, mode # "down", NEW j \in DOMAIN jobs, NEW J \in Job,
           J.seen = archive[j].id, J.last = jobs[j].last, J.lastId = jobs[j].lastId,
           J.retry \in {0, jobs[j].retry},
           J.kind = "every" /\ J.next # 0 => J.next > fired[j],
           spent'[j] /\ J.kind = "at" => J.life # "scheduled"
    PROVE  Saveable(j, J)
  <1>1. /\ j \in Jobs /\ archive[j] \in Record /\ Sound(j, jobs[j]) /\ Noted(j, jobs[j])
        /\ jobs[j] \in Job
    BY DEF CronInv, CronTypeOK, JobInv, InMemory
  <1>2. J.seen <= archive[j].id /\ Knows(j, J)
    BY <1>1 DEF Knows, Record
  <1>3. Sound(j, J)
    BY <1>1, <1>2 DEF Sound
  <1>4. Noted(j, J)
    BY <1>1 DEF Noted
  <1> QED
    BY <1>3, <1>4 DEF Saveable

\* What an edit knows of the job it changes.
LEMMA Known ==
    ASSUME CronInv, NEW j \in DOMAIN jobs
    PROVE  /\ j \in Jobs /\ jobs[j] \in Job /\ archive \in [Jobs -> Record]
           /\ fired[j] \in Nat /\ now \in Nat /\ fired[j] <= now
           /\ spent \in [Jobs -> BOOLEAN] /\ spent = [i \in Jobs |-> spent[i]]
           /\ jobs[j].kind = "every" /\ jobs[j].next # 0 => jobs[j].next > fired[j]
           /\ mode # "down" /\ spent[j] /\ jobs[j].kind = "at" => jobs[j].life # "scheduled"
  <1>1. JobInv(j) /\ CronTypeOK
    BY DEF CronInv
  <1>2. jobs[j].kind = disk[j].kind /\ jobs[j].life = disk[j].life
    BY <1>1 DEF JobInv, InMemory
  <1> QED
    BY <1>1, <1>2 DEF CronTypeOK, JobInv, History, Sound, SpentOver

LEMMA RescheduleInv ==
    ASSUME CronInv, NEW j \in Jobs, NEW kind \in Kinds, NEW at \in Nat, Reschedule(j, kind, at)
    PROVE  CronInv'
  <1> DEFINE S == Stamped(j, jobs[j])
             due == ComputeNextRun(kind, at)
             limit == IF kind = jobs[j].kind THEN jobs[j].limit ELSE IF kind = "at" THEN 1 ELSE 0
             J == [S EXCEPT !.kind = kind, !.at = at, !.life = "scheduled", !.next = due,
                            !.retry = 0, !.reps = 0, !.limit = limit]
  <1>1. /\ j \in DOMAIN jobs /\ Edit([jobs EXCEPT ![j] = J]) /\ mode # "down"
        /\ spent' = [spent EXCEPT ![j] = FALSE] /\ archive' = archive /\ fired' = fired
    BY DEF Reschedule, Edit
  <1>2. /\ S \in Job /\ S.seen = archive[j].id /\ S.last = jobs[j].last
        /\ S.lastId = jobs[j].lastId
    BY <1>1, Known, StampedIs
  <1>3. due \in Nat /\ (kind = "every" => due > now) /\ limit \in Nat
    BY <1>1, <1>2, Known, NextRunTyped DEF Job
  <1> HIDE DEF S, due, limit
  <1>4. /\ J \in Job /\ J.seen = archive[j].id /\ J.last = jobs[j].last
        /\ J.lastId = jobs[j].lastId /\ J.retry = 0 /\ J.kind = kind /\ J.next = due
    BY <1>2, <1>3 DEF Job, Lifecycles
  <1> HIDE DEF J
  <1>5. spent' \in [Jobs -> BOOLEAN] /\ ~spent'[j] /\ \A i \in Jobs \ {j} : spent'[i] = spent[i]
    BY <1>1, Known
  <1>6. J.kind = "every" /\ J.next # 0 => J.next > fired[j]
    BY <1>1, <1>3, <1>4, Known
  <1>7. Saveable(j, J)
    BY <1>1, <1>4, <1>5, <1>6, StampedSaveable
  <1> QED
    BY <1>1, <1>5, <1>7, EditOne

LEMMA PauseInv ==
    ASSUME CronInv, NEW j \in Jobs, Pause(j) \/ ArchiveJob(j)
    PROVE  CronInv'
  <1>1. PICK life \in {"paused", "archived"} :
          /\ j \in DOMAIN jobs /\ mode # "down"
          /\ Edit([jobs EXCEPT ![j] = [Stamped(j, jobs[j]) EXCEPT !.life = life, !.next = 0]])
          /\ archive' = archive /\ fired' = fired /\ spent' = spent
    BY DEF Pause, ArchiveJob, Edit
  <1> DEFINE S == Stamped(j, jobs[j])
             J == [S EXCEPT !.life = life, !.next = 0]
  <1>2. /\ S \in Job /\ S.seen = archive[j].id /\ S.last = jobs[j].last
        /\ S.lastId = jobs[j].lastId /\ S.retry = jobs[j].retry
    BY <1>1, Known, StampedIs
  <1>3. Edit([jobs EXCEPT ![j] = J])
    BY <1>1
  <1> HIDE DEF S
  <1>4. /\ J \in Job /\ J.seen = archive[j].id /\ J.last = jobs[j].last
        /\ J.lastId = jobs[j].lastId /\ J.retry = jobs[j].retry /\ J.next = 0
        /\ J.life # "scheduled"
    BY <1>2 DEF Job, Lifecycles
  <1> HIDE DEF J
  <1>5. Saveable(j, J)
    BY <1>1, <1>4, StampedSaveable
  <1> QED
    BY <1>1, <1>3, <1>5, Known, EditOne

LEMMA ResumeInv ==
    ASSUME CronInv, NEW j \in Jobs, Resume(j)
    PROVE  CronInv'
  <1> DEFINE S == Stamped(j, jobs[j])
             due == ComputeNextRun(jobs[j].kind, jobs[j].at)
             J == [S EXCEPT !.life = "scheduled", !.next = due]
  <1>1. /\ j \in DOMAIN jobs /\ Edit([jobs EXCEPT ![j] = J]) /\ mode # "down"
        /\ spent' = [spent EXCEPT ![j] = FALSE] /\ archive' = archive /\ fired' = fired
    BY DEF Resume, Edit
  <1>2. /\ S \in Job /\ S.seen = archive[j].id /\ S.last = jobs[j].last
        /\ S.lastId = jobs[j].lastId /\ S.retry = jobs[j].retry /\ S.kind = jobs[j].kind
    BY <1>1, Known, StampedIs DEF SameSchedule
  <1>3. due \in Nat /\ (jobs[j].kind = "every" => due > now)
    BY <1>1, Known, NextRunTyped DEF Job
  <1> HIDE DEF S, due
  <1>4. /\ J \in Job /\ J.seen = archive[j].id /\ J.last = jobs[j].last
        /\ J.lastId = jobs[j].lastId /\ J.retry = jobs[j].retry
        /\ J.kind = jobs[j].kind /\ J.next = due
    BY <1>2, <1>3 DEF Job, Lifecycles
  <1> HIDE DEF J
  <1>5. spent' \in [Jobs -> BOOLEAN] /\ ~spent'[j] /\ \A i \in Jobs \ {j} : spent'[i] = spent[i]
    BY <1>1, Known
  <1>6. J.kind = "every" /\ J.next # 0 => J.next > fired[j]
    BY <1>1, <1>3, <1>4, Known
  <1>7. Saveable(j, J)
    BY <1>1, <1>4, <1>5, <1>6, StampedSaveable
  <1> QED
    BY <1>1, <1>5, <1>7, EditOne
LEMMA AddJobInv ==
    ASSUME CronInv, NEW j \in Jobs, NEW kind \in Kinds, NEW at \in Nat, NEW limit \in Nat,
           AddJob(j, kind, at, limit)
    PROVE  CronInv'
  <1> DEFINE K == NewJob(kind, at, ComputeNextRun(kind, at), limit)
             js == [i \in DOMAIN jobs \cup {j} |-> IF i # j THEN jobs[i] ELSE K]
  <1>1. /\ j \notin DOMAIN jobs /\ mode # "down" /\ Edit(js)
        /\ archive' = archive /\ fired' = fired /\ spent' = spent
    BY DEF AddJob, Edit
  <1>2. CronTypeOK /\ Fresh(j)
    BY <1>1 DEF CronInv
  <1>3. K \in Job /\ K.kind = kind /\ K.lastId = 0 /\ K.seen = 0
        /\ K.next = ComputeNextRun(kind, at)
    <2>1. ComputeNextRun(kind, at) \in Nat
      BY <1>2, NextRunTyped DEF CronTypeOK
    <2> QED
      BY <2>1, NewJobIs
  <1>4. active[j] = 0 /\ archive[j].id = 0 /\ fired[j] = 0 /\ ~spent[j]
        /\ now \in Nat /\ nextRun \in Nat \ {0} /\ Phase(j) = "none"
    BY <1>1, <1>2 DEF Fresh, CronTypeOK, Phase
  <1>5. K.kind = "every" => K.next > fired[j]
    BY <1>2, <1>3, <1>4, NextRunTyped DEF CronTypeOK
  <1> HIDE DEF K
  <1>6. History(j) /\ Saveable(j, K)
    BY <1>1, <1>3, <1>4, <1>5 DEF History, Saveable, Sound, Noted, Knows
  <1>7. DOMAIN js = DOMAIN jobs \cup {j} /\ js = [i \in DOMAIN js |-> js[i]] /\ js[j] = K
        /\ \A i \in DOMAIN jobs : js[i] = jobs[i]
    BY <1>1
  <1> HIDE DEF js
  <1>8. ASSUME NEW i \in DOMAIN js
        PROVE  /\ archive'[i] = archive[i] /\ fired'[i] = fired[i]
               /\ History(i) /\ Saveable(i, js[i])
    <2>1. CASE i = j
      BY <1>1, <1>6, <1>7, <2>1
    <2>2. CASE i \in DOMAIN jobs
      <3>1. History(i)
        BY <2>2 DEF CronInv, JobInv
      <3> QED
        BY <1>1, <1>7, <2>2, <3>1, OldSaveable
    <2> QED
      BY <1>7, <2>1, <2>2
  <1>9. \A i \in Jobs \ DOMAIN js : Fresh(i)'
    BY <1>1, <1>7 DEF CronInv, Fresh
  <1>10. /\ DOMAIN js \subseteq Jobs /\ \A i \in Jobs : active[i] # 0 => i \in DOMAIN js
         /\ archive' \in [Jobs -> Record] /\ fired' \in [Jobs -> Nat] /\ spent' \in [Jobs -> BOOLEAN]
    BY <1>1, <1>2, <1>7 DEF CronTypeOK
  <1> QED
    BY <1>1, <1>7, <1>8, <1>9, <1>10, EditInv

LEMMA PurgeJobInv ==
    ASSUME CronInv, NEW j \in Jobs, PurgeJob(j)
    PROVE  CronInv'
  <1> DEFINE js == Restrict(jobs, DOMAIN jobs \ {j})
  <1>1. /\ j \in DOMAIN jobs /\ active[j] = 0 /\ mode # "down" /\ Edit(js)
        /\ archive' = [archive EXCEPT ![j] = NoRecord]
        /\ fired' = [fired EXCEPT ![j] = 0] /\ spent' = [spent EXCEPT ![j] = FALSE]
    BY DEF PurgeJob, Edit
  <1>2. CronTypeOK /\ NoRecord \in Record /\ NoRecord.id = 0
    BY DEF CronInv, NoRecord, Record, Lifecycles
  <1>3. DOMAIN js = DOMAIN jobs \ {j} /\ js = [i \in DOMAIN js |-> js[i]]
        /\ \A i \in DOMAIN js : js[i] = jobs[i]
    BY DEF Restrict
  <1> HIDE DEF js
  <1>4. /\ archive' \in [Jobs -> Record] /\ fired' \in [Jobs -> Nat] /\ spent' \in [Jobs -> BOOLEAN]
        /\ Fresh(j)'
    BY <1>1, <1>2 DEF CronTypeOK, Fresh
  <1>5. \A i \in Jobs \ {j} : archive'[i] = archive[i] /\ fired'[i] = fired[i] /\ spent'[i] = spent[i]
    BY <1>1, <1>2 DEF CronTypeOK
  <1>6. \A i \in Jobs \ DOMAIN js : Fresh(i)'
    BY <1>3, <1>4, <1>5 DEF CronInv, Fresh
  <1>7. ASSUME NEW i \in DOMAIN js
        PROVE  /\ archive'[i] = archive[i] /\ fired'[i] = fired[i]
               /\ History(i) /\ Saveable(i, js[i])
    <2>1. i \in DOMAIN jobs /\ i \in Jobs \ {j}
      BY <1>2, <1>3 DEF CronTypeOK
    <2>2. History(i)
      BY <2>1 DEF CronInv, JobInv
    <2> QED
      BY <1>1, <1>3, <1>5, <2>1, <2>2, OldSaveable
  <1>8. DOMAIN js \subseteq Jobs /\ \A i \in Jobs : active[i] # 0 => i \in DOMAIN js
    BY <1>1, <1>2, <1>3 DEF CronTypeOK
  <1> QED
    BY <1>1, <1>3, <1>4, <1>6, <1>7, <1>8, EditInv

LEMMA ReloadInv ==
    ASSUME CronInv, Reload
    PROVE  CronInv'
  <1> DEFINE js == [j \in DOMAIN disk |->
                      Recompute(IF active[j] # 0 THEN jobs[j] ELSE Recovered(j, disk[j]))]
  <1>1. /\ mode # "down" /\ Edit(js)
        /\ archive' = archive /\ fired' = fired /\ spent' = spent
    BY DEF Reload, Edit
  <1>2. CronTypeOK /\ DOMAIN disk = DOMAIN jobs
    BY DEF CronInv, CronTypeOK
  <1>3. ASSUME NEW j \in DOMAIN jobs PROVE js[j] = Recompute(jobs[j])
    <2>1. JobInv(j) /\ j \in Jobs /\ disk[j] \in Job
      BY <1>2 DEF CronInv, CronTypeOK
    <2>2. active[j] = 0 => jobs[j] = disk[j] /\ Knows(j, disk[j])
      BY <1>1, <2>1 DEF JobInv, InMemory, Phase, Sound
    <2>3. Knows(j, disk[j]) => Recovered(j, disk[j]) = disk[j]
      BY <1>2, <2>1, RecoveredIs DEF CronTypeOK
    <2> QED
      BY <1>2, <2>2, <2>3
  <1>4. DOMAIN js = DOMAIN jobs /\ js = [j \in DOMAIN js |-> js[j]]
    BY <1>2
  <1> HIDE DEF js
  <1>5. ASSUME NEW j \in DOMAIN js
        PROVE  /\ archive'[j] = archive[j] /\ fired'[j] = fired[j]
               /\ History(j) /\ Saveable(j, js[j])
    <2> DEFINE J == jobs[j]
               K == Recompute(J)
    <2>1. js[j] = K /\ j \in DOMAIN jobs
      BY <1>3, <1>4
    <2>2. J \in Job /\ Sound(j, J) /\ Noted(j, J) /\ now \in Nat
          /\ fired[j] \in Nat /\ fired[j] <= now
          /\ (spent[j] /\ J.kind = "at" => J.life # "scheduled")
      BY <1>1, <2>1, Known DEF CronInv, JobInv, InMemory
    <2>3. /\ K \in Job /\ K.kind = J.kind /\ SameRuns(K, J) /\ K.retry = J.retry
          /\ (K.kind = "every" /\ K.next # 0 => K.next > now \/ K.next = J.next)
          /\ (J.life # "scheduled" => K.life # "scheduled")
      BY <2>2, RecomputeIs
    <2>4. K.kind = "every" /\ K.next # 0 => K.next > fired[j]
      BY <2>2, <2>3 DEF Sound, Job
    <2> HIDE DEF J, K
    <2>5. Sound(j, K) /\ Noted(j, K)
      BY <2>2, <2>3, <2>4 DEF Sound, Noted, Knows, SameRuns
    <2>6. Saveable(j, K)
      BY <1>1, <2>2, <2>3, <2>5 DEF Saveable
    <2>7. History(j)
      BY <2>1 DEF CronInv, JobInv
    <2> QED
      BY <1>1, <2>1, <2>6, <2>7
  <1>6. \A j \in Jobs \ DOMAIN js : Fresh(j)'
    BY <1>1, <1>4 DEF CronInv, Fresh
  <1>7. /\ DOMAIN js \subseteq Jobs /\ \A j \in Jobs : active[j] # 0 => j \in DOMAIN js
        /\ archive' \in [Jobs -> Record] /\ fired' \in [Jobs -> Nat] /\ spent' \in [Jobs -> BOOLEAN]
    BY <1>1, <1>2, <1>4 DEF CronTypeOK
  <1> QED
    BY <1>1, <1>4, <1>5, <1>6, <1>7, EditInv

LEMMA UserEditsInv ==
    ASSUME CronInv, UserEdits
    PROVE  CronInv'
  <1>1. "at" \in Kinds /\ "every" \in Kinds /\ Times \subseteq Nat
    BY DEF Kinds, Times
  <1>2. ASSUME NEW j \in Jobs, NEW at \in Times, AddJob(j, "at", at, 1) \/ Reschedule(j, "at", at)
        PROVE  CronInv'
    BY <1>1, <1>2, AddJobInv, RescheduleInv
  <1>3. ASSUME NEW j \in Jobs, NEW n \in Limits, AddJob(j, "every", 0, n)
        PROVE  CronInv'
    BY <1>1, <1>3, AddJobInv
  <1>4. ASSUME NEW j \in Jobs, Reschedule(j, "every", 0) PROVE CronInv'
    BY <1>1, <1>4, RescheduleInv
  <1>5. ASSUME NEW j \in Jobs, Pause(j) \/ Resume(j) \/ ArchiveJob(j) \/ PurgeJob(j)
        PROVE  CronInv'
    BY <1>5, PauseInv, ResumeInv, PurgeJobInv
  <1> QED
    BY <1>2, <1>3, <1>4, <1>5, ReloadInv DEF UserEdits
-----------------------------------------------------------------------------
(* Runs start and end.                                                     *)

LEMMA ReserveRun ==
    ASSUME CronTypeOK, RunInv, OwedInv, mode = "up", mode' = "up", DOMAIN jobs' = DOMAIN jobs,
           NEW j \in DOMAIN jobs, active[j] = 0, NEW J \in Job, NEW byHand \in BOOLEAN,
           NEW phase \in {"reserved", "body"}, Reserve(j, J, byHand, phase)
    PROVE  /\ active' \in [Jobs -> Nat] /\ exec' \in [DOMAIN exec' -> Exec]
           /\ nextRun' = nextRun + 1 /\ DOMAIN exec' \subseteq 1..(nextRun' - 1)
           /\ \A i \in Jobs : active'[i] # 0 => active'[i] \in DOMAIN exec' /\ i \in DOMAIN jobs'
           /\ owed' \subseteq Nat /\ RunInv' /\ OwedInv'
           /\ active'[j] = nextRun /\ Phase(j)' = phase
           /\ DOMAIN exec' \ DOMAIN exec = {nextRun} /\ exec'[nextRun] = Task(j, J, byHand, phase)
           /\ \A r \in DOMAIN exec : exec'[r] = exec[r]
           /\ \A i \in Jobs : i # j => active'[i] = active[i]
  <1> DEFINE T == Task(j, J, byHand, phase)
  <1>1. /\ active' = [active EXCEPT ![j] = nextRun]
        /\ exec' = [r \in DOMAIN exec \cup {nextRun} |-> IF r = nextRun THEN T ELSE exec[r]]
        /\ nextRun' = nextRun + 1 /\ owed' = owed \cup {nextRun}
    BY DEF Reserve
  <1>2. j \in Jobs /\ T \in Exec /\ T.job = j /\ T.phase = phase
    BY DEF Task, Exec, Phases, CronTypeOK, Job
  <1> HIDE DEF T
  <1>3. /\ nextRun \in Nat \ {0} /\ DOMAIN exec \subseteq 1..(nextRun - 1)
        /\ exec \in [DOMAIN exec -> Exec] /\ active \in [Jobs -> Nat] /\ owed \subseteq Nat
        /\ \A i \in Jobs : active[i] # 0 => active[i] \in DOMAIN exec /\ i \in DOMAIN jobs
    BY DEF CronTypeOK
  <1>4. nextRun \notin DOMAIN exec /\ nextRun # 0
    BY <1>3
  <1>5. /\ DOMAIN exec' = DOMAIN exec \cup {nextRun} /\ exec'[nextRun] = T
        /\ \A r \in DOMAIN exec : exec'[r] = exec[r]
    BY <1>1, <1>4
  <1>6. /\ active' \in [Jobs -> Nat] /\ active'[j] = nextRun
        /\ \A i \in Jobs : i # j => active'[i] = active[i]
    BY <1>1, <1>2, <1>3
  <1>7. exec' \in [DOMAIN exec' -> Exec]
    BY <1>1, <1>2, <1>3, <1>5
  <1>8. DOMAIN exec' \subseteq 1..(nextRun' - 1)
    BY <1>1, <1>3, <1>5
  <1>9. \A i \in Jobs : active'[i] # 0 => active'[i] \in DOMAIN exec' /\ i \in DOMAIN jobs'
    BY <1>3, <1>5, <1>6
  <1>10. Phase(j)' = phase
    BY <1>2, <1>4, <1>5, <1>6 DEF Phase
  <1>11. RunInv'
    <2>1. ASSUME NEW i \in Jobs, active'[i] # 0
          PROVE  /\ exec'[active'[i]].job = i /\ exec'[active'[i]].phase # "publish"
      <3>1. CASE i = j
        BY <1>2, <1>5, <1>6, <3>1
      <3>2. CASE i # j
        BY <1>3, <1>5, <1>6, <2>1, <3>2 DEF RunInv
      <3> QED
        BY <3>1, <3>2
    <2>2. ASSUME NEW r \in DOMAIN exec', exec'[r].phase \in {"body", "alert"}
          PROVE  active'[exec'[r].job] = r
      <3>1. CASE r = nextRun
        BY <1>2, <1>5, <1>6, <3>1
      <3>2. CASE r # nextRun
        <4>1. r \in DOMAIN exec /\ exec'[r] = exec[r] /\ active[exec[r].job] = r
          BY <1>5, <2>2, <3>2 DEF RunInv
        <4>2. exec[r].job \in Jobs /\ exec[r].job # j
          BY <1>3, <4>1 DEF Exec
        <4> QED
          BY <1>6, <4>1, <4>2
      <3> QED
        BY <3>1, <3>2
    <2> QED
      BY <2>1, <2>2 DEF RunInv
  <1>12. OwedInv'
    <2>1. ASSUME NEW r \in owed' PROVE r # 0 /\ \E i \in Jobs : active'[i] = r
      <3>1. CASE r = nextRun
        BY <1>2, <1>4, <1>6, <3>1
      <3>2. CASE r \in owed
        <4>1. PICK i \in Jobs : active[i] = r /\ r # 0
          BY <3>2 DEF OwedInv
        <4> QED
          BY <1>6, <4>1
      <3> QED
        BY <1>1, <3>1, <3>2
    <2> QED
      BY <2>1 DEF OwedInv
  <1>13. owed' \subseteq Nat
    BY <1>1, <1>3
  <1> QED
    BY <1>1, <1>4, <1>5, <1>6, <1>7, <1>8, <1>9, <1>10, <1>11, <1>12, <1>13 DEF T

\* The record a run that starts leaves in jobs.json.
LEMMA StartedJob ==
    ASSUME CronInv, NEW j \in DOMAIN jobs, active[j] = 0, mode = "up", mode' = "up",
           active'[j] = nextRun, Phase(j)' \in {"reserved", "body"}, archive'[j] = archive[j],
           fired'[j] \in Nat, fired'[j] <= now', nextRun' = nextRun + 1,
           NEW K \in Job, SameRuns(K, jobs[j]), (jobs')[j] = K, (disk')[j] = K,
           K.kind = "every" /\ K.next # 0 => K.next > (fired')[j],
           (spent')[j] /\ K.kind = "at" => K.life # "scheduled"
    PROVE  JobInv(j)'
  <1>1. JobInv(j) /\ nextRun \in Nat \ {0} /\ jobs[j] \in Job /\ archive[j] \in Record
    BY DEF CronInv, CronTypeOK
  <1>2. History(j)'
    BY <1>1 DEF JobInv, History, Record
  <1>3. Sound(j, K)'
    BY <1>1 DEF JobInv, Sound, Knows, SameRuns, Job
  <1>4. Noted(j, K)'
    BY DEF Noted
  <1> QED
    BY <1>2, <1>3, <1>4, JobSaved

LEMMA RunNowInv ==
    ASSUME CronInv, NEW j \in Jobs, NEW detached \in BOOLEAN, RunNow(j, detached)
    PROVE  CronInv'
  <1>1. /\ j \in DOMAIN jobs /\ mode = "up" /\ active[j] = 0 /\ manual' = manual + 1
        /\ UNCHANGED <<now, mode, jobs, disk, archive, pass, timer, rival, edits, epoch, fired, spent>>
        /\ \E phase \in {"reserved", "body"} : Reserve(j, jobs[j], TRUE, phase)
    BY DEF RunNow, CanReserve
  <1>2. CronTypeOK /\ RunInv /\ OwedInv /\ jobs[j] \in Job
    BY <1>1 DEF CronInv, CronTypeOK
  <1>3. PICK phase \in {"reserved", "body"} : Reserve(j, jobs[j], TRUE, phase)
    BY <1>1
  <1> DEFINE J == jobs[j]
  <1>4. /\ mode = "up" /\ mode' = "up" /\ DOMAIN jobs' = DOMAIN jobs /\ TRUE \in BOOLEAN
        /\ j \in DOMAIN jobs /\ active[j] = 0 /\ J \in Job /\ Reserve(j, J, TRUE, phase)
    BY <1>1, <1>2, <1>3
  <1> HIDE DEF J
  <1>5. /\ active' \in [Jobs -> Nat] /\ exec' \in [DOMAIN exec' -> Exec]
        /\ nextRun' = nextRun + 1 /\ DOMAIN exec' \subseteq 1..(nextRun' - 1)
        /\ \A i \in Jobs : active'[i] # 0 => active'[i] \in DOMAIN exec' /\ i \in DOMAIN jobs'
        /\ owed' \subseteq Nat
    BY <1>2, <1>4, ReserveRun
  <1>6. RunInv' /\ OwedInv' /\ active'[j] = nextRun /\ Phase(j)' = phase
    BY <1>2, <1>4, ReserveRun
  <1>7. \A r \in DOMAIN exec : exec'[r] = exec[r]
    BY <1>2, <1>4, ReserveRun
  <1>8. \A i \in Jobs : i # j => active'[i] = active[i]
    BY <1>2, <1>4, ReserveRun
  <1>9. CronTypeOK'
    BY <1>1, <1>2, <1>5 DEF CronTypeOK
  <1>10. DownInv'
    BY <1>1 DEF DownInv
  <1>11. \A i \in Jobs \ DOMAIN jobs' : Fresh(i)'
    BY <1>1 DEF CronInv, Fresh
  <1>12. ASSUME NEW i \in DOMAIN jobs' PROVE JobInv(i)'
    <2>1. i \in Jobs /\ i \in DOMAIN jobs /\ JobInv(i) /\ now \in Nat /\ nextRun \in Nat
      BY <1>1, <1>2 DEF CronInv, CronTypeOK
    <2>2. CASE i # j
      <3>1. Phase(i)' = Phase(i)
        BY <1>2, <1>7, <1>8, <2>1, <2>2 DEF Phase, CronTypeOK
      <3> QED
        BY <1>1, <1>2, <1>5, <1>8, <2>1, <2>2, <3>1, JobKept
    <2>3. CASE i = j
      <3>1. jobs[j] = disk[j]
        BY <1>1, <2>1, <2>3 DEF JobInv, InMemory, Phase
      <3>2. fired[j] \in Nat /\ fired[j] <= now
            /\ (jobs[j].kind = "every" /\ jobs[j].next # 0 => jobs[j].next > fired[j])
            /\ (spent[j] /\ jobs[j].kind = "at" => jobs[j].life # "scheduled")
        BY <1>1, Known
      <3> QED
        BY <1>1, <1>2, <1>5, <1>6, <2>3, <3>1, <3>2, StartedJob DEF SameRuns
    <2> QED
      BY <2>2, <2>3
  <1> QED
    BY <1>6, <1>9, <1>10, <1>11, <1>12 DEF CronInv
LEMMA TasksTyped ==
    ASSUME CronInv, NEW r \in DOMAIN exec
    PROVE  /\ mode # "down" /\ r \in Nat \ {0} /\ r < nextRun /\ nextRun \in Nat /\ now \in Nat
           /\ exec[r] \in Exec /\ exec[r].job \in Jobs
           /\ \A j \in Jobs : active[j] = r => j = exec[r].job /\ j \in DOMAIN jobs
           /\ exec[r].phase \in {"body", "alert"} =>
                 active[exec[r].job] = r /\ exec[r].job \in DOMAIN jobs
  <1>1. CronTypeOK /\ RunInv /\ DownInv
    BY DEF CronInv
  <1>2. /\ nextRun \in Nat \ {0} /\ now \in Nat /\ DOMAIN exec \subseteq 1..(nextRun - 1)
        /\ exec \in [DOMAIN exec -> Exec]
        /\ \A j \in Jobs : active[j] # 0 => active[j] \in DOMAIN exec /\ j \in DOMAIN jobs
    BY <1>1 DEF CronTypeOK
  <1>3. mode # "down"
    BY <1>1 DEF DownInv
  <1>4. r \in Nat \ {0} /\ r < nextRun /\ exec[r] \in Exec /\ exec[r].job \in Jobs
    BY <1>2 DEF Exec
  <1>5. ASSUME NEW j \in Jobs, active[j] = r PROVE j = exec[r].job /\ j \in DOMAIN jobs
    BY <1>1, <1>2, <1>4, <1>5 DEF RunInv
  <1>6. ASSUME exec[r].phase \in {"body", "alert"}
        PROVE  active[exec[r].job] = r /\ exec[r].job \in DOMAIN jobs
    BY <1>1, <1>4, <1>5, <1>6 DEF RunInv
  <1> QED
    BY <1>2, <1>3, <1>4, <1>5, <1>6

\* A task that holds no slot goes away.
LEMMA TaskGone ==
    ASSUME CronInv, NEW r \in DOMAIN exec, \A j \in Jobs : active[j] # r,
           exec' = Restrict(exec, DOMAIN exec \ {r}), timer' \in Nat,
           pass' \in [on : {"idle", "begin", "loop"}, due : SUBSET Jobs, cur : Nat],
           UNCHANGED <<now, mode, jobs, disk, archive, active, rival, nextRun, bounds,
                       fired, spent, owed>>
    PROVE  CronInv'
  <1>1. CronTypeOK /\ RunInv /\ OwedInv /\ mode # "down" /\ nextRun \in Nat /\ now \in Nat
    BY TasksTyped DEF CronInv
  <1>2. DOMAIN exec' = DOMAIN exec \ {r} /\ \A s \in DOMAIN exec' : exec'[s] = exec[s]
    BY DEF Restrict
  <1>3. exec' \in [DOMAIN exec' -> Exec]
    <2>1. exec' = [s \in DOMAIN exec' |-> exec'[s]]
      BY DEF Restrict
    <2> QED
      BY <1>1, <1>2, <2>1 DEF CronTypeOK
  <1>4. \A j \in Jobs : active[j] # 0 => active[j] \in DOMAIN exec' /\ j \in DOMAIN jobs
    BY <1>1, <1>2 DEF CronTypeOK
  <1>5. CronTypeOK'
    BY <1>1, <1>2, <1>3, <1>4 DEF CronTypeOK, bounds
  <1>6. RunInv'
    BY <1>1, <1>2, <1>4 DEF RunInv
  <1>7. DownInv' /\ OwedInv'
    BY <1>1 DEF DownInv, OwedInv
  <1>8. ASSUME NEW j \in DOMAIN jobs' PROVE JobInv(j)'
    <2>1. j \in DOMAIN jobs /\ j \in Jobs /\ JobInv(j)
      BY <1>1 DEF CronInv, CronTypeOK
    <2>2. Phase(j)' = Phase(j)
      BY <1>2, <1>4, <2>1 DEF Phase
    <2> QED
      BY <1>1, <2>1, <2>2, JobKept
  <1>9. \A j \in Jobs \ DOMAIN jobs' : Fresh(j)'
    BY DEF CronInv, Fresh
  <1> QED
    BY <1>5, <1>6, <1>7, <1>8, <1>9 DEF CronInv

LEMMA PublishedInv ==
    ASSUME CronInv, NEW r \in DOMAIN exec, Published(r)
    PROVE  CronInv'
  <1>1. CronTypeOK /\ RunInv /\ r # 0
    BY TasksTyped DEF CronInv
  <1>2. \A j \in Jobs : active[j] # r
    BY <1>1 DEF Published, RunInv
  <1>3. timer' \in Nat
    <2>1. jobs' \in [DOMAIN jobs' -> Job] /\ timer \in Nat
      BY <1>1 DEF Published, CronTypeOK
    <2> QED
      BY <2>1, ArmTyped DEF Published
  <1>4. pass' \in [on : {"idle", "begin", "loop"}, due : SUBSET Jobs, cur : Nat]
    BY <1>1 DEF Published, CronTypeOK
  <1> QED
    BY <1>2, <1>3, <1>4, TaskGone DEF Published

LEMMA ChildEntersInv ==
    ASSUME CronInv, NEW r \in DOMAIN exec, ChildEnters(r)
    PROVE  CronInv'
  <1> DEFINE j == exec[r].job
  <1>1. /\ exec[r].phase = "reserved"
        /\ UNCHANGED <<now, mode, jobs, disk, archive, active, pass, timer, rival, nextRun,
                       bounds, fired, spent, owed>>
    BY DEF ChildEnters
  <1>2. CronTypeOK /\ RunInv /\ OwedInv
    BY DEF CronInv
  <1>3. /\ mode # "down" /\ r \in Nat \ {0} /\ exec[r] \in Exec /\ j \in Jobs
        /\ nextRun \in Nat /\ now \in Nat
        /\ \A i \in Jobs : active[i] = r => i = j /\ i \in DOMAIN jobs
    BY TasksTyped
  <1>4. CASE active[j] # r
    <2>1. \A i \in Jobs : active[i] # r
      BY <1>3, <1>4
    <2>2. exec' = Restrict(exec, DOMAIN exec \ {r})
      BY <1>4 DEF ChildEnters
    <2>3. timer' \in Nat /\ pass' \in [on : {"idle", "begin", "loop"}, due : SUBSET Jobs, cur : Nat]
      BY <1>1, <1>2 DEF CronTypeOK
    <2> QED
      BY <1>1, <2>1, <2>2, <2>3, TaskGone
  <1>5. CASE active[j] = r
    <2> DEFINE T == Task(j, jobs[j], TRUE, "body")
    <2>1. exec' = [exec EXCEPT ![r] = T] /\ j \in DOMAIN jobs
      BY <1>3, <1>5 DEF ChildEnters
    <2>2. T \in Exec /\ T.job = j /\ T.phase = "body"
      BY <1>2, <1>3, <2>1 DEF Task, Exec, Phases, CronTypeOK, Job
    <2> HIDE DEF T
    <2>3. /\ DOMAIN exec' = DOMAIN exec /\ exec' \in [DOMAIN exec -> Exec] /\ exec'[r] = T
          /\ \A s \in DOMAIN exec : s # r => exec'[s] = exec[s]
      BY <1>2, <2>1, <2>2 DEF CronTypeOK
    <2>4. CronTypeOK'
      BY <1>1, <1>2, <2>3 DEF CronTypeOK, bounds
    <2>5. RunInv'
      <3>1. ASSUME NEW i \in Jobs, active'[i] # 0
            PROVE  /\ exec'[active'[i]].job = i /\ exec'[active'[i]].phase # "publish"
                   /\ mode' = "stopping" => exec'[active'[i]].phase # "reserved"
        <4>1. CASE active[i] = r
          BY <1>1, <1>3, <2>2, <2>3, <4>1
        <4>2. CASE active[i] # r
          BY <1>1, <1>2, <2>3, <3>1, <4>2 DEF RunInv, CronTypeOK
        <4> QED
          BY <4>1, <4>2
      <3>2. ASSUME NEW s \in DOMAIN exec', exec'[s].phase \in {"body", "alert"}
            PROVE  active'[exec'[s].job] = s
        BY <1>1, <1>2, <1>5, <2>2, <2>3, <3>2 DEF RunInv
      <3> QED
        BY <3>1, <3>2 DEF RunInv
    <2>6. DownInv' /\ OwedInv'
      BY <1>1, <1>2, <1>3 DEF DownInv, OwedInv
    <2>7. ASSUME NEW i \in DOMAIN jobs' PROVE JobInv(i)'
      <3>1. i \in DOMAIN jobs /\ i \in Jobs /\ JobInv(i)
        BY <1>1, <1>2 DEF CronInv, CronTypeOK
      <3>2. Phase(i)' = "alert" <=> Phase(i) = "alert"
        <4>1. CASE active[i] = r
          BY <1>1, <1>3, <2>2, <2>3, <4>1 DEF Phase
        <4>2. CASE active[i] # r
          BY <1>1, <1>2, <2>3, <3>1, <4>2 DEF Phase, CronTypeOK
        <4> QED
          BY <4>1, <4>2
      <3> QED
        BY <1>1, <1>2, <1>3, <3>1, <3>2, JobKept
    <2>8. \A i \in Jobs \ DOMAIN jobs' : Fresh(i)'
      BY <1>1 DEF CronInv, Fresh
    <2> QED
      BY <2>4, <2>5, <2>6, <2>7, <2>8 DEF CronInv
  <1> QED
    BY <1>4, <1>5
\* A job whose record is written with that of another.
LEMMA JobFlushed ==
    ASSUME CronInv, mode # "down", NEW j \in DOMAIN jobs,
           jobs'[j] = jobs[j], disk'[j] \in {disk[j], jobs[j]}, archive'[j] = archive[j],
           active'[j] = active[j], Phase(j)' = "alert" <=> Phase(j) = "alert",
           fired'[j] = fired[j], spent'[j] = spent[j], mode' # "down",
           now' \in Nat, now' >= now, nextRun' \in Nat, nextRun' >= nextRun
    PROVE  JobInv(j)'
  <1>1. CronTypeOK /\ JobInv(j)
    BY DEF CronInv
  <1>2. CASE disk'[j] = disk[j]
    BY <1>1, <1>2, JobKept
  <1>3. CASE disk'[j] = jobs[j]
    <2>6. PICK K : K = jobs[j]
      OBVIOUS
    <2>1. /\ K \in Job /\ Sound(j, K) /\ Noted(j, K)
          /\ (spent[j] /\ K.kind = "at" => K.life # "scheduled")
      BY <1>1, <2>6, Known DEF JobInv, InMemory
    <2>2. nextRun \in Nat /\ now \in Nat /\ archive[j] \in Record /\ fired[j] \in Nat
      BY <1>1 DEF CronTypeOK
    <2>3. jobs'[j] = K /\ disk'[j] = K
      BY <1>3, <2>6
    <2>4. History(j)'
      BY <1>1, <2>2 DEF JobInv, History, Record
    <2>5. Sound(j, K)' /\ Noted(j, K)'
      BY <2>1, <2>2 DEF Sound, Noted, Knows, Job
    <2> QED
      BY <2>1, <2>3, <2>4, <2>5, JobSaved
  <1> QED
    BY <1>2, <1>3

\* The process is gone.
LEMMA LostAll ==
    ASSUME CronTypeOK, LoseMemory, disk' = disk, owed' = {},
           archive' \in [Jobs -> Record], spent' \in [Jobs -> BOOLEAN],
           UNCHANGED <<now, rival, nextRun, bounds, fired>>
    PROVE  CronTypeOK' /\ RunInv' /\ DownInv' /\ OwedInv'
  <1>1. /\ mode' = "down" /\ jobs' = disk /\ active' = [j \in Jobs |-> 0]
        /\ exec' = << >> /\ pass' = Idle /\ timer' = 0
    BY DEF LoseMemory
  <1>2. DOMAIN exec' = {} /\ exec' \in [DOMAIN exec' -> Exec]
    BY <1>1, NoTasks
  <1>3. pass'.on = "idle" /\ pass' \in [on : {"idle", "begin", "loop"}, due : SUBSET Jobs, cur : Nat]
    BY <1>1 DEF Idle
  <1>4. active' \in [Jobs -> Nat] /\ \A j \in Jobs : active'[j] = 0
    BY <1>1
  <1>5. DOMAIN jobs' = DOMAIN jobs /\ jobs' \in [DOMAIN jobs' -> Job]
        /\ disk' \in [DOMAIN jobs' -> Job]
    BY <1>1 DEF CronTypeOK
  <1>6. CronTypeOK'
    BY <1>1, <1>2, <1>3, <1>4, <1>5 DEF CronTypeOK, bounds
  <1>7. RunInv' /\ DownInv' /\ OwedInv'
    BY <1>1, <1>2, <1>3, <1>4 DEF RunInv, DownInv, OwedInv
  <1> QED
    BY <1>6, <1>7

\* What a run may leave in its job: see Settle.
Result(j, J, r, final) ==
    /\ J \in Job /\ J.lastId = r /\ J.seen <= archive[j].id
    /\ J.kind = jobs[j].kind
    /\ J.life = jobs[j].life \/ J.life = "completed"
    /\ J.kind = "every" /\ J.next # 0 => J.next > fired[j]
    /\ final /\ J.kind = "at" => J.life # "scheduled"

\* A stopped job is not put back on the schedule.
StaysOff ==
    \A i \in DOMAIN jobs \cap DOMAIN jobs' :
        jobs[i].life \in {"paused", "archived"} => jobs'[i].life # "scheduled"

LEMMA SettleInv ==
    ASSUME CronInv, NEW r \in DOMAIN exec, exec[r].phase \in {"body", "alert"}, NEW J,
           NEW terminal \in BOOLEAN, Settle(r, J, terminal), NEW j, j = exec[r].job,
           Result(j, J, r, terminal /\ ~exec[r].manual)
    PROVE  CronInv' /\ StaysOff
  <1> DEFINE final == terminal /\ ~exec[r].manual
             R == RecordOf(r, J)
  <1>1. CronTypeOK /\ RunInv /\ OwedInv /\ JobInv(j)
        /\ mode # "down" /\ r \in Nat \ {0} /\ r < nextRun /\ nextRun \in Nat /\ now \in Nat
        /\ exec[r] \in Exec /\ j \in Jobs /\ active[j] = r /\ j \in DOMAIN jobs
        /\ \A i \in Jobs : active[i] = r => i = j
    BY TasksTyped DEF CronInv
  <1>2. /\ J \in Job /\ J.lastId = r /\ J.seen <= archive[j].id /\ J.kind = jobs[j].kind
        /\ (J.life = jobs[j].life \/ J.life = "completed")
        /\ (J.kind = "every" /\ J.next # 0 => J.next > fired[j])
        /\ (final /\ J.kind = "at" => J.life # "scheduled")
    BY DEF Result
  <1>3. /\ archive' = [archive EXCEPT ![j] = R]
        /\ spent' = [spent EXCEPT ![j] = spent[j] \/ final]
        /\ UNCHANGED <<now, rival, nextRun, bounds, fired>>
        /\ \/ /\ jobs' = [jobs EXCEPT ![j] = J] /\ disk' = jobs'
              /\ active' = [active EXCEPT ![j] = IF active[j] = r THEN 0 ELSE active[j]]
              /\ exec' = [exec EXCEPT ![r] = [exec[r] EXCEPT !.phase = "publish"]]
              /\ owed' = owed \ {r}
              /\ UNCHANGED <<mode, pass, timer>>
           \/ /\ disk' = disk /\ LoseMemory /\ owed' = {}
    BY DEF Settle
  <1>4. R \in Record /\ R.id = r /\ R.life = J.life /\ R.next = J.next
    BY <1>1, <1>2, RecordTyped
  <1> HIDE DEF R
  <1>5. /\ archive' \in [Jobs -> Record] /\ archive'[j] = R
        /\ \A i \in Jobs : i # j => archive'[i] = archive[i]
    BY <1>1, <1>3, <1>4 DEF CronTypeOK
  <1>6. spent' \in [Jobs -> BOOLEAN]
    BY <1>1, <1>3 DEF CronTypeOK
  <1>7. /\ spent'[j] <=> spent[j] \/ final
        /\ \A i \in Jobs : i # j => spent'[i] = spent[i]
    BY <1>1, <1>3 DEF CronTypeOK
  <1>8. /\ archive[j] \in Record /\ archive[j].id < r /\ fired[j] \in Nat /\ fired[j] <= now
        /\ jobs[j].kind = disk[j].kind /\ jobs[j].life = disk[j].life
        /\ jobs[j] \in Job /\ disk[j] \in Job
        /\ (spent[j] /\ disk[j].kind = "at" => disk[j].life # "scheduled")
    BY <1>1 DEF JobInv, History, InMemory, SpentOver, CronTypeOK
  <1>9. \A i \in Jobs \ DOMAIN jobs : Fresh(i)'
    BY <1>1, <1>3, <1>5, <1>7 DEF CronInv, Fresh
  <1>10. CASE disk' = disk /\ LoseMemory /\ owed' = {}
    <2>1. CronTypeOK' /\ RunInv' /\ DownInv' /\ OwedInv'
      BY <1>1, <1>3, <1>5, <1>6, <1>10, LostAll
    <2>2. /\ mode' = "down" /\ jobs' = disk /\ \A i \in Jobs : active'[i] = 0
          /\ DOMAIN jobs' = DOMAIN jobs /\ DOMAIN jobs \subseteq Jobs
      BY <1>1, <1>10 DEF LoseMemory, CronTypeOK
    <2>3. ASSUME NEW i \in DOMAIN jobs' PROVE JobInv(i)'
      <3>1. i \in DOMAIN jobs /\ i \in Jobs
        BY <2>2
      <3>2. CASE i # j
        <4>1. JobInv(i)
          BY <3>1 DEF CronInv
        <4> QED
          BY <1>1, <1>3, <1>5, <1>7, <1>10, <2>2, <3>1, <3>2, <4>1, JobLost
      <3>3. CASE i = j
        <4>1. Phase(j)' = "none" /\ active'[j] = 0 /\ jobs'[j] = disk[j] /\ disk'[j] = disk[j]
          BY <1>1, <1>10, <2>2 DEF Phase
        <4>2. Sound(j, disk[j])
          BY <1>1 DEF JobInv
        <4>3. Sound(j, disk[j])'
          BY <1>1, <1>3, <1>4, <1>5, <1>8, <2>2, <4>1, <4>2 DEF Sound, Record, Job
        <4>4. History(j)' /\ InMemory(j)'
          BY <1>1, <1>3, <1>4, <1>5, <1>8, <4>1 DEF History, InMemory, Noted
        <4>5. Unrecovered(j)'
          BY <1>2, <1>3, <1>4, <1>5, <1>8, <4>1 DEF Unrecovered
        <4>6. Knows(j, disk[j])' => disk[j].lastId = r
          BY <1>1, <1>4, <1>5, <1>8, <1>10, <4>2 DEF Knows, Sound, Record, Job
        <4>7. SpentOver(j)'
          BY <1>1, <1>2, <1>4, <1>5, <1>7, <1>8, <2>2, <4>1, <4>2, <4>6 DEF SpentOver, Sound
        <4> QED
          BY <3>3, <4>1, <4>3, <4>4, <4>5, <4>7 DEF JobInv, Sound, Knows
      <3> QED
        BY <3>2, <3>3
    <2>4. StaysOff
      BY <1>10, <2>2 DEF StaysOff, CronInv, JobInv, InMemory
    <2> QED
      BY <1>9, <2>1, <2>2, <2>3, <2>4 DEF CronInv
  <1>11. CASE /\ jobs' = [jobs EXCEPT ![j] = J] /\ disk' = jobs'
              /\ active' = [active EXCEPT ![j] = IF active[j] = r THEN 0 ELSE active[j]]
              /\ exec' = [exec EXCEPT ![r] = [exec[r] EXCEPT !.phase = "publish"]]
              /\ owed' = owed \ {r}
              /\ UNCHANGED <<mode, pass, timer>>
    <2> DEFINE T == [exec[r] EXCEPT !.phase = "publish"]
    <2>1. T \in Exec /\ T.job = j /\ T.phase = "publish"
      BY <1>1 DEF Exec, Phases
    <2>2. exec' = [exec EXCEPT ![r] = T]
      BY <1>11
    <2> HIDE DEF T
    <2>3. /\ DOMAIN exec' = DOMAIN exec /\ exec' \in [DOMAIN exec -> Exec] /\ exec'[r] = T
          /\ \A s \in DOMAIN exec : s # r => exec'[s] = exec[s]
      BY <1>1, <2>1, <2>2 DEF CronTypeOK
    <2>4. /\ active' \in [Jobs -> Nat] /\ active'[j] = 0
          /\ \A i \in Jobs : i # j => active'[i] = active[i] /\ active[i] # r
      BY <1>1, <1>11 DEF CronTypeOK
    <2>5. /\ DOMAIN jobs' = DOMAIN jobs /\ jobs' \in [DOMAIN jobs -> Job] /\ disk' = jobs'
          /\ jobs'[j] = J /\ \A i \in DOMAIN jobs : i # j => jobs'[i] = jobs[i]
      BY <1>1, <1>2, <1>11 DEF CronTypeOK
    <2>6. \A i \in Jobs : active'[i] # 0 =>
             /\ i # j /\ active'[i] = active[i] /\ active[i] # r
             /\ active[i] \in DOMAIN exec /\ i \in DOMAIN jobs
             /\ exec'[active[i]] = exec[active[i]]
      BY <1>1, <2>3, <2>4 DEF CronTypeOK
    <2>7. CronTypeOK'
      BY <1>1, <1>3, <1>5, <1>6, <1>11, <2>3, <2>4, <2>5, <2>6 DEF CronTypeOK, bounds
    <2>8. RunInv'
      <3>1. ASSUME NEW s \in DOMAIN exec', exec'[s].phase \in {"body", "alert"}
            PROVE  active'[exec'[s].job] = s
        <4>1. s # r
          BY <2>1, <2>3, <3>1
        <4>2. exec'[s] = exec[s] /\ active[exec[s].job] = s /\ exec[s].job \in Jobs
          BY <1>1, <2>3, <3>1, <4>1 DEF RunInv, CronTypeOK, Exec
        <4> QED
          BY <1>1, <2>4, <4>1, <4>2
      <3>2. ASSUME NEW i \in Jobs, active'[i] # 0
            PROVE  /\ exec'[active'[i]].job = i /\ exec'[active'[i]].phase # "publish"
                   /\ mode' = "stopping" => exec'[active'[i]].phase # "reserved"
        BY <1>1, <1>11, <2>6, <3>2 DEF RunInv
      <3> QED
        BY <3>1, <3>2 DEF RunInv
    <2>9. DownInv' /\ OwedInv'
      BY <1>1, <1>11, <2>4 DEF DownInv, OwedInv
    <2>10. ASSUME NEW i \in DOMAIN jobs' PROVE JobInv(i)'
      <3>1. i \in DOMAIN jobs /\ i \in Jobs /\ mode' # "down"
        BY <1>1, <1>11, <2>5 DEF CronTypeOK
      <3>2. CASE i # j
        <4>1. Phase(i)' = Phase(i)
          BY <1>1, <2>3, <2>4, <3>1, <3>2 DEF Phase, CronTypeOK
        <4> QED
          BY <1>1, <1>3, <1>5, <1>7, <2>4, <2>5, <3>1, <3>2, <4>1, JobFlushed
      <3>3. CASE i = j
        <4>1. Phase(j)' = "none" /\ jobs'[j] = J /\ disk'[j] = J
          BY <2>4, <2>5 DEF Phase
        <4>2. History(j)' /\ Noted(j, J)'
          BY <1>1, <1>3, <1>4, <1>5, <1>8, <2>4, <4>1 DEF History, Noted
        <4>3. Sound(j, J)'
          BY <1>1, <1>2, <1>3, <1>4, <1>5, <1>8, <2>4, <4>1 DEF Sound, Knows, Record, Job
        <4>4. spent'[j] /\ J.kind = "at" => J.life # "scheduled"
          BY <1>2, <1>7, <1>8
        <4> QED
          BY <3>1, <3>3, <4>1, <4>2, <4>3, <4>4, JobSaved
      <3> QED
        BY <3>2, <3>3
    <2>11. StaysOff
      BY <1>2, <2>5 DEF StaysOff
    <2> QED
      BY <1>9, <2>5, <2>7, <2>8, <2>9, <2>10, <2>11 DEF CronInv
  <1> QED
    BY <1>3, <1>10, <1>11
\* The slot a scheduled run uses up makes a result of the job it leaves.
LEMMA CountedResult ==
    ASSUME CronInv, NEW j \in DOMAIN jobs, NEW J \in Job, NEW r, NEW byHand \in BOOLEAN,
           J.lastId = r, J.seen <= archive[j].id, SameSchedule(J, jobs[j])
    PROVE  Result(j, IF byHand THEN J ELSE Counted(J), r, ~byHand)
  <1>1. jobs[j].kind = "every" /\ jobs[j].next # 0 => jobs[j].next > fired[j]
    BY Known
  <1>2. /\ Counted(J) \in Job /\ SameOrOver(Counted(J), J) /\ SameRuns(Counted(J), J)
        /\ (J.kind = "at" => Counted(J).life = "completed")
    BY CountedIs
  <1>3. CASE byHand
    BY <1>1, <1>3 DEF Result, SameSchedule
  <1>4. CASE ~byHand
    BY <1>1, <1>2, <1>4 DEF Result, SameSchedule, SameOrOver, SameRuns
  <1> QED
    BY <1>3, <1>4

LEMMA BodyEndsInv ==
    ASSUME CronInv, NEW r \in DOMAIN exec, NEW ok \in BOOLEAN, BodyEnds(r, ok)
    PROVE  CronInv' /\ StaysOff
  <1>1. PICK j : j = exec[r].job
    OBVIOUS
  <1>2. PICK J : J = Marked(j, jobs[j], r)
    OBVIOUS
  <1>3. PICK K : K = Cleared(J)
    OBVIOUS
  <1>4. PICK L : L = Retried(J)
    OBVIOUS
  <1>5. PICK M : M = IF exec[r].manual THEN K ELSE Counted(K)
    OBVIOUS
  <1> DEFINE retrying == ~ok /\ ~exec[r].manual /\ J.retry < RetryMax
  <1>6. /\ exec[r].phase = "body"
        /\ \/ retrying /\ Settle(r, L, FALSE)
           \/ ~retrying /\ Settle(r, M, TRUE)
           \/ /\ jobs' = [jobs EXCEPT ![j] = K]
              /\ exec' = [exec EXCEPT ![r] = [exec[r] EXCEPT !.phase = "alert"]]
              /\ UNCHANGED <<now, mode, disk, archive, active, pass, timer, rival, nextRun,
                             bounds, fired, spent, owed>>
    BY <1>1, <1>2, <1>3, <1>4, <1>5 DEF BodyEnds
  <1> HIDE DEF retrying
  <1>7. CronTypeOK /\ RunInv /\ OwedInv /\ JobInv(j)
        /\ mode # "down" /\ r \in Nat \ {0} /\ r < nextRun /\ nextRun \in Nat /\ now \in Nat
        /\ exec[r] \in Exec /\ j \in Jobs /\ active[j] = r /\ j \in DOMAIN jobs
        /\ \A i \in Jobs : active[i] = r => i = j
    BY <1>1, <1>6, TasksTyped DEF CronInv
  <1>8. /\ jobs[j] \in Job /\ archive \in [Jobs -> Record] /\ fired[j] \in Nat /\ fired[j] <= now
        /\ archive[j] \in Record /\ exec[r].manual \in BOOLEAN
    BY <1>7, Known DEF Exec
  <1>9. /\ J \in Job /\ SameSchedule(J, jobs[j])
        /\ J.last /\ J.lastId = r /\ J.seen = archive[j].id
    <2>1. archive \in [Jobs -> Record] /\ j \in Jobs /\ jobs[j] \in Job /\ r \in Nat
      BY <1>7, <1>8
    <2> QED
      BY <1>2, <2>1, MarkedIs
  <1>10. /\ K \in Job /\ SameSchedule(K, J) /\ SameRuns(K, J) /\ K.retry = 0
    BY <1>3, <1>9, ClearedIs
  <1>11. J.seen <= archive[j].id /\ K.seen <= archive[j].id
    BY <1>8, <1>9, <1>10 DEF Record, SameRuns
  <1>12. CASE Settle(r, L, FALSE)
    <2>1. /\ L \in Job /\ L.kind = J.kind /\ L.at = J.at /\ L.life = J.life
          /\ L.next > now /\ SameRuns(L, J)
      BY <1>4, <1>7, <1>9, RetriedIs
    <2>2. L.next > fired[j]
      BY <1>7, <1>8, <2>1 DEF Job
    <2>3. Result(j, L, r, FALSE /\ ~exec[r].manual)
      BY <1>9, <1>11, <2>1, <2>2 DEF Result, SameSchedule, SameRuns
    <2> QED
      BY <1>1, <1>6, <1>12, <2>3, SettleInv
  <1>13. CASE Settle(r, M, TRUE)
    <2>1. SameSchedule(K, jobs[j]) /\ K.lastId = r
      BY <1>9, <1>10 DEF SameSchedule, SameRuns
    <2>2. Result(j, M, r, ~exec[r].manual)
      BY <1>5, <1>7, <1>8, <1>10, <1>11, <2>1, CountedResult
    <2>3. Result(j, M, r, TRUE /\ ~exec[r].manual)
      BY <2>2 DEF Result
    <2> QED
      BY <1>1, <1>6, <1>13, <2>3, SettleInv
  <1>14. CASE /\ jobs' = [jobs EXCEPT ![j] = K]
              /\ exec' = [exec EXCEPT ![r] = [exec[r] EXCEPT !.phase = "alert"]]
              /\ UNCHANGED <<now, mode, disk, archive, active, pass, timer, rival, nextRun,
                             bounds, fired, spent, owed>>
    <2> DEFINE T == [exec[r] EXCEPT !.phase = "alert"]
    <2>1. T \in Exec /\ T.job = j /\ T.phase = "alert"
      BY <1>1, <1>7 DEF Exec, Phases
    <2>2. exec' = [exec EXCEPT ![r] = T]
      BY <1>14
    <2> HIDE DEF T
    <2>3. /\ DOMAIN exec' = DOMAIN exec /\ exec' \in [DOMAIN exec -> Exec] /\ exec'[r] = T
          /\ \A s \in DOMAIN exec : s # r => exec'[s] = exec[s]
      BY <1>7, <2>1, <2>2 DEF CronTypeOK
    <2>4. /\ DOMAIN jobs' = DOMAIN jobs /\ jobs' \in [DOMAIN jobs -> Job]
          /\ jobs'[j] = K /\ \A i \in DOMAIN jobs : i # j => jobs'[i] = jobs[i]
      BY <1>7, <1>10, <1>14 DEF CronTypeOK
    <2>5. CronTypeOK'
      BY <1>7, <1>14, <2>3, <2>4 DEF CronTypeOK, bounds
    <2>6. RunInv'
      <3>1. ASSUME NEW s \in DOMAIN exec', exec'[s].phase \in {"body", "alert"}
            PROVE  active'[exec'[s].job] = s
        BY <1>7, <1>14, <2>1, <2>3, <3>1 DEF RunInv
      <3>2. ASSUME NEW i \in Jobs, active'[i] # 0
            PROVE  /\ exec'[active'[i]].job = i /\ exec'[active'[i]].phase # "publish"
                   /\ mode' = "stopping" => exec'[active'[i]].phase # "reserved"
        <4>1. CASE active[i] = r
          BY <1>7, <1>14, <2>1, <2>3, <4>1
        <4>2. CASE active[i] # r
          BY <1>7, <1>14, <2>3, <3>2, <4>2 DEF RunInv, CronTypeOK
        <4> QED
          BY <4>1, <4>2
      <3> QED
        BY <3>1, <3>2 DEF RunInv
    <2>7. DownInv' /\ OwedInv'
      BY <1>7, <1>14 DEF DownInv, OwedInv
    <2>8. ASSUME NEW i \in DOMAIN jobs' PROVE JobInv(i)'
      <3>1. i \in DOMAIN jobs /\ i \in Jobs
        BY <1>7, <2>4 DEF CronTypeOK
      <3>2. CASE i # j
        <4>1. JobInv(i) /\ Phase(i)' = Phase(i)
          BY <1>7, <1>14, <2>3, <3>1, <3>2 DEF Phase, CronTypeOK, CronInv
        <4> QED
          BY <1>7, <1>14, <2>4, <3>1, <3>2, <4>1, JobKept
      <3>3. CASE i = j
        <4>1. Phase(j)' = "alert" /\ Phase(j) = "body"
          BY <1>6, <1>7, <1>14, <2>1, <2>3 DEF Phase
        <4>2. History(j)'
          BY <1>7, <1>14 DEF JobInv, History
        <4>3. jobs[j] = disk[j] /\ disk'[j] = disk[j] /\ Sound(j, disk[j]) /\ disk[j] \in Job
          BY <1>7, <1>14, <4>1 DEF JobInv, InMemory, CronTypeOK
        <4>4. Sound(j, disk[j])'
          BY <1>7, <1>14, <4>1, <4>3 DEF Sound, Knows
        <4>5. /\ K.kind = disk[j].kind /\ K.at = disk[j].at /\ K.life = disk[j].life
              /\ K.next = disk[j].next /\ K.lastId = r /\ K.last /\ K.seen = archive[j].id
          BY <1>9, <1>10, <4>3 DEF SameSchedule, SameRuns
        <4>6. Sound(j, K)' /\ Noted(j, K)'
          BY <1>7, <1>10, <1>11, <1>14, <4>1, <4>3, <4>5 DEF Sound, Noted, Knows
        <4>7. InMemory(j)' /\ Sound(j, jobs[j])'
          BY <1>14, <2>4, <4>1, <4>5, <4>6 DEF InMemory, Noted, Sound, Knows
        <4>8. Unrecovered(j)' /\ SpentOver(j)'
          BY <1>7, <1>14 DEF JobInv, Unrecovered, SpentOver, Knows
        <4> QED
          BY <3>3, <4>2, <4>4, <4>7, <4>8 DEF JobInv
      <3> QED
        BY <3>2, <3>3
    <2>9. \A i \in Jobs \ DOMAIN jobs' : Fresh(i)'
      BY <1>14, <2>4 DEF CronInv, Fresh
    <2>10. StaysOff
      BY <1>9, <1>10, <2>4 DEF StaysOff, SameSchedule
    <2> QED
      BY <2>5, <2>6, <2>7, <2>8, <2>9, <2>10 DEF CronInv
  <1> QED
    BY <1>6, <1>12, <1>13, <1>14

LEMMA AlertEndsInv ==
    ASSUME CronInv, NEW r \in DOMAIN exec, AlertEnds(r)
    PROVE  CronInv' /\ StaysOff
  <1>1. PICK j : j = exec[r].job
    OBVIOUS
  <1>2. PICK M : M = IF exec[r].manual THEN jobs[j] ELSE Counted(jobs[j])
    OBVIOUS
  <1>3. exec[r].phase = "alert" /\ Settle(r, M, TRUE)
    BY <1>1, <1>2 DEF AlertEnds
  <1>4. /\ JobInv(j) /\ r # 0 /\ j \in Jobs /\ active[j] = r /\ j \in DOMAIN jobs
        /\ exec[r].manual \in BOOLEAN /\ jobs[j] \in Job
    BY <1>1, <1>3, TasksTyped, Known DEF CronInv, Exec
  <1>5. jobs[j].lastId = r /\ jobs[j].seen <= archive[j].id
    BY <1>3, <1>4 DEF JobInv, InMemory, Noted, Sound, Phase
  <1>6. SameSchedule(jobs[j], jobs[j])
    BY DEF SameSchedule
  <1>7. Result(j, M, r, ~exec[r].manual)
    BY <1>2, <1>4, <1>5, <1>6, CountedResult
  <1>8. Result(j, M, r, TRUE /\ ~exec[r].manual)
    BY <1>7 DEF Result
  <1> QED
    BY <1>1, <1>3, <1>8, SettleInv
-----------------------------------------------------------------------------
(* The scheduler pass.                                                     *)

\* A job as it is, or moved on to a later time.
Forwarded(K, J) ==
    /\ K \in Job /\ K.kind = J.kind /\ K.life = J.life /\ SameRuns(K, J) /\ K.retry = J.retry
    /\ K = J \/ (K.kind = "every" /\ K.next > now)

LEMMA JobForwarded ==
    ASSUME CronInv, mode # "down", NEW j \in DOMAIN jobs, NEW K, Forwarded(K, jobs[j]),
           K.kind = "every" /\ K.next > now, (jobs')[j] = K, (disk')[j] = K,
           archive'[j] = archive[j], active'[j] = active[j],
           Phase(j)' = "alert" <=> Phase(j) = "alert",
           fired'[j] = fired[j], spent'[j] = spent[j], mode' # "down",
           now' = now, nextRun' \in Nat, nextRun' >= nextRun
    PROVE  JobInv(j)'
  <1>1. /\ JobInv(j) /\ nextRun \in Nat /\ now \in Nat /\ archive[j] \in Record
        /\ fired[j] \in Nat /\ fired[j] <= now /\ active[j] \in Nat /\ jobs[j] \in Job
    BY Known DEF CronInv, CronTypeOK
  <1>2. /\ K \in Job /\ SameRuns(K, jobs[j]) /\ K.retry = jobs[j].retry
    BY DEF Forwarded
  <1>3. History(j)'
    BY <1>1 DEF JobInv, History, Record
  <1>4. K.next > fired[j]
    BY <1>1, <1>2 DEF Job
  <1>5. Sound(j, jobs[j]) /\ Noted(j, jobs[j])
    BY <1>1 DEF JobInv, InMemory
  <1>6. Sound(j, K)'
    BY <1>1, <1>2, <1>4, <1>5 DEF Sound, Knows, SameRuns, Job
  <1>7. Noted(j, K)'
    BY <1>2, <1>5 DEF Noted, SameRuns
  <1> QED
    BY <1>3, <1>6, <1>7, JobSaved

LEMMA LoopInv ==
    ASSUME CronInv, pass.on # "idle", NEW due \in SUBSET Jobs, NEW js, DOMAIN js = DOMAIN jobs,
           js \in [DOMAIN jobs -> Job], \A j \in DOMAIN jobs : Forwarded(js[j], jobs[j]),
           Loop(js, due)
    PROVE  CronInv'
  <1> DEFINE ready == {j \in due \cap DOMAIN js : Runnable(j, js[j])}
  <1>1. CronTypeOK /\ RunInv /\ OwedInv /\ now \in Nat /\ nextRun \in Nat \ {0} /\ mode # "down"
    BY DEF CronInv, CronTypeOK, DownInv
  <1>2. CASE /\ mode = "up" /\ UNCHANGED mode /\ UNCHANGED timer
             /\ UNCHANGED <<now, archive, rival, bounds, spent>>
             /\ \E j \in ready, over \in SUBSET (due \ ready) :
                  /\ jobs' = [js EXCEPT ![j] = Advanced(js[j])]
                  /\ SaveAdvanced
                  /\ Reserve(j, js[j], FALSE, "body")
                  /\ pass' = [on |-> "loop", due |-> due \ ({j} \cup over), cur |-> nextRun]
                  /\ fired' = [fired EXCEPT ![j] = js[j].next]
    <2>1. PICK j \in ready, over \in SUBSET (due \ ready) :
                  /\ jobs' = [js EXCEPT ![j] = Advanced(js[j])]
                  /\ SaveAdvanced
                  /\ Reserve(j, js[j], FALSE, "body")
                  /\ pass' = [on |-> "loop", due |-> due \ ({j} \cup over), cur |-> nextRun]
                  /\ fired' = [fired EXCEPT ![j] = js[j].next]
      BY <1>2
    <2>2. PICK K : K = Advanced(js[j])
      OBVIOUS
    <2> DEFINE J == js[j]
    <2>3. /\ j \in DOMAIN jobs /\ j \in Jobs /\ J \in Job /\ Forwarded(J, jobs[j])
          /\ J.next \in Nat /\ J.next <= now /\ active[j] = 0
      BY <1>1 DEF Runnable, DueNow, CronTypeOK, Job
    <2>4. J = jobs[j] /\ jobs[j] = disk[j]
      <3>1. J = jobs[j]
        BY <1>1, <2>3 DEF Forwarded
      <3>2. JobInv(j) /\ Phase(j) = "none"
        BY <2>3 DEF CronInv, Phase
      <3> QED
        BY <3>1, <3>2 DEF JobInv, InMemory
    <2>5. /\ K \in Job /\ K.kind = J.kind /\ K.life = J.life /\ SameRuns(K, J)
          /\ (J.kind = "every" => K.next > now) /\ (J.kind # "every" => K = J)
      BY <1>1, <2>2, <2>3, AdvancedIs
    <2> HIDE DEF J
    <2>6. /\ DOMAIN jobs' = DOMAIN jobs /\ jobs' \in [DOMAIN jobs -> Job] /\ jobs'[j] = K
          /\ \A i \in DOMAIN jobs : i # j => jobs'[i] = js[i]
      BY <2>1, <2>2, <2>3, <2>5
    <2>7. disk' = jobs' \/ (disk' = disk /\ jobs' = jobs)
      BY <2>1 DEF SaveAdvanced
    <2>8. disk' \in [DOMAIN jobs -> Job] /\ disk'[j] = K
      BY <1>1, <2>4, <2>6, <2>7 DEF CronTypeOK
    <2>9. /\ fired' \in [Jobs -> Nat] /\ fired'[j] = J.next
          /\ \A i \in Jobs : i # j => fired'[i] = fired[i]
      BY <1>1, <2>1, <2>3 DEF CronTypeOK, J
    <2>10. /\ mode = "up" /\ mode' = "up" /\ FALSE \in BOOLEAN /\ Reserve(j, J, FALSE, "body")
           /\ now' = now /\ archive' = archive /\ spent' = spent
      BY <1>2, <2>1 DEF J
    <2>11. /\ active' \in [Jobs -> Nat] /\ exec' \in [DOMAIN exec' -> Exec]
           /\ nextRun' = nextRun + 1 /\ DOMAIN exec' \subseteq 1..(nextRun' - 1)
           /\ \A i \in Jobs : active'[i] # 0 => active'[i] \in DOMAIN exec' /\ i \in DOMAIN jobs'
           /\ owed' \subseteq Nat
      BY <1>1, <2>3, <2>6, <2>10, ReserveRun
    <2>12. RunInv' /\ OwedInv' /\ active'[j] = nextRun /\ Phase(j)' = "body"
      BY <1>1, <2>3, <2>6, <2>10, ReserveRun
    <2>13. \A r \in DOMAIN exec : exec'[r] = exec[r]
      BY <1>1, <2>3, <2>6, <2>10, ReserveRun
    <2>14. \A i \in Jobs : i # j => active'[i] = active[i]
      BY <1>1, <2>3, <2>6, <2>10, ReserveRun
    <2>15. pass' \in [on : {"idle", "begin", "loop"}, due : SUBSET Jobs, cur : Nat]
      BY <1>1, <2>1
    <2>16. CronTypeOK'
      BY <1>1, <1>2, <2>6, <2>8, <2>9, <2>11, <2>15 DEF CronTypeOK, bounds
    <2>17. DownInv'
      BY <2>10 DEF DownInv
    <2>18. ASSUME NEW i \in DOMAIN jobs' PROVE JobInv(i)'
      <3>1. i \in DOMAIN jobs /\ i \in Jobs /\ Forwarded(js[i], jobs[i])
        BY <1>1, <2>6 DEF CronTypeOK
      <3>2. CASE i = j
        <4>1. fired'[j] \in Nat /\ fired'[j] <= now'
              /\ (K.kind = "every" /\ K.next # 0 => K.next > fired'[j])
          BY <1>1, <2>3, <2>5, <2>9, <2>10 DEF Job
        <4>2. spent'[j] /\ K.kind = "at" => K.life # "scheduled"
          BY <1>1, <2>3, <2>4, <2>5, <2>10, Known
        <4>3. SameRuns(K, jobs[j])
          BY <2>4, <2>5
        <4> QED
          BY <2>3, <2>5, <2>6, <2>8, <2>10, <2>11, <2>12, <3>2, <4>1, <4>2, <4>3, StartedJob
      <3>3. CASE i # j
        <4>1. Phase(i)' = Phase(i)
          BY <1>1, <2>13, <2>14, <3>1, <3>3 DEF Phase, CronTypeOK
        <4>2. jobs'[i] = js[i] /\ nextRun' \in Nat /\ nextRun' >= nextRun
          BY <1>1, <2>6, <2>11, <3>1, <3>3
        <4>3. CASE js[i] = jobs[i]
          <5>1. disk'[i] \in {disk[i], jobs[i]}
            BY <2>7, <4>2, <4>3
          <5> QED
            BY <1>1, <2>9, <2>10, <2>14, <3>1, <3>3, <4>1, <4>2, <4>3, <5>1, JobFlushed
        <4>4. CASE js[i] # jobs[i]
          <5>1. PICK F : F = js[i]
            OBVIOUS
          <5>2. (disk')[i] = F /\ (jobs')[i] = F
            BY <2>7, <4>2, <4>4, <5>1
          <5>3. Forwarded(F, jobs[i]) /\ F.kind = "every" /\ F.next > now
            BY <3>1, <4>4, <5>1 DEF Forwarded
          <5> QED
            BY <1>1, <2>9, <2>10, <2>14, <3>1, <3>3, <4>1, <4>2, <5>2, <5>3, JobForwarded
        <4> QED
          BY <4>3, <4>4
      <3> QED
        BY <3>2, <3>3
    <2>19. \A i \in Jobs \ DOMAIN jobs' : Fresh(i)'
      <3>1. ASSUME NEW i \in Jobs \ DOMAIN jobs' PROVE Fresh(i)'
        BY <2>3, <2>6, <2>9, <2>10 DEF CronInv, Fresh
      <3> QED
        BY <3>1
    <2> QED
      BY <2>12, <2>16, <2>17, <2>18, <2>19 DEF CronInv
  <1>3. CASE /\ jobs' = js /\ disk' = js /\ pass' = Idle
             /\ UNCHANGED <<mode, active, exec, nextRun, owed, fired>>
             /\ UNCHANGED <<now, archive, rival, bounds, spent>>
             /\ Arm
    <2>1. DOMAIN jobs' = DOMAIN jobs /\ jobs' \in [DOMAIN jobs' -> Job] /\ disk' = jobs'
      BY <1>3
    <2>2. timer' \in Nat
      BY <1>3, <2>1, ArmTyped
    <2>3. pass' \in [on : {"idle", "begin", "loop"}, due : SUBSET Jobs, cur : Nat]
      BY <1>3 DEF Idle
    <2>4. CronTypeOK'
      BY <1>1, <1>3, <2>1, <2>2, <2>3 DEF CronTypeOK, bounds
    <2>5. RunInv' /\ DownInv' /\ OwedInv'
      BY <1>1, <1>3 DEF RunInv, DownInv, OwedInv
    <2>6. ASSUME NEW i \in DOMAIN jobs' PROVE JobInv(i)'
      <3>1. i \in DOMAIN jobs /\ i \in Jobs /\ Forwarded(js[i], jobs[i]) /\ Phase(i)' = Phase(i)
        BY <1>1, <1>3, <2>1 DEF CronTypeOK, Phase
      <3>2. PICK F : F = js[i]
        OBVIOUS
      <3>3. CASE F = jobs[i]
        <4>1. /\ jobs'[i] = jobs[i] /\ disk'[i] \in {disk[i], jobs[i]} /\ archive'[i] = archive[i]
              /\ active'[i] = active[i] /\ fired'[i] = fired[i] /\ spent'[i] = spent[i]
              /\ mode' # "down" /\ now' = now /\ nextRun' = nextRun
          BY <1>1, <1>3, <3>2, <3>3
        <4> QED
          BY <1>1, <3>1, <4>1, JobFlushed
      <3>4. CASE F # jobs[i]
        <4>1. Forwarded(F, jobs[i]) /\ F.kind = "every" /\ F.next > now
          BY <3>1, <3>2, <3>4 DEF Forwarded
        <4> QED
          BY <1>1, <1>3, <3>1, <3>2, <4>1, JobForwarded
      <3> QED
        BY <3>3, <3>4
    <2>7. \A i \in Jobs \ DOMAIN jobs' : Fresh(i)'
      BY <1>3, <2>1 DEF CronInv, Fresh
    <2> QED
      BY <2>4, <2>5, <2>6, <2>7 DEF CronInv
  <1> QED
    BY <1>2, <1>3 DEF Loop

\* The jobs a pass begins with.
LEMMA ForwardedAll ==
    ASSUME CronInv
    PROVE  LET js == [j \in DOMAIN jobs |-> FastForward(jobs[j])]
           IN  /\ DOMAIN js = DOMAIN jobs /\ js \in [DOMAIN jobs -> Job]
               /\ {j \in DOMAIN js : DueNow(js[j])} \in SUBSET Jobs
               /\ \A j \in DOMAIN jobs : Forwarded(js[j], jobs[j])
  <1>1. CronTypeOK /\ now \in Nat
    BY DEF CronInv, CronTypeOK
  <1>2. ASSUME NEW j \in DOMAIN jobs
        PROVE  FastForward(jobs[j]) \in Job /\ Forwarded(FastForward(jobs[j]), jobs[j])
    <2>1. jobs[j] \in Job
      BY <1>1 DEF CronTypeOK
    <2> QED
      BY <1>1, <2>1, FastForwardIs DEF Forwarded
  <1> QED
    BY <1>1, <1>2 DEF CronTypeOK

LEMMA PassInv ==
    ASSUME CronInv, PassStep
    PROVE  CronInv'
  <1>1. CronTypeOK /\ RunInv /\ DownInv /\ OwedInv /\ now \in Nat /\ nextRun \in Nat
    BY DEF CronInv, CronTypeOK
  <1>2. CASE \/ TimerFires
             \/ /\ pass.on = "begin" /\ pass' = Idle
                /\ UNCHANGED <<now, mode, jobs, disk, archive, active, exec, timer, rival,
                               nextRun, bounds, fired, spent, owed>>
    <2> DEFINE Passes == [on : {"idle", "begin", "loop"}, due : SUBSET Jobs, cur : Nat]
    <2>1. /\ UNCHANGED <<now, mode, jobs, disk, archive, active, exec, rival,
                         nextRun, bounds, fired, spent, owed>>
          /\ timer' \in Nat /\ mode # "down"
          /\ pass' \in Passes
      <3>1. timer \in Nat /\ pass \in Passes /\ Idle \in Passes
        BY <1>1 DEF CronTypeOK, Idle
      <3>2. CASE TimerFires
        <4>1. pass' = pass \/ pass' = [pass EXCEPT !.on = "begin"]
          BY <3>2 DEF TimerFires
        <4>2. pass' \in Passes
          BY <3>1, <4>1
        <4> QED
          BY <3>2, <4>2 DEF TimerFires
      <3>3. CASE /\ pass.on = "begin" /\ pass' = Idle
                 /\ UNCHANGED <<now, mode, jobs, disk, archive, active, exec, timer, rival,
                                nextRun, bounds, fired, spent, owed>>
        BY <1>1, <3>1, <3>3 DEF DownInv
      <3> QED
        BY <1>2, <3>2, <3>3
    <2>2. CronTypeOK' /\ RunInv' /\ DownInv' /\ OwedInv'
      BY <1>1, <2>1 DEF CronTypeOK, RunInv, DownInv, OwedInv, bounds
    <2>3. ASSUME NEW j \in DOMAIN jobs' PROVE JobInv(j)'
      <3>1. j \in DOMAIN jobs /\ JobInv(j) /\ Phase(j)' = Phase(j)
        BY <2>1 DEF CronInv, Phase
      <3> QED
        BY <1>1, <2>1, <3>1, JobKept
    <2>4. \A j \in Jobs \ DOMAIN jobs' : Fresh(j)'
      BY <2>1 DEF CronInv, Fresh
    <2> QED
      BY <2>2, <2>3, <2>4 DEF CronInv
  <1>3. CASE PassBegins /\ ~rival
    <2> DEFINE js == [j \in DOMAIN jobs |-> FastForward(jobs[j])]
               due == {j \in DOMAIN js : DueNow(js[j])}
    <2>1. pass.on = "begin" /\ Loop(js, due)
      BY <1>3 DEF PassBegins
    <2>2. DOMAIN js = DOMAIN jobs /\ js \in [DOMAIN jobs -> Job] /\ due \in SUBSET Jobs
          /\ \A j \in DOMAIN jobs : Forwarded(js[j], jobs[j])
      BY ForwardedAll
    <2> HIDE DEF js, due
    <2> QED
      BY <2>1, <2>2, LoopInv
  <1>4. CASE PassGoesOn
    <2>1. pass.on = "loop" /\ Loop(jobs, pass.due) /\ pass.due \in SUBSET Jobs
      BY <1>1, <1>4 DEF PassGoesOn, CronTypeOK
    <2>2. \A j \in DOMAIN jobs : Forwarded(jobs[j], jobs[j])
      BY <1>1 DEF Forwarded, SameRuns, CronTypeOK
    <2>3. jobs \in [DOMAIN jobs -> Job]
      BY <1>1 DEF CronTypeOK
    <2> QED
      BY <2>1, <2>2, <2>3, LoopInv
  <1> QED
    BY <1>2, <1>3, <1>4 DEF PassStep, PassBegins
-----------------------------------------------------------------------------
(* Shutdown, crash and restart.                                            *)

\* A step that cancels runs: what it does to every job.
Hit(j, phases) == active[j] # 0 /\ Phase(j) \in phases

LEMMA CancelRunsIs ==
    ASSUME CronInv, NEW phases, CancelRuns(phases)
    PROVE  /\ DOMAIN jobs' = DOMAIN jobs /\ jobs' \in [DOMAIN jobs -> Job]
           /\ disk' = jobs' \/ (disk' = disk /\ jobs' = jobs)
           /\ archive' \in [Jobs -> Record] /\ spent' \in [Jobs -> BOOLEAN]
           /\ active' \in [Jobs -> Nat] /\ owed' \subseteq owed /\ OwedInv'
           /\ \A j \in Jobs : Hit(j, phases) => /\ j \in DOMAIN jobs
                                                /\ active'[j] = 0
                                                /\ archive'[j] = RecordOf(active[j], jobs'[j])
                                                /\ disk' = jobs'
                                                /\ Result(j, jobs'[j], active[j], spent'[j])
           /\ \A j \in Jobs : ~Hit(j, phases) => /\ active'[j] = active[j]
                                                 /\ archive'[j] = archive[j] /\ spent'[j] = spent[j]
                                                 /\ j \in DOMAIN jobs => jobs'[j] = jobs[j]
  <1> DEFINE hit == {j \in DOMAIN jobs : active[j] # 0 /\ exec[active[j]].phase \in phases}
             new == [j \in DOMAIN jobs |->
                       IF j \in hit THEN Cancelled(jobs[j], active[j], exec[active[j]]) ELSE jobs[j]]
  <1>1. /\ jobs' = new /\ disk' = IF hit = {} THEN disk ELSE new
        /\ archive' = [j \in Jobs |-> IF j \in hit THEN RecordOf(active[j], new[j]) ELSE archive[j]]
        /\ spent' = [j \in Jobs |-> spent[j] \/ (j \in hit /\ ~exec[active[j]].manual)]
        /\ active' = [j \in Jobs |-> IF j \in hit THEN 0 ELSE active[j]]
        /\ owed' = owed \ {active[j] : j \in hit}
    BY DEF CancelRuns
  <1>2. CronTypeOK /\ OwedInv
    BY DEF CronInv
  <1>3. DOMAIN jobs \subseteq Jobs
        /\ \A j \in Jobs : j \in hit <=> Hit(j, phases)
    BY <1>2 DEF CronTypeOK, Hit, Phase
  <1>4. ASSUME NEW j \in hit
        PROVE  /\ new[j] \in Job /\ new[j].last /\ new[j].lastId = active[j]
               /\ new[j].seen = archive[j].id /\ SameOrOver(new[j], jobs[j])
               /\ ~exec[active[j]].manual /\ jobs[j].kind = "at" => new[j].life = "completed"
               /\ active[j] \in Nat /\ j \in Jobs /\ j \in DOMAIN jobs /\ archive[j] \in Record
               /\ exec[active[j]].manual \in BOOLEAN
    <2>1. /\ j \in DOMAIN jobs /\ j \in Jobs /\ active[j] \in DOMAIN exec /\ active[j] \in Nat
          /\ jobs[j] \in Job /\ archive \in [Jobs -> Record]
      BY <1>2, <1>3 DEF CronTypeOK
    <2>2. exec[active[j]] \in Exec /\ exec[active[j]].job = j
      BY <2>1, TasksTyped
    <2>3. new[j] = Cancelled(jobs[j], active[j], exec[active[j]])
      BY <2>1
    <2> HIDE DEF hit, new
    <2> QED
      BY <2>1, <2>2, <2>3, CancelledIs DEF Exec
  <1>5. /\ DOMAIN new = DOMAIN jobs /\ new = [j \in DOMAIN jobs |-> new[j]]
        /\ \A j \in DOMAIN jobs : j \notin hit => new[j] = jobs[j]
    OBVIOUS
  <1>6. new \in [DOMAIN jobs -> Job]
    <2>1. \A j \in DOMAIN jobs : new[j] \in Job
      BY <1>2, <1>4, <1>5 DEF CronTypeOK
    <2> HIDE DEF hit, new
    <2> QED
      BY <1>5, <2>1
  <1>7. disk' = jobs' \/ (disk' = disk /\ jobs' = jobs)
    <2>1. hit = {} => new = jobs
      <3>1. jobs = [j \in DOMAIN jobs |-> jobs[j]]
        BY <1>2 DEF CronTypeOK
      <3> QED
        BY <3>1
    <2> HIDE DEF hit, new
    <2> QED
      BY <1>1, <2>1
  <1>8. OwedInv' /\ owed' \subseteq owed
    <2>1. ASSUME NEW r \in owed' PROVE r # 0 /\ \E j \in Jobs : active'[j] = r
      <3>1. PICK j \in Jobs : active[j] = r /\ r # 0
        BY <1>1, <1>2, <2>1 DEF OwedInv
      <3>2. j \notin hit
        BY <1>1, <3>1
      <3> HIDE DEF hit
      <3> QED
        BY <1>1, <3>1, <3>2
    <2> QED
      BY <1>1, <2>1 DEF OwedInv
  <1>9. archive' \in [Jobs -> Record] /\ spent' \in [Jobs -> BOOLEAN] /\ active' \in [Jobs -> Nat]
    <2>1. ASSUME NEW j \in Jobs PROVE (IF j \in hit THEN RecordOf(active[j], new[j]) ELSE archive[j]) \in Record
      BY <1>2, <1>4, RecordTyped DEF CronTypeOK
    <2> HIDE DEF hit, new
    <2>2. archive' \in [Jobs -> Record]
      BY <1>1, <2>1
    <2>3. spent' \in [Jobs -> BOOLEAN]
      BY <1>1
    <2>4. active' \in [Jobs -> Nat]
      BY <1>1, <1>2 DEF CronTypeOK
    <2> QED
      BY <2>2, <2>3, <2>4
  <1>10. ASSUME NEW j \in hit
         PROVE  /\ j \in DOMAIN jobs /\ active'[j] = 0
                /\ archive'[j] = RecordOf(active[j], jobs'[j]) /\ disk' = jobs'
                /\ Result(j, jobs'[j], active[j], spent'[j])
    <2>1. hit # {}
      OBVIOUS
    <2>2. /\ jobs[j].kind = "every" /\ jobs[j].next # 0 => jobs[j].next > fired[j]
          /\ spent[j] /\ jobs[j].kind = "at" => jobs[j].life # "scheduled"
      <3>1. mode # "down"
        BY <1>4 DEF CronInv, DownInv
      <3> QED
        BY <1>4, <3>1, Known
    <2> HIDE DEF new
    <2>3. spent'[j] = (spent[j] \/ ~exec[active[j]].manual)
      BY <1>1, <1>4, <1>9
    <2> HIDE DEF hit
    <2>4. new[j].seen <= archive[j].id
      BY <1>4 DEF Record
    <2>5. Result(j, new[j], active[j], spent'[j])
      BY <1>4, <2>2, <2>3, <2>4 DEF Result, SameOrOver
    <2> QED
      BY <1>1, <1>4, <2>1, <2>5
  <1>11. ASSUME NEW j \in Jobs, j \notin hit
         PROVE  /\ active'[j] = active[j] /\ archive'[j] = archive[j] /\ spent'[j] = spent[j]
                /\ j \in DOMAIN jobs => jobs'[j] = jobs[j]
    <2> HIDE DEF hit, new
    <2>1. spent[j] \in BOOLEAN
      BY <1>2 DEF CronTypeOK
    <2> QED
      BY <1>1, <1>5, <1>11, <2>1
  <1> HIDE DEF hit, new
  <1> QED
    BY <1>1, <1>3, <1>5, <1>6, <1>7, <1>8, <1>9, <1>10, <1>11
LEMMA CancelledJob ==
    ASSUME CronInv, NEW phases, CancelRuns(phases), NEW j \in Jobs, Hit(j, phases),
           UNCHANGED <<now, nextRun, fired>>
    PROVE  JobInv(j)'
  <1>1. PICK K : K = jobs'[j]
    OBVIOUS
  <1>2. /\ j \in DOMAIN jobs /\ active'[j] = 0 /\ disk' = jobs'
        /\ archive'[j] = RecordOf(active[j], K) /\ Result(j, K, active[j], spent'[j])
    BY <1>1, CancelRunsIs
  <1>3. /\ K \in Job /\ K.lastId = active[j] /\ K.seen <= archive[j].id
        /\ (K.kind = "every" /\ K.next # 0 => K.next > fired[j])
        /\ (spent'[j] /\ K.kind = "at" => K.life # "scheduled")
    BY <1>2 DEF Result
  <1>4. /\ JobInv(j) /\ active[j] # 0 /\ active[j] \in Nat /\ active[j] < nextRun
        /\ nextRun \in Nat /\ archive[j] \in Record
    BY <1>2 DEF CronInv, CronTypeOK, Hit
  <1>5. archive'[j].id = active[j] /\ Phase(j)' = "none"
    BY <1>2, <1>3, <1>4, RecordTyped DEF Phase
  <1>6. History(j)'
    BY <1>2, <1>4, <1>5 DEF JobInv, History
  <1>7. Sound(j, K)' /\ Noted(j, K)' /\ Knows(j, K)'
    BY <1>2, <1>3, <1>4, <1>5 DEF JobInv, History, Sound, Noted, Knows, Record, Job
  <1>8. (jobs')[j] = K /\ (disk')[j] = K
    BY <1>1, <1>2
  <1> QED
    BY <1>3, <1>6, <1>7, <1>8, JobSaved

LEMMA ShutdownInv ==
    ASSUME CronInv, Shutdown
    PROVE  CronInv'
  <1>1. /\ mode = "up" /\ mode' = "stopping" /\ timer' = 0 /\ CancelRuns({"reserved"})
        /\ UNCHANGED <<now, exec, pass, rival, nextRun, bounds, fired>>
    BY DEF Shutdown, StopPhases
  <1>2. CronTypeOK /\ RunInv /\ OwedInv /\ now \in Nat /\ nextRun \in Nat
    BY DEF CronInv, CronTypeOK
  <1>3. /\ DOMAIN jobs' = DOMAIN jobs /\ jobs' \in [DOMAIN jobs -> Job]
        /\ disk' = jobs' \/ (disk' = disk /\ jobs' = jobs)
        /\ archive' \in [Jobs -> Record] /\ spent' \in [Jobs -> BOOLEAN]
        /\ active' \in [Jobs -> Nat] /\ owed' \subseteq owed /\ OwedInv'
    BY <1>1, CancelRunsIs
  <1>4. \A j \in Jobs : Hit(j, {"reserved"}) => active'[j] = 0
    BY <1>1, CancelRunsIs
  <1>5. \A j \in Jobs : ~Hit(j, {"reserved"}) =>
           /\ active'[j] = active[j] /\ archive'[j] = archive[j] /\ spent'[j] = spent[j]
           /\ j \in DOMAIN jobs => jobs'[j] = jobs[j]
    BY <1>1, CancelRunsIs
  <1>6. disk' \in [DOMAIN jobs -> Job]
    BY <1>2, <1>3 DEF CronTypeOK
  <1>7. \A j \in Jobs : active'[j] # 0 => active'[j] = active[j] /\ ~Hit(j, {"reserved"})
    BY <1>4, <1>5
  <1>8. CronTypeOK'
    BY <1>1, <1>2, <1>3, <1>6, <1>7 DEF CronTypeOK, bounds
  <1>9. RunInv'
    <2>1. ASSUME NEW j \in Jobs, active'[j] # 0
          PROVE  /\ exec'[active'[j]].job = j /\ exec'[active'[j]].phase # "publish"
                 /\ exec'[active'[j]].phase # "reserved"
      BY <1>1, <1>2, <1>7, <2>1 DEF RunInv, Hit, Phase
    <2>2. ASSUME NEW r \in DOMAIN exec', exec'[r].phase \in {"body", "alert"}
          PROVE  active'[exec'[r].job] = r
      <3>1. /\ exec' = exec /\ exec[r].job \in Jobs /\ active[exec[r].job] = r
        BY <1>1, <1>2, <2>2 DEF RunInv, CronTypeOK, Exec
      <3>2. ~Hit(exec[r].job, {"reserved"})
        BY <2>2, <3>1 DEF Hit, Phase
      <3> QED
        BY <1>5, <3>1, <3>2
    <2> QED
      BY <2>1, <2>2 DEF RunInv
  <1>10. DownInv'
    BY <1>1 DEF DownInv
  <1>11. ASSUME NEW j \in DOMAIN jobs' PROVE JobInv(j)'
    <2>1. j \in DOMAIN jobs /\ j \in Jobs
      BY <1>2, <1>3 DEF CronTypeOK
    <2>2. CASE Hit(j, {"reserved"})
      BY <1>1, <2>1, <2>2, CancelledJob
    <2>3. CASE ~Hit(j, {"reserved"})
      <3>1. /\ active'[j] = active[j] /\ archive'[j] = archive[j] /\ spent'[j] = spent[j]
            /\ jobs'[j] = jobs[j] /\ disk'[j] \in {disk[j], jobs[j]}
        BY <1>3, <1>5, <2>1, <2>3
      <3>2. Phase(j)' = Phase(j) /\ fired'[j] = fired[j] /\ mode # "down" /\ mode' # "down"
            /\ now' = now /\ nextRun' = nextRun
        BY <1>1, <3>1 DEF Phase
      <3> QED
        BY <1>2, <2>1, <3>1, <3>2, JobFlushed
    <2> QED
      BY <2>2, <2>3
  <1>12. ASSUME NEW j \in Jobs \ DOMAIN jobs' PROVE Fresh(j)'
    <2>1. ~Hit(j, {"reserved"}) /\ Fresh(j)
      BY <1>2, <1>3 DEF CronInv, CronTypeOK, Hit
    <2> QED
      BY <1>1, <1>5, <2>1 DEF Fresh
  <1> QED
    BY <1>3, <1>8, <1>9, <1>10, <1>11, <1>12 DEF CronInv

LEMMA GraceEndsInv ==
    ASSUME CronInv, GraceEnds
    PROVE  CronInv'
  <1> DEFINE Late == {"body", "alert"}
  <1>1. /\ mode = "stopping" /\ mode' = "down" /\ CancelRuns(Late)
        /\ exec' = << >> /\ pass' = Idle /\ timer' = 0
        /\ UNCHANGED <<now, rival, nextRun, bounds, fired>>
    BY DEF GraceEnds
  <1> HIDE DEF Late
  <1>2. CronTypeOK /\ RunInv /\ OwedInv /\ now \in Nat /\ nextRun \in Nat
    BY DEF CronInv, CronTypeOK
  <1>3. /\ DOMAIN jobs' = DOMAIN jobs /\ jobs' \in [DOMAIN jobs -> Job]
        /\ disk' = jobs' \/ (disk' = disk /\ jobs' = jobs)
        /\ archive' \in [Jobs -> Record] /\ spent' \in [Jobs -> BOOLEAN]
        /\ active' \in [Jobs -> Nat] /\ owed' \subseteq owed /\ OwedInv'
    BY <1>1, CancelRunsIs
  <1>4. \A j \in Jobs : Hit(j, Late) => active'[j] = 0 /\ j \in DOMAIN jobs /\ disk' = jobs'
    BY <1>1, CancelRunsIs
  <1>5. \A j \in Jobs : ~Hit(j, Late) =>
           /\ active'[j] = active[j] /\ archive'[j] = archive[j] /\ spent'[j] = spent[j]
           /\ j \in DOMAIN jobs => jobs'[j] = jobs[j]
    BY <1>1, CancelRunsIs
  <1>6. ASSUME NEW j \in Jobs, ~Hit(j, Late) PROVE active[j] = 0
    <2>1. SUFFICES ASSUME active[j] # 0 PROVE FALSE
      OBVIOUS
    <2>2. /\ exec[active[j]] \in Exec /\ exec[active[j]].phase # "publish"
          /\ exec[active[j]].phase # "reserved"
      BY <1>1, <1>2, <2>1 DEF RunInv, CronTypeOK
    <2>3. exec[active[j]].phase \in Late
      BY <2>2 DEF Exec, Phases, Late
    <2> QED
      BY <1>6, <2>1, <2>3 DEF Hit, Phase
  <1>7. \A j \in Jobs : active'[j] = 0
    BY <1>4, <1>5, <1>6
  <1>8. disk' = jobs'
    <2>1. CASE \E j \in Jobs : Hit(j, Late)
      BY <1>4, <2>1
    <2>2. CASE /\ \A j \in Jobs : ~Hit(j, Late)
               /\ disk' = disk /\ jobs' = jobs
      <3>1. \A j \in DOMAIN jobs : jobs[j] = disk[j]
        <4>1. ASSUME NEW j \in DOMAIN jobs PROVE jobs[j] = disk[j]
          <5>1. j \in Jobs /\ active[j] = 0
            BY <1>2, <1>6, <2>2 DEF CronTypeOK
          <5> QED
            BY <5>1 DEF CronInv, JobInv, InMemory, Phase
        <4> QED
          BY <4>1
      <3>2. jobs \in [DOMAIN jobs -> Job] /\ disk \in [DOMAIN jobs -> Job]
        BY <1>2 DEF CronTypeOK
      <3>3. jobs = disk
        BY <3>1, <3>2
      <3> QED
        BY <2>2, <3>3
    <2> QED
      BY <1>3, <2>1, <2>2
  <1>9. DOMAIN exec' = {} /\ exec' \in [DOMAIN exec' -> Exec]
    BY <1>1, NoTasks
  <1>10. pass'.on = "idle" /\ pass' \in [on : {"idle", "begin", "loop"}, due : SUBSET Jobs, cur : Nat]
    BY <1>1 DEF Idle
  <1>11. CronTypeOK'
    BY <1>1, <1>2, <1>3, <1>7, <1>8, <1>9, <1>10 DEF CronTypeOK, bounds
  <1>12. RunInv' /\ DownInv'
    BY <1>7, <1>8, <1>9, <1>10 DEF RunInv, DownInv
  <1>13. ASSUME NEW j \in DOMAIN jobs' PROVE JobInv(j)'
    <2>1. j \in DOMAIN jobs /\ j \in Jobs
      BY <1>2, <1>3 DEF CronTypeOK
    <2>2. CASE Hit(j, Late)
      BY <1>1, <2>1, <2>2, CancelledJob
    <2>3. CASE ~Hit(j, Late)
      <3>1. active[j] = 0 /\ JobInv(j)
        BY <1>6, <2>1, <2>3 DEF CronInv
      <3>2. jobs[j] = disk[j]
        BY <3>1 DEF JobInv, InMemory, Phase
      <3>3. /\ jobs'[j] = disk[j] /\ disk'[j] = disk[j] /\ archive'[j] = archive[j]
            /\ active'[j] = 0 /\ spent'[j] = spent[j] /\ fired'[j] = fired[j]
        BY <1>1, <1>5, <1>7, <1>8, <2>1, <2>3, <3>2
      <3> QED
        BY <1>1, <1>2, <2>1, <3>1, <3>3, JobLost
    <2> QED
      BY <2>2, <2>3
  <1>14. ASSUME NEW j \in Jobs \ DOMAIN jobs' PROVE Fresh(j)'
    <2>1. ~Hit(j, Late) /\ Fresh(j)
      BY <1>3, <1>4 DEF CronInv
    <2> QED
      BY <1>1, <1>5, <2>1 DEF Fresh
  <1> QED
    BY <1>3, <1>11, <1>12, <1>13, <1>14 DEF CronInv

LEMMA LostInv ==
    ASSUME CronInv, Drained \/ Crash
    PROVE  CronInv'
  <1>1. CronTypeOK /\ RunInv /\ OwedInv /\ mode # "down"
    BY DEF CronInv, Drained, Crash
  <1>2. owed' = {}
    <2>1. CASE Drained
      <3>1. ASSUME NEW r \in owed PROVE FALSE
        <4>1. PICK j \in Jobs : active[j] = r /\ r # 0
          BY <1>1 DEF OwedInv
        <4>2. r \in DOMAIN exec /\ exec[r].phase # "reserved"
          BY <1>1, <2>1, <4>1 DEF RunInv, CronTypeOK, Drained
        <4> QED
          BY <2>1, <4>2 DEF Drained, Pending
      <3> QED
        BY <2>1, <3>1 DEF Drained
    <2> QED
      BY <2>1 DEF Crash
  <1>3. /\ LoseMemory /\ disk' = disk /\ archive' = archive /\ spent' = spent
        /\ UNCHANGED <<now, rival, nextRun, bounds, fired>>
    BY DEF Drained, Crash
  <1>4. CronTypeOK' /\ RunInv' /\ DownInv' /\ OwedInv'
    <2>1. archive' \in [Jobs -> Record] /\ spent' \in [Jobs -> BOOLEAN]
      BY <1>1, <1>3 DEF CronTypeOK
    <2> QED
      BY <1>1, <1>2, <1>3, <2>1, LostAll
  <1>5. /\ mode' = "down" /\ jobs' = disk /\ DOMAIN jobs' = DOMAIN jobs
        /\ \A j \in Jobs : active'[j] = 0
    BY <1>1, <1>3 DEF LoseMemory, CronTypeOK
  <1>6. ASSUME NEW j \in DOMAIN jobs' PROVE JobInv(j)'
    <2>1. j \in DOMAIN jobs /\ j \in Jobs /\ JobInv(j)
      BY <1>1, <1>5 DEF CronTypeOK, CronInv
    <2> QED
      BY <1>1, <1>3, <1>5, <2>1, JobLost
  <1>7. \A j \in Jobs \ DOMAIN jobs' : Fresh(j)'
    BY <1>3, <1>5 DEF CronInv, Fresh
  <1> QED
    BY <1>4, <1>6, <1>7 DEF CronInv
\* What a start makes of a job: the schedule of a spent one-shot stays over, and
\* that of a recurring job is in the future.
LEMMA StartedIs ==
    ASSUME CronInv, mode = "down", NEW j \in DOMAIN jobs, NEW K,
           K = Recompute(Recovered(j, disk[j]))
    PROVE  /\ K \in Job /\ K.seen <= archive[j].id /\ K.lastId < nextRun /\ Knows(j, K)
           /\ K.kind = "every" /\ K.next # 0 => K.next > fired[j]
           /\ spent[j] /\ K.kind = "at" => K.life # "scheduled"
           /\ disk[j].life \in {"paused", "archived"} => K.life # "scheduled"
  <1>1. /\ CronTypeOK /\ JobInv(j) /\ j \in Jobs /\ disk[j] \in Job
        /\ archive[j] \in Record /\ archive \in [Jobs -> Record] /\ now \in Nat /\ nextRun \in Nat
        /\ fired[j] \in Nat /\ fired[j] <= now
    BY Known DEF CronInv, CronTypeOK
  <1>2. PICK R : R = Recovered(j, disk[j])
    OBVIOUS
  <1>3. /\ R \in Job /\ R.kind = disk[j].kind /\ R.at = disk[j].at /\ R.seen = disk[j].seen
        /\ (Knows(j, disk[j]) => R = disk[j])
        /\ (~Knows(j, disk[j]) => /\ R.last /\ R.lastId = archive[j].id
                                  /\ R.life = archive[j].life /\ R.next = archive[j].next)
    BY <1>1, <1>2, RecoveredIs
  <1>4. /\ K \in Job /\ K.kind = R.kind /\ K.at = R.at /\ SameRuns(K, R) /\ K.retry = R.retry
        /\ (K.kind = "every" /\ K.next # 0 => K.next > now \/ K.next = R.next)
        /\ (R.life # "scheduled" => K.life # "scheduled")
        /\ (R.kind = "at" /\ R.last /\ R.retry = 0 => K.life # "scheduled")
    <2>1. K = Recompute(R)
      BY <1>2
    <2> QED
      BY <1>1, <1>3, <2>1, RecomputeIs
  <1>5. /\ Sound(j, disk[j]) /\ archive[j].id < nextRun
        /\ Unrecovered(j) /\ SpentOver(j)
    BY <1>1 DEF JobInv, History
  <1>6. K.seen <= archive[j].id /\ K.lastId < nextRun /\ Knows(j, K)
    BY <1>3, <1>4, <1>5 DEF Sound, Knows, SameRuns
  <1>7. K.kind = "every" /\ K.next # 0 => K.next > fired[j]
    <2>1. R.kind = "every" /\ R.next # 0 => R.next > fired[j]
      BY <1>3, <1>5 DEF Sound, Unrecovered
    <2> QED
      BY <1>1, <1>3, <1>4, <2>1 DEF Job
  <1>8. spent[j] /\ K.kind = "at" => K.life # "scheduled"
    BY <1>3, <1>4, <1>5 DEF SpentOver, Unrecovered
  <1>9. disk[j].life \in {"paused", "archived"} => K.life # "scheduled"
    BY <1>3, <1>4, <1>5 DEF Unrecovered
  <1> QED
    BY <1>4, <1>6, <1>7, <1>8, <1>9

LEMMA StartInv ==
    ASSUME CronInv, Start
    PROVE  CronInv'
  <1>1. CronTypeOK /\ RunInv /\ DownInv /\ OwedInv /\ mode = "down"
        /\ now \in Nat /\ nextRun \in Nat
    BY DEF CronInv, CronTypeOK, Start
  <1>2. /\ mode' = "up" /\ epoch' = epoch + 1 /\ disk' = jobs' /\ Arm
        /\ UNCHANGED <<now, archive, active, exec, pass, rival, nextRun, edits, manual,
                       fired, spent, owed>>
    BY DEF Start
  <1>3. /\ DOMAIN jobs' = DOMAIN jobs /\ jobs' = [j \in DOMAIN jobs' |-> jobs'[j]]
        /\ \A j \in DOMAIN jobs : jobs'[j] = Recompute(Recovered(j, disk[j]))
    BY <1>1 DEF Start, CronTypeOK
  <1>4. ASSUME NEW j \in DOMAIN jobs PROVE JobInv(j)' /\ jobs'[j] \in Job
    <2>1. PICK K : K = Recompute(Recovered(j, disk[j]))
      OBVIOUS
    <2>2. /\ K \in Job /\ K.seen <= archive[j].id /\ K.lastId < nextRun /\ Knows(j, K)
          /\ (K.kind = "every" /\ K.next # 0 => K.next > fired[j])
          /\ (spent[j] /\ K.kind = "at" => K.life # "scheduled")
      BY <1>1, <2>1, StartedIs
    <2>3. active[j] = 0 /\ active'[j] = 0 /\ Phase(j)' = "none" /\ JobInv(j)
      BY <1>1, <1>2 DEF DownInv, CronInv, CronTypeOK, Phase
    <2>4. (jobs')[j] = K /\ (disk')[j] = K
      BY <1>2, <1>3, <2>1
    <2>5. History(j)'
      BY <1>2, <2>3 DEF JobInv, History
    <2>6. Sound(j, K)' /\ Noted(j, K)'
      BY <1>2, <2>2, <2>3 DEF Sound, Noted, Knows
    <2> QED
      BY <1>2, <2>2, <2>4, <2>5, <2>6, JobSaved
  <1>5. jobs' \in [DOMAIN jobs' -> Job] /\ disk' \in [DOMAIN jobs' -> Job]
    BY <1>2, <1>3, <1>4
  <1>6. timer' \in Nat
    BY <1>2, <1>5, ArmTyped
  <1>7. CronTypeOK'
    BY <1>1, <1>2, <1>3, <1>5, <1>6 DEF CronTypeOK
  <1>8. RunInv' /\ DownInv' /\ OwedInv'
    BY <1>1, <1>2 DEF RunInv, DownInv, OwedInv
  <1>9. \A j \in Jobs \ DOMAIN jobs' : Fresh(j)'
    BY <1>2, <1>3 DEF CronInv, Fresh
  <1> QED
    BY <1>3, <1>4, <1>7, <1>8, <1>9 DEF CronInv

\* Time passes, other processes use the lock, or nothing happens.
LEMMA OutsideInv ==
    ASSUME CronInv, RivalTakes \/ RivalReleases \/ Tick \/ UNCHANGED cronVars
    PROVE  CronInv'
  <1>1. CronTypeOK /\ RunInv /\ DownInv /\ OwedInv /\ now \in Nat /\ nextRun \in Nat
    BY DEF CronInv, CronTypeOK
  <1>2. /\ UNCHANGED <<mode, jobs, disk, archive, active, exec, pass, timer, nextRun,
                       bounds, fired, spent, owed>>
        /\ rival' \in BOOLEAN /\ now' \in Nat /\ now' >= now
    <2>1. CASE RivalTakes \/ RivalReleases
      <3>1. rival' \in BOOLEAN
        BY <2>1 DEF RivalTakes, RivalReleases
      <3> QED
        BY <1>1, <2>1, <3>1 DEF RivalTakes, RivalReleases
    <2>2. CASE Tick
      BY <1>1, <2>2 DEF Tick, CronTypeOK
    <2>3. CASE UNCHANGED cronVars
      BY <1>1, <2>3 DEF cronVars, CronTypeOK
    <2> QED
      BY <2>1, <2>2, <2>3
  <1>3. CronTypeOK' /\ RunInv' /\ DownInv' /\ OwedInv'
    BY <1>1, <1>2 DEF CronTypeOK, RunInv, DownInv, OwedInv, bounds
  <1>4. ASSUME NEW j \in DOMAIN jobs' PROVE JobInv(j)'
    <2>1. j \in DOMAIN jobs /\ JobInv(j) /\ Phase(j)' = Phase(j)
      BY <1>2 DEF CronInv, Phase
    <2> QED
      BY <1>1, <1>2, <2>1, JobKept
  <1>5. \A j \in Jobs \ DOMAIN jobs' : Fresh(j)'
    BY <1>2 DEF CronInv, Fresh
  <1> QED
    BY <1>3, <1>4, <1>5 DEF CronInv

LEMMA CronNextInv ==
    ASSUME CronInv, [CronNext]_cronVars
    PROVE  CronInv'
  <1>1. ASSUME NEW j \in Jobs, NEW detached \in BOOLEAN, RunNow(j, detached) PROVE CronInv'
    BY <1>1, RunNowInv
  <1>2. ASSUME NEW r \in DOMAIN exec, RunGoesOn(r) PROVE CronInv'
    <2>1. ASSUME NEW ok \in BOOLEAN, BodyEnds(r, ok) PROVE CronInv'
      BY <2>1, BodyEndsInv
    <2> QED
      BY <1>2, <2>1, ChildEntersInv, AlertEndsInv, PublishedInv DEF RunGoesOn
  <1> QED
    BY <1>1, <1>2, UserEditsInv, PassInv, ShutdownInv, GraceEndsInv, LostInv, StartInv, OutsideInv
       DEF CronNext

-----------------------------------------------------------------------------
(* The theorems.                                                           *)

\* Memory, jobs.json, the archive, the run slots and the scheduler pass agree
\* in every state, for any jobs, periods, retries and users.
THEOREM CronInvariant == CronSpec => []CronInv
  <1>1. CronInit => CronInv
    BY InitInv
  <1>2. CronInv /\ [CronNext]_cronVars => CronInv'
    BY CronNextInv
  <1> QED
    BY <1>1, <1>2, PTL DEF CronSpec

\* Every table of the scheduler holds what its type says, and only tasks that
\* exist hold run slots (reserve_run, finish_run).
THEOREM CronTyped == CronSpec => []CronTypeOK
  <1>1. CronInv => CronTypeOK
    BY DEF CronInv
  <1> QED
    BY <1>1, CronInvariant, PTL

\* A job never executes twice at a time (reserve_run).
THEOREM NoDoubleRun == CronSpec => []OneRunPerJob
  <1>1. CronInv => OneRunPerJob
    BY DEF CronInv, RunInv, OneRunPerJob
  <1> QED
    BY <1>1, CronInvariant, PTL

\* A run id that was announced is running or has its record on disk (shutdown).
THEOREM RunsKept == CronSpec => []RunsAccounted
  <1>1. CronInv => RunsAccounted
    BY DEF CronInv, OwedInv, RunsAccounted
  <1> QED
    BY <1>1, CronInvariant, PTL

-----------------------------------------------------------------------------
(* What a step may not do.                                                 *)

\* A run the schedule starts is of a job that is scheduled and due, whose due
\* time is noted.
StartOf(r) ==
    /\ mode = "up"
    /\ \E j \in DOMAIN jobs :
          /\ exec'[r].job = j /\ jobs[j].life = "scheduled" /\ jobs[j].next \in 1..now
          /\ fired'[j] = jobs[j].next

LEMMA LoopStarts ==
    ASSUME CronInv, pass.on # "idle", NEW due \in SUBSET Jobs, NEW js, DOMAIN js = DOMAIN jobs,
           js \in [DOMAIN jobs -> Job], \A j \in DOMAIN jobs : Forwarded(js[j], jobs[j]),
           Loop(js, due)
    PROVE  StaysOff /\ \A r \in Starts : StartOf(r)
  <1> DEFINE ready == {j \in due \cap DOMAIN js : Runnable(j, js[j])}
  <1>1. CronTypeOK /\ RunInv /\ OwedInv /\ now \in Nat
    BY DEF CronInv, CronTypeOK
  <1>2. CASE /\ jobs' = js /\ exec' = exec
    BY <1>2 DEF StaysOff, Forwarded, Starts
  <1>3. CASE /\ mode = "up" /\ mode' = "up"
             /\ \E j \in ready :
                  /\ jobs' = [js EXCEPT ![j] = Advanced(js[j])]
                  /\ Reserve(j, js[j], FALSE, "body")
                  /\ fired' = [fired EXCEPT ![j] = js[j].next]
    <2>1. PICK j \in ready : /\ jobs' = [js EXCEPT ![j] = Advanced(js[j])]
                             /\ Reserve(j, js[j], FALSE, "body")
                             /\ fired' = [fired EXCEPT ![j] = js[j].next]
      BY <1>3
    <2> DEFINE J == js[j]
    <2>2. /\ j \in DOMAIN jobs /\ j \in Jobs /\ J \in Job /\ Forwarded(J, jobs[j]) /\ active[j] = 0
          /\ J.life = "scheduled" /\ J.next \in 1..now
      BY <1>1 DEF Runnable, DueNow, CronTypeOK, Job
    <2>3. J = jobs[j]
      BY <1>1, <2>2 DEF Forwarded
    <2>4. fired'[j] = jobs[j].next
      BY <1>1, <2>1, <2>2, <2>3 DEF CronTypeOK
    <2>5. /\ DOMAIN jobs' = DOMAIN jobs /\ jobs'[j].life = jobs[j].life
          /\ \A i \in DOMAIN jobs : i # j => jobs'[i] = js[i]
      <3>1. Advanced(J).life = J.life
        BY <1>1, <2>2, AdvancedIs
      <3> QED
        BY <2>1, <2>2, <2>3, <3>1
    <2>6. StaysOff
      BY <2>5 DEF StaysOff, Forwarded
    <2>7. Reserve(j, J, FALSE, "body") /\ FALSE \in BOOLEAN /\ "body" \in {"reserved", "body"}
      BY <2>1
    <2> HIDE DEF J
    <2>8. DOMAIN exec' \ DOMAIN exec = {nextRun}
      BY <1>1, <1>3, <2>2, <2>5, <2>7, ReserveRun
    <2>9. exec'[nextRun] = Task(j, J, FALSE, "body")
      BY <1>1, <1>3, <2>2, <2>5, <2>7, ReserveRun
    <2>10. \A r \in Starts : exec'[r].job = j
      BY <2>8, <2>9 DEF Starts, Task
    <2> QED
      BY <1>3, <2>2, <2>3, <2>4, <2>6, <2>10 DEF StartOf
  <1> QED
    BY <1>2, <1>3 DEF Loop

\* A step that starts no run.
LEMMA NoStarts ==
    ASSUME DOMAIN exec' \subseteq DOMAIN exec
    PROVE  \A r \in Starts : StartOf(r)
  BY DEF Starts

LEMMA StepGuarantee ==
    ASSUME CronInv, [CronNext]_cronVars
    PROVE  (edits' = edits => StaysOff) /\ \A r \in Starts : StartOf(r)
  <1>1. /\ CronTypeOK /\ edits \in Nat
        /\ \A j \in DOMAIN jobs : j \in Jobs /\ disk[j].life = jobs[j].life
    BY DEF CronInv, CronTypeOK, JobInv, InMemory
  <1>2. CASE UserEdits
    <2>1. edits' = edits + 1 /\ exec' = exec
      BY <1>2 DEF UserEdits, AddJob, Reschedule, Pause, Resume, ArchiveJob, PurgeJob, Reload, Edit
    <2> QED
      BY <1>1, <2>1, NoStarts
  <1>3. ASSUME NEW j \in Jobs, NEW detached \in BOOLEAN, RunNow(j, detached)
        PROVE  StaysOff /\ \A r \in Starts : StartOf(r)
    <2>1. /\ mode = "up" /\ mode' = "up" /\ jobs' = jobs /\ j \in DOMAIN jobs /\ active[j] = 0
          /\ \E phase \in {"reserved", "body"} : Reserve(j, jobs[j], TRUE, phase)
      BY <1>3 DEF RunNow, CanReserve
    <2>2. PICK phase \in {"reserved", "body"} : Reserve(j, jobs[j], TRUE, phase)
      BY <2>1
    <2>3. exec' = [r \in DOMAIN exec \cup {nextRun} |->
                     IF r = nextRun THEN Task(j, jobs[j], TRUE, phase) ELSE exec[r]]
      BY <2>2 DEF Reserve
    <2>4. \A r \in DOMAIN exec' \ DOMAIN exec : exec'[r].manual
      BY <2>3 DEF Task
    <2> QED
      BY <2>1, <2>4 DEF StaysOff, Starts
  <1>4. ASSUME NEW r \in DOMAIN exec, RunGoesOn(r)
        PROVE  StaysOff /\ \A s \in Starts : StartOf(s)
    <2>1. CASE ChildEnters(r) \/ Published(r)
      <3>1. jobs' = jobs /\ DOMAIN exec' \subseteq DOMAIN exec
        BY <2>1 DEF ChildEnters, Published, Restrict
      <3> QED
        BY <3>1, NoStarts DEF StaysOff
    <2>2. ASSUME NEW ok \in BOOLEAN, BodyEnds(r, ok) \/ AlertEnds(r)
          PROVE  StaysOff /\ DOMAIN exec' \subseteq DOMAIN exec
      <3>1. StaysOff
        BY <2>2, BodyEndsInv, AlertEndsInv
      <3>2. DOMAIN exec' \subseteq DOMAIN exec
        BY <2>2, NoTasks DEF BodyEnds, AlertEnds, Settle, LoseMemory
      <3> QED
        BY <3>1, <3>2
    <2> QED
      BY <1>4, <2>1, <2>2, NoStarts DEF RunGoesOn
  <1>5. CASE PassStep
    <2>1. CASE TimerFires \/ (PassBegins /\ rival)
      <3>1. jobs' = jobs /\ exec' = exec
        BY <2>1 DEF TimerFires, PassBegins
      <3> QED
        BY <3>1, NoStarts DEF StaysOff
    <2>2. CASE PassBegins /\ ~rival
      <3>1. StaysOff /\ \A r \in Starts : StartOf(r)
        <4> DEFINE js == [j \in DOMAIN jobs |-> FastForward(jobs[j])]
                   due == {j \in DOMAIN js : DueNow(js[j])}
        <4>1. pass.on = "begin" /\ Loop(js, due)
          BY <2>2 DEF PassBegins
        <4>2. DOMAIN js = DOMAIN jobs /\ js \in [DOMAIN jobs -> Job] /\ due \in SUBSET Jobs
              /\ \A j \in DOMAIN jobs : Forwarded(js[j], jobs[j])
          BY ForwardedAll
        <4> HIDE DEF js, due
        <4> QED
          BY <4>1, <4>2, LoopStarts
      <3> QED
        BY <3>1
    <2>3. CASE PassGoesOn
      <3>1. pass.on = "loop" /\ Loop(jobs, pass.due) /\ pass.due \in SUBSET Jobs
        BY <1>1, <2>3 DEF PassGoesOn, CronTypeOK
      <3>2. \A j \in DOMAIN jobs : Forwarded(jobs[j], jobs[j])
        BY <1>1 DEF Forwarded, SameRuns, CronTypeOK
      <3>3. jobs \in [DOMAIN jobs -> Job]
        BY <1>1 DEF CronTypeOK
      <3> QED
        BY <3>1, <3>2, <3>3, LoopStarts
    <2> QED
      BY <1>5, <2>1, <2>2, <2>3 DEF PassStep
  <1>6. ASSUME NEW phases, CancelRuns(phases) PROVE StaysOff
    <2>1. ASSUME NEW j \in DOMAIN jobs PROVE jobs'[j].life \in {jobs[j].life, "completed"}
      <3>1. CASE Hit(j, phases)
        <4>1. Result(j, jobs'[j], active[j], spent'[j])
          BY <1>1, <1>6, <3>1, CancelRunsIs
        <4> QED
          BY <4>1 DEF Result
      <3>2. CASE ~Hit(j, phases)
        BY <1>1, <1>6, <3>2, CancelRunsIs
      <3> QED
        BY <3>1, <3>2
    <2> QED
      BY <2>1 DEF StaysOff
  <1>7. CASE Shutdown \/ GraceEnds
    BY <1>6, <1>7, NoStarts, NoTasks DEF Shutdown, GraceEnds
  <1>8. CASE Drained \/ Crash
    <2>1. jobs' = disk /\ exec' = << >>
      BY <1>8 DEF Drained, Crash, LoseMemory
    <2> QED
      BY <1>1, <2>1, NoStarts, NoTasks DEF StaysOff
  <1>9. CASE Start
    <2>1. mode = "down" /\ exec' = exec
          /\ \A j \in DOMAIN jobs : jobs'[j] = Recompute(Recovered(j, disk[j]))
      BY <1>1, <1>9 DEF Start, CronTypeOK
    <2>2. \A j \in DOMAIN jobs : disk[j].life \in {"paused", "archived"} => jobs'[j].life # "scheduled"
      BY <2>1, StartedIs
    <2> QED
      BY <1>1, <2>1, <2>2, NoStarts DEF StaysOff
  <1>10. CASE RivalTakes \/ RivalReleases \/ Tick \/ UNCHANGED cronVars
    <2>1. jobs' = jobs /\ exec' = exec
      BY <1>10 DEF RivalTakes, RivalReleases, Tick, cronVars
    <2> QED
      BY <2>1, NoStarts DEF StaysOff
  <1> QED
    BY <1>2, <1>3, <1>4, <1>5, <1>7, <1>8, <1>9, <1>10 DEF CronNext

\* What the schedule starts is scheduled and due when it starts (_run_due_jobs).
THEOREM StartsAreDue == CronSpec => NoStaleStart
  <1>1. CronInv /\ [CronNext]_cronVars
          => [\A r \in Starts : LET j == exec'[r].job
                                IN  /\ j \in DOMAIN jobs /\ jobs[j].life = "scheduled"
                                    /\ jobs[j].next \in 1..now]_cronVars
    BY StepGuarantee DEF StartOf
  <1> QED
    BY <1>1, CronInvariant, PTL DEF CronSpec, NoStaleStart

\* No due time fires twice, over crashes, restarts and retries
\* (_advance_next_run, _recover_orphan_archives).
THEOREM DueTimesFireOnce == CronSpec => FiresOnce
  <1>1. CronInv /\ [CronNext]_cronVars
          => [\A r \in Starts : LET j == exec'[r].job
                                IN  IF jobs[j].kind = "every" THEN fired'[j] > fired[j]
                                                              ELSE ~spent[j]]_cronVars
    <2> SUFFICES ASSUME CronInv, [CronNext]_cronVars, NEW r \in Starts
                 PROVE  LET j == exec'[r].job
                        IN  IF jobs[j].kind = "every" THEN fired'[j] > fired[j] ELSE ~spent[j]
      OBVIOUS
    <2>1. PICK j \in DOMAIN jobs :
            /\ exec'[r].job = j /\ jobs[j].life = "scheduled" /\ jobs[j].next \in 1..now
            /\ fired'[j] = jobs[j].next
      BY StepGuarantee DEF StartOf
    <2>2. mode # "down"
      BY StepGuarantee DEF StartOf
    <2>3. jobs[j].kind \in Kinds /\ jobs[j].next # 0
      BY <2>1, Known DEF Job
    <2>4. jobs[j].kind = "every" => fired'[j] > fired[j]
      BY <2>1, <2>3, Known
    <2>5. jobs[j].kind # "every" => ~spent[j]
      BY <2>1, <2>2, <2>3, Known DEF Kinds
    <2> QED
      BY <2>1, <2>4, <2>5
  <1> QED
    BY <1>1, CronInvariant, PTL DEF CronSpec, FiresOnce

\* A job that users stopped is put back on the schedule by users only
\* (_run_job_body, _persist_cancelled_run, _recover_orphan_archives).
THEOREM StoppedJobsStay == CronSpec => StoppedStays
  <1>1. CronInv /\ [CronNext]_cronVars
          => [edits' = edits =>
                \A j \in DOMAIN jobs \cap DOMAIN jobs' :
                    jobs[j].life \in {"paused", "archived"} => jobs'[j].life # "scheduled"]_cronVars
    BY StepGuarantee DEF StaysOff
  <1> QED
    BY <1>1, CronInvariant, PTL DEF CronSpec, StoppedStays
=============================================================================
