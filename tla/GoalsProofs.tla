----------------------------- MODULE GoalsProofs -----------------------------
(***************************************************************************)
(* Theorems about the standing goal of a conversation, for any budgets,    *)
(* any number of queues and of acts of its users: its types and the one    *)
(* worker that judges, that a verdict reaches only what it is about, and   *)
(* that messages of users go ahead of the turns a goal writes itself.      *)
(***************************************************************************)
EXTENDS Goals, SequenceTheorems, TLAPS

Pcs == {"none", "new", "get", "processes", "gate", "judge", "notice", "yield", "submit"}

\* Nothing that is under way was made in a user epoch that is still to come.
Messages(e) == [kind : {"chat", "command", "goal"}, epoch : 0..e, id : Nat]
Works(e)    == [kind : {"turn", "wake"}, how : Outcomes, epoch : 0..e, id : Nat]
Turns(e)    == [kind : {"none", "chat", "goal", "set", "unwait"}, epoch : 0..e,
                bind : Nat, made : Nat]
WorkersOf(e) == [pc : Pcs, cancelled : BOOLEAN, id : Nat, epoch : 0..e, fresh : BOOLEAN,
                 saw : Nat, next : {"rest", "park", "run"}]
Record == [id : Nat, st : Statuses, used : Nat, wait : Conditions \cup {"none"},
           asked : BOOLEAN, parse : Nat, transport : Nat, compaction : Nat,
           gate : Nat \cup {NoGate}, crit : Nat, contract : BOOLEAN]

\* A goal that waits is active.
GoalOK(g) == g \in Record /\ (g.wait # "none" => g.st = "active")

\* A reader whose record nobody wrote since works for the active goal, and the
\* judge has the criteria of today.
Current(w, g) ==
    w.fresh => /\ g.st = "active" /\ w.id = g.id
               /\ w.pc \in {"gate", "judge"} => w.saw = g.crit

At(w) == w.pc # "none" /\ ~w.cancelled

\* Workers w on queues q: one is left, work has somebody to do it, and every
\* reader is current.
RuntimeOK(w, q, c, r, e, g) ==
    /\ w \in [Slots -> WorkersOf(e)] /\ q \in [Slots -> Seq(Works(e))]
    /\ c \in Slots \cup {0} /\ r \in Slots \cup {0}
    /\ \A s \in Slots : At(w[s]) <=> s = r
    /\ \A s \in Slots : q[s] # <<>> => s = c \/ w[s].pc # "none"
    /\ \A s \in Slots : Current(w[s], g)

\* A message of a user was sent in a later epoch than all that wait before it.
InboxOK(b, e) ==
    /\ b \in Seq(Messages(e))
    /\ \A i, j \in 1..Len(b) : j < i /\ b[i].kind # "goal" => b[j].epoch < b[i].epoch

RestOK ==
    /\ held \subseteq Conditions /\ chip \in {"none", "fresh", "stale"}
    /\ {route, timer} \subseteq BOOLEAN
    /\ epoch \in Nat /\ draft \in Nat /\ acts \in Nat

GoalsInv ==
    /\ GoalOK(goal) /\ RestOK
    /\ run \in Turns(epoch) /\ InboxOK(inbox, epoch)
    /\ RuntimeOK(worker, queue, curq, reg, epoch, goal)

-----------------------------------------------------------------------------
(* The runtime.                                                            *)

\* What a worker may become in a step of its own.
Fit(w, e, g) == w \in WorkersOf(e) /\ At(w) /\ Current(w, g)

LEMMA EpochsGrow ==
    ASSUME NEW e \in Nat
    PROVE  /\ Works(e) \subseteq Works(e + 1) /\ Messages(e) \subseteq Messages(e + 1)
           /\ Turns(e) \subseteq Turns(e + 1) /\ WorkersOf(e) \subseteq WorkersOf(e + 1)
  <1>1. 0..e \subseteq 0..(e + 1)
    OBVIOUS
  <1> QED
    BY <1>1 DEF Works, Messages, Turns, WorkersOf

LEMMA RuntimeGrows ==
    ASSUME NEW e \in Nat, NEW w, NEW q, NEW c, NEW r, NEW g, RuntimeOK(w, q, c, r, e, g)
    PROVE  RuntimeOK(w, q, c, r, e + 1, g)
  <1>1. w \in [Slots -> WorkersOf(e + 1)]
    BY EpochsGrow DEF RuntimeOK
  <1>2. \A s \in Slots : q[s] \in Seq(Works(e + 1))
    BY EpochsGrow, SeqMonotonic DEF RuntimeOK
  <1>3. q \in [Slots -> Seq(Works(e + 1))]
    BY <1>2 DEF RuntimeOK
  <1> QED
    BY <1>1, <1>3 DEF RuntimeOK

\* Constant workers.
LEMMA NewWorkers ==
    ASSUME NEW e \in Nat, NEW g
    PROVE  /\ NoWorker \in WorkersOf(e) /\ ~At(NoWorker) /\ Current(NoWorker, g)
           /\ NoWorker.pc = "none" /\ ~NoWorker.fresh
           /\ Fit([NoWorker EXCEPT !.pc = "new"], e, g) /\ Fit(Getting, e, g)
           /\ ~Getting.fresh
  <1>1. NoWorker \in WorkersOf(e)
    BY DEF NoWorker, WorkersOf, Pcs
  <1>2. ~NoWorker.cancelled /\ ~NoWorker.fresh /\ NoWorker.pc = "none"
    BY DEF NoWorker
  <1>3. ASSUME NEW pc \in Pcs \ {"none"}
        PROVE  Fit([NoWorker EXCEPT !.pc = pc], e, g) /\ ~[NoWorker EXCEPT !.pc = pc].fresh
    <2> DEFINE x == [NoWorker EXCEPT !.pc = pc]
    <2>1. x \in WorkersOf(e) /\ x.pc = pc /\ ~x.cancelled /\ ~x.fresh
      BY <1>1, <1>2 DEF WorkersOf
    <2> HIDE DEF x
    <2>2. Fit(x, e, g)
      BY <2>1 DEF Fit, At, Current
    <2> QED
      BY <2>1, <2>2 DEF x
  <1>4. {"new", "get"} \subseteq Pcs \ {"none"}
    BY DEF Pcs
  <1> QED
    BY <1>1, <1>2, <1>3, <1>4 DEF At, Current, Getting

\* A write of the record makes every reader stale.
LEMMA StaleOK ==
    ASSUME NEW e \in Nat, NEW w, NEW q, NEW c, NEW r, NEW g, NEW h,
           RuntimeOK(w, q, c, r, e, g)
    PROVE  RuntimeOK(Stale(w), q, c, r, e, h)
  <1>1. ASSUME NEW s \in Slots
        PROVE  /\ Stale(w)[s] \in WorkersOf(e) /\ Stale(w)[s].pc = w[s].pc
               /\ Stale(w)[s].cancelled = w[s].cancelled /\ ~Stale(w)[s].fresh
    BY DEF RuntimeOK, Stale, WorkersOf
  <1>2. Stale(w) \in [Slots -> WorkersOf(e)]
    BY <1>1 DEF Stale
  <1> QED
    BY <1>1, <1>2 DEF RuntimeOK, At, Current

LEMMA ReplaceOK ==
    ASSUME NEW e \in Nat, NEW w, NEW q, NEW c, NEW r, NEW g, RuntimeOK(w, q, c, r, e, g),
           NEW s \in Slots, At(w[s]), NEW x, Fit(x, e, g)
    PROVE  RuntimeOK([w EXCEPT ![s] = x], q, c, r, e, g)
  BY DEF RuntimeOK, Fit, At

LEMMA GotoOK ==
    ASSUME GoalsInv, NEW s \in Slots, Live(s), NEW w, Fit(w, epoch, goal), Goto(s, w), NEW q,
           RuntimeOK(worker, q, curq, reg, epoch, goal)
    PROVE  RuntimeOK(worker', q, curq, reg, epoch, goal)
  <1>1. epoch \in Nat /\ At(worker[s]) /\ worker' = [worker EXCEPT ![s] = w]
    BY DEF GoalsInv, RestOK, Live, At, Goto
  <1> QED
    BY <1>1, ReplaceOK

LEMMA SaveOK ==
    ASSUME GoalsInv, NEW s \in Slots, Live(s), NEW g, NEW w, Fit(w, epoch, g), Save(s, g, w),
           NEW q, RuntimeOK(worker, q, curq, reg, epoch, goal)
    PROVE  RuntimeOK(worker', q, curq, reg, epoch, g)
  <1>1. epoch \in Nat /\ At(worker[s]) /\ worker' = [Stale(worker) EXCEPT ![s] = w]
    BY DEF GoalsInv, RestOK, Live, At, Save
  <1>2. RuntimeOK(Stale(worker), q, curq, reg, epoch, g)
    BY <1>1, StaleOK
  <1>3. At(Stale(worker)[s])
    BY <1>1 DEF At, Stale, RuntimeOK, WorkersOf
  <1> QED
    BY <1>1, <1>2, <1>3, ReplaceOK

\* A worker takes the first piece of work of its queue.
LEMMA TakeOK ==
    ASSUME NEW e \in Nat, NEW w, NEW q, NEW c, NEW r, NEW g, RuntimeOK(w, q, c, r, e, g),
           NEW s \in Slots, q[s] # <<>>
    PROVE  /\ RuntimeOK(w, [q EXCEPT ![s] = Tail(@)], c, r, e, g)
           /\ Head(q[s]) \in Works(e)
  <1>1. q[s] \in Seq(Works(e))
    BY DEF RuntimeOK
  <1>2. Head(q[s]) \in Works(e) /\ Tail(q[s]) \in Seq(Works(e))
    BY <1>1, HeadTailProperties
  <1> QED
    BY <1>2 DEF RuntimeOK

LEMMA EnqueueOK ==
    ASSUME NEW e \in Nat, NEW w, NEW g, RuntimeOK(w, queue, curq, reg, e, g),
           NEW work \in Works(e), Enqueue(w, work)
    PROVE  RuntimeOK(worker', queue', curq', reg', e, g)
  <1>1. PICK q \in IF curq # 0 THEN {curq} ELSE {s \in Unused : \A t \in Unused : s <= t} :
            /\ queue' = [queue EXCEPT ![q] = Append(@, work)]
            /\ curq' = q
            /\ IF reg = 0
                 THEN reg' = q /\ worker' = [w EXCEPT ![q] = [NoWorker EXCEPT !.pc = "new"]]
                 ELSE UNCHANGED reg /\ worker' = w
    BY DEF Enqueue
  <1>2. q \in Slots /\ (curq # 0 => q = curq)
    BY <1>1 DEF RuntimeOK, Unused
  <1>3. Append(queue[q], work) \in Seq(Works(e))
    <2>1. queue[q] \in Seq(Works(e))
      BY <1>2 DEF RuntimeOK
    <2> QED
      BY <2>1, AppendProperties
  <1>4. /\ queue' \in [Slots -> Seq(Works(e))]
        /\ \A s \in Slots : s # q => queue'[s] = queue[s]
    BY <1>1, <1>2, <1>3 DEF RuntimeOK
  <1>5. CASE reg = 0
    <2>1. Fit([NoWorker EXCEPT !.pc = "new"], e, g) /\ q # 0
      BY <1>2, NewWorkers, GoalsAssumption
    <2> DEFINE n == [NoWorker EXCEPT !.pc = "new"]
    <2> HIDE DEF n
    <2>2. worker' = [w EXCEPT ![q] = n] /\ reg' = q /\ Fit(n, e, g)
      BY <1>1, <1>5, <2>1 DEF n
    <2>3. \A s \in Slots : s # q => worker'[s] = w[s] /\ ~At(w[s])
      BY <1>5, <2>2, GoalsAssumption DEF RuntimeOK
    <2>4. worker' \in [Slots -> WorkersOf(e)] /\ worker'[q] = n
      BY <1>2, <2>2 DEF RuntimeOK, Fit
    <2> QED
      BY <1>1, <1>2, <1>4, <1>5, <2>2, <2>3, <2>4, GoalsAssumption DEF RuntimeOK, Fit, At
  <1>6. CASE reg # 0
    <2>1. worker' = w /\ reg' = reg /\ curq' = q
      BY <1>1, <1>6
    <2>2. \A s \in Slots : s = curq => s = q
      BY <1>2, GoalsAssumption
    <2> QED
      BY <1>2, <1>4, <2>1, <2>2 DEF RuntimeOK
  <1> QED
    BY <1>5, <1>6

LEMMA CancelSessionOK ==
    ASSUME NEW e \in Nat, NEW w, NEW g, RuntimeOK(w, queue, curq, reg, e, g), CancelSession(w)
    PROVE  RuntimeOK(worker', queue', curq', reg', e, g)
  <1>1. /\ curq' = 0 /\ reg' = 0
        /\ worker' = IF reg = 0 THEN w ELSE [w EXCEPT ![reg].cancelled = TRUE]
        /\ queue' = IF curq \in {0, reg} THEN queue ELSE [queue EXCEPT ![curq] = <<>>]
    BY DEF CancelSession
  <1>2. /\ worker' \in [Slots -> WorkersOf(e)]
        /\ \A s \in Slots : /\ ~At(worker'[s]) /\ worker'[s].pc = w[s].pc
                            /\ Current(worker'[s], g)
    <2>1. CASE reg = 0
      BY <1>1, <2>1, GoalsAssumption DEF RuntimeOK
    <2>2. CASE reg # 0
      <3>1. reg \in Slots /\ w[reg] \in WorkersOf(e) /\ Current(w[reg], g)
        BY <2>2 DEF RuntimeOK
      <3> DEFINE x == [w[reg] EXCEPT !.cancelled = TRUE]
      <3>2. x \in WorkersOf(e) /\ x.pc = w[reg].pc /\ ~At(x) /\ Current(x, g)
        BY <3>1 DEF WorkersOf, At, Current
      <3>3. worker' = [w EXCEPT ![reg] = x]
        BY <1>1, <2>2
      <3> HIDE DEF x
      <3> QED
        BY <3>1, <3>2, <3>3 DEF RuntimeOK
    <2> QED
      BY <2>1, <2>2
  <1>3. /\ queue' \in [Slots -> Seq(Works(e))]
        /\ \A s \in Slots : queue'[s] # <<>> => queue'[s] = queue[s] /\ (s # curq \/ curq = reg)
    <2>1. <<>> \in Seq(Works(e))
      BY EmptySeq
    <2> QED
      BY <1>1, <2>1, GoalsAssumption DEF RuntimeOK
  <1>4. \A s \in Slots : queue'[s] # <<>> => w[s].pc # "none"
    BY <1>3 DEF RuntimeOK, At
  <1> QED
    BY <1>1, <1>2, <1>3, <1>4, GoalsAssumption DEF RuntimeOK

-----------------------------------------------------------------------------
(* The record.                                                             *)

LEMMA PausedOK ==
    ASSUME NEW g \in Record
    PROVE  GoalOK(Paused(g)) /\ Paused(g).id = g.id /\ Paused(g).crit = g.crit
           /\ Paused(g).st = "paused"
  BY DEF GoalOK, Paused, Record, Statuses

\* A failed turn pauses the goal or counts against it.
LEMMA AfterFailureOK ==
    ASSUME NEW g, GoalOK(g), g.st = "active", NEW how \in Outcomes \ {"ok"}
    PROVE  GoalOK(AfterFailure(g, how)) /\ AfterFailure(g, how).id = g.id
  <1>1. CASE how = "aborted"
    BY <1>1, PausedOK DEF AfterFailure, GoalOK
  <1>2. CASE how = "failed"
    <2>1. ASSUME NEW h, GoalOK(h)
          PROVE  GoalOK([h EXCEPT !.asked = TRUE]) /\ [h EXCEPT !.asked = TRUE].id = h.id
      BY <2>1 DEF GoalOK, Record
    <2> QED
      BY <1>2, <2>1, PausedOK DEF AfterFailure, GoalOK
  <1>3. CASE how = "overflow"
    <2> DEFINE n == g.compaction + 1
    <2>1. n \in Nat
      BY DEF GoalOK, Record
    <2> HIDE DEF n
    <2> DEFINE h == [g EXCEPT !.compaction = n, !.asked = FALSE]
    <2>2. GoalOK(h) /\ h.id = g.id
      BY <2>1 DEF GoalOK, Record
    <2>3. AfterFailure(g, how) = IF h.compaction >= MaxCompaction THEN Paused(h) ELSE h
      BY <1>3 DEF AfterFailure, n
    <2> HIDE DEF h
    <2> QED
      BY <2>2, <2>3, PausedOK DEF GoalOK
  <1> QED
    BY <1>1, <1>2, <1>3 DEF Outcomes

LEMMA ResolvedOK ==
    ASSUME NEW g, GoalOK(g)
    PROVE  /\ GoalOK(Resolved(g)) /\ Resolved(g).id = g.id /\ Resolved(g).crit = g.crit
           /\ Resolved(g).st = g.st
  BY DEF GoalOK, Resolved, Record

\* The judge pauses the goal, ends it, or leaves it active.
LEMMA JudgedOK ==
    ASSUME NEW g, GoalOK(g), g.st = "active", NEW v \in Verdicts
    PROVE  GoalOK(Judged(g, v)) /\ Judged(g, v).id = g.id
  <1> DEFINE p == IF v = "garbled" THEN g.parse + 1 ELSE 0
             t == IF v = "unreachable" THEN g.transport + 1 ELSE 0
             a == (v = "needs_input")
  <1>1. p \in Nat /\ t \in Nat /\ a \in BOOLEAN
    BY DEF GoalOK, Record
  <1> HIDE DEF p, t, a
  <1> DEFINE h == [g EXCEPT !.asked = a, !.parse = p, !.transport = t]
  <1>2. GoalOK(h) /\ h.st = "active" /\ h.id = g.id
    BY <1>1 DEF GoalOK, Record
  <1>3. Judged(g, v) =
            CASE v = "done"        -> [h EXCEPT !.st = "done", !.wait = "none"]
              [] v = "wait"        -> [h EXCEPT !.wait = "process"]
              [] v = "needs_input" -> Paused(h)
              [] OTHER -> IF \/ h.transport >= MaxTransport \/ h.parse >= MaxParse
                             \/ h.used >= MaxTurns
                            THEN Paused(h) ELSE h
    BY DEF Judged, p, t, a
  <1> HIDE DEF h
  <1>4. CASE v = "done"
    BY <1>2, <1>3, <1>4 DEF GoalOK, Record, Statuses
  <1>5. CASE v = "wait"
    BY <1>2, <1>3, <1>5, GoalsAssumption DEF GoalOK, Record
  <1>6. CASE v \notin {"done", "wait"}
    <2>1. Judged(g, v) \in {Paused(h), h}
      BY <1>3, <1>6
    <2> QED
      BY <1>2, <2>1, PausedOK DEF GoalOK
  <1> QED
    BY <1>4, <1>5, <1>6

-----------------------------------------------------------------------------
(* The steps of a worker.                                                  *)

LEMMA WorkInv ==
    ASSUME GoalsInv, UNCHANGED Rest, GoalOK(goal'), chip' \in {chip, StaleChip},
           timer' \in BOOLEAN, RuntimeOK(worker', queue', curq, reg, epoch, goal')
    PROVE  GoalsInv'
  BY DEF GoalsInv, RestOK, Rest, StaleChip

\* The worker at hand.
LEMMA AtHand ==
    ASSUME GoalsInv, NEW s \in Slots, Live(s)
    PROVE  /\ epoch \in Nat /\ GoalOK(goal) /\ timer \in BOOLEAN
           /\ RuntimeOK(worker, queue, curq, reg, epoch, goal)
           /\ worker[s] \in WorkersOf(epoch) /\ At(worker[s]) /\ Current(worker[s], goal)
  BY DEF GoalsInv, RestOK, RuntimeOK, Live, At

\* Where a worker goes from its piece of work.
LEMMA MovesFit ==
    ASSUME NEW e \in Nat, NEW g, NEW w \in WorkersOf(e), ~w.cancelled
    PROVE  /\ \A n \in {"rest", "park", "run"} :
                  Fit(Notice(w, n), e, g) /\ Notice(w, n).id = w.id
           /\ \A pc \in Pcs \ {"none"} : w.id = g.id /\ w.saw = g.crit /\ g.st = "active"
                  => Fit([w EXCEPT !.pc = pc], e, g)
           /\ \A pc \in Pcs \ {"none", "gate", "judge"} : w.id = g.id /\ g.st = "active"
                  => Fit([w EXCEPT !.pc = pc, !.fresh = TRUE], e, g)
           /\ \A pc \in Pcs \ {"none"} : ~w.fresh => Fit([w EXCEPT !.pc = pc], e, g)
  <1>1. ASSUME NEW n \in {"rest", "park", "run"}
        PROVE  Fit(Notice(w, n), e, g) /\ Notice(w, n).id = w.id
    <2>1. /\ Notice(w, n) \in WorkersOf(e) /\ Notice(w, n).pc = "notice"
          /\ ~Notice(w, n).cancelled /\ ~Notice(w, n).fresh /\ Notice(w, n).id = w.id
      BY DEF Notice, WorkersOf, Pcs
    <2> QED
      BY <2>1 DEF Fit, At, Current
  <1>2. ASSUME NEW pc \in Pcs \ {"none"}
        PROVE  /\ w.id = g.id /\ w.saw = g.crit /\ g.st = "active" => Fit([w EXCEPT !.pc = pc], e, g)
               /\ ~w.fresh => Fit([w EXCEPT !.pc = pc], e, g)
    <2> DEFINE x == [w EXCEPT !.pc = pc]
    <2>1. x \in WorkersOf(e) /\ x.pc = pc /\ ~x.cancelled /\ x.fresh = w.fresh
          /\ x.id = w.id /\ x.saw = w.saw
      BY DEF WorkersOf
    <2> HIDE DEF x
    <2>2. /\ w.id = g.id /\ w.saw = g.crit /\ g.st = "active" => Fit(x, e, g)
          /\ ~w.fresh => Fit(x, e, g)
      BY <2>1 DEF Fit, At, Current
    <2> QED
      BY <2>2 DEF x
  <1>3. ASSUME NEW pc \in Pcs \ {"none", "gate", "judge"}, w.id = g.id, g.st = "active"
        PROVE  Fit([w EXCEPT !.pc = pc, !.fresh = TRUE], e, g)
    <2> DEFINE x == [w EXCEPT !.pc = pc, !.fresh = TRUE]
    <2>1. x \in WorkersOf(e) /\ x.pc = pc /\ ~x.cancelled /\ x.id = w.id
      BY DEF WorkersOf
    <2> HIDE DEF x
    <2>2. Fit(x, e, g)
      BY <1>3, <2>1 DEF Fit, At, Current
    <2> QED
      BY <2>2 DEF x
  <1> QED
    BY <1>1, <1>2, <1>3

\* A worker that goes somewhere and leaves the record as it is.
LEMMA GotoInv ==
    ASSUME GoalsInv, NEW s \in Slots, Live(s), NEW w, Fit(w, epoch, goal), Goto(s, w),
           UNCHANGED <<goal, chip>>, timer' \in BOOLEAN, UNCHANGED Rest,
           RuntimeOK(worker, queue', curq, reg, epoch, goal)
    PROVE  GoalsInv'
  <1>1. RuntimeOK(worker', queue', curq, reg, epoch, goal)
    BY GotoOK
  <1> QED
    BY <1>1, WorkInv DEF GoalsInv

\* A worker that writes the record and goes somewhere.
LEMMA SaveInv ==
    ASSUME GoalsInv, NEW s \in Slots, Live(s), NEW g, GoalOK(g), NEW w, Fit(w, epoch, g),
           Save(s, g, w), timer' \in BOOLEAN, UNCHANGED Rest,
           RuntimeOK(worker, queue', curq, reg, epoch, goal)
    PROVE  GoalsInv'
  <1>1. RuntimeOK(worker', queue', curq, reg, epoch, g)
    BY SaveOK
  <1>2. goal' = g /\ chip' = StaleChip
    BY DEF Save
  <1> QED
    BY <1>1, <1>2, WorkInv

LEMMA LeaveInv ==
    ASSUME GoalsInv, NEW s \in Slots, Live(s), Leave(s), UNCHANGED queue, UNCHANGED Rest
    PROVE  GoalsInv'
  <1>1. Fit(Getting, epoch, goal)
    BY AtHand, NewWorkers
  <1>2. timer' \in BOOLEAN
    BY AtHand DEF Leave
  <1> QED
    BY <1>1, <1>2, AtHand, GotoInv DEF Leave

LEMMA BeginInv == ASSUME GoalsInv, NEW s \in Slots, Begin(s) PROVE GoalsInv'
  <1>1. Live(s) /\ Goto(s, Getting) /\ UNCHANGED <<goal, chip, timer, queue>> /\ UNCHANGED Rest
    BY DEF Begin, Goto, Rest
  <1>2. Fit(Getting, epoch, goal)
    BY <1>1, AtHand, NewWorkers
  <1> QED
    BY <1>1, <1>2, AtHand, GotoInv

LEMMA RetireInv == ASSUME GoalsInv, NEW s \in Slots, Retire(s) PROVE GoalsInv'
  <1>1. /\ Live(s) /\ queue[s] = <<>> /\ worker' = [worker EXCEPT ![s] = NoWorker]
        /\ reg' = IF reg = s THEN 0 ELSE reg
        /\ curq' = IF curq = s THEN 0 ELSE curq
        /\ UNCHANGED <<goal, held, epoch, inbox, run, queue, route, timer, draft, chip, acts, excused>>
    BY DEF Retire
  <1>2. epoch \in Nat /\ RuntimeOK(worker, queue, curq, reg, epoch, goal) /\ At(worker[s])
    BY <1>1, AtHand
  <1>3. NoWorker \in WorkersOf(epoch) /\ ~At(NoWorker) /\ Current(NoWorker, goal)
    BY <1>2, NewWorkers
  <1>4. reg = s /\ reg' = 0
    BY <1>1, <1>2 DEF RuntimeOK
  <1>5. /\ worker' \in [Slots -> WorkersOf(epoch)] /\ worker'[s] = NoWorker
        /\ \A t \in Slots : t # s => worker'[t] = worker[t]
    BY <1>1, <1>2, <1>3 DEF RuntimeOK
  <1>6. RuntimeOK(worker', queue, curq', reg', epoch, goal)
    BY <1>1, <1>2, <1>3, <1>4, <1>5, GoalsAssumption DEF RuntimeOK
  <1> QED
    BY <1>1, <1>6 DEF GoalsInv, RestOK

\* A cancelled worker leaves its queue to a successor when nobody is registered,
\* and empties it otherwise.
LEMMA UnwindInv == ASSUME GoalsInv, NEW s \in Slots, Unwind(s) PROVE GoalsInv'
  <1>1. /\ worker[s].cancelled
        /\ UNCHANGED <<goal, held, epoch, inbox, run, curq, route, timer, draft, chip, acts, excused>>
    BY DEF Unwind
  <1>2. epoch \in Nat /\ RuntimeOK(worker, queue, curq, reg, epoch, goal)
    BY DEF GoalsInv, RestOK
  <1>3. ~At(worker[s]) /\ s # 0 /\ s # reg
    BY <1>1, <1>2, GoalsAssumption DEF At, RuntimeOK
  <1>4. CASE Successor(s)
    <2> DEFINE n == [NoWorker EXCEPT !.pc = "new"]
    <2>1. Fit(n, epoch, goal)
      BY <1>2, NewWorkers
    <2> HIDE DEF n
    <2>2. /\ reg = 0 /\ worker' = [worker EXCEPT ![s] = n] /\ reg' = s /\ queue' = queue
      BY <1>4 DEF Unwind, Successor, n
    <2>3. /\ worker' \in [Slots -> WorkersOf(epoch)] /\ worker'[s] = n
          /\ \A t \in Slots : t # s => worker'[t] = worker[t]
      BY <1>2, <2>1, <2>2 DEF RuntimeOK, Fit
    <2>4. \A t \in Slots : t # s => ~At(worker'[t])
      BY <1>2, <2>2, <2>3, GoalsAssumption DEF RuntimeOK
    <2>5. RuntimeOK(worker', queue', curq, reg', epoch, goal)
      BY <1>2, <2>1, <2>2, <2>3, <2>4 DEF RuntimeOK, Fit, At
    <2> QED
      BY <1>1, <2>5 DEF GoalsInv, RestOK
  <1>5. CASE ~Successor(s)
    <2>1. /\ worker' = [worker EXCEPT ![s] = NoWorker] /\ reg' = reg
          /\ queue' = [queue EXCEPT ![s] = <<>>]
      BY <1>5 DEF Unwind
    <2>2. NoWorker \in WorkersOf(epoch) /\ ~At(NoWorker) /\ Current(NoWorker, goal)
      BY <1>2, NewWorkers
    <2>3. <<>> \in Seq(Works(epoch))
      BY EmptySeq
    <2>4. RuntimeOK(worker', queue', curq, reg, epoch, goal)
      BY <1>2, <1>3, <2>1, <2>2, <2>3 DEF RuntimeOK
    <2> QED
      BY <1>1, <2>1, <2>4 DEF GoalsInv, RestOK
  <1> QED
    BY <1>4, <1>5

LEMMA AfterTurnInv == ASSUME GoalsInv, NEW s \in Slots, AfterTurn(s) PROVE GoalsInv'
  <1> DEFINE it == Head(queue[s])
             w  == [Getting EXCEPT !.id = it.id, !.epoch = it.epoch]
  <1>1. /\ Live(s) /\ queue[s] # <<>> /\ queue' = [queue EXCEPT ![s] = Tail(@)]
        /\ UNCHANGED timer /\ UNCHANGED Rest
    BY DEF AfterTurn, Working
  <1>2. RuntimeOK(worker, queue', curq, reg, epoch, goal) /\ it \in Works(epoch)
    BY <1>1, AtHand, TakeOK
  <1>3. Getting \in WorkersOf(epoch) /\ ~Getting.cancelled /\ ~Getting.fresh
        /\ Fit(Getting, epoch, goal)
    BY <1>1, AtHand, NewWorkers DEF Fit, At
  <1>4. w \in WorkersOf(epoch) /\ ~w.cancelled /\ w.id = it.id
    BY <1>2, <1>3 DEF WorkersOf, Works
  <1>5. timer' \in BOOLEAN
    BY <1>1, AtHand
  <1> HIDE DEF w, it
  <1>6. CASE ~Concerns(it) /\ Goto(s, Getting) /\ UNCHANGED <<goal, chip>>
    BY <1>1, <1>2, <1>3, <1>5, <1>6, GotoInv
  <1>7. CASE /\ Concerns(it) /\ it.how = "ok"
             /\ \E b \in Blockers : Save(s, [goal EXCEPT !.wait = b], Notice(w, "park"))
    <2>1. PICK b \in Blockers : Save(s, [goal EXCEPT !.wait = b], Notice(w, "park"))
      BY <1>7
    <2>2. goal.st = "active" /\ b \in Conditions
      BY <1>7 DEF Concerns, IsActive, Blockers, GoalsInv, RestOK
    <2>3. GoalOK([goal EXCEPT !.wait = b])
      BY <2>2 DEF GoalOK, Record, GoalsInv
    <2>4. Fit(Notice(w, "park"), epoch, [goal EXCEPT !.wait = b])
      BY <1>1, <1>4, AtHand, MovesFit
    <2> QED
      BY <1>1, <1>2, <1>5, <2>1, <2>3, <2>4, SaveInv
  <1>8. CASE /\ Concerns(it)
             /\ Goto(s, [w EXCEPT !.pc = "processes", !.fresh = TRUE]) /\ UNCHANGED <<goal, chip>>
    <2>1. w.id = goal.id /\ goal.st = "active"
      BY <1>4, <1>8 DEF Concerns, IsActive
    <2>2. "processes" \in Pcs \ {"none", "gate", "judge"}
      BY DEF Pcs
    <2>3. Fit([w EXCEPT !.pc = "processes", !.fresh = TRUE], epoch, goal)
      BY <1>1, <1>4, <2>1, <2>2, AtHand, MovesFit
    <2> QED
      BY <1>1, <1>2, <1>5, <1>8, <2>3, GotoInv
  <1>9. CASE /\ Concerns(it) /\ Unsuccessful(it.how)
             /\ LET g == AfterFailure(goal, it.how)
                IN  Save(s, g, Notice(w, IF g.st = "active" THEN "run" ELSE "rest"))
    <2> DEFINE g == AfterFailure(goal, it.how)
               n == IF g.st = "active" THEN "run" ELSE "rest"
    <2>1. it.how \in Outcomes \ {"ok"} /\ goal.st = "active"
      BY <1>2, <1>9 DEF Unsuccessful, Works, Concerns, IsActive
    <2>2. GoalOK(g)
      BY <1>1, <2>1, AtHand, AfterFailureOK
    <2>3. n \in {"rest", "park", "run"}
      OBVIOUS
    <2>4. Save(s, g, Notice(w, n))
      BY <1>9
    <2> HIDE DEF g, n
    <2>5. Fit(Notice(w, n), epoch, g)
      BY <1>1, <1>4, <2>3, AtHand, MovesFit
    <2> QED
      BY <1>1, <1>2, <1>5, <2>2, <2>4, <2>5, SaveInv
  <1> QED
    BY <1>6, <1>7, <1>8, <1>9 DEF AfterTurn, w, it

LEMMA EvaluateInv == ASSUME GoalsInv, NEW s \in Slots, Evaluate(s) PROVE GoalsInv'
  <1> DEFINE w == worker[s]
             g == Resolved(goal)
             h == [g EXCEPT !.used = @ + 1, !.compaction = 0]
             pc == IF h.gate = NoGate THEN "judge" ELSE "gate"
             x == [w EXCEPT !.pc = pc, !.saw = h.crit]
  <1>1. Live(s) /\ UNCHANGED queue /\ UNCHANGED Rest
    BY DEF Evaluate, Working
  <1>2. CASE Leave(s)
    BY <1>1, <1>2, LeaveInv
  <1>3. CASE UNCHANGED timer /\ Goto(s, Notice(w, "park")) /\ UNCHANGED <<goal, chip>>
    <2>1. Fit(Notice(w, "park"), epoch, goal)
      BY <1>1, AtHand, MovesFit DEF At
    <2> QED
      BY <1>1, <1>3, <2>1, AtHand, GotoInv
  <1>4. CASE w.fresh /\ UNCHANGED timer /\ Save(s, h, x)
    <2>1. /\ GoalOK(g) /\ g.st = "active" /\ w.id = g.id /\ g.used + 1 \in Nat
      BY <1>1, <1>4, AtHand, ResolvedOK DEF Current, GoalOK, Record
    <2>2. GoalOK(h) /\ h.st = "active" /\ w.id = h.id /\ h.crit \in Nat
      <3> DEFINE n == g.used + 1
      <3>1. n \in Nat /\ h = [g EXCEPT !.used = n, !.compaction = 0]
        BY <2>1
      <3> HIDE DEF n, g
      <3>2. GoalOK([g EXCEPT !.used = n, !.compaction = 0])
        BY <2>1, <3>1 DEF GoalOK, Record
      <3>3. /\ [g EXCEPT !.used = n, !.compaction = 0].st = "active"
            /\ [g EXCEPT !.used = n, !.compaction = 0].id = w.id
            /\ [g EXCEPT !.used = n, !.compaction = 0].crit \in Nat
        BY <2>1 DEF GoalOK, Record
      <3> QED
        BY <3>1, <3>2, <3>3
    <2>3. w \in WorkersOf(epoch) /\ ~w.cancelled /\ pc \in Pcs \ {"none"}
      BY <1>1, AtHand DEF At, Pcs
    <2> HIDE DEF w, g, h, pc
    <2>4. x \in WorkersOf(epoch) /\ ~x.cancelled /\ x.pc = pc /\ x.id = w.id /\ x.saw = h.crit
      BY <2>2, <2>3 DEF WorkersOf
    <2> HIDE DEF x
    <2>5. Fit(x, epoch, h)
      BY <2>2, <2>3, <2>4 DEF Fit, At, Current
    <2>6. RuntimeOK(worker, queue', curq, reg, epoch, goal) /\ timer' \in BOOLEAN
      BY <1>1, <1>4, AtHand
    <2> QED
      BY <1>1, <1>4, <2>2, <2>5, <2>6, SaveInv
  <1> QED
    BY <1>2, <1>3, <1>4 DEF Evaluate

LEMMA GateRanInv ==
    ASSUME GoalsInv, NEW s \in Slots, NEW passed \in BOOLEAN, GateRan(s, passed)
    PROVE  GoalsInv'
  <1> DEFINE w == worker[s]
             n == IF passed THEN 0 ELSE goal.gate + 1
             h == [goal EXCEPT !.gate = n]
             g == IF ~passed /\ (h.gate > MaxRetries \/ h.used >= MaxTurns) THEN Paused(h) ELSE h
  <1>1. Live(s) /\ UNCHANGED queue /\ UNCHANGED Rest
    BY DEF GateRan, Working
  <1>2. CASE Leave(s)
    BY <1>1, <1>2, LeaveInv
  <1>3. CASE w.fresh /\ w.pc = "gate" /\ UNCHANGED timer
             /\ (Save(s, h, [w EXCEPT !.pc = "judge"]) \/ Save(s, g, Notice(w, NextAfter(g))))
    <2>1. n \in Nat /\ w \in WorkersOf(epoch) /\ ~w.cancelled
      BY <1>1, AtHand DEF GoalOK, Record, NoGate, At
    <2>2. goal.st = "active" /\ w.id = goal.id /\ w.saw = goal.crit
      BY <1>1, <1>3, AtHand DEF Current
    <2> HIDE DEF n, w
    <2>3. GoalOK(h) /\ h.st = "active" /\ w.id = h.id /\ w.saw = h.crit
      BY <1>1, <2>1, <2>2, AtHand DEF GoalOK, Record
    <2> HIDE DEF h
    <2>4. GoalOK(g)
      BY <2>3, PausedOK DEF GoalOK
    <2> HIDE DEF g
    <2>5. "judge" \in Pcs \ {"none"} /\ NextAfter(g) \in {"rest", "park", "run"}
      BY DEF Pcs, NextAfter
    <2>6. Fit([w EXCEPT !.pc = "judge"], epoch, h) /\ Fit(Notice(w, NextAfter(g)), epoch, g)
      BY <1>1, <2>1, <2>3, <2>5, AtHand, MovesFit
    <2>7. RuntimeOK(worker, queue', curq, reg, epoch, goal) /\ timer' \in BOOLEAN
      BY <1>1, <1>3, AtHand
    <2> QED
      BY <1>1, <1>3, <2>3, <2>4, <2>6, <2>7, SaveInv
  <1>4. [goal EXCEPT !.gate = IF passed THEN 0 ELSE @ + 1] = h
    OBVIOUS
  <1> QED
    BY <1>2, <1>3, <1>4 DEF GateRan, Working

LEMMA JudgeAnsweredInv ==
    ASSUME GoalsInv, NEW s \in Slots, NEW v \in Verdicts, JudgeAnswered(s, v)
    PROVE  GoalsInv'
  <1> DEFINE g == Judged(goal, v)
  <1>1. Live(s) /\ UNCHANGED queue /\ UNCHANGED Rest
    BY DEF JudgeAnswered, Working
  <1>2. CASE Leave(s)
    BY <1>1, <1>2, LeaveInv
  <1>3. CASE worker[s].fresh /\ Save(s, g, Notice(worker[s], NextAfter(g))) /\ UNCHANGED timer
    <2>1. GoalOK(g)
      BY <1>1, <1>3, AtHand, JudgedOK DEF Current
    <2> HIDE DEF g
    <2>2. NextAfter(g) \in {"rest", "park", "run"}
      BY DEF NextAfter
    <2>3. Fit(Notice(worker[s], NextAfter(g)), epoch, g)
      BY <1>1, <2>2, AtHand, MovesFit DEF At
    <2>4. RuntimeOK(worker, queue', curq, reg, epoch, goal) /\ timer' \in BOOLEAN
      BY <1>1, <1>3, AtHand
    <2> QED
      BY <1>1, <1>3, <2>1, <2>3, <2>4, SaveInv
  <1> QED
    BY <1>2, <1>3 DEF JudgeAnswered, Unchanged

LEMMA NoticeDeliveredInv ==
    ASSUME GoalsInv, NEW s \in Slots, NoticeDelivered(s)
    PROVE  GoalsInv'
  <1>1. /\ Live(s) /\ worker[s].pc = "notice" /\ UNCHANGED <<goal, chip, queue>> /\ UNCHANGED Rest
    BY DEF NoticeDelivered, Working
  <1>2. RuntimeOK(worker, queue', curq, reg, epoch, goal) /\ Fit(Getting, epoch, goal)
    BY <1>1, AtHand, NewWorkers
  <1>3. CASE Goto(s, Getting) /\ timer' \in {FALSE, Schedule}
    BY <1>1, <1>2, <1>3, AtHand, GotoInv DEF Schedule
  <1>4. CASE UNCHANGED timer /\ Goto(s, [worker[s] EXCEPT !.pc = "yield"])
    <2>1. Fit([worker[s] EXCEPT !.pc = "yield"], epoch, goal)
      <3> DEFINE x == [worker[s] EXCEPT !.pc = "yield"]
      <3>1. x \in WorkersOf(epoch) /\ x.pc = "yield" /\ ~x.cancelled
            /\ x.fresh = worker[s].fresh /\ x.id = worker[s].id
        BY <1>1, AtHand DEF WorkersOf, Pcs, At
      <3> HIDE DEF x
      <3>2. Fit(x, epoch, goal)
        BY <1>1, <3>1, AtHand DEF Fit, At, Current
      <3> QED
        BY <3>2 DEF x
    <2> QED
      BY <1>1, <1>2, <1>4, <2>1, AtHand, GotoInv
  <1>5. worker[s].next \in {"rest", "park", "run"}
    BY <1>1, AtHand DEF WorkersOf
  <1> QED
    BY <1>3, <1>4, <1>5 DEF NoticeDelivered

LEMMA ResumeWaitInv == ASSUME GoalsInv, NEW s \in Slots, ResumeWait(s) PROVE GoalsInv'
  <1> DEFINE g == Resolved(goal)
             w == [Getting EXCEPT !.pc = "yield", !.id = g.id, !.epoch = epoch]
  <1>1. /\ Live(s) /\ queue[s] # <<>> /\ queue' = [queue EXCEPT ![s] = Tail(@)]
        /\ UNCHANGED Rest
    BY DEF ResumeWait, Working
  <1>2. RuntimeOK(worker, queue', curq, reg, epoch, goal)
    BY <1>1, AtHand, TakeOK
  <1>3. GoalOK(g) /\ epoch \in Nat /\ timer \in BOOLEAN
    BY <1>1, AtHand, ResolvedOK
  <1>4. Getting \in WorkersOf(epoch) /\ ~Getting.cancelled /\ ~Getting.fresh
    BY <1>3, NewWorkers DEF Fit, At
  <1>5. Fit(Getting, epoch, goal)
    BY <1>3, NewWorkers
  <1> HIDE DEF g
  <1>6. w \in WorkersOf(epoch) /\ w.pc = "yield" /\ ~w.cancelled /\ ~w.fresh
    <2>1. g.id \in Nat /\ epoch \in 0..epoch /\ "yield" \in Pcs
      BY <1>3 DEF GoalOK, Record, Pcs
    <2> DEFINE u == [Getting EXCEPT !.pc = "yield"]
    <2>2. u \in WorkersOf(epoch) /\ u.pc = "yield" /\ ~u.cancelled /\ ~u.fresh
      BY <1>4, <2>1 DEF WorkersOf
    <2>3. w = [u EXCEPT !.id = g.id, !.epoch = epoch]
      OBVIOUS
    <2> HIDE DEF u
    <2> QED
      BY <2>1, <2>2, <2>3 DEF WorkersOf
  <1> HIDE DEF w
  <1>7. Fit(w, epoch, goal) /\ Fit(w, epoch, g)
    BY <1>6 DEF Fit, At, Current
  <1>8. CASE Goto(s, Getting) /\ UNCHANGED <<goal, chip>> /\ timer' \in {timer, Schedule}
    BY <1>1, <1>2, <1>3, <1>5, <1>8, GotoInv DEF Schedule
  <1>9. CASE timer' = FALSE /\ Goto(s, w) /\ UNCHANGED <<goal, chip>>
    BY <1>1, <1>2, <1>7, <1>9, GotoInv
  <1>10. CASE timer' = FALSE /\ Save(s, g, w)
    BY <1>1, <1>2, <1>3, <1>7, <1>10, SaveInv
  <1> QED
    BY <1>8, <1>9, <1>10 DEF ResumeWait, w, g

LEMMA RunNextInv == ASSUME GoalsInv, NEW s \in Slots, RunNext(s) PROVE GoalsInv'
  <1>1. Live(s) /\ UNCHANGED <<goal, chip, timer, queue>> /\ UNCHANGED Rest
    BY DEF RunNext, Working
  <1>2. RuntimeOK(worker, queue', curq, reg, epoch, goal) /\ Fit(Getting, epoch, goal)
        /\ timer' \in BOOLEAN
    BY <1>1, AtHand, NewWorkers
  <1>3. CASE Goto(s, Getting)
    BY <1>1, <1>2, <1>3, GotoInv
  <1>4. CASE /\ IsActive /\ worker[s].id = goal.id
             /\ Goto(s, [worker[s] EXCEPT !.pc = "submit", !.fresh = TRUE])
    <2>1. "submit" \in Pcs \ {"none", "gate", "judge"}
      BY DEF Pcs
    <2>2. Fit([worker[s] EXCEPT !.pc = "submit", !.fresh = TRUE], epoch, goal)
      BY <1>1, <1>4, <2>1, AtHand, MovesFit DEF IsActive, At
    <2> QED
      BY <1>1, <1>2, <1>4, <2>2, GotoInv
  <1> QED
    BY <1>3, <1>4 DEF RunNext

\* A turn the goal writes itself goes to the end of the line.
LEMMA GoalMessage ==
    ASSUME NEW e \in Nat, NEW b, InboxOK(b, e), NEW m \in Messages(e), m.kind = "goal"
    PROVE  InboxOK(Append(b, m), e)
  <1>1. /\ Append(b, m) \in Seq(Messages(e)) /\ Len(Append(b, m)) = Len(b) + 1
        /\ \A i \in 1..Len(b) : Append(b, m)[i] = b[i]
        /\ Append(b, m)[Len(b) + 1] = m
    BY AppendProperties DEF InboxOK
  <1>2. Len(b) \in Nat
    BY LenProperties DEF InboxOK
  <1> DEFINE c == Append(b, m)
  <1>3. ASSUME NEW i \in 1..(Len(b) + 1), NEW j \in 1..(Len(b) + 1), j < i, c[i].kind # "goal"
        PROVE  c[j].epoch < c[i].epoch
    <2>1. i # Len(b) + 1
      BY <1>1, <1>3
    <2>2. i \in 1..Len(b) /\ j \in 1..Len(b)
      BY <1>2, <1>3, <2>1
    <2> QED
      BY <1>1, <1>3, <2>2 DEF InboxOK
  <1> QED
    BY <1>1, <1>3 DEF InboxOK

LEMMA SubmittedInv == ASSUME GoalsInv, NEW s \in Slots, Submitted(s) PROVE GoalsInv'
  <1> DEFINE m == [kind |-> "goal", epoch |-> worker[s].epoch, id |-> worker[s].id]
  <1>1. /\ Live(s) /\ inbox' = Append(inbox, m) /\ Goto(s, Getting)
        /\ UNCHANGED <<goal, held, epoch, run, queue, curq, reg, route, timer, draft, chip, acts, excused>>
    BY DEF Submitted, Working
  <1>2. m \in Messages(epoch) /\ m.kind = "goal"
    BY <1>1, AtHand DEF WorkersOf, Messages
  <1>3. Fit(Getting, epoch, goal) /\ RuntimeOK(worker, queue, curq, reg, epoch, goal)
    BY <1>1, AtHand, NewWorkers
  <1>4. RuntimeOK(worker', queue, curq, reg, epoch, goal)
    BY <1>1, <1>3, GotoOK
  <1> HIDE DEF m
  <1>5. InboxOK(inbox', epoch)
    BY <1>1, <1>2, GoalMessage DEF GoalsInv, RestOK
  <1> QED
    BY <1>1, <1>4, <1>5 DEF GoalsInv, RestOK

LEMMA SubmitFailedInv == ASSUME GoalsInv, NEW s \in Slots, SubmitFailed(s) PROVE GoalsInv'
  <1> DEFINE w == worker[s]
             g == AfterFailure(goal, "failed")
  <1>1. Live(s) /\ UNCHANGED queue /\ UNCHANGED Rest
    BY DEF SubmitFailed, Working
  <1>2. RuntimeOK(worker, queue', curq, reg, epoch, goal) /\ Fit(Getting, epoch, goal)
        /\ timer \in BOOLEAN
    BY <1>1, AtHand, NewWorkers
  <1>3. CASE /\ Goto(s, Getting) /\ UNCHANGED <<goal, chip>>
             /\ timer' \in {timer, (timer /\ goal.st # "paused")}
    BY <1>1, <1>2, <1>3, GotoInv
  <1>4. CASE w.fresh /\ Save(s, g, Notice(w, "rest")) /\ UNCHANGED timer
    <2>1. GoalOK(g)
      BY <1>1, <1>4, AtHand, AfterFailureOK DEF Current, Outcomes
    <2>2. Fit(Notice(w, "rest"), epoch, g)
      BY <1>1, AtHand, MovesFit DEF At
    <2> QED
      BY <1>1, <1>2, <1>4, <2>1, <2>2, SaveInv
  <1>5. w.fresh \in BOOLEAN
    BY <1>1, AtHand DEF WorkersOf
  <1> QED
    BY <1>3, <1>4, <1>5 DEF SubmitFailed

\* Whatever a worker does by itself.
LEMMA WorkKeepsInv == ASSUME GoalsInv, NEW s \in Slots, Work(s) PROVE GoalsInv'
  BY BeginInv, UnwindInv, AfterTurnInv, EvaluateInv, NoticeDeliveredInv, ResumeWaitInv,
     RunNextInv, SubmittedInv, SubmitFailedInv, GateRanInv, JudgeAnsweredInv DEF Work

-----------------------------------------------------------------------------
(* The conversation.                                                       *)

LEMMA InvFacts ==
    ASSUME GoalsInv
    PROVE  /\ epoch \in Nat /\ acts \in Nat /\ goal \in Record /\ GoalOK(goal)
           /\ run \in Turns(epoch) /\ InboxOK(inbox, epoch)
           /\ RuntimeOK(worker, queue, curq, reg, epoch, goal)
           /\ chip \in {"none", "fresh", "stale"} /\ StaleChip \in {"none", "fresh", "stale"}
           /\ \A g : RuntimeOK(Stale(worker), queue, curq, reg, epoch, g)
           /\ Wake \in Works(epoch) /\ NoTurn \in Turns(epoch)
  <1>1. epoch \in Nat /\ RuntimeOK(worker, queue, curq, reg, epoch, goal)
    BY DEF GoalsInv, RestOK
  <1>2. Wake \in Works(epoch) /\ NoTurn \in Turns(epoch)
    BY <1>1 DEF Wake, NoTurn, Works, Turns, Outcomes
  <1> QED
    BY <1>1, <1>2, StaleOK DEF GoalsInv, RestOK, GoalOK, StaleChip

\* Once a parked goal is looked at, whoever finds it free queues its wake.
LEMMA PollInv == ASSUME GoalsInv, Poll PROVE GoalsInv'
  <1>1. timer' = FALSE /\ UNCHANGED <<held, epoch, inbox, run, route, draft, acts, excused>>
    BY DEF Poll
  <1>2. CASE IsActive /\ goal.wait # "none"
    <2>1. goal' = Resolved(goal) /\ chip' = StaleChip /\ Enqueue(Stale(worker), Wake)
      BY <1>2 DEF Poll
    <2>2. GoalOK(goal')
      BY <2>1, InvFacts, ResolvedOK
    <2>3. RuntimeOK(worker', queue', curq', reg', epoch, goal')
      BY <2>1, InvFacts, EnqueueOK
    <2> QED
      BY <1>1, <2>1, <2>2, <2>3, InvFacts DEF GoalsInv, RestOK
  <1>3. CASE ~(IsActive /\ goal.wait # "none")
    BY <1>1, <1>3 DEF Poll, GoalsInv, RestOK
  <1> QED
    BY <1>2, <1>3

\* A message of a user opens an epoch of its own.
LEMMA ArriveInv ==
    ASSUME GoalsInv, NEW kind \in {"chat", "command"}, Arrive(kind) PROVE GoalsInv'
  <1> DEFINE m == [kind |-> kind, epoch |-> epoch + 1, id |-> 0]
  <1>1. /\ acts' = acts + 1 /\ epoch' = epoch + 1 /\ inbox' = Append(inbox, m)
        /\ UNCHANGED <<held, run, queue, curq, reg, route, timer, draft>>
    BY DEF Arrive, Act
  <1>2. run' \in Turns(epoch')
    BY <1>1, InvFacts, EpochsGrow
  <1>3. InboxOK(inbox', epoch')
    <2>1. inbox \in Seq(Messages(epoch')) /\ m \in Messages(epoch') /\ m.epoch = epoch + 1
      <3>1. epoch \in Nat /\ Messages(epoch) \subseteq Messages(epoch + 1)
        BY InvFacts, EpochsGrow
      <3>2. inbox \in Seq(Messages(epoch + 1))
        BY <3>1, InvFacts, SeqMonotonic DEF InboxOK
      <3>3. m \in Messages(epoch + 1)
        BY <3>1 DEF Messages
      <3> QED
        BY <1>1, <3>2, <3>3
    <2> HIDE DEF m
    <2>2. /\ inbox' \in Seq(Messages(epoch')) /\ Len(inbox') = Len(inbox) + 1
          /\ \A i \in 1..Len(inbox) : inbox'[i] = inbox[i]
          /\ inbox'[Len(inbox) + 1] = m
      BY <1>1, <2>1, AppendProperties
    <2>3. Len(inbox) \in Nat /\ \A i \in 1..Len(inbox) : inbox[i] \in Messages(epoch)
      BY InvFacts, LenProperties, ElementOfSeq DEF InboxOK
    <2>4. ASSUME NEW i \in 1..Len(inbox'), NEW j \in 1..Len(inbox'), j < i,
                 inbox'[i].kind # "goal"
          PROVE  inbox'[j].epoch < inbox'[i].epoch
      <3>1. j \in 1..Len(inbox) /\ inbox'[j].epoch \in 0..epoch
        <4>1. j \in 1..Len(inbox)
          BY <2>2, <2>3, <2>4
        <4>2. inbox'[j] = inbox[j] /\ inbox[j] \in Messages(epoch)
          BY <2>2, <2>3, <4>1
        <4> QED
          BY <4>1, <4>2 DEF Messages
      <3>2. CASE i = Len(inbox) + 1
        BY <2>1, <2>2, <3>1, <3>2, InvFacts
      <3>3. CASE i # Len(inbox) + 1
        <4>1. i \in 1..Len(inbox)
          BY <2>2, <2>3, <3>3
        <4> QED
          BY <2>2, <2>4, <3>1, <4>1, InvFacts DEF InboxOK
      <3> QED
        BY <3>2, <3>3
    <2> QED
      BY <2>2, <2>4 DEF InboxOK
  <1>4. /\ GoalOK(goal') /\ chip' \in {"none", "fresh", "stale"}
        /\ RuntimeOK(worker', queue, curq, reg, epoch, goal')
    <2>1. CASE Asked
      <3>1. /\ goal' = [goal EXCEPT !.st = "active"] /\ worker' = Stale(worker)
            /\ chip' = StaleChip
        BY <2>1 DEF Arrive
      <3>2. GoalOK(goal')
        BY <3>1, InvFacts DEF GoalOK, Record, Statuses
      <3> QED
        BY <3>1, <3>2, InvFacts
    <2>2. CASE ~Asked
      BY <2>2, InvFacts DEF Arrive
    <2> QED
      BY <2>1, <2>2
  <1>5. RuntimeOK(worker', queue', curq', reg', epoch', goal')
    BY <1>1, <1>4, InvFacts, RuntimeGrows
  <1> QED
    BY <1>1, <1>2, <1>3, <1>4, <1>5 DEF GoalsInv, RestOK

LEMMA TailOK ==
    ASSUME NEW e \in Nat, NEW b, InboxOK(b, e), b # <<>>
    PROVE  InboxOK(Tail(b), e) /\ Head(b) \in Messages(e)
  <1>1. /\ Head(b) \in Messages(e) /\ Tail(b) \in Seq(Messages(e))
        /\ Len(Tail(b)) = Len(b) - 1 /\ Len(b) \in Nat
        /\ \A i \in 1..Len(Tail(b)) : Tail(b)[i] = b[i + 1]
    BY HeadTailProperties, LenProperties DEF InboxOK
  <1>2. ASSUME NEW i \in 1..Len(Tail(b)), NEW j \in 1..Len(Tail(b)), j < i,
               Tail(b)[i].kind # "goal"
        PROVE  Tail(b)[j].epoch < Tail(b)[i].epoch
    <2>1. i + 1 \in 1..Len(b) /\ j + 1 \in 1..Len(b) /\ j + 1 < i + 1
      BY <1>1, <1>2
    <2> QED
      BY <1>1, <1>2, <2>1 DEF InboxOK
  <1> QED
    BY <1>1, <1>2 DEF InboxOK

LEMMA StartTurnInv == ASSUME GoalsInv, StartTurn PROVE GoalsInv'
  <1>1. /\ inbox # <<>> /\ inbox' = Tail(inbox)
        /\ UNCHANGED <<goal, held, epoch, queue, worker, curq, reg, route, timer, draft, chip,
                       acts, excused>>
    BY DEF StartTurn
  <1> DEFINE m == Head(inbox)
  <1>2. InboxOK(inbox', epoch) /\ m \in Messages(epoch)
    BY <1>1, InvFacts, TailOK
  <1> HIDE DEF m
  <1>3. Bound \in Nat
    BY InvFacts DEF Bound, Record
  <1>4. run' \in Turns(epoch)
    <2>1. run' = NoTurn \/ (m.kind \in {"chat", "goal"}
             /\ run' = [kind |-> m.kind, epoch |-> m.epoch, bind |-> Bound, made |-> 0])
      BY DEF StartTurn, m
    <2> QED
      BY <1>2, <1>3, <2>1, InvFacts DEF Turns, Messages
  <1> QED
    BY <1>1, <1>2, <1>4 DEF GoalsInv, RestOK

LEMMA EndTurnInv == ASSUME GoalsInv, NEW how \in Outcomes, EndTurn(how) PROVE GoalsInv'
  <1> DEFINE id == IF run.bind # 0 THEN run.bind
                   ELSE IF run.made = goal.id THEN run.made ELSE 0
             e  == IF run.kind = "set" THEN epoch ELSE run.epoch
             x  == [kind |-> "turn", how |-> how, epoch |-> e, id |-> id]
  <1>1. /\ Enqueue(worker, x) /\ run' = NoTurn /\ route' = TRUE
        /\ UNCHANGED <<goal, held, epoch, inbox, timer, draft, chip, acts, excused>>
    BY DEF EndTurn
  <1>2. id \in Nat /\ e \in 0..epoch
    BY InvFacts DEF Turns
  <1> HIDE DEF id, e
  <1>3. x \in Works(epoch)
    BY <1>2 DEF Works
  <1> HIDE DEF x
  <1>4. RuntimeOK(worker', queue', curq', reg', epoch, goal)
    BY <1>1, <1>3, InvFacts, EnqueueOK
  <1> QED
    BY <1>1, <1>4, InvFacts DEF GoalsInv, RestOK

LEMMA UnwaitedInv == ASSUME GoalsInv, Unwaited PROVE GoalsInv'
  <1>1. /\ Enqueue(worker, Wake) /\ run' = NoTurn
        /\ UNCHANGED <<goal, held, epoch, inbox, route, timer, draft, chip, acts, excused>>
    BY DEF Unwaited
  <1>2. RuntimeOK(worker', queue', curq', reg', epoch, goal)
    BY <1>1, InvFacts, EnqueueOK
  <1> QED
    BY <1>1, <1>2, InvFacts DEF GoalsInv, RestOK

LEMMA HoldInv == ASSUME GoalsInv, NEW c \in Conditions, Hold(c) PROVE GoalsInv'
  BY DEF Hold, Act, GoalsInv, RestOK

LEMMA ReleaseInv == ASSUME GoalsInv, NEW c \in Conditions, Release(c) PROVE GoalsInv'
  <1>1. /\ held' = held \ {c}
        /\ Enqueue(worker, Wake) \/ UNCHANGED <<queue, worker, curq, reg>>
        /\ UNCHANGED <<goal, epoch, inbox, run, route, timer, draft, chip, acts, excused>>
    BY DEF Release
  <1>2. RuntimeOK(worker', queue', curq', reg', epoch, goal)
    BY <1>1, InvFacts, EnqueueOK
  <1> QED
    BY <1>1, <1>2 DEF GoalsInv, RestOK

-----------------------------------------------------------------------------
(* What users do to the goal.                                              *)

\* A user writes the record: what becomes of the workers keeps them in order.
LEMMA WriteInv ==
    ASSUME GoalsInv, GoalOK(goal'), chip' \in {"none", "fresh", "stale"},
           acts' \in {acts, acts + 1}, draft' \in Nat, timer' \in BOOLEAN, route' \in BOOLEAN,
           run' \in Turns(epoch), UNCHANGED <<held, epoch, inbox>>,
           RuntimeOK(worker', queue', curq', reg', epoch, goal')
    PROVE  GoalsInv'
  BY DEF GoalsInv, RestOK

\* The same where the runtime is not touched but for its readers.
LEMMA EditInv ==
    ASSUME GoalsInv, NEW g, GoalOK(g), goal' = g, chip' \in {"none", "fresh", "stale"},
           acts' \in {acts, acts + 1}, draft' \in Nat, run' \in Turns(epoch),
           worker' = Stale(worker),
           UNCHANGED <<held, epoch, inbox, queue, curq, reg, route, timer>>
    PROVE  GoalsInv'
  BY InvFacts, WriteInv DEF GoalsInv, RestOK

LEMMA NewGoalOK == ASSUME GoalsInv PROVE GoalOK(NewGoal) /\ NewGoal.id = goal.id + 1
  <1> DEFINE n == goal.id + 1
  <1>1. n \in Nat
    BY InvFacts DEF Record
  <1>2. NoGoal \in Record /\ NoGoal.wait = "none"
    BY DEF NoGoal, Record, Statuses, NoGate
  <1>3. NewGoal = [NoGoal EXCEPT !.id = n, !.st = "active"]
    BY DEF NewGoal
  <1> HIDE DEF n
  <1>4. GoalOK(NewGoal) /\ NewGoal.id = n
    BY <1>1, <1>2, <1>3 DEF GoalOK, Record, Statuses
  <1> QED
    BY <1>4 DEF n

\* cancel_session after a write.
LEMMA CutOff ==
    ASSUME GoalsInv, CancelSession(Stale(worker))
    PROVE  /\ timer' = FALSE /\ route' = FALSE
           /\ \A g : RuntimeOK(worker', queue', curq', reg', epoch, g)
  BY InvFacts, CancelSessionOK DEF CancelSession

LEMMA SetGoalInv == ASSUME GoalsInv, SetGoal PROVE GoalsInv'
  <1>1. /\ acts' = acts + 1 /\ goal' = NewGoal /\ draft' = goal.id + 1 /\ chip' = StaleChip
        /\ CancelSession(Stale(worker)) /\ UNCHANGED <<held, epoch, inbox>>
    BY DEF SetGoal, Act
  <1>2. goal.id + 1 \in Nat /\ Bound \in Nat
    BY InvFacts DEF Record, Bound
  <1>3. run' \in Turns(epoch)
    <2>1. CASE run = NoTurn
      BY <1>2, <2>1, InvFacts DEF SetGoal, Turns
    <2>2. CASE run # NoTurn
      BY <1>2, <2>2, InvFacts DEF SetGoal, Turns
    <2> QED
      BY <2>1, <2>2
  <1> QED
    BY <1>1, <1>2, <1>3, InvFacts, NewGoalOK, CutOff, WriteInv

LEMMA AttachContractInv == ASSUME GoalsInv, AttachContract PROVE GoalsInv'
  <1>1. /\ draft' = 0
        /\ UNCHANGED <<held, epoch, inbox, run, queue, curq, reg, route, timer, acts>>
    BY DEF AttachContract
  <1>2. CASE draft = goal.id /\ IsLive /\ ~goal.contract
    <2> DEFINE n == goal.crit + 1
    <2>1. n \in Nat
      BY InvFacts DEF Record
    <2>2. /\ goal' = [goal EXCEPT !.contract = TRUE, !.crit = n] /\ chip' = StaleChip
          /\ worker' = Stale(worker)
      BY <1>2 DEF AttachContract, Store
    <2> HIDE DEF n
    <2>3. GoalOK([goal EXCEPT !.contract = TRUE, !.crit = n])
      BY <2>1, InvFacts DEF GoalOK, Record
    <2> QED
      BY <1>1, <2>2, <2>3, InvFacts, EditInv
  <1>3. CASE ~(draft = goal.id /\ IsLive /\ ~goal.contract)
    BY <1>1, <1>3 DEF AttachContract, GoalsInv, RestOK
  <1> QED
    BY <1>2, <1>3

LEMMA EditedOK == ASSUME GoalsInv, NEW g \in Edited(goal) PROVE GoalOK(g)
  <1> DEFINE n == goal.crit + 1
             k == IF goal.gate = NoGate THEN 0 ELSE NoGate
  <1>1. n \in Nat /\ k \in Nat \cup {NoGate}
    BY InvFacts DEF Record
  <1>2. CASE g = [goal EXCEPT !.crit = n]
    BY <1>1, <1>2, InvFacts DEF GoalOK, Record
  <1>3. CASE g = [goal EXCEPT !.crit = n, !.gate = k]
    <2> HIDE DEF n, k
    <2> QED
      BY <1>1, <1>3, InvFacts DEF GoalOK, Record
  <1>4. CASE goal.st = "active" /\ g = [goal EXCEPT !.wait = "process"]
    BY <1>4, InvFacts, GoalsAssumption DEF GoalOK, Record
  <1> QED
    BY <1>2, <1>3, <1>4 DEF Edited

LEMMA CommandInv ==
    ASSUME GoalsInv, Edit \/ Unwait \/ CommandResume \/ ControlResume PROVE GoalsInv'
  <1>1. GoalOK(Resumed(goal)) /\ GoalOK([goal EXCEPT !.wait = "none"])
    BY InvFacts DEF GoalOK, Resumed, Record, Statuses
  <1>2. draft \in Nat
    BY DEF GoalsInv, RestOK
  <1>3. CASE Edit
    BY <1>2, <1>3, InvFacts, EditedOK, EditInv DEF Edit, Store, Act
  <1>4. CASE Unwait
    <2>1. run' \in Turns(epoch)
      BY <1>4, InvFacts DEF Unwait, NoTurn, Turns
    <2> QED
      BY <1>1, <1>2, <1>4, <2>1, InvFacts, EditInv DEF Unwait, Store, Act
  <1>5. CASE CommandResume
    BY <1>1, <1>2, <1>5, InvFacts, EditInv DEF CommandResume, Store, Act
  <1>6. CASE ControlResume
    BY <1>1, <1>2, <1>6, InvFacts, EditInv DEF ControlResume, Act
  <1> QED
    BY <1>3, <1>4, <1>5, <1>6

LEMMA HaltInv ==
    ASSUME GoalsInv, NEW st \in {"paused", "cleared"}, Halt(st) PROVE GoalsInv'
  <1>1. /\ acts' = acts + 1 /\ chip' = StaleChip /\ CancelSession(Stale(worker))
        /\ UNCHANGED <<held, epoch, inbox, run, draft>>
        /\ goal' = IF st = "paused" THEN Paused(goal) ELSE Cleared(goal)
    BY DEF Halt, Store, Act
  <1>2. GoalOK(Cleared(goal))
    BY InvFacts DEF Cleared, NoGoal, GoalOK, Record, Statuses, NoGate
  <1>3. GoalOK(goal') /\ draft' \in Nat
    BY <1>1, <1>2, InvFacts, PausedOK DEF GoalsInv, RestOK
  <1> QED
    BY <1>1, <1>3, InvFacts, CutOff, WriteInv

LEMMA ControlWakeInv == ASSUME GoalsInv, ControlWake PROVE GoalsInv'
  <1>1. /\ Enqueue(worker, Wake) \/ UNCHANGED <<queue, worker, curq, reg>>
        /\ UNCHANGED <<goal, held, epoch, inbox, run, route, timer, draft, acts, excused>>
    BY DEF ControlWake
  <1>2. chip' = "none"
    BY DEF ControlWake
  <1>3. RuntimeOK(worker', queue', curq', reg', epoch, goal)
    BY <1>1, InvFacts, EnqueueOK
  <1> QED
    BY <1>1, <1>2, <1>3 DEF GoalsInv, RestOK

\* A process that starts has one worker if there is a goal to go on with.
LEMMA RestartInv == ASSUME GoalsInv, Restart PROVE GoalsInv'
  <1>1. PICK s \in Slots :
          /\ queue' = [t \in Slots |-> IF t = s /\ Sweep THEN <<Wake>> ELSE <<>>]
          /\ worker' = [t \in Slots |-> IF t = s /\ Sweep THEN [NoWorker EXCEPT !.pc = "new"]
                                                          ELSE NoWorker]
          /\ curq' = IF Sweep THEN s ELSE 0
          /\ reg' = IF Sweep THEN s ELSE 0
    BY DEF Restart
  <1>2. /\ acts' = acts + 1 /\ epoch' = 0 /\ inbox' = <<>> /\ run' = NoTurn /\ route' = FALSE
        /\ timer' = FALSE /\ draft' = 0 /\ chip' = "none" /\ UNCHANGED <<goal, held>>
    BY DEF Restart, Act
  <1> DEFINE n == [NoWorker EXCEPT !.pc = "new"]
  <1>3. /\ Fit(n, 0, goal) /\ NoWorker \in WorkersOf(0) /\ ~At(NoWorker)
        /\ Current(NoWorker, goal) /\ Wake \in Works(0) /\ NoTurn \in Turns(0)
    BY NewWorkers DEF Wake, NoTurn, Works, Turns, Outcomes
  <1> HIDE DEF n
  <1>4. <<Wake>> \in Seq(Works(0)) /\ <<>> \in Seq(Works(0)) /\ <<>> \in Seq(Messages(0))
    BY <1>3, EmptySeq
  <1>5. RuntimeOK(worker', queue', curq', reg', 0, goal)
    <2>1. worker' = [t \in Slots |-> IF t = s /\ Sweep THEN n ELSE NoWorker]
      BY <1>1 DEF n
    <2>2. worker' \in [Slots -> WorkersOf(0)] /\ queue' \in [Slots -> Seq(Works(0))]
      BY <1>1, <1>3, <1>4, <2>1 DEF Fit
    <2> QED
      BY <1>1, <1>3, <2>1, <2>2, GoalsAssumption DEF RuntimeOK, Fit, At
  <1>6. InboxOK(<<>>, 0)
    BY <1>4 DEF InboxOK
  <1>7. RuntimeOK(worker', queue', curq', reg', epoch', goal') /\ InboxOK(inbox', epoch')
        /\ run' \in Turns(epoch')
    BY <1>2, <1>3, <1>5, <1>6
  <1>8. GoalOK(goal') /\ RestOK'
    <2>1. GoalOK(goal')
      BY <1>2 DEF GoalsInv
    <2>2. held' \subseteq Conditions /\ acts' \in Nat
      BY <1>2 DEF GoalsInv, RestOK
    <2> QED
      BY <1>2, <2>1, <2>2 DEF RestOK
  <1> QED
    BY <1>7, <1>8 DEF GoalsInv

-----------------------------------------------------------------------------
(* The theorems.                                                           *)

LEMMA GoalsInitInv == GoalsInit => GoalsInv
  <1> SUFFICES ASSUME GoalsInit PROVE GoalsInv
    OBVIOUS
  <1>1. GoalOK(goal) /\ RestOK
    BY DEF GoalsInit, GoalOK, NoGoal, Record, Statuses, NoGate, RestOK
  <1>2. /\ NoWorker \in WorkersOf(0) /\ ~At(NoWorker) /\ Current(NoWorker, goal)
        /\ NoTurn \in Turns(0) /\ NoWorker.pc = "none"
    BY NewWorkers DEF NoTurn, Turns
  <1>3. <<>> \in Seq(Works(0)) /\ <<>> \in Seq(Messages(0))
    BY EmptySeq
  <1>4. RuntimeOK(worker, queue, curq, reg, 0, goal)
    BY <1>2, <1>3, GoalsAssumption DEF GoalsInit, RuntimeOK
  <1>5. InboxOK(inbox, 0)
    BY <1>3 DEF GoalsInit, InboxOK
  <1> QED
    BY <1>1, <1>2, <1>4, <1>5 DEF GoalsInit, GoalsInv

LEMMA GoalsNextInv == GoalsInv /\ [GoalsNext]_goalVars => GoalsInv'
  <1> SUFFICES ASSUME GoalsInv, [GoalsNext]_goalVars PROVE GoalsInv'
    OBVIOUS
  <1>1. CASE UNCHANGED goalVars
    BY <1>1 DEF goalVars, GoalsInv, RestOK
  <1>2. CASE User
    BY <1>2, ArriveInv, SetGoalInv, CommandInv, HaltInv DEF User
  <1>3. CASE \E s \in Slots : Work(s) \/ Retire(s)
    BY <1>3, WorkKeepsInv, RetireInv
  <1>4. CASE Poll \/ StartTurn \/ Unwaited \/ AttachContract \/ ControlWake \/ Restart
    BY <1>4, PollInv, StartTurnInv, UnwaitedInv, AttachContractInv, ControlWakeInv, RestartInv
  <1>5. CASE \E how \in Outcomes : EndTurn(how)
    BY <1>5, EndTurnInv
  <1>6. CASE \E c \in Conditions : Hold(c) \/ Release(c)
    BY <1>6, HoldInv, ReleaseInv
  <1> QED
    BY <1>1, <1>2, <1>3, <1>4, <1>5, <1>6 DEF GoalsNext

\* Whatever users, turns, judges and restarts do, record, runtime and
\* conversation agree.
THEOREM GoalsInvariant == GoalsSpec => []GoalsInv
  BY GoalsInitInv, GoalsNextInv, PTL DEF GoalsSpec

\* The runtime has its types, and turns are judged by one worker at a time,
\* though it may be cancelled, replaced and given another's queue
\* (GoalRuntime "serializes evaluation per session").
THEOREM GoalsTyped == GoalsSpec => []GoalsTypeOK
  <1>1. GoalsInv => GoalsTypeOK
    BY DEF GoalsInv, GoalOK, RestOK, RuntimeOK, At, Record, GoalsTypeOK, Live, IsActive
  <1> QED
    BY <1>1, GoalsInvariant, PTL

-----------------------------------------------------------------------------
(* What a verdict reaches.                                                 *)

\* The goal ends or pauses in this step, and what its worker had in hand.
Ends == IsActive /\ goal'.st \in {"done", "paused"}
InHand(t) == /\ Live(t)
             /\ \/ worker[t].id = goal.id
                \/ (queue[t] # <<>> /\ Head(queue[t]).id = goal.id)

LEMMA JudgeFits ==
    ASSUME GoalsInv, NEW t \in Slots, NEW v \in Verdicts, JudgeAnswered(t, v), Ends
    PROVE  InHand(t) /\ worker[t].saw = goal.crit
  <1>1. Live(t) /\ worker[t].pc = "judge"
    BY DEF JudgeAnswered, Working
  <1>2. worker[t].fresh
    BY DEF JudgeAnswered, Unchanged, Leave, Ends, IsActive
  <1> QED
    BY <1>1, <1>2, AtHand DEF Current, InHand

LEMMA GateFits ==
    ASSUME GoalsInv, NEW t \in Slots, NEW passed \in BOOLEAN, GateRan(t, passed), Ends
    PROVE  InHand(t) /\ goal'.st # "done"
  <1>1. Live(t) /\ worker[t].pc = "gate"
    BY DEF GateRan, Working
  <1>2. worker[t].fresh
    BY DEF GateRan, Leave, Ends, IsActive
  <1> DEFINE n == IF passed THEN 0 ELSE goal.gate + 1
             h == [goal EXCEPT !.gate = n]
  <1>3. goal' \in {h, Paused(h)}
    BY <1>2 DEF GateRan, Save
  <1>4. n \in Nat /\ goal \in Record
    BY InvFacts DEF Record, NoGate
  <1> HIDE DEF n
  <1>5. h \in Record /\ h.st = goal.st
    BY <1>4 DEF Record
  <1> HIDE DEF h
  <1>6. goal'.st # "done"
    BY <1>3, <1>5, PausedOK DEF Ends, IsActive
  <1> QED
    BY <1>1, <1>2, <1>6, AtHand DEF Current, InHand

LEMMA TurnFits ==
    ASSUME GoalsInv, NEW t \in Slots, AfterTurn(t), Ends
    PROVE  InHand(t) /\ goal'.st # "done"
  <1> DEFINE it == Head(queue[t])
  <1>1. Live(t) /\ queue[t] # <<>>
    BY DEF AfterTurn, Working
  <1>2. Concerns(it)
    BY DEF AfterTurn, Ends, IsActive
  <1>3. \/ goal' = goal \/ \E b \in Blockers : goal' = [goal EXCEPT !.wait = b]
        \/ (Unsuccessful(it.how) /\ goal' = AfterFailure(goal, it.how))
    BY DEF AfterTurn, Save
  <1>4. \A b : [goal EXCEPT !.wait = b].st = goal.st
    BY InvFacts DEF Record
  <1>5. ASSUME NEW how \in Outcomes \ {"ok"}
        PROVE  AfterFailure(goal, how).st # "done"
    <2>1. CASE how = "aborted"
      BY <2>1, InvFacts, PausedOK DEF AfterFailure
    <2>2. CASE how = "failed"
      <3>1. [Paused(goal) EXCEPT !.asked = TRUE].st = "paused"
        BY InvFacts, PausedOK DEF GoalOK, Record
      <3> QED
        BY <2>2, <3>1 DEF AfterFailure
    <2>3. CASE how = "overflow"
      <3> DEFINE n == goal.compaction + 1
                 h == [goal EXCEPT !.compaction = n, !.asked = FALSE]
      <3>1. n \in Nat
        BY InvFacts DEF Record
      <3>2. AfterFailure(goal, how) \in {Paused(h), h}
        BY <2>3 DEF AfterFailure
      <3> HIDE DEF n
      <3>3. h \in Record /\ h.st = goal.st
        BY <3>1, InvFacts DEF Record
      <3> HIDE DEF h
      <3> QED
        BY <3>2, <3>3, PausedOK DEF Ends, IsActive
    <2> QED
      BY <2>1, <2>2, <2>3 DEF Outcomes
  <1>6. it.how \in Outcomes
    BY <1>1, InvFacts, TakeOK DEF Works
  <1>7. goal'.st # "done"
    BY <1>3, <1>4, <1>5, <1>6 DEF Ends, IsActive, Unsuccessful
  <1> QED
    BY <1>1, <1>2, <1>7 DEF InHand, Concerns

LEMMA SubmitFits ==
    ASSUME GoalsInv, NEW t \in Slots, SubmitFailed(t), Ends
    PROVE  InHand(t) /\ goal'.st # "done"
  <1>1. Live(t)
    BY DEF SubmitFailed, Working
  <1>2. worker[t].fresh /\ goal' = AfterFailure(goal, "failed")
    <2>1. worker[t].fresh \in BOOLEAN
      BY <1>1, AtHand DEF WorkersOf
    <2> QED
      BY <2>1 DEF SubmitFailed, Save, Ends, IsActive
  <1>3. [Paused(goal) EXCEPT !.asked = TRUE].st = "paused"
    BY InvFacts, PausedOK DEF GoalOK, Record
  <1>4. goal'.st = "paused"
    BY <1>2, <1>3 DEF AfterFailure
  <1> QED
    BY <1>1, <1>2, <1>4, AtHand DEF Current, InHand

\* No other step of worker, poller or conversation ends or pauses a goal; users
\* do, and they act.
LEMMA OthersGoOn ==
    ASSUME GoalsInv, acts' = acts,
           \/ User \/ Restart \/ Poll \/ StartTurn \/ Unwaited \/ AttachContract \/ ControlWake
           \/ \E how \in Outcomes : EndTurn(how)
           \/ \E c \in Conditions : Hold(c) \/ Release(c)
           \/ UNCHANGED goalVars
           \/ \E t \in Slots : \/ Begin(t) \/ Unwind(t) \/ Retire(t) \/ Evaluate(t)
                               \/ NoticeDelivered(t) \/ ResumeWait(t) \/ RunNext(t) \/ Submitted(t)
    PROVE  goal'.st = goal.st
  <1>1. acts + 1 # acts /\ Resolved(goal).st = goal.st /\ Resolved(goal) \in Record /\ goal \in Record
    BY InvFacts, ResolvedOK DEF GoalOK
  <1>2. CASE User \/ Restart
    BY <1>1, <1>2 DEF User, Restart, Arrive, SetGoal, Edit, Unwait, CommandResume, ControlResume,
                      Halt, Act
  <1>3. CASE AttachContract
    <2>1. \A n : [goal EXCEPT !.contract = TRUE, !.crit = n].st = goal.st
      BY <1>1 DEF Record
    <2> QED
      BY <1>3, <2>1 DEF AttachContract, Store
  <1>4. CASE Poll \/ StartTurn \/ Unwaited \/ ControlWake
    BY <1>1, <1>4 DEF Poll, StartTurn, Unwaited, ControlWake
  <1>5. CASE \E how \in Outcomes : EndTurn(how)
    BY <1>5 DEF EndTurn
  <1>6. CASE \E c \in Conditions : Hold(c) \/ Release(c)
    BY <1>6 DEF Hold, Release
  <1>7. CASE UNCHANGED goalVars
    BY <1>7 DEF goalVars
  <1>8. CASE \E t \in Slots : \/ Begin(t) \/ Unwind(t) \/ Retire(t) \/ NoticeDelivered(t)
                              \/ ResumeWait(t) \/ RunNext(t) \/ Submitted(t)
    BY <1>1, <1>8 DEF Begin, Unwind, Retire, NoticeDelivered, ResumeWait, RunNext, Submitted, Save
  <1>9. ASSUME NEW t \in Slots, Evaluate(t) PROVE goal'.st = goal.st
    <2>1. \A g \in Record : \A n : [g EXCEPT !.used = n, !.compaction = 0].st = g.st
      BY DEF Record
    <2> QED
      <3> DEFINE g == Resolved(goal)
      <3>1. [g EXCEPT !.used = g.used + 1, !.compaction = 0].st = goal.st
        BY <1>1, <2>1
      <3>2. [g EXCEPT !.used = @ + 1, !.compaction = 0]
               = [g EXCEPT !.used = g.used + 1, !.compaction = 0]
        OBVIOUS
      <3>3. goal' \in {goal, [g EXCEPT !.used = @ + 1, !.compaction = 0]}
        BY <1>9 DEF Evaluate, Leave, Save
      <3> QED
        BY <3>1, <3>2, <3>3
  <1> QED
    BY <1>2, <1>3, <1>4, <1>5, <1>6, <1>7, <1>8, <1>9

LEMMA StepFits ==
    ASSUME GoalsInv, [GoalsNext]_goalVars, acts' = acts, Ends
    PROVE  /\ \E t \in Slots : InHand(t)
           /\ goal'.st = "done" => \E t \in Slots : Live(t) /\ worker[t].saw = goal.crit
  <1>1. goal'.st # goal.st
    BY DEF Ends, IsActive
  <1>2. PICK t \in Slots : \/ AfterTurn(t) \/ SubmitFailed(t)
                           \/ \E passed \in BOOLEAN : GateRan(t, passed)
                           \/ \E v \in Verdicts : JudgeAnswered(t, v)
    BY <1>1, OthersGoOn DEF GoalsNext, Work
  <1> QED
    BY <1>2, JudgeFits, GateFits, TurnFits, SubmitFits DEF InHand

\* A verdict, a gate or a failed turn ends or pauses only the goal it was made
\* for, and a goal is done only by the criteria it has now, whatever users
\* wrote while the judge was asked (compare_and_update).
THEOREM VerdictsFit == GoalsSpec => VerdictFits
  <1>1. GoalsInv /\ [GoalsNext]_goalVars
          => [\A s \in Slots :
               worker'[s] # worker[s] /\ acts' = acts /\ IsActive /\ goal'.st \in {"done", "paused"}
                  => /\ \E t \in Slots :
                          /\ Live(t)
                          /\ \/ worker[t].id = goal.id
                             \/ (queue[t] # <<>> /\ Head(queue[t]).id = goal.id)
                     /\ goal'.st = "done" => \E t \in Slots : Live(t) /\ worker[t].saw = goal.crit]_goalVars
    BY StepFits DEF Ends, InHand
  <1> QED
    BY <1>1, GoalsInvariant, PTL DEF GoalsSpec, VerdictFits

-----------------------------------------------------------------------------
(* Who goes first.                                                         *)

LEMMA TurnsStart ==
    ASSUME GoalsInv, [GoalsNext]_goalVars, run = NoTurn, run'.kind = "goal"
    PROVE  StartTurn
  <1>1. run.kind = "none" /\ ~InTurn /\ run.kind # "unwait"
    BY DEF NoTurn, InTurn
  <1>2. run' # run
    BY <1>1
  <1>3. ~(SetGoal \/ Unwait \/ Restart)
    BY <1>1 DEF SetGoal, Unwait, Restart, NoTurn
  <1>4. ~(\/ \E kind \in {"chat", "command"} : Arrive(kind)
          \/ Edit \/ CommandResume \/ ControlResume
          \/ \E st \in {"paused", "cleared"} : Halt(st))
    BY <1>2 DEF Arrive, Edit, CommandResume, ControlResume, Halt
  <1>5. ~(\E s \in Slots : Work(s) \/ Retire(s))
    BY <1>2 DEF Work, Retire, Begin, Unwind, AfterTurn, Evaluate, NoticeDelivered, ResumeWait,
                RunNext, Submitted, SubmitFailed, GateRan, JudgeAnswered, Rest
  <1>6. ~(Poll \/ Unwaited \/ AttachContract \/ ControlWake)
    BY <1>1, <1>2 DEF Poll, Unwaited, AttachContract, ControlWake
  <1>7. ~(\/ \E how \in Outcomes : EndTurn(how)
          \/ \E c \in Conditions : Hold(c) \/ Release(c))
    BY <1>1, <1>2 DEF EndTurn, Hold, Release
  <1>8. ~UNCHANGED goalVars
    BY <1>2 DEF goalVars
  <1> QED
    BY <1>3, <1>4, <1>5, <1>6, <1>7, <1>8 DEF GoalsNext, User

LEMMA StartsLast ==
    ASSUME GoalsInv, StartTurn, run'.kind = "goal"
    PROVE  \A i \in DOMAIN inbox' : inbox'[i].kind = "goal"
  <1>1. /\ inbox # <<>> /\ inbox' = Tail(inbox) /\ inbox \in Seq(Messages(epoch)) /\ epoch \in Nat
    BY InvFacts DEF StartTurn, InboxOK
  <1>2. Head(inbox).epoch = epoch
    BY DEF StartTurn, StillWanted, NoTurn
  <1>3. /\ Len(inbox) \in Nat \ {0} /\ Head(inbox) = inbox[1]
        /\ DOMAIN inbox' = 1..(Len(inbox) - 1)
        /\ \A i \in 1..(Len(inbox) - 1) : inbox'[i] = inbox[i + 1]
    BY <1>1, HeadTailProperties, LenProperties, EmptySeq
  <1>4. ASSUME NEW i \in 1..(Len(inbox) - 1), inbox[i + 1].kind # "goal"
        PROVE  FALSE
    <2>1. 1 \in 1..Len(inbox) /\ i + 1 \in 1..Len(inbox) /\ 1 < i + 1
      BY <1>3
    <2>2. inbox[1].epoch < inbox[i + 1].epoch
      BY <1>4, <2>1, InvFacts DEF InboxOK
    <2>3. inbox[i + 1] \in Messages(epoch)
      BY <1>1, <2>1, ElementOfSeq
    <2>4. inbox[i + 1].epoch \in 0..epoch
      BY <2>3 DEF Messages
    <2> QED
      BY <1>1, <1>2, <1>3, <2>2, <2>4
  <1> QED
    BY <1>3, <1>4

\* However many turns a goal has queued and however late they get the lock, a
\* message of a user that waits goes ahead of them ("a continuation is
\* discarded whenever that epoch changes").
THEOREM UsersGoFirst == GoalsSpec => UserFirst
  <1>1. GoalsInv /\ [GoalsNext]_goalVars
          => [run = NoTurn /\ run'.kind = "goal" =>
                \A i \in DOMAIN inbox' : inbox'[i].kind = "goal"]_goalVars
    BY TurnsStart, StartsLast
  <1> QED
    BY <1>1, GoalsInvariant, PTL DEF GoalsSpec, UserFirst
=============================================================================
