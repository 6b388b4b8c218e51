------------------------- MODULE BoardOrchestrator --------------------------
(***************************************************************************)
(* The Board's executor and dispatcher, src/flowly/board/orchestrator.py,  *)
(* composed with the store and the voice ledger.  One asyncio process: a   *)
(* step is what runs between two awaits.                                   *)
(*                                                                         *)
(* An execution is one coroutine of _execute, named by who started it and  *)
(* the card: "manual" (start_card), "dispatch" (dispatch_once) or "goal"   *)
(* (a child of run_goal).  Its pc is where it awaits:                      *)
(*   queued   on the global semaphore      profile  on a profile's         *)
(*   running  on the spawned worker        unwind   on its heartbeat task, *)
(*            in the finally block                                         *)
(*   notify   on the finish hook           ending   done, callbacks due    *)
(*   returned, raised   (goal) its result waits for the other children     *)
(* The semaphores are counted from the pcs.  A captured worker and the     *)
(* profile a worker is spawned on are kept apart, as in the code.          *)
(*                                                                         *)
(* The clock is relative here: now stays 1 and Elapse moves every lease    *)
(* and schedule one tick nearer, so that time never runs out.              *)
(***************************************************************************)
EXTENDS VoiceCommands, Orderings

CONSTANTS MaxParallel,  \* the global execution budget (code: 5)
          MaxChildren,  \* bound: children of a goal; 0 leaves goals out
          Moves,        \* bound: the columns users drag cards to
          EditCards     \* bound: the cards users edit, run, cancel or delete

ASSUME ParallelAssumption ==
    /\ MaxParallel \in Nat \ {0} /\ MaxChildren \in Nat
    /\ Moves \subseteq Statuses /\ EditCards \subseteq Cards

VARIABLES ex,          \* the executions
          reg,         \* _tasks: the execution whose worker a card runs
          cancelReq,   \* _cancel_requests
          cancelling,  \* cards with a cancel_card call waiting for an unwind
          goal,        \* the run_goal in flight, or NoGoal
          line,        \* the order of those that wait for a semaphore: <<earlier, later>>
          asks,        \* _control_tasks: stops a worker's host is asked about
          wake,        \* _dispatch_wake
          phase,       \* "up", "stopping" (dispatch tasks), "stopped" (manual)
          boot         \* the first claim token of this process

orchVars == <<ex, reg, cancelReq, cancelling, goal, line, asks, wake, phase, boot>>
vars == <<voiceVars, orchVars>>

Kinds  == {"manual", "dispatch", "goal"}
Execs  == Kinds \X Cards
NoExec == <<>>
NoGoal == <<>>
Idle   == [pc |-> "idle", worker |-> NoProfile, token |-> 0, profile |-> NoProfile,
           pend |-> FALSE, err |-> FALSE]

Manual(c)   == <<"manual", c>>
Dispatch(c) == <<"dispatch", c>>
Active(e)   == ex[e].pc # "idle"
Running(e)  == ex[e].pc = "running"
IsRunning(c) == reg[c] # NoExec /\ Running(reg[c])

\* Mutant of Inside: a goal keeps a slot of the budget for itself.
InsideWithGoal == {e \in Execs : \/ ex[e].pc \in {"profile", "running", "unwind"}
                                \/ (goal # NoGoal /\ e = <<"manual", goal.parent>>)}

\* Who holds and who waits for the semaphores.  asyncio hands them out first
\* come, first served: a newcomer waits behind those already waiting, but
\* for the ones whose wait was cancelled.
Inside     == {e \in Execs : ex[e].pc \in {"profile", "running", "unwind"}}

\* Whether the global semaphore has a slot (and a mutant: it always has).
SlotAlways == TRUE
SlotFree   == Cardinality(Inside) < MaxParallel

\* The same for the semaphore of a profile.
Holding(p) == {e \in Execs : /\ ex[e].pc \in {"running", "unwind"}
                             /\ e[2] \in BgCards /\ ex[e].worker = p}
Waiting(p) == {e \in Execs : ex[e].pc = "profile" /\ ex[e].worker = p}
Limit(p)   == IF p = Default THEN MaxParallel ELSE 1
ProfileFree(p) == Cardinality(Holding(p)) < Limit(p)

Waiters    == {e \in Execs : ex[e].pc \in {"queued", "profile"}}
First(e, waiters) == \A f \in waiters \ {e} : ~ex[f].pend => <<e, f>> \in line
Left(e)    == Without(line, {e})

\* Executions S take their places behind all who wait, in any order.
Join(S)    == \E q \in Orders(S) : line' = line \cup (Waiters \X S) \cup q

-----------------------------------------------------------------------------
\* How _execute returns, and how it raises.
Return(e)  == [Idle EXCEPT !.pc = IF e[1] = "goal" THEN "returned" ELSE "notify",
                           !.pend = ex[e].pend]
Raise(e)   == [Idle EXCEPT !.pc = IF e[1] = "goal" THEN "raised" ELSE "ending"]

\* Mutant of TryClaim: the worker is not registered.
TryClaimUnregistered(e, w) ==
    LET c == e[2]
        ignore == e[1] = "manual"
    IN  /\ line' = Left(e)
        /\ IF Claimable(c, ignore)
           THEN /\ ClaimCard(c, w, ignore)
                /\ ex' = [ex EXCEPT ![e] = [@ EXCEPT !.pc = "running", !.worker = w,
                                       !.token = nextToken, !.profile = cards[c].assignee]]
           ELSE /\ ex' = [ex EXCEPT ![e] = IF Exists(c) THEN Return(e) ELSE Raise(e)]
                /\ UNCHANGED storeVars
        /\ UNCHANGED reg

TryClaim(e, w) ==
    LET c == e[2]
        ignore == e[1] = "manual"
    IN  /\ line' = Left(e)
        /\ IF Claimable(c, ignore)
           THEN /\ ClaimCard(c, w, ignore)
                /\ ex' = [ex EXCEPT ![e] = [@ EXCEPT !.pc = "running", !.worker = w,
                                       !.token = nextToken, !.profile = cards[c].assignee]]
                /\ reg' = [reg EXCEPT ![c] = e]
           ELSE /\ ex' = [ex EXCEPT ![e] = IF Exists(c) THEN Return(e) ELSE Raise(e)]
                /\ UNCHANGED storeVars /\ UNCHANGED reg

\* Past the global semaphore: the card is read, its worker captured, and the
\* claim made at once unless the worker's profile is taken.
Enter(e) ==
    LET c == e[2]
        w == IF cards[c].assignee = NoProfile THEN Default ELSE cards[c].assignee
    IN  /\ ex[e].pc = "queued" /\ ~ex[e].pend
        /\ SlotFree
        /\ First(e, {f \in Execs : ex[f].pc = "queued"})
        /\ IF ~Exists(c) \/ cards[c].status = "cancelled"
           THEN /\ ex' = [ex EXCEPT ![e] = Return(e)]
                /\ line' = Left(e)
                /\ UNCHANGED storeVars /\ UNCHANGED reg
           ELSE IF c \in VoiceCards \/ (ProfileFree(w) /\ \A f \in Waiting(w) : ex[f].pend)
           THEN TryClaim(e, w)
           ELSE /\ ex' = [ex EXCEPT ![e].pc = "profile", ![e].worker = w]
                /\ line' = Left(e) \cup ((Waiters \ {e}) \X {e})
                /\ UNCHANGED storeVars /\ UNCHANGED reg
        /\ UNCHANGED <<obs, epoch, cancelReq, cancelling, goal, asks, wake, phase, boot>>

Acquire(e) ==
    /\ ex[e].pc = "profile" /\ ~ex[e].pend
    /\ ProfileFree(ex[e].worker) /\ First(e, Waiting(ex[e].worker))
    /\ TryClaim(e, ex[e].worker)
    /\ UNCHANGED <<obs, epoch, cancelReq, cancelling, goal, asks, wake, phase, boot>>

Heartbeat(e) ==
    /\ Running(e) /\ HeartbeatClaim(e[2], ex[e].token)
    /\ UNCHANGED <<obs, epoch>> /\ UNCHANGED orchVars

\* The interactive worker reports its start, and asks for the next turn.
WorkerStarted(e) ==
    /\ Running(e) /\ e[2] \in VoiceCards
    /\ \E i \in InFlight(cmds, e[2], ex[e].token) : SetWorkerRunId(e[2], ex[e].token, i)
    /\ UNCHANGED <<obs, epoch>> /\ UNCHANGED orchVars

TurnBoundary(e) ==
    /\ Running(e) /\ e[2] \in VoiceCards
    /\ \E i \in Instructions(cmds, e[2]) : AdvanceBoundary(e[2], ex[e].token, i)
    /\ UNCHANGED orchVars

\* The worker is gone; its claim is settled if it is still this run's, and a
\* stale claim raises out of _execute.
Settle(e, outcome, delay, uncertain) ==
    LET c == e[2]
        stale == ~Owns(c, ex[e].token)
    IN  /\ ex' = [ex EXCEPT ![e].pc = "unwind", ![e].pend = FALSE, ![e].err = stale]
        /\ IF stale THEN UNCHANGED storeVars
           ELSE FinishClaim(c, ex[e].token, outcome, delay, uncertain)

SpawnDone(e) ==
    /\ Running(e) /\ ~ex[e].pend
    /\ Settle(e, "done", 0, FALSE)
    /\ UNCHANGED <<obs, epoch, reg, cancelReq, cancelling, goal, line, asks, wake, phase, boot>>

\* A failed voice turn is certain only for the error codes that prove it.
SpawnFailed(e) ==
    /\ Running(e) /\ ~ex[e].pend
    /\ \/ \E d \in RetryDelays, u \in BOOLEAN :
             (u => e[2] \in VoiceCards) /\ Settle(e, "failed", d, u)
       \/ e[2] \in VoiceCards /\ Settle(e, "cancelled", 0, FALSE)
    /\ UNCHANGED <<obs, epoch, reg, cancelReq, cancelling, goal, line, asks, wake, phase, boot>>

\* cancel_card, once what it waited for has unwound.
EnsureTerminal(c) ==
    IF Editable(c) /\ cards[c].status \notin Terminal
    THEN SetStatus(c, "cancelled", FALSE) ELSE UNCHANGED storeVars

\* The same right behind a failed end of the claim.
Closed(r) == [Released(r, "cancelled") EXCEPT !.sched = 0, !.rev = @ + 1]

FinishThenCancel(c, t) ==
    /\ cards' = [cards EXCEPT ![c] = Closed(@)]
    /\ runs' = [runs EXCEPT ![t].status = "failed"]
    /\ UNCHANGED <<links, cmds, fresh, now, nextToken, nextCmd>>

\* The worker unwinds a cancellation: the user's, or else the runtime's.  A
\* cancel_card that awaits this worker resumes once the claim is settled.
SpawnCancelled(e) ==
    LET c == e[2]
        t == ex[e].token
        waits == c \in cancelling /\ e[1] # "manual"
        outcome == IF c \in cancelReq THEN "cancelled" ELSE "failed"
    IN  /\ Running(e) /\ ex[e].pend
        /\ ex' = [ex EXCEPT ![e].pc = "unwind", ![e].pend = FALSE, ![e].err = ~Owns(c, t)]
        /\ IF ~Owns(c, t) THEN (IF waits THEN EnsureTerminal(c) ELSE UNCHANGED storeVars)
           ELSE IF waits /\ outcome = "failed" THEN FinishThenCancel(c, t)
           ELSE FinishClaim(c, t, outcome, 0, c \in VoiceCards)
        /\ cancelling' = IF waits THEN cancelling \ {c} ELSE cancelling
        /\ UNCHANGED <<obs, epoch, reg, cancelReq, goal, line, asks, wake, phase, boot>>

\* The finally block, after its await: whatever is registered for the card
\* is dropped.
Unwind(e) ==
    /\ ex[e].pc = "unwind" /\ ~ex[e].pend
    /\ ex' = [ex EXCEPT ![e] = IF @.err THEN Raise(e) ELSE Return(e)]
    /\ reg' = [reg EXCEPT ![e[2]] = NoExec]
    /\ cancelReq' = cancelReq \ {e[2]}
    /\ wake' = TRUE
    /\ UNCHANGED voiceVars /\ UNCHANGED <<cancelling, goal, line, asks, phase, boot>>

\* Mutants of Interruptible: a cancelled worker ends without its claim being
\* settled; a cancellation is lost on those who wait for a semaphore.
InterruptibleAll  == {"queued", "profile", "running", "unwind", "notify"}
InterruptibleLate == {"unwind", "notify"}
Interruptible     == {"queued", "profile", "unwind", "notify"}

\* A cancellation delivered at any other await ends the task there.
Interrupt(e) ==
    /\ ex[e].pend /\ ex[e].pc \in Interruptible
    /\ ex' = [ex EXCEPT ![e] = Raise(e)]
    /\ line' = Left(e)
    /\ UNCHANGED voiceVars /\ UNCHANGED <<reg, cancelReq, cancelling, goal, asks, wake, phase, boot>>

\* The finish hook returns, or the task has raised; then the done callbacks
\* run, and right behind them a cancel_card that waited for the task.
End(e) ==
    LET c == e[2]
        waits == c \in cancelling /\ e[1] = "manual"
    IN  /\ ex[e].pc = "ending" \/ (ex[e].pc = "notify" /\ ~ex[e].pend)
        /\ ex' = [ex EXCEPT ![e] = Idle]
        /\ IF waits THEN EnsureTerminal(c) ELSE UNCHANGED storeVars
        /\ cancelling' = IF waits THEN cancelling \ {c} ELSE cancelling
        /\ wake' = (wake \/ e[1] = "dispatch")
        /\ UNCHANGED <<obs, epoch, reg, cancelReq, goal, line, asks, phase, boot>>

-----------------------------------------------------------------------------
StartCard(c) ==
    /\ Exists(c) /\ ~Claimed(c) /\ ~IsRunning(c)
    /\ ~Active(Manual(c)) /\ ~Active(Dispatch(c))
    /\ cards[c].status \in Startable
    /\ ex' = [ex EXCEPT ![Manual(c)] = [Idle EXCEPT !.pc = "queued"]]
    /\ Join({Manual(c)})
    /\ UNCHANGED voiceVars /\ UNCHANGED <<reg, cancelReq, cancelling, goal, asks, wake, phase, boot>>

\* cancel_card: it cancels the explicit run's task, or else the worker that
\* is registered for the card, and waits; with neither it settles the card.
CancelCard(c) ==
    LET victim == IF Active(Manual(c)) THEN Manual(c) ELSE reg[c]
        live == /\ victim # NoExec
                /\ IF Active(Manual(c)) THEN ex[victim].pc # "ending" ELSE Running(victim)
    IN  /\ Exists(c) /\ c \in BgCards
        /\ IF live
           THEN /\ ex' = [ex EXCEPT ![victim].pend = TRUE]
                /\ cancelReq' = cancelReq \cup {c}
                /\ cancelling' = cancelling \cup {c}
                /\ UNCHANGED storeVars
           ELSE /\ cards[c].status \notin Terminal
                /\ IF Claimed(c) THEN FinishClaim(c, cards[c].token, "cancelled", 0, FALSE)
                   ELSE SetStatus(c, "cancelled", FALSE)
                /\ UNCHANGED <<ex, cancelReq, cancelling>>
        /\ UNCHANGED <<obs, epoch, reg, goal, line, asks, wake, phase, boot>>

\* run_goal: the parent is shown in progress without a claim of its own.
GoalStart(p, kids) ==
    /\ goal = NoGoal /\ kids # {} /\ IsFiniteSet(kids)
    /\ {p} \cup kids \subseteq fresh \cap BgCards /\ p \notin kids
    /\ cards' = [c \in DOMAIN cards \cup {p} \cup kids |->
                    IF c = p THEN [NewCard("in_progress", NoProfile, 0, AttemptsLimit) EXCEPT !.rev = 1]
                    ELSE IF c \in kids THEN NewCard("todo", NoProfile, 0, AttemptsLimit)
                    ELSE cards[c]]
    /\ fresh' = fresh \ ({p} \cup kids)
    /\ ex' = [e \in Execs |-> IF e[1] = "goal" /\ e[2] \in kids
                              THEN [Idle EXCEPT !.pc = "queued"] ELSE ex[e]]
    /\ goal' = [parent |-> p, kids |-> kids]
    /\ Join({"goal"} \X kids)
    /\ UNCHANGED <<runs, links, cmds, now, nextToken, nextCmd, obs, epoch,
                   reg, cancelReq, cancelling, asks, wake, phase, boot>>

Children == {e \in Execs : e[1] = "goal" /\ goal # NoGoal /\ e[2] \in goal.kids}

\* gather raises with the first child that does; the others run on.
GoalEnd ==
    /\ goal # NoGoal
    /\ \/ /\ \A e \in Children : ex[e].pc = "returned"
          /\ IF Editable(goal.parent) THEN SetStatus(goal.parent, "done", FALSE)
             ELSE UNCHANGED storeVars
       \/ /\ \E e \in Children : ex[e].pc = "raised"
          /\ UNCHANGED storeVars
    /\ ex' = [e \in Execs |-> IF e \in Children /\ ex[e].pc \in {"returned", "raised"}
                              THEN Idle ELSE ex[e]]
    /\ goal' = NoGoal
    /\ UNCHANGED <<obs, epoch, reg, cancelReq, cancelling, line, asks, wake, phase, boot>>

\* A child that outlived its goal.
Reap(e) ==
    /\ e \notin Children /\ ex[e].pc \in {"returned", "raised"}
    /\ ex' = [ex EXCEPT ![e] = Idle]
    /\ UNCHANGED voiceVars /\ UNCHANGED <<reg, cancelReq, cancelling, goal, line, asks, wake, phase, boot>>

-----------------------------------------------------------------------------
\* Mutant of Eligible: a card that used up its attempts is not listed, not
\* even when the user retries it.
EligibleUnspent(cs) ==
    {c \in DOMAIN cs :
        cs[c].status = "ready" /\ cs[c].assignee # NoProfile /\ cs[c].sched <= now
           /\ cs[c].attempts < cs[c].max}

\* list_dispatchable on card table cs: ready, assigned and due, its parents
\* done; at most one card of a profile that has no dispatch task yet.
Eligible(cs) ==
    {c \in DOMAIN cs :
        /\ cs[c].status = "ready" /\ cs[c].assignee # NoProfile /\ cs[c].sched <= now
        /\ \A l \in links : l[2] = c => cs[l[1]].status = "done"
        /\ c \in BgCards =>
              \A d \in BgCards \cap DOMAIN cs :
                 Active(Dispatch(d)) => cs[d].assignee # cs[c].assignee}

\* Which of them, priorities left open.
Listed(cs, limit) ==
    LET rival(cs1, c, d) == c \in BgCards /\ d \in BgCards /\ cs1[c].assignee = cs1[d].assignee
    IN  {D \in SUBSET Eligible(cs) :
            /\ Cardinality(D) <= limit
            /\ \A c, d \in D : rival(cs, c, d) => c = d
            /\ \/ Cardinality(D) = limit
               \/ \A c \in Eligible(cs) : \E d \in D : c = d \/ rival(cs, c, d)}

\* Recovery reads of orphaned instructions; the cursor that goes round them
\* and the budget leave open which are read this time.
NewObservations ==
    {O \in SUBSET {i \in Orphans' : \A o \in obs : o.card # cmds'[i].card} :
        Cardinality(O) + Cardinality(obs) <= MaxParallel}

Stops(q) == UNION {PendingStop(q, c) : c \in VoiceCards}

\* A card no execution of this process is at work on, and a mutant that asks
\* the dispatcher's own tasks only.
Undispatched(c) == ~Active(Dispatch(c))
Unoccupied(c) == ~Active(Dispatch(c)) /\ ~Active(Manual(c)) /\ ~IsRunning(c)

\* dispatch_once, with no await in it: recover, ask about pending stops and
\* orphans, then start what is listed and has no execution in this process.
DispatchOnce ==
    LET available == MaxParallel - Cardinality({c \in Cards : Active(Dispatch(c))})
    IN  /\ phase = "up"
        /\ \/ RecoverExpiredClaims
           \/ /\ \A c \in DOMAIN cards : ~Lapsed(c) /\ ~Damaged(c)
              /\ UNCHANGED storeVars
        /\ wake' = FALSE
        /\ asks' = asks \cup Stops(cmds')
        /\ \E O \in NewObservations : obs' = obs \cup {Candidate(i)' : i \in O}
        /\ \E D \in Listed(cards', IF available > 0 THEN available ELSE 0) :
              LET started == {Dispatch(c) : c \in {d \in D : Unoccupied(d)}}
              IN  /\ ex' = [e \in Execs |-> IF e \in started
                                            THEN [Idle EXCEPT !.pc = "queued"] ELSE ex[e]]
                  /\ Join(started)
        /\ UNCHANGED <<epoch, reg, cancelReq, cancelling, goal, phase, boot>>

\* _control_voice and _reconcile_voice hear from the worker's host.
StopAnswered(i) ==
    /\ i \in asks /\ asks' = asks \ {i}
    /\ \/ \E a \in {"stopping", "status_unknown"} : SettleStop(i, a, "none")
       \/ \E w \in DOMAIN CardVerdict : SettleStop(i, "stopped", w)
       \/ UNCHANGED voiceVars
    /\ UNCHANGED <<ex, reg, cancelReq, cancelling, goal, line, wake, phase, boot>>

RecoveryAnswered(o) ==
    /\ \/ \E a \in DOMAIN Reconciled : SettleReconciliation(o, a)
       \/ DropObservation(o)
    /\ UNCHANGED orchVars

\* The host's answer to a response this process delivers.
ResponseAnswered(i) ==
    /\ \E s \in {"applied", "rejected", "status_unknown"} : SettleResponse(i, s)
    /\ UNCHANGED orchVars

\* stop_dispatcher cancels the dispatch tasks, then the explicit runs; the
\* children of a goal are not its tasks.
Stop ==
    /\ \/ phase = "up" /\ phase' = "stopping"
       \/ /\ phase = "stopping" /\ phase' = "stopped"
          /\ \A c \in Cards : ~Active(Dispatch(c))
    /\ ex' = [e \in Execs |->
                 IF /\ e[1] = (IF phase = "up" THEN "dispatch" ELSE "manual")
                    /\ ex[e].pc \notin {"idle", "ending"}
                 THEN [ex[e] EXCEPT !.pend = TRUE] ELSE ex[e]]
    /\ UNCHANGED voiceVars /\ UNCHANGED <<reg, cancelReq, cancelling, goal, line, asks, wake, boot>>

\* The process dies, at any point, and starts again.
Crash ==
    /\ Restart
    /\ ex' = [e \in Execs |-> Idle] /\ reg' = [c \in Cards |-> NoExec]
    /\ cancelReq' = {} /\ cancelling' = {} /\ goal' = NoGoal /\ line' = {} /\ asks' = {}
    /\ wake' = FALSE /\ phase' = "up" /\ boot' = nextToken

Sooner(x) == IF x <= now THEN x ELSE x - 1

Elapse ==
    /\ cards' = [c \in DOMAIN cards |-> [cards[c] EXCEPT !.lease = Sooner(@), !.sched = Sooner(@)]]
    /\ UNCHANGED <<runs, links, cmds, fresh, now, nextToken, nextCmd, obs, epoch>>
    /\ UNCHANGED orchVars

-----------------------------------------------------------------------------
Init ==
    /\ VoiceInit
    /\ ex = [e \in Execs |-> Idle] /\ reg = [c \in Cards |-> NoExec]
    /\ cancelReq = {} /\ cancelling = {} /\ goal = NoGoal /\ line = {} /\ asks = {}
    /\ wake = FALSE /\ phase = "up" /\ boot = 1

\* apply_board_action "add": the card is created and assigned in one go.
AddFor(c, p) ==
    /\ c \in fresh \cap BgCards
    /\ cards' = Insert(cards, c, [NewCard("todo", p, 0, AttemptsLimit) EXCEPT
                                    !.rev = IF p = NoProfile THEN 0 ELSE 1])
    /\ fresh' = fresh \ {c}
    /\ UNCHANGED <<runs, links, cmds, now, nextToken, nextCmd>>

\* Edits of the board, and whether the handler wakes the dispatcher.
Quietly(A) == A /\ UNCHANGED <<obs, epoch>> /\ UNCHANGED orchVars
Waking(A)  == /\ A /\ wake' = TRUE
              /\ UNCHANGED <<obs, epoch, ex, reg, cancelReq, cancelling, goal, line, asks, phase, boot>>

\* Bound: the cards users still act on.
Touched == Edited \cap EditCards

UserEdit ==
    \/ \E c \in BgCards, p \in Profiles \cup {NoProfile} : Quietly(AddFor(c, p))
    \/ \E c \in VoiceCards, p \in Profiles : Waking(AddVoiceCard(c, p, FALSE))
    \/ \E c \in Touched, p \in Profiles : Quietly(AssignCard(c, p))
    \/ \E c \in Touched : Waking(Retry(c) \/ UnassignCard(c))
    \/ \E c \in Touched, s \in Moves : Waking(Move(c, s))
    \/ \E c \in EditCards : Quietly(DeleteCard(c))
    \/ \E c \in Touched : /\ Enqueue(c) \/ Cancel(c)
                          /\ wake' = TRUE
                          /\ UNCHANGED <<ex, reg, cancelReq, cancelling, goal, line, asks, phase, boot>>
    \/ \E c \in Touched : ResponseIntent(c) /\ UNCHANGED orchVars

UserRun ==
    \/ \E c \in Touched : StartCard(c)
    \/ \E c \in Touched : CancelCard(c)
    \/ \E p \in BgCards, kids \in SUBSET BgCards :
          Cardinality(kids) <= MaxChildren /\ GoalStart(p, kids)

\* Progress of one execution that needs no one else.
Progress(e) == Unwind(e) \/ Interrupt(e) \/ End(e) \/ Reap(e)
Worker(e)   == SpawnDone(e) \/ SpawnFailed(e) \/ SpawnCancelled(e)
Advance(e)  == Enter(e) \/ Acquire(e) \/ Progress(e) \/ Worker(e)

Next ==
    \/ UserEdit
    \/ UserRun
    \/ \E e \in Execs : \/ Advance(e)
                        \/ Heartbeat(e) \/ WorkerStarted(e) \/ TurnBoundary(e)
    \/ GoalEnd
    \/ DispatchOnce
    \/ \E i \in asks : StopAnswered(i)
    \/ \E o \in obs : RecoveryAnswered(o)
    \/ \E i \in DOMAIN cmds : ResponseAnswered(i)
    \/ epoch < MaxEpoch /\ (Stop \/ Crash)
    \/ Elapse

Spec == Init /\ [][Next]_vars

\* asyncio runs every ready task; a worker ends (it has a timeout); the
\* dispatcher scans at least every 15 seconds; a process that stops is
\* started again; time passes.
Fairness ==
    /\ \A e \in Execs : WF_vars(Advance(e))
    /\ WF_vars(GoalEnd) /\ WF_vars(DispatchOnce)
    /\ WF_vars(phase # "up" /\ Crash)
    /\ WF_vars(Elapse)

FairSpec == Spec /\ Fairness

-----------------------------------------------------------------------------
(* Properties.                                                             *)

\* The executor's own state is well formed: a registered worker is an
\* execution of that card, those who wait for a semaphore are the ones in
\* line, and no more than the budget are past the global one.
OrchTypeOK ==
    /\ ex \in [Execs -> [pc : {"idle", "queued", "profile", "running", "unwind",
                               "notify", "ending", "returned", "raised"},
                         worker : Profiles \cup {NoProfile}, token : Nat,
                         profile : Profiles \cup {NoProfile},
                         pend : BOOLEAN, err : BOOLEAN]]
    /\ \A c \in Cards : reg[c] = NoExec \/ (reg[c] \in Execs /\ reg[c][2] = c)
    /\ line \in Orders(Waiters)
    /\ Cardinality({e \in Execs : ex[e].pc \in {"profile", "running", "unwind"}}) <= MaxParallel
    /\ cancelReq \subseteq Cards /\ cancelling \subseteq Cards
    /\ phase \in {"up", "stopping", "stopped"} /\ wake \in BOOLEAN /\ boot \in Nat

\* One process never runs two workers for one card, not even when a suspended
\* machine lets the lease of a live worker lapse and the card is requeued.
OneWorkerPerCard ==
    \A c \in Cards : Cardinality({e \in Execs : e[2] = c /\ Running(e)}) <= 1

\* "Cancel any time": cancel_card finds the worker that runs, through the
\* explicit run's task or the registry, also after an earlier run of the card
\* has dropped its own entry.
RunningIsCancellable ==
    \A e \in Execs : Running(e) => e = Manual(e[2]) \/ reg[e[2]] = e

\* No claim of this process is left without the worker that will settle it.
NoOrphanClaim ==
    \A c \in DOMAIN cards :
        Claimed(c) /\ cards[c].token >= boot =>
            \E e \in Execs : e[2] = c /\ Running(e) /\ ex[e].token = cards[c].token

\* A claim does not outlive its worker for ever: whatever crashes, stops or
\* lapses, every claim ends.
ClaimsEnd == \A c \in Cards : (Exists(c) /\ Claimed(c)) ~> ~(Exists(c) /\ Claimed(c))

\* A card that is ready for a bot does not wait for ever, and the dispatcher
\* keeps coming to rest: it does not wake itself in a loop.
ReadyRuns ==
    /\ \A c \in Cards :
          (Exists(c) /\ cards[c].status = "ready" /\ cards[c].assignee # NoProfile)
              ~> ~(Exists(c) /\ cards[c].status = "ready")
    /\ []<>(~wake /\ \A c \in Cards : ~Active(Dispatch(c)))

\* A goal that was started comes to its end: no child keeps it waiting.
GoalsEnd == (goal # NoGoal) ~> (goal = NoGoal)

\* A cancel_card call that waits for an unwind returns.
CancelReturns == \A c \in Cards : (c \in cancelling) ~> (c \notin cancelling)
=============================================================================
