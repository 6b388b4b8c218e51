--------------------------- MODULE VoiceCommands ----------------------------
(***************************************************************************)
(* Steering, stopping and recovering a voice task:                         *)
(* src/flowly/board/voice_commands.py on top of the Board store, with the  *)
(* two background jobs of the orchestrator that talk to the worker's host  *)
(* across an await (_control_voice, _reconcile_voice).                     *)
(*                                                                         *)
(* Clients send the card revision they decided on and a command is taken   *)
(* only at that revision, so a command that is taken is one step on the    *)
(* state its client saw; a repeat of a command id returns the old receipt  *)
(* and is no step at all.  What the host answers is external: any answer.  *)
(***************************************************************************)
EXTENDS BoardStore

CONSTANTS CommandLimit,  \* instructions a task may have (code: 200)
          MaxEpoch       \* bound: restarts of the primary process

ASSUME VoiceBounds == CommandLimit \in Nat /\ MaxEpoch \in Nat

VARIABLES obs,    \* recovery observations awaiting the host's answer
          epoch   \* the identity of the running process (_PROCESS_ID)

voiceVars == <<cards, runs, links, cmds, fresh, now, nextToken, nextCmd, obs, epoch>>

Unknown(c) == {i \in Instructions(cmds, c) : cmds[i].status = "status_unknown"}

\* Cards of the conversation a command may address.
Addressable(c) == c \in VoiceCards /\ Exists(c)

AppendRow(cmd) == Insert(cmds, nextCmd, cmd)

Enqueue(c) ==
    /\ Addressable(c) /\ cards[c].status # "archived"
    /\ PendingStop(cmds, c) = {} /\ Unknown(c) = {}
    /\ Cardinality(CommandsOf(cmds, c)) < CommandLimit
    /\ cmds' = AppendRow(NewCmd(c, "steer", "queued", 0, 0))
    /\ nextCmd' = nextCmd + 1
    /\ cards' = [cards EXCEPT ![c].status = IF Claimed(c) THEN "in_progress" ELSE "ready",
                              ![c].sched = 0, ![c].rev = @ + 1]
    /\ UNCHANGED <<runs, links, fresh, now, nextToken, obs, epoch>>

\* The worker finished the turn of instruction i and takes the next one
\* under the same claim, unless a stop is pending.
AdvanceBoundary(c, t, i) ==
    LET ended == [cmds EXCEPT ![i].status = "completed"]
        next  == NextLocked(ended, c)
    IN  /\ Owns(c, t) /\ i \in Instructions(cmds, c)
        /\ cmds[i].token = t /\ cmds[i].status \in {"applied", "completed"}
        /\ PendingStop(cmds, c) = {}
        /\ cmds' = [j \in DOMAIN cmds |->
                       IF j \in next THEN ClaimLocked(ended, j, t)[j] ELSE ended[j]]
        /\ UNCHANGED <<cards, runs, links, fresh, now, nextToken, nextCmd, obs, epoch>>

\* A stop is local only for a task no worker has ever claimed.  Otherwise it
\* stays pending until the worker of the last delivered instruction answers.
LastDelivered(c) ==
    {i \in Instructions(cmds, c) :
        /\ cmds[i].token # 0
        /\ \A j \in Instructions(cmds, c) : cmds[j].token # 0 => j <= i}

\* What a stop takes off the queue, and a mutant that forgets what is held.
DrainedQueued(c) == {i \in Instructions(cmds, c) : cmds[i].status = "queued"}
Drained(c) == {i \in Instructions(cmds, c) : cmds[i].status \in {"queued", "held"}}

Cancel(c) ==
    LET status == IF cards[c].attempts = 0 /\ ~Claimed(c) THEN "stopped" ELSE "stopping"
        target == IF LastDelivered(c) = {} THEN 0 ELSE CHOOSE i \in LastDelivered(c) : TRUE
        row == NewCmd(c, "cancel", status, target, 0)
    IN  /\ Addressable(c) /\ cards[c].status # "archived"
        /\ PendingStop(cmds, c) = {}
        /\ cmds' = [i \in DOMAIN cmds \cup {nextCmd} |->
                       IF i = nextCmd THEN row
                       ELSE IF i \in Drained(c) THEN [cmds[i] EXCEPT !.status = "cancelled"]
                       ELSE cmds[i]]
        /\ nextCmd' = nextCmd + 1
        /\ cards' = [cards EXCEPT ![c].status = IF status = "stopped" THEN "cancelled" ELSE @,
                                  ![c].rev = @ + 1]
        /\ UNCHANGED <<runs, links, fresh, now, nextToken, obs, epoch>>

\* The run a stop asked about, if its own claim has recorded a verdict.
VerifiedRuns(i) ==
    LET j == cmds[i].target
    IN  {t \in DOMAIN runs :
            /\ j \in DOMAIN cmds /\ runs[t].card = cmds[i].card
            /\ cmds[j].token = t /\ cmds[j].worker = j /\ runs[t].worker = j
            /\ cmds[j].status \in {"completed", "failed", "cancelled"}
            /\ runs[t].status \in {"done", "failed", "cancelled"}}

WorkerVerdict == [done |-> "completed", failed |-> "error", cancelled |-> "aborted"]
CardVerdict   == [completed |-> "done", error |-> "blocked", aborted |-> "cancelled"]
CmdVerdict    == [completed |-> "completed", error |-> "failed", aborted |-> "cancelled"]

\* A card once its stop is confirmed.
Stopped(r, verdict) == [r EXCEPT !.status = CardVerdict[verdict], !.rev = @ + 1]

\* settle_stop(i, answer, workerStatus): the host's answer to a pending stop.
SettleStop(i, answer, workerStatus) ==
    LET c == cmds[i].card
        status == IF answer = "stopped" /\ Claimed(c) THEN "stopping" ELSE answer
        verdict == IF VerifiedRuns(i) # {}
                   THEN WorkerVerdict[runs[CHOOSE t \in VerifiedRuns(i) : TRUE].status]
                   ELSE workerStatus
    IN  /\ i \in DOMAIN cmds /\ i \in PendingStop(cmds, c)
        /\ status # cmds[i].status
        /\ cmds' = [j \in DOMAIN cmds |->
                       IF j = i THEN [cmds[j] EXCEPT !.status = status]
                       ELSE IF status = "stopped" /\ j \in Unknown(c)
                            THEN [cmds[j] EXCEPT !.status = CmdVerdict[verdict]]
                       ELSE cmds[j]]
        /\ cards' = IF status = "stopped"
                    THEN [cards EXCEPT ![c] = Stopped(@, verdict)]
                    ELSE cards
        /\ UNCHANGED <<runs, links, fresh, now, nextToken, nextCmd, obs, epoch>>

-----------------------------------------------------------------------------
\* pending_reconciliations: instruction i was orphaned with its outcome
\* unknown, and its run is still the card's latest attempt.
Orphan(i) ==
    LET c == cmds[i].card
        t == cmds[i].token
    IN  /\ i \in Unknown(c) /\ ~Claimed(c)
        /\ t \in DOMAIN runs /\ runs[t].card = c
        /\ runs[t].attempt = cards[c].attempts /\ runs[t].profile = cards[c].assignee
        /\ runs[t].status \in {"expired", "failed", "cancelled"}
        /\ cards[c].status \in {"blocked", "ready"}
        /\ PendingStop(cmds, c) = {}
        /\ \A j \in Instructions(cmds, c) : cmds[j].token # 0 => j <= i

Orphans == {i \in DOMAIN cmds : Orphan(i)}

\* What the observer remembers across its await.
Candidate(i) ==
    [cmd |-> i, card |-> cmds[i].card, token |-> cmds[i].token,
     rev |-> cards[cmds[i].card].rev, attempt |-> cards[cmds[i].card].attempts,
     profile |-> cards[cmds[i].card].assignee]

\* Mutant of StillCurrent: the instruction is still an orphan.
StillOrphan(o) == o.cmd \in Orphans

\* The observation is committed only if the very same orphan is still there.
StillCurrent(o) == o.cmd \in Orphans /\ Candidate(o.cmd) = o

Reconciled == [completed |-> "done", aborted |-> "cancelled", error |-> "failed", paused |-> "failed"]

SettleReconciliation(o, answer) ==
    LET outcome == Reconciled[answer]
    IN  /\ o \in obs
        /\ obs' = obs \ {o}
        /\ IF StillCurrent(o)
           THEN /\ cmds' = [cmds EXCEPT
                       ![o.cmd].status = IF answer = "completed" THEN "completed" ELSE outcome,
                       ![o.cmd].worker = o.cmd]
                /\ cards' = [cards EXCEPT
                       ![o.card].status = IF outcome = "failed" THEN "blocked" ELSE outcome,
                       ![o.card].sched = 0, ![o.card].rev = @ + 1]
                /\ runs' = [runs EXCEPT ![o.token].status = outcome, ![o.token].worker = o.cmd]
           ELSE UNCHANGED <<cards, cmds, runs>>
        /\ UNCHANGED <<links, fresh, now, nextToken, nextCmd, epoch>>

\* No usable evidence (offline host, timeout, another run's receipt).
DropObservation(o) ==
    /\ o \in obs /\ obs' = obs \ {o}
    /\ UNCHANGED storeVars /\ UNCHANGED epoch

-----------------------------------------------------------------------------
\* The user's answer to a worker's question is recorded before it is sent,
\* and only the process that recorded it may say what became of it.
ResponseIntent(c) ==
    /\ Addressable(c) /\ cards[c].status \notin {"cancelled", "archived"}
    /\ PendingStop(cmds, c) = {}
    /\ Cardinality(CommandsOf(cmds, c)) < CommandLimit
    /\ cmds' = AppendRow(NewCmd(c, "respond", "delivering", 0, epoch))
    /\ nextCmd' = nextCmd + 1
    /\ cards' = [cards EXCEPT ![c].rev = @ + 1]
    /\ UNCHANGED <<runs, links, fresh, now, nextToken, obs, epoch>>

SettleResponse(i, status) ==
    /\ i \in DOMAIN cmds /\ cmds[i].kind = "respond"
    /\ cmds[i].status = "delivering" /\ cmds[i].owner = epoch
    /\ cmds' = [cmds EXCEPT ![i].status = status]
    /\ UNCHANGED <<cards, runs, links, fresh, now, nextToken, nextCmd, obs, epoch>>

\* The primary process dies and starts again; the file survives.
Restart ==
    /\ epoch' = epoch + 1 /\ obs' = {}
    /\ UNCHANGED storeVars

-----------------------------------------------------------------------------
VoiceInit == StoreInit /\ obs = {} /\ epoch = 1

-----------------------------------------------------------------------------
(* Properties.                                                             *)

\* Nothing of a task can start while one of its outcomes is unverified or its
\* stop is pending: there is only that one, the card of an unverified outcome
\* is unclaimed, and no instruction waits that a later turn could pick up.
DoubtBlocksWork ==
    \A c \in VoiceCards :
        /\ Unknown(c) # {} => /\ Cardinality(Unknown(c)) = 1
                              /\ ~Claimed(c)
                              /\ Queued(cmds, c) = {}
        /\ PendingStop(cmds, c) # {} =>
              /\ Cardinality(PendingStop(cmds, c)) = 1
              /\ \A i \in Instructions(cmds, c) : cmds[i].status \notin {"queued", "held"}

\* Instructions reach workers one at a time, in the order the user gave them:
\* none is ever claimed while an earlier one still waits, and the one that is
\* with a worker is delivered by the claim the card is under, so a released
\* claim leaves none in flight.
NoOvertaking ==
    /\ \A i, j \in DOMAIN cmds :
          /\ cmds[i].card = cmds[j].card /\ i < j
          /\ cmds[j].kind \in {"initial", "steer"} /\ cmds[j].token # 0
          => cmds[i].status # "queued"
    /\ \A c \in VoiceCards :
          LET flying == {i \in Instructions(cmds, c) :
                            cmds[i].status \in {"delivering", "applied"}}
          IN  /\ Cardinality(flying) <= 1
              /\ \A i \in flying : Exists(c) /\ Claimed(c) /\ cmds[i].token = cards[c].token

RowsGoOn ==
    \A i \in DOMAIN cmds \cap DOMAIN cmds' :
        /\ cmds[i].token # 0 => cmds'[i].token = cmds[i].token
        /\ cmds[i].status # "queued" => cmds'[i].status # "queued"
        /\ cmds[i].status = "held" => cmds'[i].status \in {"held", "cancelled"}
        /\ cmds'[i].status = "delivering" /\ cmds[i].kind # "respond"
              => cmds[i].status \in {"queued", "delivering"}

\* No instruction is delivered twice: once a claim has taken it, no later
\* claim does, and a held one is never approved implicitly.
NoReplay == [][RowsGoOn]_voiceVars

VerdictsFenced ==
    /\ \A t \in DOMAIN runs \cap DOMAIN runs' :
          runs[t].status # "running" /\ runs'[t] # runs[t] =>
             LET c == runs[t].card
             IN  /\ ~Claimed(c) /\ runs[t].attempt = cards[c].attempts
                 /\ \E i \in Unknown(c) : cmds[i].token = t
    /\ \A o \in obs \ obs' :
          epoch' = epoch /\ Exists(o.card) /\ cards[o.card].rev # o.rev
             => cards' = cards /\ cmds' = cmds /\ runs' = runs

\* A late answer to a recovery read never overrides what happened meanwhile:
\* a recorded verdict is only ever revised for the card's latest attempt, out
\* of an unverified outcome, while nobody has claimed the card again, and not
\* at all once anything has touched the card since the read.
ReconcileFenced == [][VerdictsFenced]_voiceVars
=============================================================================
