---------------------------- MODULE CardCommands ----------------------------
(***************************************************************************)
(* The durable ledger of instructions of a voice task (table card_commands *)
(* of src/flowly/board/voice_commands.py), as operators on a table q: a    *)
(* function from the rows' seq numbers to the rows.  A row is              *)
(*   [card, kind, status, token, worker, target, owner]                    *)
(* token is the Board claim that delivers it (0 is NULL); worker is the    *)
(* run that executes it, named by the seq of the instruction it was        *)
(* started for (profile_host.run_task uses the command id as the run's     *)
(* idempotency key); target is the run a cancellation wants stopped; owner *)
(* is the process that recorded a response.                                *)
(***************************************************************************)
EXTENDS Naturals

CmdKinds    == {"initial", "steer", "cancel", "respond"}
CmdStatuses == {"queued", "delivering", "applied", "completed", "failed",
                "cancelled", "review", "blocked", "held", "status_unknown",
                "stopping", "stopped", "rejected"}

\* A row as INSERT leaves it.
NewCmd(c, kind, status, target, owner) ==
    [card |-> c, kind |-> kind, status |-> status, token |-> 0, worker |-> 0,
     target |-> target, owner |-> owner]

CommandsOf(q, c) == {i \in DOMAIN q : q[i].card = c}

Instructions(q, c) ==
    {i \in CommandsOf(q, c) : q[i].kind \in {"initial", "steer"}}

PendingStop(q, c) ==
    {i \in CommandsOf(q, c) :
        q[i].kind = "cancel" /\ q[i].status \in {"stopping", "status_unknown"}}

Queued(q, c) == {i \in CommandsOf(q, c) : q[i].status = "queued"}

\* Mutant of NextLocked: the newest instruction goes first.
NextLockedNewest(q, c) ==
    {i \in Queued(q, c) :
        /\ PendingStop(q, c) = {}
        /\ \A j \in Instructions(q, c) :
              q[j].status \notin {"status_unknown", "delivering", "applied"}
        /\ \A j \in Queued(q, c) : j <= i}

\* The instruction the next turn may deliver, as a set of at most one row:
\* none while a stop is pending or an instruction's outcome is open.
NextLocked(q, c) ==
    {i \in Queued(q, c) :
        /\ PendingStop(q, c) = {}
        /\ \A j \in Instructions(q, c) :
              q[j].status \notin {"status_unknown", "delivering", "applied"}
        /\ \A j \in Queued(q, c) : i <= j}

ClaimLocked(q, i, t) ==
    [q EXCEPT ![i].status = "delivering", ![i].token = t]

\* The worker of claim t has started the instruction in delivery.
AppliedLocked(q, c, t, w) ==
    [i \in DOMAIN q |->
        IF q[i].card = c /\ q[i].token = t /\ q[i].status = "delivering"
        THEN [q[i] EXCEPT !.status = "applied", !.worker = w] ELSE q[i]]

\* Claim t of card c ends.  The instruction in flight takes the outcome; an
\* uncertain end of a claim with none in flight reopens its last completed
\* turn; anything but a certain success holds what is still queued.
InFlight(q, c, t) ==
    {i \in CommandsOf(q, c) :
        q[i].token = t /\ q[i].status \in {"delivering", "applied"}}

LastCompleted(q, c, t) ==
    {i \in Instructions(q, c) :
        /\ q[i].token = t /\ q[i].status = "completed"
        /\ \A j \in Instructions(q, c) :
              q[j].token = t /\ q[j].status = "completed" => j <= i}

\* Mutant of FinishLocked: a failed instruction is queued again.
FinishLockedRequeue(q, c, t, outcome, uncertain) ==
    [i \in DOMAIN q |->
        IF i \in InFlight(q, c, t)
        THEN [q[i] EXCEPT !.status = IF outcome = "done" THEN "completed" ELSE "queued"]
        ELSE q[i]]

FinishLocked(q, c, t, outcome, uncertain) ==
    LET ended == IF uncertain THEN "status_unknown"
                 ELSE IF outcome = "done" THEN "completed" ELSE outcome
        settled == IF uncertain /\ InFlight(q, c, t) = {}
                   THEN LastCompleted(q, c, t) ELSE InFlight(q, c, t)
        held == IF outcome # "done" \/ uncertain THEN Queued(q, c) ELSE {}
    IN  [i \in DOMAIN q |->
            IF i \in settled THEN [q[i] EXCEPT !.status = ended]
            ELSE IF i \in held THEN [q[i] EXCEPT !.status = "held"]
            ELSE q[i]]
=============================================================================
