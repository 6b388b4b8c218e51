------------------------------- MODULE Prompts -------------------------------
(***************************************************************************)
(* The prompts that pause an agent until a user decides: the approval of a *)
(* command (exec/approval_manager.py), a question (clarify/manager.py) and *)
(* the approval of a plan (plans/approval.py).  Each is an asyncio Future  *)
(* that any surface may complete while the deadline's timer runs.          *)
(*                                                                         *)
(* The event loop runs callbacks in the order they became ready: once a    *)
(* future is completed its waiter runs before a timer that falls due       *)
(* later, but not before a timer of the same pass (timer = "due").  A      *)
(* cancellation that reaches a waiter whose future is done still cancels   *)
(* it.                                                                     *)
(***************************************************************************)
EXTENDS Naturals, FiniteSets

CONSTANTS
    ExecReqs,          \* requests to run a command
    Questions,         \* questions to the user
    PlanReqs,          \* approvals of a plan, numbered in the order they are asked
    Answers,           \* what a user answers to the first two
    PlanAnswers,       \* what a user answers to a plan
    NSurfaces,         \* registered callbacks, told one after the other
    Window             \* ticks before the deadline of a request

ASSUME PromptsAssumption ==
    /\ NSurfaces \in Nat \ {0} /\ Window \in Nat
    /\ ExecReqs \cap Questions = {}
    /\ (ExecReqs \cup Questions) \cap PlanReqs = {}
    /\ {"none", "pending", "void", "unasked", "unanswered"} \cap (Answers \cup PlanAnswers) = {}
    /\ {"allow", "deny"} \subseteq Answers

VARIABLE req           \* the state of every request

Reqs == ExecReqs \cup Questions \cup PlanReqs

\* fut: the future; cut: the cancellations on their way to the waiter; left:
\* ticks to the deadline; next: the surface being told; shown: the surfaces
\* that have drawn the prompt; shut: how many were told that it is over.
Unasked == [pc |-> "idle", fut |-> "none", cut |-> {}, timer |-> "off", left |-> 0,
            next |-> 1, shown |-> {}, shut |-> 0, result |-> "none"]

Asked(pc) == [Unasked EXCEPT !.pc = pc, !.fut = "pending", !.timer = "armed", !.left = Window]

Set(r, q) == req' = [req EXCEPT ![r] = q]

-----------------------------------------------------------------------------
\* The command's surfaces are told by a task of their own; those of a
\* question by the waiting task itself, under the same deadline.
Ask(r) ==
    /\ req[r].pc = "idle"
    /\ Set(r, Asked(IF r \in ExecReqs THEN "wait" ELSE "notify"))

\* _cron_mode_decision and _in_cron_context: a scheduled run asks nobody.
AskUnattended(r) ==
    /\ req[r].pc = "idle"
    /\ \E d \in IF r \in ExecReqs THEN {"allow", "deny"} ELSE {"timeout"} :
          Set(r, [req[r] EXCEPT !.pc = "done", !.result = d])

\* A surface has been told, or could not be.  The task that tells those of a
\* command goes on whatever its waiter does, until it is cancelled (Drain).
Show(r) ==
    LET q == req[r]
    IN  /\ q.fut # "none" /\ q.next <= NSurfaces
        /\ \/ r \in ExecReqs /\ q.pc # "drain"
           \/ r \in Questions /\ q.pc = "notify"
        /\ \E s \in {q.shown, q.shown \cup {q.next}} :
              Set(r, [q EXCEPT !.shown = s, !.next = @ + 1,
                               !.pc = IF @ = "notify" /\ q.next = NSurfaces THEN "wait" ELSE @])

\* Mutant of Resolve: the deadline is not looked at.
ResolveLate(r, d) ==
    /\ req[r].pc \in {"notify", "wait"} /\ req[r].fut = "pending"
    /\ Set(r, [req[r] EXCEPT !.fut = d])

\* The surface is told that its answer counts.
Resolve(r, d) ==
    /\ req[r].pc \in {"notify", "wait"} /\ req[r].fut = "pending"
    /\ req[r].left > 0
    /\ Set(r, [req[r] EXCEPT !.fut = d])

\* The waiter's wake-up is in the loop's queue already.
Woken(r) == req[r].pc = "wait" /\ req[r].fut \notin {"pending", "void"}

\* The loop finds the timer due in this pass; then the timer cancels the
\* waiter, and the future it waits for unless that is done.
Collect(r) ==
    /\ req[r].timer = "armed" /\ req[r].left = 0 /\ ~Woken(r)
    /\ req[r].pc \in {"notify", "wait"}
    /\ Set(r, [req[r] EXCEPT !.timer = "due"])

Cancelled(q, why) ==
    [q EXCEPT !.cut = @ \cup {why},
              !.fut = IF q.pc = "wait" /\ @ = "pending" THEN "void" ELSE @]

Fire(r) ==
    /\ req[r].timer = "due"
    /\ Set(r, [Cancelled(req[r], "timeout") EXCEPT !.timer = "off"])

\* The run is stopped: its task is cancelled wherever it waits.
Abort(r) ==
    /\ req[r].pc \in {"notify", "wait", "drain", "close"} /\ "abort" \notin req[r].cut
    /\ Set(r, Cancelled(req[r], "abort"))

Verdict(q) == IF "abort" \in q.cut THEN "cancelled"
              ELSE IF "timeout" \in q.cut THEN "timeout" ELSE q.fut

\* Mutant of WakePc: the prompt is retired while surfaces are still told.
WakePcClose(r) == "close"

WakePc(r) == IF r \in ExecReqs THEN "drain" ELSE "close"

\* The waiter goes on to its finally block, where the request is forgotten.
Wake(r) ==
    LET q == req[r]
    IN  /\ r \notin PlanReqs
        /\ Woken(r) \/ (q.pc \in {"notify", "wait"} /\ q.cut # {})
        /\ Set(r, [q EXCEPT !.pc = WakePc(r), !.result = Verdict(q), !.cut = {}, !.timer = "off",
                            !.fut = IF @ = "pending" THEN "void" ELSE @])

\* The task that tells the surfaces is cancelled and awaited; what it was
\* sending has arrived or not.  Stopping the run here skips the rest.
Drain(r) ==
    LET q == req[r]
        sent == IF q.next <= NSurfaces THEN {q.shown, q.shown \cup {q.next}} ELSE {q.shown}
    IN  /\ q.pc = "drain"
        /\ \E s \in sent :
              Set(r, IF q.cut = {}
                     THEN [q EXCEPT !.pc = "close", !.shown = s, !.next = NSurfaces + 1]
                     ELSE [q EXCEPT !.pc = "done", !.shown = s, !.next = NSurfaces + 1,
                                    !.result = "cancelled"])

\* _fire_close: every surface is told that the request is over.
Shut(r) ==
    LET q == req[r]
    IN  /\ q.pc = "close"
        /\ Set(r, IF q.cut # {} THEN [q EXCEPT !.pc = "done", !.result = "cancelled"]
                  ELSE [q EXCEPT !.shut = @ + 1,
                                 !.pc = IF q.shut + 1 = NSurfaces THEN "done" ELSE @])

\* A tick of the clock.
Later(q) == [q EXCEPT !.left = IF @ > 0 THEN @ - 1 ELSE 0]

-----------------------------------------------------------------------------
\* The state of a request: a future, its timer and the surfaces it is shown on.
PromptsTypeOK ==
    req \in [Reqs ->
        [pc : {"idle", "announce", "notify", "wait", "drain", "close", "done"},
         fut : {"none", "pending", "void"} \cup Answers \cup PlanAnswers,
         cut : SUBSET {"timeout", "abort"}, timer : {"off", "armed", "due"},
         left : 0..Window, next : 1..(NSurfaces + 1), shown : SUBSET (1..NSurfaces),
         shut : 0..NSurfaces,
         result : {"none", "timeout", "cancelled"} \cup Answers \cup PlanAnswers]]

\* What the callers of a command's approval are promised.
Answered(r) == IF req[r].fut \in Answers THEN req[r].fut ELSE "unanswered"
Outcome(r)  == IF req[r].pc = "idle" THEN "unasked"
               ELSE IF req[r].pc = "done" THEN req[r].result ELSE "open"

Promise == INSTANCE Verdicts WITH
    Requests <- ExecReqs, Answers <- Answers,
    answer <- [r \in ExecReqs |-> Answered(r)],
    outcome <- [r \in ExecReqs |-> Outcome(r)]

\* The approval manager implements Verdicts: a decision that a surface was
\* told counts is the decision the command's caller gets, however it races
\* the deadline and whatever a slow surface does, and every caller gets one.
DecisionKept == Promise!Spec

\* "Never retire a card before the request that drew it has gone out": no
\* surface draws a prompt after it was told that the prompt is over.
NoLateCard ==
    [][\A r \in Reqs : \A s \in req'[r].shown \ req[r].shown : s > req[r].shut]_req
=============================================================================
