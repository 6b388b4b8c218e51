---------------------------- MODULE PromptsProofs ----------------------------
(***************************************************************************)
(* Lemmas about the prompts, for any number of requests, surfaces and      *)
(* ticks: what each callback of the event loop does to the state of one    *)
(* request, and what the callers of a command's approval see of it.        *)
(***************************************************************************)
EXTENDS Prompts, TLAPS

Pcs     == {"idle", "announce", "notify", "wait", "drain", "close", "done"}
Timers  == {"off", "armed", "due"}
Prompt  == [pc : Pcs,
            fut : {"none", "pending", "void"} \cup Answers \cup PlanAnswers,
            cut : SUBSET {"timeout", "abort"}, timer : Timers,
            left : 0..Window, next : 1..(NSurfaces + 1), shown : SUBSET (1..NSurfaces),
            shut : 0..NSurfaces,
            result : {"none", "timeout", "cancelled"} \cup Answers \cup PlanAnswers]

\* A surface is told of the end only once the others are no longer told of
\* the start.
Orderly(r, q) ==
    /\ q.pc \notin {"close", "done"} => q.shut = 0
    /\ q.pc = "close" => q.shut < NSurfaces
    /\ r \in ExecReqs /\ q.pc \in {"close", "done"} /\ q.fut # "none"
          => q.next = NSurfaces + 1

\* The waiter of a command has, from its future, the outcome that was promised.
Honest(q) ==
    /\ q.pc \notin {"announce", "notify"}
    /\ q.fut \in {"none", "pending", "void"} \cup Answers
    /\ q.pc = "idle" => q.fut = "none"
    /\ q.pc \in {"wait", "drain", "close"} => q.fut # "none"
    /\ q.pc # "wait" => q.fut # "pending" /\ q.timer = "off"
    /\ q.timer = "due" => q.left = 0 /\ q.fut \notin Answers
    /\ q.pc = "wait" /\ "timeout" \in q.cut => q.fut = "void"
    /\ q.pc \in {"drain", "close"}
          => \/ q.result = "cancelled"
             \/ q.result = IF q.fut \in Answers THEN q.fut ELSE "timeout"

Sound(r, q) == q \in Prompt /\ Orderly(r, q) /\ (r \in ExecReqs => Honest(q))

PromptInv == req \in [Reqs -> Prompt] /\ \A r \in Reqs : Sound(r, req[r])

-----------------------------------------------------------------------------
(* One request.                                                            *)

\* A step that leaves one request sound leaves all of them so.
LEMMA SetKeepsInv ==
    ASSUME PromptInv, NEW r \in Reqs, NEW q, Sound(r, q), Set(r, q)
    PROVE  PromptInv'
  BY DEF PromptInv, Set, Sound

\* A request that is not asked is sound.
LEMMA UnaskedSound == ASSUME NEW r PROVE Sound(r, Unasked)
  BY PromptsAssumption DEF Sound, Unasked, Prompt, Pcs, Timers, Orderly, Honest

\* Asking opens a sound request.
LEMMA AskInv == ASSUME PromptInv, NEW r \in ExecReqs \cup Questions, Ask(r) PROVE PromptInv'
  <1> DEFINE pc == IF r \in ExecReqs THEN "wait" ELSE "notify"
  <1>1. pc \in {"wait", "notify"} /\ (r \in ExecReqs => pc = "wait")
    OBVIOUS
  <1>2. Set(r, Asked(pc)) /\ r \in Reqs
    BY DEF Ask, Reqs
  <1> HIDE DEF pc
  <1>3. Unasked \in Prompt /\ Unasked.shut = 0 /\ Unasked.cut = {}
    BY PromptsAssumption DEF Unasked, Prompt, Pcs, Timers
  <1>4. ASSUME NEW u \in Prompt, u.shut = 0, u.cut = {}
        PROVE  Sound(r, [u EXCEPT !.pc = pc, !.fut = "pending", !.timer = "armed", !.left = Window])
    <2> DEFINE x == [u EXCEPT !.pc = pc, !.fut = "pending", !.timer = "armed", !.left = Window]
    <2>1. x \in Prompt
      <3>1. pc \in Pcs /\ "armed" \in Timers /\ Window \in 0..Window
        BY <1>1, PromptsAssumption DEF Pcs, Timers
      <3> QED
        BY <1>4, <3>1 DEF Prompt
    <2>2. x.pc = pc /\ x.fut = "pending" /\ x.timer = "armed" /\ x.cut = {} /\ x.shut = 0
      BY <1>4 DEF Prompt
    <2> HIDE DEF x
    <2>3. Orderly(r, x) /\ (r \in ExecReqs => Honest(x))
      BY <1>1, <2>2, PromptsAssumption DEF Orderly, Honest
    <2> QED
      BY <2>1, <2>3 DEF Sound, x
  <1>5. Sound(r, Asked(pc))
    BY <1>3, <1>4 DEF Asked
  <1> QED
    BY <1>2, <1>5, SetKeepsInv

\* So does a scheduled run that asks nobody.
LEMMA AskUnattendedInv ==
    ASSUME PromptInv, NEW r \in ExecReqs \cup Questions, AskUnattended(r)
    PROVE  PromptInv'
  <1>1. PICK d \in Answers \cup {"timeout"} :
           Set(r, [req[r] EXCEPT !.pc = "done", !.result = d])
    BY PromptsAssumption DEF AskUnattended
  <1> DEFINE q == [req[r] EXCEPT !.pc = "done", !.result = d]
  <1>2. r \in Reqs /\ Sound(r, req[r]) /\ req[r].pc = "idle"
    BY DEF Reqs, PromptInv, AskUnattended
  <1>3. Sound(r, q)
    BY <1>2, PromptsAssumption DEF Sound, Prompt, Pcs, Timers, Orderly, Honest
  <1> QED
    BY <1>1, <1>2, <1>3, SetKeepsInv

\* Telling a surface leaves a request sound.
LEMMA ShowInv == ASSUME PromptInv, NEW r \in Reqs, Show(r) PROVE PromptInv'
  <1> DEFINE q == req[r]
  <1>1. Sound(r, q) /\ q.fut # "none" /\ q.next <= NSurfaces
        /\ (r \in ExecReqs => q.pc # "drain") /\ (r \in ExecReqs \/ q.pc = "notify")
    BY DEF PromptInv, Show
  <1>2. PICK s \in {q.shown, q.shown \cup {q.next}} :
           Set(r, [q EXCEPT !.shown = s, !.next = @ + 1,
                            !.pc = IF @ = "notify" /\ q.next = NSurfaces THEN "wait" ELSE @])
    BY DEF Show
  <1> DEFINE w == [q EXCEPT !.shown = s, !.next = @ + 1,
                            !.pc = IF @ = "notify" /\ q.next = NSurfaces THEN "wait" ELSE @]
  <1>3. Sound(r, w)
    <2> HIDE DEF q
    <2>1. s \in SUBSET (1..NSurfaces) /\ q.next + 1 \in 1..(NSurfaces + 1)
      BY <1>1, PromptsAssumption DEF Sound, Prompt
    <2>2. w \in Prompt
      BY <1>1, <2>1 DEF Sound, Prompt, Pcs
    <2>3. Orderly(r, w)
      BY <1>1, PromptsAssumption DEF Sound, Prompt, Pcs, Orderly
    <2>4. ASSUME r \in ExecReqs PROVE Honest(w)
      BY <1>1, <2>4 DEF Sound, Prompt, Pcs, Honest
    <2> QED
      BY <2>2, <2>3, <2>4 DEF Sound
  <1> QED
    BY <1>2, <1>3, SetKeepsInv

\* So does an answer.
LEMMA ResolveInv ==
    ASSUME PromptInv, NEW r \in ExecReqs \cup Questions, NEW d \in Answers, Resolve(r, d)
    PROVE  PromptInv'
  <1> DEFINE q == req[r]
             w == [q EXCEPT !.fut = d]
  <1>1. r \in Reqs /\ Sound(r, q) /\ q.pc \in {"notify", "wait"} /\ q.fut = "pending" /\ q.left > 0
    BY DEF Reqs, PromptInv, Resolve
  <1>2. Set(r, w)
    BY DEF Resolve
  <1>3. Sound(r, w)
    BY <1>1, PromptsAssumption DEF Sound, Prompt, Pcs, Timers, Orderly, Honest
  <1> QED
    BY <1>1, <1>2, <1>3, SetKeepsInv

\* So does finding the timer due: an answer is not there yet, nor can it come.
LEMMA CollectInv == ASSUME PromptInv, NEW r \in Reqs, Collect(r) PROVE PromptInv'
  <1> DEFINE q == req[r]
             w == [q EXCEPT !.timer = "due"]
  <1>1. Sound(r, q) /\ q.timer = "armed" /\ q.left = 0 /\ q.pc \in {"notify", "wait"}
        /\ ~(q.pc = "wait" /\ q.fut \notin {"pending", "void"})
    BY DEF PromptInv, Collect, Woken
  <1>2. Set(r, w)
    BY DEF Collect
  <1>3. Sound(r, w)
    BY <1>1, PromptsAssumption DEF Sound, Prompt, Pcs, Timers, Orderly, Honest
  <1> QED
    BY <1>2, <1>3, SetKeepsInv

\* A cancellation reaches the waiter: by the timer, unless it was answered.
LEMMA CancelledSound ==
    ASSUME NEW r, NEW q, Sound(r, q), NEW why \in {"timeout", "abort"},
           r \in ExecReqs /\ why = "timeout" => q.fut \notin Answers
    PROVE  Sound(r, Cancelled(q, why))
  <1> DEFINE f == IF q.pc = "wait" /\ q.fut = "pending" THEN "void" ELSE q.fut
  <1>1. Cancelled(q, why) = [q EXCEPT !.cut = q.cut \cup {why}, !.fut = f]
    BY DEF Cancelled, Sound, Prompt
  <1>2. q.cut \cup {why} \in SUBSET {"timeout", "abort"}
    BY DEF Sound, Prompt
  <1>3. [q EXCEPT !.cut = q.cut \cup {why}, !.fut = f] \in Prompt
    BY <1>2 DEF Sound, Prompt
  <1>4. Orderly(r, [q EXCEPT !.cut = q.cut \cup {why}, !.fut = f])
    BY DEF Sound, Prompt, Orderly
  <1>5. ASSUME r \in ExecReqs
        PROVE  Honest([q EXCEPT !.cut = q.cut \cup {why}, !.fut = f])
    BY <1>5, PromptsAssumption DEF Sound, Prompt, Honest
  <1> QED
    BY <1>1, <1>3, <1>4, <1>5 DEF Sound

\* The timer cancels a waiter that has no answer.
LEMMA FireInv == ASSUME PromptInv, NEW r \in Reqs, Fire(r) PROVE PromptInv'
  <1> DEFINE q == req[r]
             w == [Cancelled(q, "timeout") EXCEPT !.timer = "off"]
  <1>1. Sound(r, q) /\ q.timer = "due"
    BY DEF PromptInv, Fire
  <1>2. Set(r, w)
    BY DEF Fire
  <1>3. Sound(r, Cancelled(q, "timeout"))
    <2>1. r \in ExecReqs => q.fut \notin Answers
      BY <1>1 DEF Sound, Honest
    <2> QED
      BY <1>1, <2>1, CancelledSound
  <1>4. ASSUME NEW x, Sound(r, x) PROVE Sound(r, [x EXCEPT !.timer = "off"])
    BY <1>4 DEF Sound, Prompt, Timers, Orderly, Honest
  <1> QED
    BY <1>2, <1>3, <1>4, SetKeepsInv

\* Stopping the run cancels the waiter wherever it is.
LEMMA AbortInv == ASSUME PromptInv, NEW r \in Reqs, Abort(r) PROVE PromptInv'
  <1>1. Sound(r, req[r]) /\ Set(r, Cancelled(req[r], "abort"))
    BY DEF PromptInv, Abort
  <1>2. Sound(r, Cancelled(req[r], "abort"))
    BY <1>1, CancelledSound
  <1> QED
    BY <1>1, <1>2, SetKeepsInv

\* A waiter that goes on takes along what its future promised.
LEMMA WakeInv == ASSUME PromptInv, NEW r \in Reqs, Wake(r) PROVE PromptInv'
  <1> DEFINE q == req[r]
             pc == WakePc(r)
             f == IF q.fut = "pending" THEN "void" ELSE q.fut
             w == [q EXCEPT !.pc = pc, !.result = Verdict(q), !.cut = {}, !.timer = "off",
                            !.fut = f]
  <1>1. Sound(r, q) /\ q.pc \in {"notify", "wait"}
        /\ (q.cut # {} \/ (q.pc = "wait" /\ q.fut \notin {"pending", "void"}))
    BY DEF PromptInv, Wake, Woken
  <1>2. Set(r, w)
    BY DEF Wake
  <1>3. Verdict(q) \in {"none", "timeout", "cancelled"} \cup Answers \cup PlanAnswers
    BY <1>1 DEF Sound, Prompt, Verdict
  <1>4. r \in ExecReqs => \/ Verdict(q) = "cancelled"
                          \/ Verdict(q) = IF f \in Answers THEN f ELSE "timeout"
    BY <1>1, PromptsAssumption DEF Sound, Prompt, Honest, Verdict
  <1>5. pc \in {"drain", "close"} /\ (r \in ExecReqs => pc = "drain")
    BY DEF WakePc
  <1>6. ASSUME NEW v \in {"none", "timeout", "cancelled"} \cup Answers \cup PlanAnswers, NEW p,
               r \in ExecReqs => \/ v = "cancelled"
                                \/ v = IF f \in Answers THEN f ELSE "timeout",
               p \in {"drain", "close"} /\ (r \in ExecReqs => p = "drain")
        PROVE  Sound(r, [q EXCEPT !.pc = p, !.result = v, !.cut = {}, !.timer = "off", !.fut = f])
    <2> DEFINE x == [q EXCEPT !.pc = p, !.result = v, !.cut = {}, !.timer = "off", !.fut = f]
    <2>1. x \in Prompt
      <3>1. p \in Pcs /\ "off" \in Timers
        BY <1>6 DEF Pcs, Timers
      <3>2. f \in {"none", "pending", "void"} \cup Answers \cup PlanAnswers /\ q \in Prompt
        BY <1>1 DEF Sound, Prompt
      <3> HIDE DEF f, q
      <3> QED
        BY <1>6, <3>1, <3>2 DEF Prompt
    <2>2. Orderly(r, x)
      BY <1>1, <1>6, PromptsAssumption DEF Sound, Prompt, Orderly
    <2>3. ASSUME r \in ExecReqs PROVE Honest(x)
      BY <1>1, <1>6, <2>3, PromptsAssumption DEF Sound, Prompt, Honest
    <2> QED
      BY <2>1, <2>2, <2>3 DEF Sound
  <1>7. Sound(r, w)
    BY <1>3, <1>4, <1>5, <1>6
  <1> QED
    BY <1>2, <1>7, SetKeepsInv

\* The task that tells the surfaces is over before the waiter goes on.
LEMMA DrainInv == ASSUME PromptInv, NEW r \in Reqs, Drain(r) PROVE PromptInv'
  <1> DEFINE q == req[r]
             w(s) == IF q.cut = {}
                     THEN [q EXCEPT !.pc = "close", !.shown = s, !.next = NSurfaces + 1]
                     ELSE [q EXCEPT !.pc = "done", !.shown = s, !.next = NSurfaces + 1,
                                    !.result = "cancelled"]
  <1>1. Sound(r, q) /\ q.pc = "drain"
    BY DEF PromptInv, Drain
  <1>2. PICK s \in SUBSET (1..NSurfaces) : Set(r, w(s))
    <2>1. q.next <= NSurfaces => q.next \in 1..NSurfaces
      BY <1>1, PromptsAssumption DEF Sound, Prompt
    <2>2. q.shown \in SUBSET (1..NSurfaces)
      BY <1>1 DEF Sound, Prompt
    <2> QED
      BY <2>1, <2>2 DEF Drain
  <1>3. NSurfaces + 1 \in 1..(NSurfaces + 1)
    BY PromptsAssumption
  <1>4. Sound(r, w(s))
    <2>1. CASE q.cut = {}
      <3> DEFINE x == [q EXCEPT !.pc = "close", !.shown = s, !.next = NSurfaces + 1]
      <3>1. x \in Prompt
        BY <1>1, <1>3 DEF Sound, Prompt, Pcs
      <3>2. Orderly(r, x) /\ (r \in ExecReqs => Honest(x))
        BY <1>1, PromptsAssumption DEF Sound, Prompt, Orderly, Honest
      <3> QED
        BY <2>1, <3>1, <3>2 DEF Sound
    <2>2. CASE q.cut # {}
      BY <1>1, <1>3, <2>2, PromptsAssumption DEF Sound, Prompt, Pcs, Orderly, Honest
    <2> QED
      BY <2>1, <2>2
  <1> QED
    BY <1>2, <1>4, SetKeepsInv

\* Telling the surfaces that it is over counts them.
LEMMA ShutInv == ASSUME PromptInv, NEW r \in Reqs, Shut(r) PROVE PromptInv'
  <1> DEFINE q == req[r]
             pc == IF q.shut + 1 = NSurfaces THEN "done" ELSE q.pc
  <1>1. Sound(r, q) /\ q.pc = "close"
    BY DEF PromptInv, Shut
  <1>2. CASE q.cut # {}
    <2>1. Set(r, [q EXCEPT !.pc = "done", !.result = "cancelled"])
      BY <1>2 DEF Shut
    <2>2. Sound(r, [q EXCEPT !.pc = "done", !.result = "cancelled"])
      BY <1>1, PromptsAssumption DEF Sound, Prompt, Pcs, Orderly, Honest
    <2> QED
      BY <2>1, <2>2, SetKeepsInv
  <1>3. CASE q.cut = {}
    <2>1. Set(r, [q EXCEPT !.shut = q.shut + 1, !.pc = pc])
      BY <1>1, <1>3 DEF Shut, Sound, Prompt
    <2>2. Sound(r, [q EXCEPT !.shut = q.shut + 1, !.pc = pc])
      <3> DEFINE x == [q EXCEPT !.shut = q.shut + 1, !.pc = pc]
      <3>1. pc \in {"close", "done"} /\ (pc = "close" => q.shut + 1 < NSurfaces)
            /\ q.shut + 1 \in 0..NSurfaces
        BY <1>1, PromptsAssumption DEF Sound, Prompt, Orderly
      <3> HIDE DEF pc
      <3>2. x \in Prompt
        BY <1>1, <3>1 DEF Sound, Prompt, Pcs
      <3>3. Orderly(r, x) /\ (r \in ExecReqs => Honest(x))
        BY <1>1, <3>1, PromptsAssumption DEF Sound, Prompt, Orderly, Honest
      <3> QED
        BY <3>2, <3>3 DEF Sound
    <2> QED
      BY <2>1, <2>2, SetKeepsInv
  <1> QED
    BY <1>2, <1>3

\* The clock only shortens deadlines.
LEMMA LaterSound == ASSUME NEW r, NEW q, Sound(r, q) PROVE Sound(r, Later(q))
  BY PromptsAssumption DEF Later, Sound, Prompt, Orderly, Honest

-----------------------------------------------------------------------------
(* What the callers of a command's approval see.                           *)

AnswerIn(q)  == IF q.fut \in Answers THEN q.fut ELSE "unanswered"
OutcomeIn(q) == IF q.pc = "idle" THEN "unasked" ELSE IF q.pc = "done" THEN q.result ELSE "open"

Promised == [Promise!Next]_(Promise!vars)

\* A step on one command shows in its answer and its outcome only.
LEMMA SeenOfSet ==
    ASSUME PromptInv, NEW r \in ExecReqs, NEW q, Set(r, q)
    PROVE  /\ [x \in ExecReqs |-> Answered(x)]'
                = [[x \in ExecReqs |-> Answered(x)] EXCEPT ![r] = AnswerIn(q)]
           /\ [x \in ExecReqs |-> Outcome(x)]'
                = [[x \in ExecReqs |-> Outcome(x)] EXCEPT ![r] = OutcomeIn(q)]
  <1>1. r \in Reqs /\ req' = [req EXCEPT ![r] = q] /\ req \in [Reqs -> Prompt]
        /\ ExecReqs \subseteq Reqs
    BY DEF Reqs, Set, PromptInv
  <1> QED
    BY <1>1 DEF Answered, Outcome, AnswerIn, OutcomeIn

\* A step that leaves answers and outcomes alone is no step of the promise.
LEMMA UnseenStep ==
    ASSUME \A r \in ExecReqs : /\ AnswerIn(req'[r]) = AnswerIn(req[r])
                              /\ OutcomeIn(req'[r]) = OutcomeIn(req[r])
    PROVE  Promised
  BY DEF Promised, Promise!vars, Answered, Outcome, AnswerIn, OutcomeIn

\* Questions and plans are not part of it.
LEMMA OtherUnseen ==
    ASSUME PromptInv, NEW r \in Reqs \ ExecReqs, NEW q, Set(r, q)
    PROVE  Promised
  BY UnseenStep DEF Set, PromptInv, Reqs

\* The steps of the promise, seen from one command.
LEMMA PromisedSteps ==
    ASSUME PromptInv, NEW r \in ExecReqs, NEW q, Set(r, q),
           \/ /\ AnswerIn(q) = AnswerIn(req[r])
              /\ \/ OutcomeIn(req[r]) = OutcomeIn(q)
                 \/ OutcomeIn(req[r]) = "unasked" /\ OutcomeIn(q) \in Answers \cup {"open"}
                 \/ /\ OutcomeIn(req[r]) = "open"
                    /\ OutcomeIn(q) \in {"cancelled", IF AnswerIn(q) = "unanswered" THEN "timeout"
                                                     ELSE AnswerIn(q)}
           \/ /\ OutcomeIn(req[r]) = "open" /\ OutcomeIn(q) = "open"
              /\ AnswerIn(req[r]) = "unanswered" /\ AnswerIn(q) \in Answers
           \/ /\ OutcomeIn(req[r]) # "unasked" /\ OutcomeIn(q) = "unasked"
              /\ AnswerIn(q) = "unanswered"
    PROVE  Promised
  <1> DEFINE an == [x \in ExecReqs |-> Answered(x)]
             out == [x \in ExecReqs |-> Outcome(x)]
  <1>1. /\ an' = [an EXCEPT ![r] = AnswerIn(q)] /\ an \in [ExecReqs -> {an[x] : x \in ExecReqs}]
        /\ out' = [out EXCEPT ![r] = OutcomeIn(q)] /\ out \in [ExecReqs -> {out[x] : x \in ExecReqs}]
    BY SeenOfSet
  <1>2. an[r] = AnswerIn(req[r]) /\ out[r] = OutcomeIn(req[r])
    BY DEF Answered, Outcome, AnswerIn, OutcomeIn
  <1>3. AnswerIn(q) = AnswerIn(req[r]) => an' = an
    BY <1>1, <1>2
  <1>4. OutcomeIn(q) = OutcomeIn(req[r]) => out' = out
    BY <1>1, <1>2
  <1>5. /\ Promise!Open(r) <=> out[r] = "unasked" /\ out' = [out EXCEPT ![r] = "open"] /\ an' = an
        /\ \A d : Promise!Decree(r, d)
                  <=> out[r] = "unasked" /\ out' = [out EXCEPT ![r] = d] /\ an' = an
        /\ \A d : Promise!Accept(r, d)
                  <=> out[r] = "open" /\ an[r] = "unanswered" /\ an' = [an EXCEPT ![r] = d] /\ out' = out
        /\ Promise!Return(r)
              <=> /\ out[r] = "open" /\ an' = an
                  /\ out' = [out EXCEPT ![r] = IF an[r] = "unanswered" THEN "timeout" ELSE an[r]]
        /\ Promise!TearDown(r)
              <=> out[r] = "open" /\ out' = [out EXCEPT ![r] = "cancelled"] /\ an' = an
        /\ Promise!Forget(r)
              <=> /\ out[r] # "unasked" /\ out' = [out EXCEPT ![r] = "unasked"]
                  /\ an' = [an EXCEPT ![r] = "unanswered"]
    BY DEF Promise!Open, Promise!Decree, Promise!Accept, Promise!Return, Promise!TearDown,
           Promise!Forget, Promise!Unanswered
  <1>6. an' = an /\ out' = out => UNCHANGED Promise!vars
    BY DEF Promise!vars
  <1> HIDE DEF an, out
  <1>7. \/ Promise!Open(r) \/ Promise!Return(r) \/ Promise!TearDown(r) \/ Promise!Forget(r)
        \/ \E d \in Answers : Promise!Decree(r, d) \/ Promise!Accept(r, d)
        \/ an' = an /\ out' = out
    BY <1>1, <1>2, <1>3, <1>4, <1>5
  <1> QED
    BY <1>6, <1>7 DEF Promised, Promise!Next

\* A command that is asked opens.
LEMMA AskPromised == ASSUME PromptInv, NEW r \in ExecReqs, Ask(r) PROVE Promised
  <1> DEFINE q == Asked("wait")
  <1>1. Set(r, q) /\ req[r].pc = "idle" /\ Sound(r, req[r])
    BY DEF Ask, PromptInv, Reqs
  <1>2. AnswerIn(q) = "unanswered" /\ OutcomeIn(q) = "open"
    BY PromptsAssumption DEF AnswerIn, OutcomeIn, Asked, Unasked
  <1>3. AnswerIn(req[r]) = "unanswered" /\ OutcomeIn(req[r]) = "unasked"
    BY <1>1, PromptsAssumption DEF AnswerIn, OutcomeIn, Sound, Honest
  <1> QED
    BY <1>1, <1>2, <1>3, PromisedSteps

\* A scheduled run's policy decides at once.
LEMMA AskUnattendedPromised ==
    ASSUME PromptInv, NEW r \in ExecReqs, AskUnattended(r)
    PROVE  Promised
  <1>1. PICK d \in Answers : Set(r, [req[r] EXCEPT !.pc = "done", !.result = d])
    BY PromptsAssumption DEF AskUnattended
  <1> DEFINE q == [req[r] EXCEPT !.pc = "done", !.result = d]
  <1>2. Sound(r, req[r]) /\ req[r].pc = "idle"
    BY DEF Reqs, PromptInv, AskUnattended
  <1>3. /\ AnswerIn(q) = AnswerIn(req[r]) /\ OutcomeIn(req[r]) = "unasked"
        /\ OutcomeIn(q) \in Answers
    BY <1>2 DEF AnswerIn, OutcomeIn, Sound, Prompt
  <1> QED
    BY <1>1, <1>3, PromisedSteps

\* Telling the surfaces of a request shows nothing to its caller.
LEMMA ShowPromised == ASSUME PromptInv, NEW r \in Reqs, Show(r) PROVE Promised
  <1>1. CASE r \notin ExecReqs
    BY <1>1, OtherUnseen DEF Show
  <1>2. CASE r \in ExecReqs
    <2> DEFINE q == req[r]
    <2>1. PICK s : Set(r, [q EXCEPT !.shown = s, !.next = @ + 1,
                            !.pc = IF @ = "notify" /\ q.next = NSurfaces THEN "wait" ELSE @])
      BY DEF Show
    <2> DEFINE w == [q EXCEPT !.shown = s, !.next = @ + 1,
                            !.pc = IF @ = "notify" /\ q.next = NSurfaces THEN "wait" ELSE @]
    <2>2. q \in Prompt /\ q.pc # "notify"
      BY <1>2 DEF PromptInv, Sound, Honest
    <2>3. AnswerIn(w) = AnswerIn(q) /\ OutcomeIn(w) = OutcomeIn(q)
      BY <2>2 DEF Prompt, AnswerIn, OutcomeIn
    <2> QED
      BY <1>2, <2>1, <2>3, PromisedSteps
  <1> QED
    BY <1>1, <1>2

\* A decision that counts is the first one.
LEMMA ResolvePromised ==
    ASSUME PromptInv, NEW r \in ExecReqs \cup Questions, NEW d \in Answers, Resolve(r, d)
    PROVE  Promised
  <1>1. CASE r \notin ExecReqs
    BY <1>1, OtherUnseen DEF Resolve, Reqs
  <1>2. CASE r \in ExecReqs
    <2> DEFINE q == req[r]
               w == [q EXCEPT !.fut = d]
    <2>1. q \in Prompt /\ q.pc \in {"notify", "wait"} /\ q.fut = "pending" /\ Set(r, w)
      BY <1>2 DEF PromptInv, Resolve, Reqs
    <2>2. /\ AnswerIn(q) = "unanswered" /\ AnswerIn(w) = d
          /\ OutcomeIn(q) = "open" /\ OutcomeIn(w) = "open"
      BY <2>1, PromptsAssumption DEF Prompt, AnswerIn, OutcomeIn
    <2> QED
      BY <1>2, <2>1, <2>2, PromisedSteps
  <1> QED
    BY <1>1, <1>2

\* A due timer shows nothing.
LEMMA CollectPromised == ASSUME PromptInv, NEW r \in Reqs, Collect(r) PROVE Promised
  <1> DEFINE q == req[r]
             w == [q EXCEPT !.timer = "due"]
  <1>1. q \in Prompt /\ Set(r, w)
    BY DEF PromptInv, Collect
  <1>2. AnswerIn(w) = AnswerIn(q) /\ OutcomeIn(w) = OutcomeIn(q)
    BY <1>1 DEF Prompt, AnswerIn, OutcomeIn
  <1> QED
    BY <1>1, <1>2, PromisedSteps, OtherUnseen

\* Nor does a cancellation that the waiter has not met yet.
LEMMA CancelledUnseen ==
    ASSUME NEW q \in Prompt, NEW why
    PROVE  /\ AnswerIn(Cancelled(q, why)) = AnswerIn(q)
           /\ OutcomeIn(Cancelled(q, why)) = OutcomeIn(q)
           /\ \A t : /\ AnswerIn([Cancelled(q, why) EXCEPT !.timer = t]) = AnswerIn(q)
                    /\ OutcomeIn([Cancelled(q, why) EXCEPT !.timer = t]) = OutcomeIn(q)
  BY PromptsAssumption DEF Cancelled, Prompt, AnswerIn, OutcomeIn

\* So the deadline shows only when the waiter meets it.
LEMMA FirePromised == ASSUME PromptInv, NEW r \in Reqs, Fire(r) PROVE Promised
  <1>1. req[r] \in Prompt /\ Set(r, [Cancelled(req[r], "timeout") EXCEPT !.timer = "off"])
    BY DEF PromptInv, Fire
  <1> QED
    BY <1>1, CancelledUnseen, PromisedSteps, OtherUnseen

\* And so does stopping the run.
LEMMA AbortPromised == ASSUME PromptInv, NEW r \in Reqs, Abort(r) PROVE Promised
  <1>1. req[r] \in Prompt /\ Set(r, Cancelled(req[r], "abort"))
    BY DEF PromptInv, Abort
  <1> QED
    BY <1>1, CancelledUnseen, PromisedSteps, OtherUnseen

\* A waiter that goes on still has its finally block to run.
LEMMA WakePromised == ASSUME PromptInv, NEW r \in Reqs, Wake(r) PROVE Promised
  <1> DEFINE q == req[r]
             w == [q EXCEPT !.pc = WakePc(r), !.result = Verdict(q), !.cut = {}, !.timer = "off",
                            !.fut = IF @ = "pending" THEN "void" ELSE @]
  <1>1. q \in Prompt /\ q.pc \in {"notify", "wait"} /\ Set(r, w)
    BY DEF PromptInv, Wake, Woken
  <1>2. CASE r \notin ExecReqs
    BY <1>1, <1>2, OtherUnseen
  <1>3. CASE r \in ExecReqs
    <2>1. w.pc = "drain" /\ w.fut = IF q.fut = "pending" THEN "void" ELSE q.fut
      BY <1>1, <1>3 DEF Prompt, WakePc
    <2>2. AnswerIn(w) = AnswerIn(q) /\ OutcomeIn(w) = OutcomeIn(q)
      BY <1>1, <2>1, PromptsAssumption DEF AnswerIn, OutcomeIn
    <2> QED
      BY <1>1, <1>3, <2>2, PromisedSteps
  <1> QED
    BY <1>2, <1>3

\* A run that is stopped while its prompt is retired is torn down.
LEMMA DrainPromised == ASSUME PromptInv, NEW r \in Reqs, Drain(r) PROVE Promised
  <1> DEFINE q == req[r]
             w(s) == IF q.cut = {}
                     THEN [q EXCEPT !.pc = "close", !.shown = s, !.next = NSurfaces + 1]
                     ELSE [q EXCEPT !.pc = "done", !.shown = s, !.next = NSurfaces + 1,
                                    !.result = "cancelled"]
  <1>1. q \in Prompt /\ q.pc = "drain"
    BY DEF PromptInv, Drain
  <1>2. PICK s : Set(r, w(s))
    BY DEF Drain
  <1>3. AnswerIn(w(s)) = AnswerIn(q) /\ OutcomeIn(q) = "open"
        /\ OutcomeIn(w(s)) \in {"open", "cancelled"}
    <2>1. w(s).fut = q.fut /\ (w(s).pc = "close" \/ (w(s).pc = "done" /\ w(s).result = "cancelled"))
      BY <1>1 DEF Prompt
    <2> QED
      BY <1>1, <2>1 DEF AnswerIn, OutcomeIn
  <1> QED
    BY <1>2, <1>3, PromisedSteps, OtherUnseen

\* The last surface that is told lets the caller go, with what was promised.
LEMMA ShutPromised == ASSUME PromptInv, NEW r \in Reqs, Shut(r) PROVE Promised
  <1> DEFINE q == req[r]
             w == IF q.cut # {} THEN [q EXCEPT !.pc = "done", !.result = "cancelled"]
                  ELSE [q EXCEPT !.shut = @ + 1,
                                 !.pc = IF q.shut + 1 = NSurfaces THEN "done" ELSE @]
  <1>1. Sound(r, q) /\ q.pc = "close" /\ Set(r, w)
    BY DEF PromptInv, Shut
  <1>2. CASE r \notin ExecReqs
    BY <1>1, <1>2, OtherUnseen
  <1>3. CASE r \in ExecReqs
    <2>1. /\ w.fut = q.fut
          /\ \/ w.pc = "close"
             \/ w.pc = "done" /\ w.result \in {"cancelled", q.result}
      BY <1>1 DEF Sound, Prompt
    <2>2. q.result \in {"cancelled", IF q.fut \in Answers THEN q.fut ELSE "timeout"}
      BY <1>1, <1>3 DEF Sound, Honest
    <2>3. AnswerIn(w) = AnswerIn(q) /\ OutcomeIn(q) = "open"
          /\ OutcomeIn(w) \in {"open", "cancelled", IF AnswerIn(w) = "unanswered" THEN "timeout"
                                                     ELSE AnswerIn(w)}
      BY <1>1, <2>1, <2>2, PromptsAssumption DEF AnswerIn, OutcomeIn
    <2> QED
      BY <1>1, <1>3, <2>3, PromisedSteps
  <1> QED
    BY <1>2, <1>3

\* The clock shows nothing.
LEMMA LaterUnseen ==
    ASSUME NEW q \in Prompt
    PROVE  AnswerIn(Later(q)) = AnswerIn(q) /\ OutcomeIn(Later(q)) = OutcomeIn(q)
  BY DEF Later, Prompt, AnswerIn, OutcomeIn

\* A caller that has its outcome forgets the request.
LEMMA ForgetPromised ==
    ASSUME PromptInv, NEW r \in Reqs, req[r].pc \notin {"idle"}, Set(r, Unasked),
           r \in ExecReqs /\ req[r].pc = "done" => req[r].result # "unasked"
    PROVE  Promised
  <1>1. AnswerIn(Unasked) = "unanswered" /\ OutcomeIn(Unasked) = "unasked"
    BY PromptsAssumption DEF Unasked, AnswerIn, OutcomeIn
  <1>2. r \in ExecReqs => OutcomeIn(req[r]) # "unasked"
    BY DEF OutcomeIn
  <1> QED
    BY <1>1, <1>2, PromisedSteps, OtherUnseen

-----------------------------------------------------------------------------
(* No surface draws a prompt after it was told that the prompt is over.    *)

NotLate(r) == \A s \in req'[r].shown \ req[r].shown : s > req[r].shut

\* Telling of the start goes on only until the first is told of the end.
LEMMA ShowNotLate == ASSUME PromptInv, NEW r \in Reqs, Show(r) PROVE NotLate(r)
  <1> DEFINE q == req[r]
  <1>1. Sound(r, q) /\ q.fut # "none" /\ q.next <= NSurfaces
        /\ (r \in ExecReqs \/ q.pc = "notify")
    BY DEF PromptInv, Show
  <1>2. q.shut = 0 /\ q.next \in 1..NSurfaces
    BY <1>1, PromptsAssumption DEF Sound, Prompt, Orderly
  <1>3. PICK s \in {q.shown, q.shown \cup {q.next}} :
           Set(r, [q EXCEPT !.shown = s, !.next = @ + 1,
                            !.pc = IF @ = "notify" /\ q.next = NSurfaces THEN "wait" ELSE @])
    BY DEF Show
  <1>4. req'[r].shown = s
    BY <1>1, <1>3 DEF Set, PromptInv, Sound, Prompt
  <1> QED
    BY <1>2, <1>3, <1>4 DEF NotLate

\* The one who was being told when the task was cancelled is the last.
LEMMA DrainNotLate == ASSUME PromptInv, NEW r \in Reqs, Drain(r) PROVE NotLate(r)
  <1> DEFINE q == req[r]
  <1>1. Sound(r, q) /\ q.pc = "drain"
    BY DEF PromptInv, Drain
  <1>2. q.shut = 0 /\ q.next \in 1..(NSurfaces + 1)
    BY <1>1, PromptsAssumption DEF Sound, Prompt, Orderly
  <1>3. req'[r].shown \subseteq q.shown \cup {q.next}
    <2>1. req \in [Reqs -> Prompt] /\ q \in Prompt
      BY <1>1 DEF PromptInv
    <2> QED
      BY <2>1 DEF Drain, Set, Prompt
  <1> QED
    BY <1>2, <1>3 DEF NotLate

\* Nothing else shows a prompt.
LEMMA SetNotLate ==
    ASSUME PromptInv, NEW r \in Reqs, NEW q, Set(r, q), q.shown \subseteq req[r].shown
    PROVE  \A x \in Reqs : NotLate(x)
  BY DEF Set, PromptInv, NotLate
=============================================================================
