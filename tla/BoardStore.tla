----------------------------- MODULE BoardStore -----------------------------
(***************************************************************************)
(* The shared task board's store, src/flowly/board/store.py: one SQLite    *)
(* file behind one lock, so every operation is one atomic step.  Its       *)
(* callers are not: users edit cards from several surfaces, workers hold   *)
(* claim tokens across long runs and come back late, the dispatcher        *)
(* recovers leases by the clock, and an older runtime may share the file.  *)
(* This module lets them call in any order.                                *)
(*                                                                         *)
(* Tables are functions whose DOMAIN is the set of rows: cards by id, runs *)
(* by the claim token that opened them, cmds by seq.  0 stands for NULL in *)
(* sched, token, lease and worker.  Titles, notes, results, events and the *)
(* audit column run_id are left out; owner visibility is not modelled (all *)
(* cards have one owner).                                                  *)
(***************************************************************************)
EXTENDS Naturals, FiniteSets, Functions, CardCommands

CONSTANTS BgCards,          \* ids of the ordinary (background) cards
          VoiceCards,       \* ids of the cards in execution mode "voice"
          Profiles,         \* the bots a card can be assigned to
          LeaseTicks,       \* how long a claim or a heartbeat owns a card
          RetryDelays,      \* the back-off delays a failed run may ask for
          AttemptsLimit,    \* largest max_attempts a card may have (code: 10)
          TriggerInstalled, \* trg_cards_preserve_active_claim is in the file
          MaxRev,           \* bound: users edit a card up to this revision
          MaxClaims,        \* bound: claims issued
          MaxTime           \* bound: the clock

VARIABLES cards,      \* table cards
          runs,       \* table card_runs
          links,      \* table card_links: <<parent, child>>
          cmds,       \* table card_commands
          fresh,      \* card ids not issued yet
          now,        \* time.time(), at least 1
          nextToken,  \* the next claim token
          nextCmd     \* the next seq of card_commands

storeVars == <<cards, runs, links, cmds, fresh, now, nextToken, nextCmd>>

Cards     == BgCards \cup VoiceCards
NoProfile == ""
Default   == "default"

ASSUME ModesDisjoint == BgCards \cap VoiceCards = {}
ASSUME ProfilesAssumption == Default \in Profiles /\ NoProfile \notin Profiles
ASSUME BoundsAssumption ==
    /\ LeaseTicks \in Nat \ {0} /\ AttemptsLimit \in Nat \ {0}
    /\ RetryDelays \subseteq Nat
    /\ TriggerInstalled \in BOOLEAN
    /\ MaxRev \in Nat /\ MaxClaims \in Nat /\ MaxTime \in Nat

Statuses  == {"todo", "ready", "in_progress", "waiting", "review", "blocked",
              "done", "cancelled", "archived"}
Terminal  == {"done", "cancelled", "archived"}
Startable == {"todo", "ready", "waiting"}
Outcomes  == {"done", "failed", "cancelled", "review", "blocked"}

Card == [status : Statuses, assignee : Profiles \cup {NoProfile}, sched : Nat,
         rev : Nat, token : Nat, lease : Nat, attempts : Nat,
         max : 1..AttemptsLimit]
Run  == [card : Cards, attempt : Nat, profile : Profiles, worker : Nat,
         status : Outcomes \cup {"running", "expired"}]
Cmd  == [card : Cards, kind : CmdKinds, status : CmdStatuses, token : Nat,
         worker : Nat, target : Nat, owner : Nat]

-----------------------------------------------------------------------------
Claimed(c) == cards[c].token # 0
Exists(c)  == c \in DOMAIN cards

\* A table with row r inserted under key k.
Insert(table, k, r) == [x \in DOMAIN table \cup {k} |-> IF x = k THEN r ELSE table[x]]

\* Where a card goes when it is to run again.
Requeued(c) == IF cards[c].assignee # NoProfile THEN "ready" ELSE "todo"

ParentsDone(c) == \A l \in links : l[2] = c => cards[l[1]].status = "done"

\* Mutant of Descendants: only the direct children.
DirectChildren(x) == {y \in Cards : <<x, y>> \in links}

\* The cards below x: those in every set closed under links that holds x's
\* children (the recursive query of link_cards).
Descendants(x) ==
    {y \in Cards :
        \A S \in SUBSET Cards :
            /\ \A l \in links : l[1] = x => l[2] \in S
            /\ \A l \in links : l[1] \in S => l[2] \in S
            => y \in S}

\* A card nobody has claimed can be edited.
Editable(c) == Exists(c) /\ ~Claimed(c)

-----------------------------------------------------------------------------
NewCard(status, assignee, sched, max) ==
    [status |-> status, assignee |-> assignee, sched |-> sched, rev |-> 0,
     token |-> 0, lease |-> 0, attempts |-> 0, max |-> max]

AddCard(c, sched, max) ==
    /\ c \in fresh \cap BgCards
    /\ cards' = Insert(cards, c, NewCard("todo", NoProfile, sched, max))
    /\ fresh' = fresh \ {c}
    /\ UNCHANGED <<runs, links, cmds, now, nextToken, nextCmd>>

\* dispatch_voice: runnable work with its first instruction, or an empty
\* chat parked until an explicit instruction.
AddVoiceCard(c, p, openOnly) ==
    /\ c \in fresh \cap VoiceCards
    /\ cards' = Insert(cards, c, NewCard(IF openOnly THEN "todo" ELSE "ready", p, 0, 1))
    /\ fresh' = fresh \ {c}
    /\ IF openOnly THEN UNCHANGED <<cmds, nextCmd>>
       ELSE /\ cmds' = Insert(cmds, nextCmd, NewCmd(c, "initial", "queued", 0, 0))
            /\ nextCmd' = nextCmd + 1
    /\ UNCHANGED <<runs, links, now, nextToken>>

SetStatus(c, s, clearSchedule) ==
    /\ Editable(c)
    /\ cards' = [cards EXCEPT ![c].status = s,
                              ![c].rev = @ + 1,
                              ![c].sched = IF clearSchedule \/ s \in Terminal THEN 0 ELSE @]
    /\ UNCHANGED <<runs, links, cmds, fresh, now, nextToken, nextCmd>>

Move(c, s) == SetStatus(c, s, FALSE)
Retry(c)   == Exists(c) /\ SetStatus(c, Requeued(c), TRUE)

\* Mutant of UpdateCard: the edit leaves the revision alone.
UpdateCardSilently(c, sched, max) ==
    /\ Editable(c)
    /\ max = cards[c].max \/ max >= cards[c].attempts
    /\ cards' = [cards EXCEPT ![c].sched = sched, ![c].max = max]
    /\ UNCHANGED <<runs, links, cmds, fresh, now, nextToken, nextCmd>>

\* An edit may leave the schedule or the attempts as they are; a new limit
\* does not go below the attempts made.
UpdateCard(c, sched, max) ==
    /\ Editable(c)
    /\ max = cards[c].max \/ max >= cards[c].attempts
    /\ cards' = [cards EXCEPT ![c].sched = sched, ![c].max = max, ![c].rev = @ + 1]
    /\ UNCHANGED <<runs, links, cmds, fresh, now, nextToken, nextCmd>>

\* add_note and set_run_id: the revision moves even under a live claim.
Touch(c) ==
    /\ Exists(c)
    /\ cards' = [cards EXCEPT ![c].rev = @ + 1]
    /\ UNCHANGED <<runs, links, cmds, fresh, now, nextToken, nextCmd>>

AssignCard(c, p) ==
    /\ Editable(c) /\ cards[c].status # "in_progress"
    /\ cards' = [cards EXCEPT ![c].assignee = p, ![c].rev = @ + 1]
    /\ UNCHANGED <<runs, links, cmds, fresh, now, nextToken, nextCmd>>

UnassignCard(c) ==
    /\ Editable(c) /\ cards[c].status # "in_progress"
    /\ cards' = [cards EXCEPT ![c].assignee = NoProfile,
                              ![c].status = IF @ = "ready" THEN "todo" ELSE @,
                              ![c].rev = @ + 1]
    /\ UNCHANGED <<runs, links, cmds, fresh, now, nextToken, nextCmd>>

LinkCards(p, c) ==
    /\ p # c /\ Exists(p) /\ Exists(c)
    /\ p \notin Descendants(c)
    /\ links' = links \cup {<<p, c>>}
    /\ UNCHANGED <<cards, runs, cmds, fresh, now, nextToken, nextCmd>>

-----------------------------------------------------------------------------
Claimable(c, ignoreSchedule) ==
    /\ Exists(c) /\ ~Claimed(c)
    /\ cards[c].status \in Startable
    /\ ignoreSchedule \/ cards[c].sched <= now
    /\ ParentsDone(c)
    /\ c \in VoiceCards => NextLocked(cmds, c) # {}

\* Mutant of Taken: the attempt is not counted.
TakenUncounted(r, t, until) ==
    [r EXCEPT !.status = "in_progress", !.token = t, !.lease = until, !.rev = @ + 1]

Taken(r, t, until) == [r EXCEPT !.status = "in_progress", !.token = t, !.lease = until,
                                !.attempts = @ + 1, !.rev = @ + 1]

ClaimCard(c, worker, ignoreSchedule) ==
    /\ Claimable(c, ignoreSchedule)
    /\ cards' = [cards EXCEPT ![c] = Taken(@, nextToken, now + LeaseTicks)]
    /\ runs' = Insert(runs, nextToken, [card |-> c, attempt |-> cards[c].attempts + 1,
                                        profile |-> worker, worker |-> 0,
                                        status |-> "running"])
    /\ cmds' = [i \in DOMAIN cmds |->
                   IF c \in VoiceCards /\ i \in NextLocked(cmds, c)
                   THEN ClaimLocked(cmds, i, nextToken)[i] ELSE cmds[i]]
    /\ nextToken' = nextToken + 1
    /\ UNCHANGED <<links, fresh, now, nextCmd>>

\* Mutant of Owns: any token of a claimed card is good.
OwnsAny(c, t) == Exists(c) /\ Claimed(c)

Owns(c, t) == Exists(c) /\ Claimed(c) /\ cards[c].token = t

\* A status an older runtime damaged is put back by its claim's owner.
Repaired(r) == [r EXCEPT !.status = "in_progress",
                         !.rev = IF r.status # "in_progress" THEN @ + 1 ELSE @]

HeartbeatClaim(c, t) ==
    /\ Owns(c, t)
    /\ cards' = [cards EXCEPT ![c] = [Repaired(@) EXCEPT !.lease = now + LeaseTicks]]
    /\ UNCHANGED <<runs, links, cmds, fresh, now, nextToken, nextCmd>>

\* Mutant of SetWorkerRunId: the run is found by its token alone.
SetWorkerRunIdLate(c, t, w) ==
    /\ Exists(c) /\ runs[t].card = c
    /\ runs' = [runs EXCEPT ![t].worker = w]
    /\ UNCHANGED <<cards, cmds, links, fresh, now, nextToken, nextCmd>>

SetWorkerRunId(c, t, w) ==
    /\ Owns(c, t)
    /\ cards' = [cards EXCEPT ![c] = Repaired(@)]
    /\ runs' = [runs EXCEPT ![t].worker = w]
    /\ cmds' = IF c \in VoiceCards THEN AppliedLocked(cmds, c, t, w) ELSE cmds
    /\ UNCHANGED <<links, fresh, now, nextToken, nextCmd>>

\* The status a card takes when its claim ends with an outcome.
Settled(c, outcome) ==
    CASE outcome = "failed" -> IF cards[c].attempts >= cards[c].max
                               THEN "blocked" ELSE Requeued(c)
      [] OTHER -> outcome

AfterClaim(c, outcome, uncertain) ==
    IF c \notin VoiceCards THEN Settled(c, outcome)
    ELSE IF uncertain \/ outcome = "failed" THEN "blocked"
    ELSE IF /\ outcome = "done"
            /\ NextLocked(FinishLocked(cmds, c, cards[c].token, outcome, FALSE), c) # {}
         THEN "ready" ELSE Settled(c, outcome)

\* Mutant of Released: the lease is not cleared.
ReleasedWithLease(r, status) == [r EXCEPT !.status = status, !.token = 0, !.rev = @ + 1]

Released(r, status) == [r EXCEPT !.status = status, !.token = 0, !.lease = 0, !.rev = @ + 1]

FinishClaim(c, t, outcome, delay, uncertain) ==
    LET next == AfterClaim(c, outcome, uncertain)
    IN  /\ Owns(c, t)
        /\ cards' = [cards EXCEPT ![c] =
               [Released(@, next) EXCEPT
                  !.sched = IF outcome = "failed" /\ next \in {"ready", "todo"}
                            THEN now + delay ELSE 0]]
        /\ runs' = [runs EXCEPT ![t].status = outcome]
        /\ cmds' = IF c \in VoiceCards THEN FinishLocked(cmds, c, t, outcome, uncertain)
                   ELSE cmds
        /\ UNCHANGED <<links, fresh, now, nextToken, nextCmd>>

\* Mutants of Lapsed: a lease is given up one tick early; only claims whose
\* worker has reported its start are recovered.
LapsedEarly(c)   == Claimed(c) /\ cards[c].lease <= now + 1
LapsedStarted(c) == Claimed(c) /\ cards[c].lease <= now /\ runs[cards[c].token].worker # 0

\* recover_expired_claims: one transaction over every claimed card whose
\* lease has run out, or whose status was damaged under a live lease.
Lapsed(c)  == Claimed(c) /\ cards[c].lease <= now
Damaged(c) == Claimed(c) /\ cards[c].status # "in_progress"

Expired(c) == IF c \in VoiceCards \/ cards[c].attempts >= cards[c].max
              THEN "blocked" ELSE Requeued(c)

RecoverExpiredClaims ==
    /\ \E c \in DOMAIN cards : Lapsed(c) \/ Damaged(c)
    /\ cards' = [c \in DOMAIN cards |->
                    IF Lapsed(c) THEN Released(cards[c], Expired(c))
                    ELSE IF Damaged(c) THEN Repaired(cards[c]) ELSE cards[c]]
    /\ runs' = [t \in DOMAIN runs |->
                   IF Lapsed(runs[t].card) /\ cards[runs[t].card].token = t
                   THEN [runs[t] EXCEPT !.status = "expired"] ELSE runs[t]]
    /\ cmds' = [i \in DOMAIN cmds |->
                   LET c == cmds[i].card
                   IN  IF Lapsed(c)
                       THEN FinishLocked(cmds, c, cards[c].token, "failed", TRUE)[i]
                       ELSE cmds[i]]
    /\ UNCHANGED <<links, fresh, now, nextToken, nextCmd>>

-----------------------------------------------------------------------------
\* Mutant of Remove: the rows of the other tables stay.
RemoveCardsOnly(gone) ==
    /\ cards' = Restrict(cards, DOMAIN cards \ gone)
    /\ links' = {l \in links : l[1] \notin gone /\ l[2] \notin gone}
    /\ UNCHANGED <<runs, cmds, fresh, now, nextToken, nextCmd>>

\* DELETE FROM cards: the foreign keys cascade to every table.
Remove(gone) ==
    /\ cards' = Restrict(cards, DOMAIN cards \ gone)
    /\ runs' = Restrict(runs, {t \in DOMAIN runs : runs[t].card \notin gone})
    /\ cmds' = Restrict(cmds, {i \in DOMAIN cmds : cmds[i].card \notin gone})
    /\ links' = {l \in links : l[1] \notin gone /\ l[2] \notin gone}
    /\ UNCHANGED <<fresh, now, nextToken, nextCmd>>

DeleteCard(c) ==
    /\ Exists(c) /\ ~Claimed(c) /\ cards[c].status # "in_progress"
    /\ Remove({c})

DeleteByStatus(s) ==
    LET column == {c \in DOMAIN cards : cards[c].status = s}
    IN  /\ s # "in_progress" /\ column # {}
        /\ \A c \in column : ~Claimed(c)
        /\ Remove(column)

\* An older runtime that shares the file resets running cards at its start.
LegacyReset(c) ==
    /\ Exists(c) /\ cards[c].status = "in_progress"
    /\ TriggerInstalled => ~Claimed(c)
    /\ cards' = [cards EXCEPT ![c].status = "todo"]
    /\ UNCHANGED <<runs, links, cmds, fresh, now, nextToken, nextCmd>>

Tick ==
    /\ now' = now + 1
    /\ UNCHANGED <<cards, runs, links, cmds, fresh, nextToken, nextCmd>>

-----------------------------------------------------------------------------
StoreInit ==
    /\ cards = <<>> /\ runs = <<>> /\ cmds = <<>>
    /\ links = {} /\ fresh = Cards
    /\ now = 1 /\ nextToken = 1 /\ nextCmd = 1

\* Bounds: the cards users still edit, those an older runtime still meets,
\* and the times a card is scheduled for.
Edited == {c \in DOMAIN cards : cards[c].rev < MaxRev}
Shared == {c \in DOMAIN cards : cards[c].rev <= MaxRev}
Times  == {0} \cup (now + 1)..MaxTime

\* What users and other surfaces do to cards.
UserStep ==
    \/ \E c \in BgCards, s \in Times, m \in 1..AttemptsLimit : AddCard(c, s, m)
    \/ \E c \in VoiceCards, p \in Profiles, open \in BOOLEAN : AddVoiceCard(c, p, open)
    \/ \E c \in Edited, s \in Statuses : Move(c, s)
    \/ \E c \in Edited : Retry(c)
    \/ \E c \in Edited :
          \E s \in Times \cup {cards[c].sched}, m \in 1..AttemptsLimit : UpdateCard(c, s, m)
    \/ \E c \in Edited : Touch(c)
    \/ \E c \in Edited, p \in Profiles : AssignCard(c, p)
    \/ \E c \in Edited : UnassignCard(c)
    \/ \E p, c \in Cards : LinkCards(p, c)
    \/ \E c \in Cards : DeleteCard(c)
    \/ \E s \in Statuses : DeleteByStatus(s)

\* What workers do with the tokens they hold, current or stale.  A voice
\* worker reports the run of the instruction it is delivering.
WorkerStep ==
    \/ /\ nextToken <= MaxClaims
       /\ \E c \in Cards, w \in Profiles, ignore \in BOOLEAN : ClaimCard(c, w, ignore)
    \/ \E c \in Cards, t \in DOMAIN runs : HeartbeatClaim(c, t)
    \/ \E c \in Cards, t \in DOMAIN runs :
          \E i \in IF c \in BgCards THEN {t} ELSE InFlight(cmds, c, t) : SetWorkerRunId(c, t, i)
    \/ \E c \in Cards, t \in DOMAIN runs, o \in Outcomes, d \in RetryDelays, u \in BOOLEAN :
          /\ u => c \in VoiceCards /\ o \in {"failed", "cancelled"}
          /\ FinishClaim(c, t, o, d, u)

StoreNext ==
    \/ UserStep
    \/ WorkerStep
    \/ RecoverExpiredClaims
    \/ \E c \in Shared : LegacyReset(c)
    \/ now < MaxTime /\ Tick

StoreSpec == StoreInit /\ [][StoreNext]_storeVars

-----------------------------------------------------------------------------
(* Properties.                                                             *)

\* Every table holds rows of its schema, and every row of another table names
\* a card that exists: nothing a delete leaves behind.
TypeOK ==
    /\ fresh \subseteq Cards
    /\ cards \in [DOMAIN cards -> Card] /\ DOMAIN cards \subseteq Cards \ fresh
    /\ runs \in [DOMAIN runs -> Run] /\ DOMAIN runs \subseteq 1..(nextToken - 1)
    /\ cmds \in [DOMAIN cmds -> Cmd] /\ DOMAIN cmds \subseteq 1..(nextCmd - 1)
    /\ links \subseteq (DOMAIN cards) \X (DOMAIN cards)
    /\ now \in Nat \ {0} /\ nextToken \in Nat \ {0} /\ nextCmd \in Nat \ {0}
    /\ \A t \in DOMAIN runs : Exists(runs[t].card)
    /\ \A i \in DOMAIN cmds : Exists(cmds[i].card)

\* A card's claim and its audit log agree: a card is claimed exactly while one
\* run of it is open, the claim's own, which is its latest attempt.
ClaimMatchesRun ==
    /\ \A c \in DOMAIN cards :
          Claimed(c) => /\ cards[c].token \in DOMAIN runs
                        /\ runs[cards[c].token].card = c
                        /\ runs[cards[c].token].status = "running"
                        /\ runs[cards[c].token].attempt = cards[c].attempts
    /\ \A t \in DOMAIN runs :
          runs[t].status = "running" => cards[runs[t].card].token = t

\* The trigger keeps a claimed card in the running column, whatever an older
\* runtime tries, and a claim always has a lease that recovery can expire.
ClaimedIsRunning ==
    \A c \in DOMAIN cards :
        /\ cards[c].lease # 0 <=> Claimed(c)
        /\ TriggerInstalled /\ Claimed(c) => cards[c].status = "in_progress"

\* Attempts are numbered without a gap or a repeat: no run is lost from the
\* count that decides when retrying stops.
AttemptsNumberRuns ==
    \A c \in DOMAIN cards :
        /\ \A t \in DOMAIN runs :
              runs[t].card = c => runs[t].attempt \in 1..cards[c].attempts
        /\ \A n \in 1..cards[c].attempts :
              \E t \in DOMAIN runs : runs[t].card = c /\ runs[t].attempt = n
        /\ \A t, u \in DOMAIN runs :
              runs[t].card = c /\ runs[u].card = c /\ t < u
                 => runs[t].attempt < runs[u].attempt

\* Dependencies never form a cycle, so some card can always run first.
LinksAcyclic ==
    \A S \in (SUBSET Cards) \ {{}} : \E c \in S : \A p \in S : <<p, c>> \notin links

\* What an optimistic edit decides on.
Decided(r) == [r EXCEPT !.lease = 0]

RevisionsTell ==
    \A c \in DOMAIN cards \cap DOMAIN cards' :
        /\ cards'[c].rev >= cards[c].rev
        /\ cards'[c].rev = cards[c].rev =>
              \/ Decided(cards'[c]) = Decided(cards[c])
              \/ LegacyReset(c)

\* The revision tells a reader that a card changed: no step changes anything
\* but the lease of a card (or what the trigger does not stop an older
\* runtime from doing) and leaves its revision, and it never goes back.
RevisionMoves == [][RevisionsTell]_storeVars

SettledRunsKept ==
    \A t \in DOMAIN runs \cap DOMAIN runs' :
        runs[t].status # "running" => runs'[t] = runs[t]

\* A settled run keeps its verdict: a worker that comes back after its lease
\* was recovered, or after another claim, changes nothing.
RunsSettleOnce == [][SettledRunsKept]_storeVars

LiveLeasesHold ==
    \A c \in DOMAIN cards :
        Claimed(c) /\ cards[c].lease > now =>
           /\ c \in DOMAIN cards'
           /\ \/ cards'[c].token = cards[c].token
              \/ \E o \in Outcomes, d \in RetryDelays, u \in BOOLEAN :
                    FinishClaim(c, cards[c].token, o, d, u)

\* No step takes a claim away from a live lease except its own worker: what
\* recovery and users do leaves a card whose lease runs with its owner.
LiveLeaseKept == [][LiveLeasesHold]_storeVars
=============================================================================
