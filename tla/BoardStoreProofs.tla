-------------------------- MODULE BoardStoreProofs --------------------------
(***************************************************************************)
(* Proofs about BoardStore, for any number of cards and profiles and with  *)
(* every bound arbitrary: the tables keep their types, a card's claim and  *)
(* its run log agree, and a settled run is never settled again.            *)
(***************************************************************************)
EXTENDS BoardStore, TLAPS

-----------------------------------------------------------------------------
(* Tables of commands.                                                     *)

\* A worker that reports its start leaves a table of commands, same cards.
LEMMA AppliedLockedType ==
    ASSUME NEW q, q \in [DOMAIN q -> Cmd], NEW c, NEW t, NEW w \in Nat
    PROVE  /\ AppliedLocked(q, c, t, w) \in [DOMAIN q -> Cmd]
           /\ \A i \in DOMAIN q : AppliedLocked(q, c, t, w)[i].card = q[i].card
  BY DEF AppliedLocked, Cmd, CmdStatuses

\* So does the end of a claim.
LEMMA FinishLockedType ==
    ASSUME NEW q, q \in [DOMAIN q -> Cmd], NEW c, NEW t, NEW o \in Outcomes,
           NEW u \in BOOLEAN
    PROVE  /\ FinishLocked(q, c, t, o, u) \in [DOMAIN q -> Cmd]
           /\ \A i \in DOMAIN q : FinishLocked(q, c, t, o, u)[i].card = q[i].card
  <1> DEFINE ended == IF u THEN "status_unknown"
                      ELSE IF o = "done" THEN "completed" ELSE o
  <1> DEFINE settled == IF u /\ InFlight(q, c, t) = {}
                        THEN LastCompleted(q, c, t) ELSE InFlight(q, c, t)
  <1> DEFINE held == IF o # "done" \/ u THEN Queued(q, c) ELSE {}
  <1>1. FinishLocked(q, c, t, o, u) =
          [i \in DOMAIN q |-> IF i \in settled THEN [q[i] EXCEPT !.status = ended]
                              ELSE IF i \in held THEN [q[i] EXCEPT !.status = "held"]
                              ELSE q[i]]
    BY DEF FinishLocked
  <1>2. ended \in CmdStatuses
    BY DEF Outcomes, CmdStatuses
  <1> HIDE DEF ended, settled, held
  <1>3. "held" \in CmdStatuses
    BY DEF CmdStatuses
  <1>4. ASSUME NEW i \in DOMAIN q, NEW s \in CmdStatuses
        PROVE  /\ [q[i] EXCEPT !.status = s] \in Cmd
               /\ [q[i] EXCEPT !.status = s].card = q[i].card
    BY DEF Cmd
  <1> QED
    BY <1>1, <1>2, <1>3, <1>4

-----------------------------------------------------------------------------
(* Edits: operations that change one card and neither claim nor release it *)

\* Card c is edited in place: claim, attempts and lease stay, and so does the
\* status of a claimed card that the trigger protects.
Edit(c) ==
    /\ c \in DOMAIN cards
    /\ cards' \in [DOMAIN cards -> Card]
    /\ \A x \in DOMAIN cards : x # c => cards'[x] = cards[x]
    /\ cards'[c].token = cards[c].token
    /\ cards'[c].attempts = cards[c].attempts
    /\ cards'[c].lease # 0 <=> cards[c].lease # 0
    /\ TriggerInstalled /\ Claimed(c) /\ cards[c].status = "in_progress"
          => cards'[c].status = "in_progress"
    /\ UNCHANGED <<runs, links, cmds, fresh, now, nextToken, nextCmd>>

StoreInv == TypeOK /\ ClaimMatchesRun /\ ClaimedIsRunning

\* An edit keeps the invariant.
LEMMA EditKeepsInv ==
    ASSUME StoreInv, NEW c, Edit(c)
    PROVE  StoreInv'
  <1> DOMAIN cards' = DOMAIN cards
    BY DEF Edit
  <1>1. TypeOK'
    BY DEF StoreInv, TypeOK, Edit, Exists
  <1>2. ClaimMatchesRun'
    <2>1. \A x \in DOMAIN cards : /\ cards'[x].token = cards[x].token
                                  /\ cards'[x].attempts = cards[x].attempts
      BY DEF Edit
    <2>2. runs' = runs
      BY DEF Edit
    <2>3. \A t \in DOMAIN runs : runs[t].card \in DOMAIN cards
      BY DEF StoreInv, TypeOK, Exists
    <2> QED
      BY <2>1, <2>2, <2>3 DEF StoreInv, ClaimMatchesRun, Claimed
  <1>3. ClaimedIsRunning'
    BY DEF StoreInv, ClaimedIsRunning, Claimed, Edit
  <1> QED
    BY <1>1, <1>2, <1>3 DEF StoreInv

\* A card that is to run again gets a status of the schema.
LEMMA RequeuedStatus == ASSUME NEW c PROVE Requeued(c) \in Statuses
  BY DEF Requeued, Statuses

\* set_status is an edit: it refuses a claimed card.
LEMMA SetStatusEdits ==
    ASSUME StoreInv, NEW c, NEW s \in Statuses, NEW b \in BOOLEAN, SetStatus(c, s, b)
    PROVE  Edit(c)
  <1> DEFINE due == IF b \/ s \in Terminal THEN 0 ELSE cards[c].sched
  <1>1. c \in DOMAIN cards /\ cards[c].token = 0 /\ cards[c] \in Card
    BY DEF SetStatus, Editable, Exists, Claimed, StoreInv, TypeOK
  <1>2. due \in Nat
    BY <1>1 DEF Card
  <1>3. cards' = [cards EXCEPT ![c].status = s, ![c].rev = @ + 1, ![c].sched = due]
    BY <1>1 DEF SetStatus
  <1>4. UNCHANGED <<runs, links, cmds, fresh, now, nextToken, nextCmd>>
    BY DEF SetStatus
  <1> HIDE DEF due
  <1> QED
    BY <1>1, <1>2, <1>3, <1>4 DEF Edit, Claimed, StoreInv, TypeOK, Card

\* update_card is an edit.
LEMMA UpdateCardEdits ==
    ASSUME StoreInv, NEW c, NEW s \in Nat, NEW m \in 1..AttemptsLimit, UpdateCard(c, s, m)
    PROVE  Edit(c)
  BY DEF UpdateCard, Edit, Editable, Exists, Claimed, StoreInv, TypeOK, Card

\* add_note and set_run_id are edits: only the revision moves.
LEMMA TouchEdits == ASSUME StoreInv, NEW c, Touch(c) PROVE Edit(c)
  BY DEF Touch, Edit, Exists, Claimed, StoreInv, TypeOK, Card

\* assign_card is an edit.
LEMMA AssignCardEdits ==
    ASSUME StoreInv, NEW c, NEW p \in Profiles, AssignCard(c, p)
    PROVE  Edit(c)
  BY DEF AssignCard, Edit, Editable, Exists, Claimed, StoreInv, TypeOK, Card

\* unassign_card is an edit.
LEMMA UnassignCardEdits == ASSUME StoreInv, NEW c, UnassignCard(c) PROVE Edit(c)
  BY DEF UnassignCard, Edit, Editable, Exists, Claimed, StoreInv, TypeOK, Card, Statuses

\* What an older runtime gets past the trigger is an edit.
LEMMA LegacyResetEdits == ASSUME StoreInv, NEW c, LegacyReset(c) PROVE Edit(c)
  BY DEF LegacyReset, Edit, Exists, Claimed, StoreInv, TypeOK, Card, Statuses

\* A repaired card is a card in progress under the same claim.
LEMMA RepairedCard ==
    ASSUME NEW r \in Card
    PROVE  /\ Repaired(r) \in Card /\ Repaired(r).status = "in_progress"
           /\ Repaired(r).token = r.token /\ Repaired(r).attempts = r.attempts
           /\ Repaired(r).lease = r.lease
  <1> DEFINE v == IF r.status # "in_progress" THEN r.rev + 1 ELSE r.rev
  <1>1. v \in Nat
    BY DEF Card
  <1>2. Repaired(r) = [r EXCEPT !.status = "in_progress", !.rev = v]
    BY DEF Repaired
  <1>3. "in_progress" \in Statuses
    BY DEF Statuses
  <1> HIDE DEF v
  <1> QED
    BY <1>1, <1>2, <1>3 DEF Card

\* heartbeat_claim is an edit of the claim's own card.
LEMMA HeartbeatEdits ==
    ASSUME StoreInv, NEW c, NEW t, HeartbeatClaim(c, t)
    PROVE  Edit(c)
  <1>1. now + LeaseTicks \in Nat \ {0}
    BY BoundsAssumption DEF StoreInv, TypeOK
  <1>2. /\ c \in DOMAIN cards /\ cards[c].token # 0 /\ cards[c].lease # 0
        /\ cards[c] \in Card
    BY DEF HeartbeatClaim, Owns, Exists, Claimed, StoreInv, TypeOK, ClaimedIsRunning
  <1> DEFINE r == [Repaired(cards[c]) EXCEPT !.lease = now + LeaseTicks]
  <1>3. /\ cards' = [cards EXCEPT ![c] = r]
        /\ UNCHANGED <<runs, links, cmds, fresh, now, nextToken, nextCmd>>
    BY DEF HeartbeatClaim
  <1>4. /\ r \in Card /\ r.token = cards[c].token /\ r.attempts = cards[c].attempts
        /\ r.lease # 0 /\ r.status = "in_progress"
    BY <1>1, <1>2, RepairedCard DEF Card
  <1> HIDE DEF r
  <1> QED
    BY <1>2, <1>3, <1>4 DEF Edit, StoreInv, TypeOK
-----------------------------------------------------------------------------
(* New cards, links, deletion and the clock.                               *)

\* add_card inserts a card of the schema.
LEMMA NewCardType ==
    ASSUME NEW s \in Statuses, NEW p \in Profiles \cup {NoProfile}, NEW d \in Nat,
           NEW m \in 1..AttemptsLimit
    PROVE  /\ NewCard(s, p, d, m) \in Card
           /\ NewCard(s, p, d, m).token = 0 /\ NewCard(s, p, d, m).lease = 0
  BY DEF NewCard, Card

\* A new unclaimed card disturbs no claim.
LEMMA InsertCardKeepsInv ==
    ASSUME StoreInv, NEW c \in fresh, NEW r \in Card, r.token = 0, r.lease = 0,
           cards' = Insert(cards, c, r), fresh' = fresh \ {c},
           UNCHANGED <<runs, links, now, nextToken>>,
           DOMAIN cmds' \subseteq 1..(nextCmd' - 1), nextCmd' \in Nat \ {0},
           cmds' \in [DOMAIN cmds' -> Cmd],
           \A i \in DOMAIN cmds' : cmds'[i].card \in DOMAIN cards \cup {c}
    PROVE  StoreInv'
  <1>1. /\ DOMAIN cards' = DOMAIN cards \cup {c}
        /\ cards' \in [DOMAIN cards \cup {c} -> Card]
        /\ cards'[c] = r /\ \A x \in DOMAIN cards : x # c => cards'[x] = cards[x]
    <2> cards \in [DOMAIN cards -> Card]
      BY DEF StoreInv, TypeOK
    <2> QED
      BY DEF Insert
  <1>2. c \notin DOMAIN cards /\ c \in Cards
    BY DEF StoreInv, TypeOK
  <1>3. TypeOK'
    BY <1>1, <1>2 DEF StoreInv, TypeOK, Exists
  <1>4. ClaimMatchesRun'
    BY <1>1, <1>2 DEF StoreInv, TypeOK, Exists, ClaimMatchesRun, Claimed
  <1>5. ClaimedIsRunning'
    BY <1>1, <1>2 DEF StoreInv, ClaimedIsRunning, Claimed
  <1> QED
    BY <1>3, <1>4, <1>5 DEF StoreInv

\* add_card keeps the invariant.
LEMMA AddCardInv ==
    ASSUME StoreInv, NEW c, NEW s \in Nat, NEW m \in 1..AttemptsLimit, AddCard(c, s, m)
    PROVE  StoreInv'
  <1> DEFINE r == NewCard("todo", NoProfile, s, m)
  <1>1. r \in Card /\ r.token = 0 /\ r.lease = 0
    BY NewCardType DEF Statuses
  <1>2. /\ c \in fresh /\ cards' = Insert(cards, c, r) /\ fresh' = fresh \ {c}
        /\ UNCHANGED <<runs, links, cmds, now, nextToken, nextCmd>>
    BY DEF AddCard
  <1> HIDE DEF r
  <1> QED
    BY <1>1, <1>2, InsertCardKeepsInv DEF StoreInv, TypeOK, Exists

\* add_card of a voice task keeps it, first instruction included.
LEMMA AddVoiceCardInv ==
    ASSUME StoreInv, NEW c, NEW p \in Profiles, NEW b \in BOOLEAN, AddVoiceCard(c, p, b)
    PROVE  StoreInv'
  <1> DEFINE st == IF b THEN "todo" ELSE "ready"
             r  == NewCard(st, p, 0, 1)
             q  == NewCmd(c, "initial", "queued", 0, 0)
  <1>1. r \in Card /\ r.token = 0 /\ r.lease = 0
    <2>1. st \in Statuses /\ 1 \in 1..AttemptsLimit
      BY BoundsAssumption DEF Statuses
    <2> QED
      BY <2>1, NewCardType
  <1>2. /\ c \in fresh /\ c \in VoiceCards
        /\ cards' = Insert(cards, c, r) /\ fresh' = fresh \ {c}
        /\ UNCHANGED <<runs, links, now, nextToken>>
    BY DEF AddVoiceCard
  <1>3. q \in Cmd /\ q.card = c
    BY <1>2 DEF NewCmd, Cmd, CmdKinds, CmdStatuses, Cards
  <1>4. \/ cmds' = cmds /\ nextCmd' = nextCmd
        \/ cmds' = Insert(cmds, nextCmd, q) /\ nextCmd' = nextCmd + 1
    BY DEF AddVoiceCard
  <1>5. /\ cmds \in [DOMAIN cmds -> Cmd] /\ DOMAIN cmds \subseteq 1..(nextCmd - 1)
        /\ nextCmd \in Nat \ {0} /\ \A i \in DOMAIN cmds : cmds[i].card \in DOMAIN cards
    BY DEF StoreInv, TypeOK, Exists
  <1> HIDE DEF r, q, st
  <1>6. /\ DOMAIN cmds' \subseteq 1..(nextCmd' - 1) /\ nextCmd' \in Nat \ {0}
        /\ cmds' \in [DOMAIN cmds' -> Cmd]
        /\ \A i \in DOMAIN cmds' : cmds'[i].card \in DOMAIN cards \cup {c}
    <2>1. CASE cmds' = cmds /\ nextCmd' = nextCmd
      BY <2>1, <1>5
    <2>2. CASE cmds' = Insert(cmds, nextCmd, q) /\ nextCmd' = nextCmd + 1
      <3>1. /\ DOMAIN cmds' = DOMAIN cmds \cup {nextCmd}
            /\ cmds' \in [DOMAIN cmds \cup {nextCmd} -> Cmd]
            /\ cmds'[nextCmd] = q
            /\ \A i \in DOMAIN cmds : i # nextCmd => cmds'[i] = cmds[i]
        BY <2>2, <1>3, <1>5 DEF Insert
      <3> QED
        BY <3>1, <2>2, <1>3, <1>5
    <2> QED
      BY <2>1, <2>2, <1>4
  <1> QED
    BY <1>1, <1>2, <1>6, InsertCardKeepsInv

\* link_cards keeps the invariant.
LEMMA LinkCardsInv ==
    ASSUME StoreInv, NEW p, NEW c, LinkCards(p, c)
    PROVE  StoreInv'
  <1>1. TypeOK'
    BY DEF LinkCards, StoreInv, TypeOK, Exists
  <1>2. ClaimMatchesRun' /\ ClaimedIsRunning'
    BY DEF LinkCards, StoreInv, ClaimMatchesRun, ClaimedIsRunning, Claimed
  <1> QED
    BY <1>1, <1>2 DEF StoreInv

\* The passing of time keeps the invariant.
LEMMA TickInv == ASSUME StoreInv, Tick PROVE StoreInv'
  <1>1. TypeOK'
    BY DEF Tick, StoreInv, TypeOK, Exists
  <1>2. ClaimMatchesRun' /\ ClaimedIsRunning'
    BY DEF Tick, StoreInv, ClaimMatchesRun, ClaimedIsRunning, Claimed
  <1> QED
    BY <1>1, <1>2 DEF StoreInv

\* A delete takes a card's rows in every table with it, so what is left still
\* agrees.
LEMMA RemoveInv ==
    ASSUME StoreInv, NEW gone, Remove(gone)
    PROVE  StoreInv'
  <1> DEFINE C == DOMAIN cards \ gone
             R == {t \in DOMAIN runs : runs[t].card \notin gone}
             Q == {i \in DOMAIN cmds : cmds[i].card \notin gone}
  <1>1. DOMAIN cards' = C /\ cards' \in [C -> Card] /\ \A x \in C : cards'[x] = cards[x]
    BY DEF Restrict, Remove, StoreInv, TypeOK
  <1>2. DOMAIN runs' = R /\ runs' \in [R -> Run] /\ \A t \in R : runs'[t] = runs[t]
    BY DEF Restrict, Remove, StoreInv, TypeOK
  <1>3. DOMAIN cmds' = Q /\ cmds' \in [Q -> Cmd] /\ \A i \in Q : cmds'[i] = cmds[i]
    BY DEF Restrict, Remove, StoreInv, TypeOK
  <1>4. /\ links' = {l \in links : l[1] \notin gone /\ l[2] \notin gone}
        /\ UNCHANGED <<fresh, now, nextToken, nextCmd>>
    BY DEF Remove
  <1>5. TypeOK'
    BY <1>1, <1>2, <1>3, <1>4 DEF StoreInv, TypeOK, Exists
  <1>6. ClaimMatchesRun'
    BY <1>1, <1>2 DEF StoreInv, TypeOK, Exists, ClaimMatchesRun, Claimed
  <1>7. ClaimedIsRunning'
    BY <1>1 DEF StoreInv, ClaimedIsRunning, Claimed
  <1> QED
    BY <1>5, <1>6, <1>7 DEF StoreInv
-----------------------------------------------------------------------------
(* Claims.                                                                 *)

\* What claim_card makes of a card.
LEMMA TakenCard ==
    ASSUME NEW k \in Card, NEW t \in Nat, NEW l \in Nat
    PROVE  /\ Taken(k, t, l) \in Card /\ Taken(k, t, l).token = t
           /\ Taken(k, t, l).lease = l /\ Taken(k, t, l).status = "in_progress"
           /\ Taken(k, t, l).attempts = k.attempts + 1
  <1> DEFINE k1 == [k EXCEPT !.status = "in_progress", !.token = t]
             k2 == [k1 EXCEPT !.lease = l, !.attempts = k.attempts + 1]
             k3 == [k2 EXCEPT !.rev = k.rev + 1]
  <1>1. "in_progress" \in Statuses /\ k.rev + 1 \in Nat /\ k.attempts + 1 \in Nat
    BY DEF Statuses, Card
  <1>2. k1 \in Card /\ k1.token = t /\ k1.status = "in_progress"
    BY <1>1 DEF Card
  <1>3. Taken(k, t, l) = k3
    BY DEF Taken, Card
  <1> HIDE DEF k1
  <1>4. /\ k2 \in Card /\ k2.token = t /\ k2.status = "in_progress" /\ k2.lease = l
        /\ k2.attempts = k.attempts + 1
    BY <1>1, <1>2 DEF Card
  <1> HIDE DEF k2
  <1>5. /\ k3 \in Card /\ k3.token = t /\ k3.status = "in_progress" /\ k3.lease = l
        /\ k3.attempts = k.attempts + 1
    BY <1>1, <1>4 DEF Card
  <1> HIDE DEF k3
  <1> QED
    BY <1>3, <1>5

\* What finish_claim and recovery make of a card.
LEMMA ReleasedCard ==
    ASSUME NEW k \in Card, NEW s \in Statuses
    PROVE  /\ Released(k, s) \in Card /\ Released(k, s).token = 0
           /\ Released(k, s).lease = 0 /\ Released(k, s).attempts = k.attempts
           /\ Released(k, s).rev = k.rev + 1
  <1> DEFINE k1 == [k EXCEPT !.status = s, !.token = 0]
  <1>1. k.rev + 1 \in Nat
    BY DEF Card
  <1>2. k1 \in Card /\ k1.token = 0 /\ k1.attempts = k.attempts
    BY DEF Card
  <1>3. Released(k, s) = [k1 EXCEPT !.lease = 0, !.rev = k.rev + 1]
    BY DEF Released, Card
  <1> HIDE DEF k1
  <1> QED
    BY <1>1, <1>2, <1>3 DEF Card

\* claim_card keeps the invariant: its token is new, so its run is the only
\* open one of the card.
LEMMA ClaimCardInv ==
    ASSUME StoreInv, NEW c, NEW w \in Profiles, NEW b \in BOOLEAN, ClaimCard(c, w, b)
    PROVE  StoreInv'
  <1> DEFINE t == nextToken
             l == now + LeaseTicks
             r == Taken(cards[c], t, l)
             n == [card |-> c, attempt |-> cards[c].attempts + 1, profile |-> w,
                   worker |-> 0, status |-> "running"]
  <1>1. /\ c \in DOMAIN cards /\ c \in Cards /\ cards[c] \in Card /\ cards[c].token = 0
        /\ t \in Nat \ {0} /\ now + LeaseTicks \in Nat \ {0}
        /\ t \notin DOMAIN runs
    <2>1. /\ c \in DOMAIN cards /\ c \in Cards /\ cards[c] \in Card /\ cards[c].token = 0
      BY DEF ClaimCard, Claimable, Exists, Claimed, StoreInv, TypeOK
    <2>2. /\ t \in Nat \ {0} /\ now + LeaseTicks \in Nat \ {0}
          /\ t \notin DOMAIN runs
      BY BoundsAssumption DEF StoreInv, TypeOK
    <2> QED
      BY <2>1, <2>2
  <1>2. /\ r \in Card /\ r.token = t /\ r.lease # 0 /\ r.status = "in_progress"
        /\ r.attempts = cards[c].attempts + 1
    <2>1. t \in Nat /\ l \in Nat /\ l # 0
      BY <1>1
    <2>2. r.attempts = cards[c].attempts + 1
      BY <1>1 DEF Taken, Card
    <2> HIDE DEF t, l
    <2>3. cards[c] \in Card
      BY <1>1
    <2>4. r \in Card /\ r.token = t /\ r.lease = l /\ r.status = "in_progress"
      BY <2>1, <2>3, TakenCard
    <2> QED
      BY <2>1, <2>2, <2>4
  <1>3. n \in Run
    BY <1>1 DEF Run, Card
  <1>4. /\ cards' = [cards EXCEPT ![c] = r] /\ runs' = Insert(runs, t, n)
        /\ nextToken' = t + 1 /\ UNCHANGED <<links, fresh, now, nextCmd>>
    BY <1>1 DEF ClaimCard
  <1>5. /\ DOMAIN cmds' = DOMAIN cmds /\ cmds' \in [DOMAIN cmds -> Cmd]
        /\ \A i \in DOMAIN cmds : cmds'[i].card = cmds[i].card
    <2>1. cmds \in [DOMAIN cmds -> Cmd]
      BY DEF StoreInv, TypeOK
    <2>2. cmds' = [i \in DOMAIN cmds |->
                      IF c \in VoiceCards /\ i \in NextLocked(cmds, c)
                      THEN ClaimLocked(cmds, i, t)[i] ELSE cmds[i]]
      BY DEF ClaimCard
    <2>3. ASSUME NEW i \in DOMAIN cmds
          PROVE  /\ ClaimLocked(cmds, i, t)[i] \in Cmd
                 /\ ClaimLocked(cmds, i, t)[i].card = cmds[i].card
      BY <1>1, <2>1 DEF ClaimLocked, Cmd, CmdStatuses
    <2> QED
      BY <2>1, <2>2, <2>3
  <1> HIDE DEF r
  <1>6. /\ DOMAIN cards' = DOMAIN cards /\ cards' \in [DOMAIN cards -> Card]
        /\ cards'[c] = r /\ \A x \in DOMAIN cards : x # c => cards'[x] = cards[x]
    BY <1>1, <1>2, <1>4 DEF StoreInv, TypeOK
  <1>7. /\ n.card = c /\ n.status = "running" /\ n.attempt = cards[c].attempts + 1
    OBVIOUS
  <1> HIDE DEF n
  <1>8. /\ DOMAIN runs' = DOMAIN runs \cup {t} /\ runs' \in [DOMAIN runs \cup {t} -> Run]
        /\ runs'[t] = n /\ \A u \in DOMAIN runs : runs'[u] = runs[u]
    BY <1>1, <1>3, <1>4 DEF Insert, StoreInv, TypeOK
  <1>9. TypeOK'
    BY <1>1, <1>4, <1>5, <1>6, <1>7, <1>8 DEF StoreInv, TypeOK, Exists
  <1>10. ClaimMatchesRun'
    <2>1. ASSUME NEW x \in DOMAIN cards, cards'[x].token # 0
          PROVE  /\ cards'[x].token \in DOMAIN runs'
                 /\ runs'[cards'[x].token].card = x
                 /\ runs'[cards'[x].token].status = "running"
                 /\ runs'[cards'[x].token].attempt = cards'[x].attempts
      <3>1. CASE x = c
        BY <3>1, <1>2, <1>6, <1>7, <1>8
      <3>2. CASE x # c
        BY <3>2, <2>1, <1>6, <1>8 DEF StoreInv, ClaimMatchesRun, Claimed
      <3> QED
        BY <3>1, <3>2
    <2>2. ASSUME NEW u \in DOMAIN runs', runs'[u].status = "running"
          PROVE  cards'[runs'[u].card].token = u
      <3>1. CASE u = t
        BY <3>1, <1>2, <1>6, <1>7, <1>8
      <3>2. CASE u \in DOMAIN runs
        <4>1. runs[u].card \in DOMAIN cards /\ cards[runs[u].card].token = u /\ u # 0
          BY <3>2, <2>2, <1>8 DEF StoreInv, TypeOK, Exists, ClaimMatchesRun
        <4> QED
          BY <4>1, <3>2, <1>1, <1>6, <1>8
      <3> QED
        BY <3>1, <3>2, <1>8
    <2> QED
      BY <2>1, <2>2, <1>6 DEF ClaimMatchesRun, Claimed
  <1>11. ClaimedIsRunning'
    BY <1>1, <1>2, <1>6 DEF StoreInv, ClaimedIsRunning, Claimed
  <1> QED
    BY <1>9, <1>10, <1>11 DEF StoreInv

\* set_worker_run_id keeps the invariant.
LEMMA SetWorkerRunIdInv ==
    ASSUME StoreInv, NEW c, NEW t, NEW w \in Nat, SetWorkerRunId(c, t, w)
    PROVE  StoreInv'
  <1> DEFINE r == Repaired(cards[c])
  <1>1. /\ c \in DOMAIN cards /\ cards[c] \in Card /\ cards[c].token = t /\ t # 0
        /\ t \in DOMAIN runs
    BY DEF SetWorkerRunId, Owns, Exists, Claimed, StoreInv, TypeOK, ClaimMatchesRun
  <1>2. /\ r \in Card /\ r.token = cards[c].token /\ r.attempts = cards[c].attempts
        /\ r.lease = cards[c].lease /\ r.status = "in_progress"
    BY <1>1, RepairedCard
  <1>3. /\ cards' = [cards EXCEPT ![c] = r] /\ runs' = [runs EXCEPT ![t].worker = w]
        /\ UNCHANGED <<links, fresh, now, nextToken, nextCmd>>
    BY DEF SetWorkerRunId
  <1>4. /\ DOMAIN cmds' = DOMAIN cmds /\ cmds' \in [DOMAIN cmds -> Cmd]
        /\ \A i \in DOMAIN cmds : cmds'[i].card = cmds[i].card
    <2>1. cmds \in [DOMAIN cmds -> Cmd]
      BY DEF StoreInv, TypeOK
    <2>2. cmds' = cmds \/ cmds' = AppliedLocked(cmds, c, t, w)
      BY DEF SetWorkerRunId
    <2> QED
      BY <2>1, <2>2, AppliedLockedType
  <1> HIDE DEF r
  <1>5. /\ DOMAIN cards' = DOMAIN cards /\ cards' \in [DOMAIN cards -> Card]
        /\ cards'[c] = r /\ \A x \in DOMAIN cards : x # c => cards'[x] = cards[x]
    BY <1>1, <1>2, <1>3 DEF StoreInv, TypeOK
  <1>6. /\ DOMAIN runs' = DOMAIN runs /\ runs' \in [DOMAIN runs -> Run]
        /\ \A u \in DOMAIN runs : /\ runs'[u].card = runs[u].card
                                  /\ runs'[u].status = runs[u].status
                                  /\ runs'[u].attempt = runs[u].attempt
    BY <1>1, <1>3 DEF StoreInv, TypeOK, Run
  <1>7. TypeOK'
    BY <1>3, <1>4, <1>5, <1>6 DEF StoreInv, TypeOK, Exists
  <1>8. ClaimMatchesRun'
    <2>1. \A x \in DOMAIN cards : /\ cards'[x].token = cards[x].token
                                  /\ cards'[x].attempts = cards[x].attempts
      BY <1>2, <1>5
    <2> QED
      BY <2>1, <1>5, <1>6 DEF StoreInv, TypeOK, Exists, ClaimMatchesRun, Claimed
  <1>9. ClaimedIsRunning'
    BY <1>2, <1>5 DEF StoreInv, ClaimedIsRunning, Claimed
  <1> QED
    BY <1>7, <1>8, <1>9 DEF StoreInv

\* Where a card goes after its claim is a status of the schema.
LEMMA AfterClaimStatus ==
    ASSUME NEW c, NEW o \in Outcomes, NEW u \in BOOLEAN
    PROVE  AfterClaim(c, o, u) \in Statuses
  <1>1. Settled(c, o) \in Statuses
    <2>1. o # "failed" => o \in Statuses
      BY DEF Outcomes, Statuses
    <2>2. "blocked" \in Statuses
      BY DEF Statuses
    <2> QED
      BY <2>1, <2>2, RequeuedStatus DEF Settled
  <1>2. "blocked" \in Statuses /\ "ready" \in Statuses
    BY DEF Statuses
  <1> QED
    BY <1>1, <1>2 DEF AfterClaim

\* A claim that ends, settled or expired, closes its own run and no other.
LEMMA ReleaseInv ==
    ASSUME StoreInv, NEW L, L \subseteq DOMAIN cards,
           \A x \in L : cards[x].token # 0,
           cards' \in [DOMAIN cards -> Card],
           \A x \in L : cards'[x].token = 0 /\ cards'[x].lease = 0,
           \A x \in DOMAIN cards \ L :
              /\ cards'[x].token = cards[x].token /\ cards'[x].attempts = cards[x].attempts
              /\ cards'[x].lease = cards[x].lease
              /\ cards[x].token # 0 /\ cards[x].status = "in_progress"
                    => cards'[x].status = "in_progress",
           runs' \in [DOMAIN runs -> Run],
           \A t \in DOMAIN runs : runs'[t].card = runs[t].card,
           \A t \in DOMAIN runs :
              IF runs[t].card \in L /\ cards[runs[t].card].token = t
              THEN runs'[t].status # "running" ELSE runs'[t] = runs[t],
           cmds' \in [DOMAIN cmds -> Cmd],
           \A i \in DOMAIN cmds : cmds'[i].card = cmds[i].card,
           UNCHANGED <<links, fresh, now, nextToken, nextCmd>>
    PROVE  StoreInv'
  <1>1. /\ DOMAIN cards' = DOMAIN cards /\ DOMAIN runs' = DOMAIN runs
        /\ DOMAIN cmds' = DOMAIN cmds
    OBVIOUS
  <1>2. TypeOK'
    BY <1>1 DEF StoreInv, TypeOK, Exists
  <1>3. ClaimMatchesRun'
    <2>1. ASSUME NEW x \in DOMAIN cards, cards'[x].token # 0
          PROVE  /\ cards'[x].token \in DOMAIN runs'
                 /\ runs'[cards'[x].token].card = x
                 /\ runs'[cards'[x].token].status = "running"
                 /\ runs'[cards'[x].token].attempt = cards'[x].attempts
      <3>1. x \notin L
        BY <2>1
      <3>2. /\ cards'[x].token = cards[x].token /\ cards'[x].attempts = cards[x].attempts
        BY <3>1
      <3>3. /\ cards[x].token \in DOMAIN runs
            /\ runs[cards[x].token].card = x
            /\ runs[cards[x].token].status = "running"
            /\ runs[cards[x].token].attempt = cards[x].attempts
        BY <2>1, <3>2 DEF StoreInv, ClaimMatchesRun, Claimed
      <3>4. runs'[cards[x].token] = runs[cards[x].token]
        BY <3>1, <3>3
      <3> QED
        BY <1>1, <3>2, <3>3, <3>4
    <2>2. ASSUME NEW u \in DOMAIN runs, runs'[u].status = "running"
          PROVE  cards'[runs'[u].card].token = u
      <3>1. runs'[u] = runs[u] /\ ~(runs[u].card \in L /\ cards[runs[u].card].token = u)
        BY <2>2
      <3>2. runs[u].card \in DOMAIN cards /\ cards[runs[u].card].token = u
        BY <2>2, <3>1 DEF StoreInv, TypeOK, Exists, ClaimMatchesRun
      <3> QED
        BY <3>1, <3>2
    <2> QED
      BY <1>1, <2>1, <2>2 DEF ClaimMatchesRun, Claimed
  <1>4. ClaimedIsRunning'
    BY <1>1 DEF StoreInv, ClaimedIsRunning, Claimed
  <1> QED
    BY <1>2, <1>3, <1>4 DEF StoreInv

\* finish_claim keeps the invariant.
LEMMA FinishClaimInv ==
    ASSUME StoreInv, NEW c, NEW t, NEW o \in Outcomes, NEW d \in Nat, NEW u \in BOOLEAN,
           FinishClaim(c, t, o, d, u)
    PROVE  StoreInv'
  <1> DEFINE next == AfterClaim(c, o, u)
             due  == IF o = "failed" /\ next \in {"ready", "todo"} THEN now + d ELSE 0
             r    == [Released(cards[c], next) EXCEPT !.sched = due]
  <1>1. /\ c \in DOMAIN cards /\ cards[c] \in Card /\ cards[c].token = t /\ t # 0
        /\ t \in DOMAIN runs /\ runs[t].card = c
    BY DEF FinishClaim, Owns, Exists, Claimed, StoreInv, TypeOK, ClaimMatchesRun
  <1>2. /\ cards' = [cards EXCEPT ![c] = r] /\ runs' = [runs EXCEPT ![t].status = o]
        /\ UNCHANGED <<links, fresh, now, nextToken, nextCmd>>
    BY DEF FinishClaim
  <1>3. r \in Card /\ r.token = 0 /\ r.lease = 0
    <2>1. due \in Nat
      BY DEF StoreInv, TypeOK
    <2>2. next \in Statuses
      BY AfterClaimStatus
    <2> HIDE DEF due, next
    <2>3. /\ Released(cards[c], next) \in Card /\ Released(cards[c], next).token = 0
          /\ Released(cards[c], next).lease = 0
      BY <1>1, <2>2, ReleasedCard
    <2> QED
      BY <2>1, <2>3 DEF Card
  <1>4. /\ cmds' \in [DOMAIN cmds -> Cmd]
        /\ \A i \in DOMAIN cmds : cmds'[i].card = cmds[i].card
    <2>1. cmds \in [DOMAIN cmds -> Cmd]
      BY DEF StoreInv, TypeOK
    <2>2. cmds' = cmds \/ cmds' = FinishLocked(cmds, c, t, o, u)
      BY DEF FinishClaim
    <2> QED
      BY <2>1, <2>2, FinishLockedType
  <1> HIDE DEF r
  <1>5. /\ cards' \in [DOMAIN cards -> Card]
        /\ cards'[c] = r /\ \A x \in DOMAIN cards : x # c => cards'[x] = cards[x]
    BY <1>1, <1>2, <1>3 DEF StoreInv, TypeOK
  <1>6. o \in Outcomes \cup {"running", "expired"} /\ o # "running"
    BY DEF Outcomes
  <1>7. /\ runs' \in [DOMAIN runs -> Run] /\ runs'[t].card = runs[t].card
        /\ runs'[t].status = o /\ \A v \in DOMAIN runs : v # t => runs'[v] = runs[v]
    BY <1>1, <1>2, <1>6 DEF StoreInv, TypeOK, Run
  <1>8. \A v \in DOMAIN runs :
           IF runs[v].card \in {c} /\ cards[runs[v].card].token = v
           THEN runs'[v].status # "running" ELSE runs'[v] = runs[v]
    BY <1>1, <1>6, <1>7
  <1> DEFINE L == {c}
  <1> QED
    <2>1. L \subseteq DOMAIN cards /\ \A x \in L : cards[x].token # 0
      BY <1>1
    <2>2. \A x \in L : cards'[x].token = 0 /\ cards'[x].lease = 0
      BY <1>3, <1>5
    <2>3. \A x \in DOMAIN cards \ L :
             /\ cards'[x].token = cards[x].token /\ cards'[x].attempts = cards[x].attempts
             /\ cards'[x].lease = cards[x].lease
             /\ cards[x].token # 0 /\ cards[x].status = "in_progress"
                   => cards'[x].status = "in_progress"
      BY <1>5
    <2>4. \A v \in DOMAIN runs : runs'[v].card = runs[v].card
      BY <1>7
    <2>5. \A v \in DOMAIN runs :
             IF runs[v].card \in L /\ cards[runs[v].card].token = v
             THEN runs'[v].status # "running" ELSE runs'[v] = runs[v]
      BY <1>8
    <2> HIDE DEF L
    <2> QED
      BY <1>2, <1>4, <1>5, <1>7, <2>1, <2>2, <2>3, <2>4, <2>5, ReleaseInv

\* recover_expired_claims keeps the invariant, whichever cards it releases
\* and whichever it repairs in the same transaction.
LEMMA RecoverInv == ASSUME StoreInv, RecoverExpiredClaims PROVE StoreInv'
  <1> DEFINE L == {c \in DOMAIN cards : Lapsed(c)}
  <1>1. L \subseteq DOMAIN cards /\ \A x \in L : cards[x].token # 0
    BY DEF Lapsed, Claimed
  <1>2. cards \in [DOMAIN cards -> Card]
    BY DEF StoreInv, TypeOK
  <1>3. cards' = [c \in DOMAIN cards |->
                     IF Lapsed(c) THEN Released(cards[c], Expired(c))
                     ELSE IF Damaged(c) THEN Repaired(cards[c]) ELSE cards[c]]
    BY DEF RecoverExpiredClaims
  <1>4. ASSUME NEW x \in DOMAIN cards
        PROVE  /\ cards[x] \in Card
               /\ Released(cards[x], Expired(x)) \in Card
               /\ Released(cards[x], Expired(x)).token = 0
               /\ Released(cards[x], Expired(x)).lease = 0
               /\ Repaired(cards[x]) \in Card
               /\ Repaired(cards[x]).status = "in_progress"
               /\ Repaired(cards[x]).token = cards[x].token
               /\ Repaired(cards[x]).attempts = cards[x].attempts
               /\ Repaired(cards[x]).lease = cards[x].lease
    <2>1. cards[x] \in Card
      BY <1>2
    <2>2. Expired(x) \in Statuses
      <3>1. "blocked" \in Statuses
        BY DEF Statuses
      <3> QED
        BY <3>1, RequeuedStatus DEF Expired
    <2> QED
      BY <2>1, <2>2, ReleasedCard, RepairedCard
  <1>5. cards' \in [DOMAIN cards -> Card]
    BY <1>3, <1>4
  <1>6. \A x \in L : cards'[x].token = 0 /\ cards'[x].lease = 0
    BY <1>3, <1>4
  <1>7. \A x \in DOMAIN cards \ L :
           /\ cards'[x].token = cards[x].token /\ cards'[x].attempts = cards[x].attempts
           /\ cards'[x].lease = cards[x].lease
           /\ cards[x].token # 0 /\ cards[x].status = "in_progress"
                 => cards'[x].status = "in_progress"
    BY <1>3, <1>4
  <1>8. /\ runs' \in [DOMAIN runs -> Run]
        /\ \A t \in DOMAIN runs : runs'[t].card = runs[t].card
        /\ \A t \in DOMAIN runs :
              IF runs[t].card \in L /\ cards[runs[t].card].token = t
              THEN runs'[t].status # "running" ELSE runs'[t] = runs[t]
    <2>1. /\ runs \in [DOMAIN runs -> Run]
          /\ \A t \in DOMAIN runs : runs[t].card \in DOMAIN cards
      BY DEF StoreInv, TypeOK, Exists
    <2>2. runs' = [t \in DOMAIN runs |->
                      IF Lapsed(runs[t].card) /\ cards[runs[t].card].token = t
                      THEN [runs[t] EXCEPT !.status = "expired"] ELSE runs[t]]
      BY DEF RecoverExpiredClaims
    <2>3. ASSUME NEW t \in DOMAIN runs
          PROVE  /\ runs[t] \in Run
                 /\ [runs[t] EXCEPT !.status = "expired"] \in Run
                 /\ [runs[t] EXCEPT !.status = "expired"].card = runs[t].card
                 /\ [runs[t] EXCEPT !.status = "expired"].status = "expired"
      BY <2>1 DEF Run
    <2> QED
      BY <2>1, <2>2, <2>3
  <1>9. /\ cmds' \in [DOMAIN cmds -> Cmd]
        /\ \A i \in DOMAIN cmds : cmds'[i].card = cmds[i].card
    <2>1. cmds \in [DOMAIN cmds -> Cmd]
      BY DEF StoreInv, TypeOK
    <2>2. cmds' = [i \in DOMAIN cmds |->
                     IF Lapsed(cmds[i].card)
                     THEN FinishLocked(cmds, cmds[i].card, cards[cmds[i].card].token,
                                       "failed", TRUE)[i]
                     ELSE cmds[i]]
      BY DEF RecoverExpiredClaims
    <2>3. ASSUME NEW i \in DOMAIN cmds, NEW c, NEW t
          PROVE  /\ FinishLocked(cmds, c, t, "failed", TRUE)[i] \in Cmd
                 /\ FinishLocked(cmds, c, t, "failed", TRUE)[i].card = cmds[i].card
      <3>1. "failed" \in Outcomes
        BY DEF Outcomes
      <3>2. ASSUME NEW o \in Outcomes, NEW u \in BOOLEAN
            PROVE  /\ FinishLocked(cmds, c, t, o, u)[i] \in Cmd
                   /\ FinishLocked(cmds, c, t, o, u)[i].card = cmds[i].card
        BY <2>1, FinishLockedType
      <3> QED
        BY <3>1, <3>2
    <2> QED
      BY <2>1, <2>2, <2>3
  <1>10. UNCHANGED <<links, fresh, now, nextToken, nextCmd>>
    BY DEF RecoverExpiredClaims
  <1> HIDE DEF L
  <1> QED
    BY <1>1, <1>5, <1>6, <1>7, <1>8, <1>9, <1>10, ReleaseInv

-----------------------------------------------------------------------------
(* The invariant holds.                                                    *)

\* An empty file satisfies the invariant.
LEMMA InitInv == StoreInit => StoreInv
  <1> SUFFICES ASSUME StoreInit PROVE StoreInv
    OBVIOUS
  <1>1. DOMAIN cards = {} /\ DOMAIN runs = {} /\ DOMAIN cmds = {}
    BY DEF StoreInit
  <1>2. cards \in [DOMAIN cards -> Card] /\ runs \in [DOMAIN runs -> Run]
        /\ cmds \in [DOMAIN cmds -> Cmd]
    BY <1>1 DEF StoreInit
  <1> QED
    BY <1>1, <1>2 DEF StoreInit, StoreInv, TypeOK, ClaimMatchesRun, ClaimedIsRunning

\* No edit of a user breaks the invariant.
LEMMA UserStepInv == ASSUME StoreInv, UserStep PROVE StoreInv'
  <1>0. Times \subseteq Nat
    BY DEF Times, StoreInv, TypeOK
  <1>1. ASSUME NEW c \in BgCards, NEW s \in Times, NEW m \in 1..AttemptsLimit, AddCard(c, s, m)
        PROVE  StoreInv'
    BY <1>0, <1>1, AddCardInv
  <1>2. ASSUME NEW c \in VoiceCards, NEW p \in Profiles, NEW b \in BOOLEAN,
               AddVoiceCard(c, p, b)
        PROVE  StoreInv'
    BY <1>2, AddVoiceCardInv
  <1>3. ASSUME NEW c \in Edited, NEW s \in Statuses, Move(c, s)
        PROVE  StoreInv'
    BY <1>3, SetStatusEdits, EditKeepsInv DEF Move
  <1>4. ASSUME NEW c \in Edited, Retry(c)
        PROVE  StoreInv'
    BY <1>4, RequeuedStatus, SetStatusEdits, EditKeepsInv DEF Retry
  <1>5. ASSUME NEW c \in Edited, NEW s \in Times \cup {cards[c].sched},
               NEW m \in 1..AttemptsLimit, UpdateCard(c, s, m)
        PROVE  StoreInv'
    <2>1. cards[c].sched \in Nat
      BY DEF Edited, StoreInv, TypeOK, Card
    <2> QED
      BY <1>0, <1>5, <2>1, UpdateCardEdits, EditKeepsInv
  <1>6. ASSUME NEW c \in Edited, Touch(c)
        PROVE  StoreInv'
    BY <1>6, TouchEdits, EditKeepsInv
  <1>7. ASSUME NEW c \in Edited, NEW p \in Profiles, AssignCard(c, p)
        PROVE  StoreInv'
    BY <1>7, AssignCardEdits, EditKeepsInv
  <1>8. ASSUME NEW c \in Edited, UnassignCard(c)
        PROVE  StoreInv'
    BY <1>8, UnassignCardEdits, EditKeepsInv
  <1>9. ASSUME NEW p \in Cards, NEW c \in Cards, LinkCards(p, c)
        PROVE  StoreInv'
    BY <1>9, LinkCardsInv
  <1>10. ASSUME NEW c \in Cards, DeleteCard(c)
         PROVE  StoreInv'
    BY <1>10, RemoveInv DEF DeleteCard
  <1>11. ASSUME NEW s \in Statuses, DeleteByStatus(s)
         PROVE  StoreInv'
    <2>1. Remove({c \in DOMAIN cards : cards[c].status = s})
      BY <1>11 DEF DeleteByStatus
    <2> QED
      BY <2>1, RemoveInv
  <1> QED
    BY <1>1, <1>2, <1>3, <1>4, <1>5, <1>6, <1>7, <1>8, <1>9, <1>10, <1>11 DEF UserStep

\* No worker breaks it, with a current token or a stale one.
LEMMA WorkerStepInv == ASSUME StoreInv, WorkerStep PROVE StoreInv'
  <1>0. /\ DOMAIN runs \subseteq Nat /\ DOMAIN cmds \subseteq Nat
        /\ RetryDelays \subseteq Nat
    BY BoundsAssumption DEF StoreInv, TypeOK
  <1>1. ASSUME NEW c \in Cards, NEW w \in Profiles, NEW b \in BOOLEAN, ClaimCard(c, w, b)
        PROVE  StoreInv'
    BY <1>1, ClaimCardInv
  <1>2. ASSUME NEW c \in Cards, NEW t \in DOMAIN runs, HeartbeatClaim(c, t)
        PROVE  StoreInv'
    BY <1>2, HeartbeatEdits, EditKeepsInv
  <1>3. ASSUME NEW c, NEW t \in DOMAIN runs, NEW w \in Nat, SetWorkerRunId(c, t, w)
        PROVE  StoreInv'
    BY <1>3, SetWorkerRunIdInv
  <1>4. ASSUME NEW c, NEW t \in DOMAIN runs, NEW o \in Outcomes, NEW d \in RetryDelays,
               NEW u \in BOOLEAN, FinishClaim(c, t, o, d, u)
        PROVE  StoreInv'
    BY <1>0, <1>4, FinishClaimInv
  <1>5. \A c, t : InFlight(cmds, c, t) \subseteq Nat
    BY <1>0 DEF InFlight, CommandsOf
  <1> QED
    BY <1>0, <1>1, <1>2, <1>3, <1>4, <1>5 DEF WorkerStep

\* The invariant is inductive.
LEMMA NextInv == ASSUME StoreInv, [StoreNext]_storeVars PROVE StoreInv'
  <1>1. CASE UserStep
    BY <1>1, UserStepInv
  <1>2. CASE WorkerStep
    BY <1>2, WorkerStepInv
  <1>3. CASE RecoverExpiredClaims
    BY <1>3, RecoverInv
  <1>4. CASE \E c \in Shared : LegacyReset(c)
    BY <1>4, LegacyResetEdits, EditKeepsInv
  <1>5. CASE Tick
    BY <1>5, TickInv
  <1>6. CASE UNCHANGED storeVars
    BY <1>6 DEF storeVars, StoreInv, TypeOK, ClaimMatchesRun, ClaimedIsRunning, Claimed, Exists
  <1> QED
    BY <1>1, <1>2, <1>3, <1>4, <1>5, <1>6 DEF StoreNext

\* The invariant that carries the proofs: types, claims and leases together.
THEOREM StoreInvariant == StoreSpec => []StoreInv
  BY InitInv, NextInv, PTL DEF StoreSpec

\* No operation of the store leaves a row that is not of its table's type, or
\* that names a card which does not exist.
THEOREM StoreTypes == StoreSpec => []TypeOK
  <1>1. StoreInv => TypeOK
    BY DEF StoreInv
  <1> QED
    BY <1>1, StoreInvariant, PTL

\* claim_card, finish_claim, recover_expired_claims and delete_card keep a
\* card's claim and its open run in step: one open run exactly when claimed.
THEOREM ClaimAndRunAgree == StoreSpec => []ClaimMatchesRun
  <1>1. StoreInv => ClaimMatchesRun
    BY DEF StoreInv
  <1> QED
    BY <1>1, StoreInvariant, PTL

\* With the trigger in the file no operation, and no older runtime, moves a
\* claimed card out of the running column; every claim has a lease.
THEOREM ClaimIsRunning == StoreSpec => []ClaimedIsRunning
  <1>1. StoreInv => ClaimedIsRunning
    BY DEF StoreInv
  <1> QED
    BY <1>1, StoreInvariant, PTL

-----------------------------------------------------------------------------
(* A settled run is never settled again.                                   *)

\* A new claim opens a run under a new token and touches no other.
LEMMA ClaimKeepsRuns ==
    ASSUME StoreInv, NEW c, NEW w, NEW b, ClaimCard(c, w, b)
    PROVE  SettledRunsKept
  <1>1. nextToken \notin DOMAIN runs
    BY DEF StoreInv, TypeOK
  <1> QED
    BY <1>1 DEF ClaimCard, Insert, SettledRunsKept

\* Only the run of the current claim can change, and that one is open.
LEMMA OwnRunOpen ==
    ASSUME StoreInv, NEW c, NEW t, Owns(c, t)
    PROVE  t \in DOMAIN runs /\ runs[t].status = "running"
  BY DEF Owns, Exists, Claimed, StoreInv, ClaimMatchesRun

\* A worker's report goes to the run of the current claim.
LEMMA WorkerReportKeepsRuns ==
    ASSUME StoreInv, NEW c, NEW t, NEW w, SetWorkerRunId(c, t, w)
    PROVE  SettledRunsKept
  <1>1. t \in DOMAIN runs /\ runs[t].status = "running"
    BY OwnRunOpen DEF SetWorkerRunId
  <1> QED
    BY <1>1 DEF SetWorkerRunId, SettledRunsKept, StoreInv, TypeOK

\* A claim's end closes its own run, which was open.
LEMMA FinishKeepsRuns ==
    ASSUME StoreInv, NEW c, NEW t, NEW o, NEW d, NEW u, FinishClaim(c, t, o, d, u)
    PROVE  SettledRunsKept
  <1>1. t \in DOMAIN runs /\ runs[t].status = "running"
    BY OwnRunOpen DEF FinishClaim
  <1>2. runs' = [runs EXCEPT ![t].status = o]
    BY DEF FinishClaim
  <1> QED
    BY <1>1, <1>2 DEF SettledRunsKept, StoreInv, TypeOK

\* Recovery closes the runs of the claims it releases, which were open.
LEMMA RecoverKeepsRuns ==
    ASSUME StoreInv, RecoverExpiredClaims
    PROVE  SettledRunsKept
  <1> SUFFICES ASSUME NEW t \in DOMAIN runs, runs[t].status # "running"
               PROVE  runs'[t] = runs[t]
    BY DEF SettledRunsKept
  <1>1. runs[t].card \in DOMAIN cards
    BY DEF StoreInv, TypeOK, Exists
  <1>2. ~(Lapsed(runs[t].card) /\ cards[runs[t].card].token = t)
    BY <1>1 DEF Lapsed, Claimed, StoreInv, ClaimMatchesRun
  <1> QED
    BY <1>2 DEF RecoverExpiredClaims

\* A delete removes runs and rewrites none.
LEMMA RemoveKeepsRuns == ASSUME NEW gone, Remove(gone) PROVE SettledRunsKept
  BY DEF Remove, Restrict, SettledRunsKept

\* No step of the store rewrites a settled run.
LEMMA NextKeepsRuns == ASSUME StoreInv, StoreNext PROVE SettledRunsKept
  <1>1. CASE UserStep
    <2>1. runs' = runs \/ \E gone : Remove(gone)
      BY <1>1 DEF UserStep, AddCard, AddVoiceCard, Move, Retry, SetStatus, UpdateCard, Touch,
                  AssignCard, UnassignCard, LinkCards, DeleteCard, DeleteByStatus
    <2> QED
      BY <2>1, RemoveKeepsRuns DEF SettledRunsKept
  <1>2. CASE WorkerStep
    <2>1. ASSUME NEW c, NEW t, HeartbeatClaim(c, t) PROVE SettledRunsKept
      BY <2>1 DEF HeartbeatClaim, SettledRunsKept
    <2> QED
      BY <1>2, <2>1, ClaimKeepsRuns, WorkerReportKeepsRuns, FinishKeepsRuns DEF WorkerStep
  <1>3. CASE RecoverExpiredClaims
    BY <1>3, RecoverKeepsRuns
  <1>4. CASE (\E c \in Shared : LegacyReset(c)) \/ Tick
    BY <1>4 DEF LegacyReset, Tick, SettledRunsKept
  <1> QED
    BY <1>1, <1>2, <1>3, <1>4 DEF StoreNext

\* Whatever stale token a worker comes back with, and whenever recovery runs,
\* the verdict of a run that has one is never written again.
THEOREM SettledForGood == StoreSpec => RunsSettleOnce
  <1>1. StoreInv /\ [StoreNext]_storeVars => [SettledRunsKept]_storeVars
    BY NextKeepsRuns
  <1> QED
    BY <1>1, StoreInvariant, PTL DEF StoreSpec, RunsSettleOnce
-----------------------------------------------------------------------------
(* Attempts number a card's runs.                                          *)

\* A step that neither claims nor deletes leaves attempts and runs' numbers.
LEMMA SameAttempts ==
    ASSUME AttemptsNumberRuns,
           DOMAIN cards' = DOMAIN cards,
           \A x \in DOMAIN cards : cards'[x].attempts = cards[x].attempts,
           DOMAIN runs' = DOMAIN runs,
           \A t \in DOMAIN runs : /\ runs'[t].card = runs[t].card
                                  /\ runs'[t].attempt = runs[t].attempt
    PROVE  AttemptsNumberRuns'
  BY DEF AttemptsNumberRuns

\* An edit touches no attempt.
LEMMA EditKeepsAttempts ==
    ASSUME AttemptsNumberRuns, NEW c, Edit(c)
    PROVE  AttemptsNumberRuns'
  <1>1. /\ DOMAIN cards' = DOMAIN cards /\ runs' = runs
        /\ \A x \in DOMAIN cards : cards'[x].attempts = cards[x].attempts
    BY DEF Edit
  <1> QED
    BY <1>1, SameAttempts

\* A new card has made no attempt and has no run.
LEMMA InsertKeepsAttempts ==
    ASSUME StoreInv, AttemptsNumberRuns, NEW c \in fresh, NEW r, r.attempts = 0,
           cards' = Insert(cards, c, r), runs' = runs
    PROVE  AttemptsNumberRuns'
  <1>1. /\ c \notin DOMAIN cards /\ DOMAIN cards' = DOMAIN cards \cup {c}
        /\ cards'[c] = r /\ \A x \in DOMAIN cards : cards'[x] = cards[x]
    BY DEF Insert, StoreInv, TypeOK
  <1>2. \A t \in DOMAIN runs : runs[t].card # c
    BY <1>1 DEF StoreInv, TypeOK, Exists
  <1>3. 1..0 = {}
    OBVIOUS
  <1> QED
    BY <1>1, <1>2, <1>3 DEF AttemptsNumberRuns

\* A delete takes all runs of a card with it and no run of another.
LEMMA RemoveKeepsAttempts ==
    ASSUME AttemptsNumberRuns, NEW gone, Remove(gone)
    PROVE  AttemptsNumberRuns'
  <1> DEFINE R == {t \in DOMAIN runs : runs[t].card \notin gone}
  <1>1. /\ DOMAIN cards' = DOMAIN cards \ gone
        /\ \A x \in DOMAIN cards' : cards'[x] = cards[x]
    BY DEF Restrict, Remove
  <1>2. DOMAIN runs' = R /\ \A t \in R : runs'[t] = runs[t]
    BY DEF Restrict, Remove
  <1> QED
    BY <1>1, <1>2 DEF AttemptsNumberRuns

\* A claim opens the run of the next attempt, under the largest token yet.
LEMMA ClaimKeepsAttempts ==
    ASSUME StoreInv, AttemptsNumberRuns, NEW c, NEW w \in Profiles, NEW b, ClaimCard(c, w, b)
    PROVE  AttemptsNumberRuns'
  <1> DEFINE t == nextToken
             k == cards[c].attempts + 1
             n == [card |-> c, attempt |-> k, profile |-> w, worker |-> 0,
                   status |-> "running"]
  <1>1. /\ c \in DOMAIN cards /\ cards[c] \in Card /\ cards[c].attempts \in Nat
        /\ cards \in [DOMAIN cards -> Card] /\ now + LeaseTicks \in Nat /\ t \in Nat
        /\ \A u \in DOMAIN runs : u \in Nat /\ u < t
    BY BoundsAssumption DEF ClaimCard, Claimable, Exists, StoreInv, TypeOK, Card
  <1>2. Taken(cards[c], t, now + LeaseTicks).attempts = k
    BY <1>1 DEF Taken, Card
  <1>3. /\ DOMAIN cards' = DOMAIN cards /\ cards'[c].attempts = k
        /\ \A x \in DOMAIN cards : x # c => cards'[x] = cards[x]
    BY <1>1, <1>2 DEF ClaimCard
  <1>4. n.card = c /\ n.attempt = k
    OBVIOUS
  <1>5. /\ DOMAIN runs' = DOMAIN runs \cup {t} /\ runs'[t] = n
        /\ \A u \in DOMAIN runs : runs'[u] = runs[u]
    BY <1>1 DEF ClaimCard, Insert
  <1> HIDE DEF n
  <1>6. ASSUME NEW x \in DOMAIN cards, x # c
        PROVE  /\ \A u \in DOMAIN runs' :
                     runs'[u].card = x => runs'[u].attempt \in 1..cards'[x].attempts
               /\ \A m \in 1..cards'[x].attempts :
                     \E u \in DOMAIN runs' : runs'[u].card = x /\ runs'[u].attempt = m
               /\ \A u, v \in DOMAIN runs' :
                     runs'[u].card = x /\ runs'[v].card = x /\ u < v
                        => runs'[u].attempt < runs'[v].attempt
    BY <1>3, <1>4, <1>5, <1>6 DEF AttemptsNumberRuns
  <1>7. /\ \A u \in DOMAIN runs' :
              runs'[u].card = c => runs'[u].attempt \in 1..k
        /\ \A m \in 1..k :
              \E u \in DOMAIN runs' : runs'[u].card = c /\ runs'[u].attempt = m
        /\ \A u, v \in DOMAIN runs' :
              runs'[u].card = c /\ runs'[v].card = c /\ u < v
                 => runs'[u].attempt < runs'[v].attempt
    <2>1. \A u \in DOMAIN runs : runs[u].card = c => runs[u].attempt \in 1..(k - 1)
      BY <1>1 DEF AttemptsNumberRuns
    <2>2. \A m \in 1..(k - 1) :
             \E u \in DOMAIN runs : runs[u].card = c /\ runs[u].attempt = m
      BY <1>1 DEF AttemptsNumberRuns
    <2>3. \A u, v \in DOMAIN runs :
             runs[u].card = c /\ runs[v].card = c /\ u < v
                => runs[u].attempt < runs[v].attempt
      BY <1>1 DEF AttemptsNumberRuns
    <2>4. k \in Nat \ {0}
      BY <1>1
    <2> HIDE DEF k
    <2>5. \A u \in DOMAIN runs' : runs'[u].card = c => runs'[u].attempt \in 1..k
      BY <1>4, <1>5, <2>1, <2>4
    <2>6. \A m \in 1..k : \E u \in DOMAIN runs' : runs'[u].card = c /\ runs'[u].attempt = m
      BY <1>4, <1>5, <2>2, <2>4
    <2>7. ASSUME NEW u \in DOMAIN runs', NEW v \in DOMAIN runs',
                 runs'[u].card = c, runs'[v].card = c, u < v
          PROVE  runs'[u].attempt < runs'[v].attempt
      <3>1. CASE v = t
        BY <1>1, <1>4, <1>5, <2>1, <2>4, <2>7, <3>1
      <3>2. CASE v # t
        BY <1>1, <1>5, <2>3, <2>7, <3>2
      <3> QED
        BY <3>1, <3>2
    <2> QED
      BY <2>5, <2>6, <2>7
  <1> QED
    BY <1>3, <1>6, <1>7 DEF AttemptsNumberRuns

\* A claim that ends, or is repaired, keeps the attempts and the runs' numbers.
LEMMA FinishKeepsAttempts ==
    ASSUME StoreInv, AttemptsNumberRuns, NEW c, NEW t, NEW o \in Outcomes, NEW d \in Nat,
           NEW u \in BOOLEAN, FinishClaim(c, t, o, d, u)
    PROVE  AttemptsNumberRuns'
  <1> DEFINE next == AfterClaim(c, o, u)
             due  == IF o = "failed" /\ next \in {"ready", "todo"} THEN now + d ELSE 0
             r    == [Released(cards[c], next) EXCEPT !.sched = due]
  <1>1. /\ c \in DOMAIN cards /\ cards[c] \in Card /\ cards \in [DOMAIN cards -> Card]
        /\ runs \in [DOMAIN runs -> Run] /\ t \in DOMAIN runs
    BY OwnRunOpen DEF FinishClaim, Owns, Exists, StoreInv, TypeOK
  <1>2. cards' = [cards EXCEPT ![c] = r] /\ runs' = [runs EXCEPT ![t].status = o]
    BY DEF FinishClaim
  <1>3. r.attempts = cards[c].attempts
    <2>1. next \in Statuses
      BY AfterClaimStatus
    <2> HIDE DEF due, next
    <2>2. /\ Released(cards[c], next) \in Card
          /\ Released(cards[c], next).attempts = cards[c].attempts
      BY <1>1, <2>1, ReleasedCard
    <2> QED
      BY <2>2 DEF Card
  <1> HIDE DEF r
  <1>4. /\ DOMAIN cards' = DOMAIN cards
        /\ \A x \in DOMAIN cards : cards'[x].attempts = cards[x].attempts
    BY <1>1, <1>2, <1>3
  <1>5. /\ DOMAIN runs' = DOMAIN runs
        /\ \A v \in DOMAIN runs : /\ runs'[v].card = runs[v].card
                                  /\ runs'[v].attempt = runs[v].attempt
    BY <1>1, <1>2 DEF Run
  <1> QED
    BY <1>4, <1>5, SameAttempts

\* So does a worker's report of its start.
LEMMA WorkerReportKeepsAttempts ==
    ASSUME StoreInv, AttemptsNumberRuns, NEW c, NEW t, NEW w, SetWorkerRunId(c, t, w)
    PROVE  AttemptsNumberRuns'
  <1>1. /\ c \in DOMAIN cards /\ cards[c] \in Card /\ cards \in [DOMAIN cards -> Card]
        /\ runs \in [DOMAIN runs -> Run] /\ t \in DOMAIN runs
    BY OwnRunOpen DEF SetWorkerRunId, Owns, Exists, StoreInv, TypeOK
  <1>2. Repaired(cards[c]).attempts = cards[c].attempts
    BY <1>1, RepairedCard
  <1>3. /\ DOMAIN cards' = DOMAIN cards
        /\ \A x \in DOMAIN cards : cards'[x].attempts = cards[x].attempts
    BY <1>1, <1>2 DEF SetWorkerRunId
  <1>4. /\ DOMAIN runs' = DOMAIN runs
        /\ \A v \in DOMAIN runs : /\ runs'[v].card = runs[v].card
                                  /\ runs'[v].attempt = runs[v].attempt
    BY <1>1 DEF SetWorkerRunId, Run
  <1> QED
    BY <1>3, <1>4, SameAttempts

\* And recovery of any number of claims.
LEMMA RecoverKeepsAttempts ==
    ASSUME StoreInv, AttemptsNumberRuns, RecoverExpiredClaims
    PROVE  AttemptsNumberRuns'
  <1>1. ASSUME NEW x \in DOMAIN cards
        PROVE  /\ Released(cards[x], Expired(x)).attempts = cards[x].attempts
               /\ Repaired(cards[x]).attempts = cards[x].attempts
    <2>1. cards[x] \in Card
      BY DEF StoreInv, TypeOK
    <2>2. "blocked" \in Statuses
      BY DEF Statuses
    <2>3. Expired(x) \in Statuses
      BY <2>2, RequeuedStatus DEF Expired
    <2> QED
      BY <2>1, <2>3, ReleasedCard, RepairedCard
  <1>2. /\ DOMAIN cards' = DOMAIN cards
        /\ \A x \in DOMAIN cards : cards'[x].attempts = cards[x].attempts
    BY <1>1 DEF RecoverExpiredClaims
  <1>3. ASSUME NEW t \in DOMAIN runs
        PROVE  /\ [runs[t] EXCEPT !.status = "expired"].card = runs[t].card
               /\ [runs[t] EXCEPT !.status = "expired"].attempt = runs[t].attempt
    BY DEF StoreInv, TypeOK, Run
  <1>4. /\ DOMAIN runs' = DOMAIN runs
        /\ \A v \in DOMAIN runs : /\ runs'[v].card = runs[v].card
                                  /\ runs'[v].attempt = runs[v].attempt
    BY <1>3 DEF RecoverExpiredClaims
  <1> QED
    BY <1>2, <1>4, SameAttempts

\* No edit of a user breaks the numbering.
LEMMA UserStepKeepsAttempts ==
    ASSUME StoreInv, AttemptsNumberRuns, UserStep
    PROVE  AttemptsNumberRuns'
  <1>0. Times \subseteq Nat
    BY DEF Times, StoreInv, TypeOK
  <1>1. ASSUME NEW c, NEW s, NEW m, AddCard(c, s, m) PROVE AttemptsNumberRuns'
    <2>1. NewCard("todo", NoProfile, s, m).attempts = 0
      BY DEF NewCard
    <2> QED
      BY <1>1, <2>1, InsertKeepsAttempts DEF AddCard
  <1>2. ASSUME NEW c, NEW p, NEW b, AddVoiceCard(c, p, b) PROVE AttemptsNumberRuns'
    <2>1. \A s : NewCard(s, p, 0, 1).attempts = 0
      BY DEF NewCard
    <2> QED
      BY <1>2, <2>1, InsertKeepsAttempts DEF AddVoiceCard
  <1>3. ASSUME NEW c, Edit(c) PROVE AttemptsNumberRuns'
    BY <1>3, EditKeepsAttempts
  <1>4. ASSUME NEW c \in Edited, NEW s \in Statuses, Move(c, s) PROVE Edit(c)
    BY <1>4, SetStatusEdits DEF Move
  <1>5. ASSUME NEW c \in Edited, Retry(c) PROVE Edit(c)
    BY <1>5, RequeuedStatus, SetStatusEdits DEF Retry
  <1>6. ASSUME NEW c \in Edited, NEW s \in Times \cup {cards[c].sched},
               NEW m \in 1..AttemptsLimit, UpdateCard(c, s, m)
        PROVE  Edit(c)
    <2>1. cards[c].sched \in Nat
      BY DEF Edited, StoreInv, TypeOK, Card
    <2> QED
      BY <1>0, <1>6, <2>1, UpdateCardEdits
  <1>7. ASSUME NEW c, Touch(c) PROVE Edit(c)
    BY <1>7, TouchEdits
  <1>8. ASSUME NEW c, NEW p \in Profiles, AssignCard(c, p) PROVE Edit(c)
    BY <1>8, AssignCardEdits
  <1>9. ASSUME NEW c, UnassignCard(c) PROVE Edit(c)
    BY <1>9, UnassignCardEdits
  <1>10. ASSUME NEW p, NEW c, LinkCards(p, c) PROVE AttemptsNumberRuns'
    BY <1>10 DEF LinkCards, AttemptsNumberRuns
  <1>11. ASSUME NEW c, DeleteCard(c) PROVE AttemptsNumberRuns'
    BY <1>11, RemoveKeepsAttempts DEF DeleteCard
  <1>12. ASSUME NEW s, DeleteByStatus(s) PROVE AttemptsNumberRuns'
    <2>1. Remove({c \in DOMAIN cards : cards[c].status = s})
      BY <1>12 DEF DeleteByStatus
    <2> QED
      BY <2>1, RemoveKeepsAttempts
  <1> QED
    BY <1>1, <1>2, <1>3, <1>4, <1>5, <1>6, <1>7, <1>8, <1>9, <1>10, <1>11, <1>12
       DEF UserStep

\* No step of the store breaks it.
LEMMA NextKeepsAttempts ==
    ASSUME StoreInv, AttemptsNumberRuns, [StoreNext]_storeVars
    PROVE  AttemptsNumberRuns'
  <1>1. CASE UserStep
    BY <1>1, UserStepKeepsAttempts
  <1>2. CASE WorkerStep
    <2>1. RetryDelays \subseteq Nat
      BY BoundsAssumption
    <2>2. ASSUME NEW c, NEW t, HeartbeatClaim(c, t) PROVE AttemptsNumberRuns'
      BY <2>2, HeartbeatEdits, EditKeepsAttempts
    <2> QED
      BY <1>2, <2>1, <2>2, ClaimKeepsAttempts, WorkerReportKeepsAttempts, FinishKeepsAttempts
         DEF WorkerStep
  <1>3. CASE RecoverExpiredClaims
    BY <1>3, RecoverKeepsAttempts
  <1>4. CASE \E c \in Shared : LegacyReset(c)
    BY <1>4, LegacyResetEdits, EditKeepsAttempts
  <1>5. CASE Tick \/ UNCHANGED storeVars
    BY <1>5 DEF Tick, storeVars, AttemptsNumberRuns
  <1> QED
    BY <1>1, <1>2, <1>3, <1>4, <1>5 DEF StoreNext

\* claim_card numbers a card's runs 1, 2, ... in the order of their tokens, and
\* no finish, recovery, report or edit gives an attempt back or skips one: what
\* max_attempts is compared with is the number of runs in the audit log.
THEOREM AttemptsNumbered == StoreSpec => []AttemptsNumberRuns
  <1>1. StoreInit => AttemptsNumberRuns
    BY DEF StoreInit, AttemptsNumberRuns
  <1> QED
    BY <1>1, StoreInvariant, NextKeepsAttempts, PTL DEF StoreSpec

-----------------------------------------------------------------------------
(* Dependencies form no cycle.                                             *)

\* What link_cards's recursive query shows when it does not find p below c: a
\* set of cards with c's children in it, closed under the links, without p.
LEMMA ClosedBelow ==
    ASSUME NEW p \in Cards, NEW c, p \notin Descendants(c)
    PROVE  \E D \in SUBSET Cards :
              /\ \A l \in links : l[1] = c => l[2] \in D
              /\ \A l \in links : l[1] \in D => l[2] \in D
              /\ p \notin D
  BY DEF Descendants

\* A link whose parent is not below its child closes no cycle: cards outside
\* what is below the child have a first one already, and if there is none
\* outside, the new parent is not among the cards either.
LEMMA LinkKeepsAcyclic ==
    ASSUME LinksAcyclic, NEW p \in Cards, NEW c \in Cards, LinkCards(p, c)
    PROVE  LinksAcyclic'
  <1>1. p # c /\ p \notin Descendants(c) /\ links' = links \cup {<<p, c>>}
    BY DEF LinkCards
  <1>2. PICK D \in SUBSET Cards :
           /\ \A l \in links : l[1] = c => l[2] \in D
           /\ \A l \in links : l[1] \in D => l[2] \in D
           /\ p \notin D
    BY <1>1, ClosedBelow
  <1> SUFFICES ASSUME NEW S \in SUBSET Cards, S # {}
               PROVE  \E x \in S : \A y \in S : <<y, x>> \notin links'
    BY DEF LinksAcyclic
  <1> DEFINE T == S \ (D \cup {c})
  <1>3. CASE T = {}
    <2>1. p \notin S
      BY <1>1, <1>2, <1>3
    <2>2. PICK x \in S : \A y \in S : <<y, x>> \notin links
      BY DEF LinksAcyclic
    <2> QED
      BY <1>1, <2>1, <2>2
  <1>4. CASE T # {}
    <2>1. PICK x \in T : \A y \in T : <<y, x>> \notin links
      BY <1>4 DEF LinksAcyclic
    <2>2. ASSUME NEW y \in S, <<y, x>> \in links PROVE FALSE
      <3>1. y \in D \/ y = c
        BY <2>1, <2>2
      <3>2. x \in D
        BY <1>2, <2>2, <3>1
      <3> QED
        BY <2>1, <3>2
    <2>3. x \in S /\ x # c
      BY <2>1
    <2> QED
      BY <1>1, <2>2, <2>3
  <1> QED
    BY <1>3, <1>4

\* Links are only ever added by link_cards; a delete takes links away.
LEMMA NextKeepsAcyclic ==
    ASSUME LinksAcyclic, [StoreNext]_storeVars
    PROVE  LinksAcyclic'
  <1>1. CASE links' \subseteq links
    <2> SUFFICES ASSUME NEW S \in SUBSET Cards, S # {}
                 PROVE  \E x \in S : \A y \in S : <<y, x>> \notin links'
      BY DEF LinksAcyclic
    <2>1. PICK x \in S : \A y \in S : <<y, x>> \notin links
      BY DEF LinksAcyclic
    <2> QED
      BY <1>1, <2>1
  <1>2. CASE UserStep
    <2>1. ASSUME NEW gone, Remove(gone) PROVE links' \subseteq links
      BY <2>1 DEF Remove
    <2>2. ASSUME NEW p \in Cards, NEW c \in Cards, LinkCards(p, c) PROVE LinksAcyclic'
      BY <2>2, LinkKeepsAcyclic
    <2>3. \/ links' = links \/ \E gone : Remove(gone)
          \/ \E p, c \in Cards : LinkCards(p, c)
      BY <1>2 DEF UserStep, AddCard, AddVoiceCard, Move, Retry, SetStatus, UpdateCard, Touch,
                  AssignCard, UnassignCard, DeleteCard, DeleteByStatus
    <2> QED
      BY <1>1, <2>1, <2>2, <2>3
  <1>3. CASE WorkerStep
    BY <1>1, <1>3 DEF WorkerStep, ClaimCard, HeartbeatClaim, SetWorkerRunId, FinishClaim
  <1>4. CASE \/ RecoverExpiredClaims \/ (\E c \in Shared : LegacyReset(c)) \/ Tick
             \/ UNCHANGED storeVars
    BY <1>1, <1>4 DEF RecoverExpiredClaims, LegacyReset, Tick, storeVars
  <1> QED
    BY <1>2, <1>3, <1>4 DEF StoreNext

\* link_cards refuses every link that would let a card wait for itself through
\* others: in any set of cards there is one that waits for none of them.
THEOREM DependenciesAcyclic == StoreSpec => []LinksAcyclic
  <1>1. ASSUME StoreInit, NEW S \in SUBSET Cards, S # {}
        PROVE  \E c \in S : \A p \in S : <<p, c>> \notin links
    BY <1>1 DEF StoreInit
  <1>2. StoreInit => LinksAcyclic
    BY <1>1 DEF LinksAcyclic
  <1> QED
    BY <1>2, NextKeepsAcyclic, PTL DEF StoreSpec

-----------------------------------------------------------------------------
(* The revision of a card tells its changes.                               *)

\* Row q may follow row r: the revision does not go back, and stays only
\* where nothing but the lease moved.
Follows(q, r) == q.rev >= r.rev /\ (q.rev = r.rev => Decided(q) = Decided(r))

\* It is enough that every row follows its old one.
LEMMA RowsFollow ==
    ASSUME \A x \in DOMAIN cards \cap DOMAIN cards' : Follows(cards'[x], cards[x])
    PROVE  RevisionsTell
  BY DEF RevisionsTell, Follows

\* A row follows itself, so a step on one card has one row to look at.
LEMMA OneRowFollows ==
    ASSUME StoreInv, NEW c \in DOMAIN cards, NEW q, cards' = [cards EXCEPT ![c] = q],
           Follows(q, cards[c])
    PROVE  RevisionsTell
  <1>1. \A x \in DOMAIN cards : Follows(cards[x], cards[x])
    BY DEF Follows, StoreInv, TypeOK, Card
  <1>2. \A x \in DOMAIN cards \cap DOMAIN cards' : Follows(cards'[x], cards[x])
    BY <1>1
  <1> QED
    BY <1>2, RowsFollow

\* A repair moves the revision or leaves the whole row, and a new lease beside
\* it is what a reader does not decide on.
LEMMA RepairedFollows ==
    ASSUME NEW r \in Card, NEW l \in Nat
    PROVE  /\ Follows(Repaired(r), r)
           /\ Follows([Repaired(r) EXCEPT !.lease = l], r)
  <1>1. CASE r.status = "in_progress"
    <2>1. Repaired(r) = r
      BY <1>1 DEF Repaired, Card
    <2>2. [r EXCEPT !.lease = l].rev = r.rev /\ Decided([r EXCEPT !.lease = l]) = Decided(r)
      BY DEF Decided, Card
    <2>3. r.rev \in Nat
      BY DEF Card
    <2> QED
      BY <2>1, <2>2, <2>3 DEF Follows
  <1>2. CASE r.status # "in_progress"
    <2>1. Repaired(r) = [r EXCEPT !.status = "in_progress", !.rev = r.rev + 1]
      BY <1>2 DEF Repaired
    <2>2. Repaired(r).rev = r.rev + 1 /\ [Repaired(r) EXCEPT !.lease = l].rev = r.rev + 1
      BY <2>1 DEF Card
    <2>3. r.rev \in Nat
      BY DEF Card
    <2> QED
      BY <2>2, <2>3 DEF Follows
  <1> QED
    BY <1>1, <1>2

\* Every edit of a user moves the revision of the card it edits.
LEMMA UserStepTells == ASSUME StoreInv, UserStep PROVE RevisionsTell
  <1>0. /\ \A x \in DOMAIN cards : cards[x] \in Card /\ cards[x].rev \in Nat
        /\ \A x \in DOMAIN cards : Follows(cards[x], cards[x])
    BY DEF StoreInv, TypeOK, Card, Follows
  <1>1. ASSUME \A x \in DOMAIN cards \cap DOMAIN cards' : cards'[x] = cards[x]
        PROVE  RevisionsTell
    BY <1>0, <1>1, RowsFollow
  <1>2. ASSUME NEW c \in DOMAIN cards, NEW q, cards' = [cards EXCEPT ![c] = q],
               q.rev = cards[c].rev + 1
        PROVE  RevisionsTell
    <2>1. Follows(q, cards[c])
      BY <1>0, <1>2 DEF Follows
    <2> QED
      BY <1>2, <2>1, OneRowFollows
  <1>3. ASSUME NEW c, NEW s, NEW b, SetStatus(c, s, b) PROVE RevisionsTell
    <2> DEFINE q == [cards[c] EXCEPT !.status = s, !.rev = @ + 1,
                                     !.sched = IF b \/ s \in Terminal THEN 0 ELSE @]
    <2>1. c \in DOMAIN cards /\ cards' = [cards EXCEPT ![c] = q]
      BY <1>3 DEF SetStatus, Editable, Exists
    <2>2. q.rev = cards[c].rev + 1
      BY <1>0, <2>1 DEF Card
    <2> QED
      BY <1>2, <2>1, <2>2
  <1>4. ASSUME NEW c, NEW s, NEW m, UpdateCard(c, s, m) PROVE RevisionsTell
    <2> DEFINE q == [cards[c] EXCEPT !.sched = s, !.max = m, !.rev = @ + 1]
    <2>1. c \in DOMAIN cards /\ cards' = [cards EXCEPT ![c] = q]
      BY <1>4 DEF UpdateCard, Editable, Exists
    <2>2. q.rev = cards[c].rev + 1
      BY <1>0, <2>1 DEF Card
    <2> QED
      BY <1>2, <2>1, <2>2
  <1>5. ASSUME NEW c, Touch(c) PROVE RevisionsTell
    <2> DEFINE q == [cards[c] EXCEPT !.rev = @ + 1]
    <2>1. c \in DOMAIN cards /\ cards' = [cards EXCEPT ![c] = q]
      BY <1>5 DEF Touch, Exists
    <2>2. q.rev = cards[c].rev + 1
      BY <1>0, <2>1 DEF Card
    <2> QED
      BY <1>2, <2>1, <2>2
  <1>6. ASSUME NEW c, NEW p, AssignCard(c, p) PROVE RevisionsTell
    <2> DEFINE q == [cards[c] EXCEPT !.assignee = p, !.rev = @ + 1]
    <2>1. c \in DOMAIN cards /\ cards' = [cards EXCEPT ![c] = q]
      BY <1>6 DEF AssignCard, Editable, Exists
    <2>2. q.rev = cards[c].rev + 1
      BY <1>0, <2>1 DEF Card
    <2> QED
      BY <1>2, <2>1, <2>2
  <1>7. ASSUME NEW c, UnassignCard(c) PROVE RevisionsTell
    <2> DEFINE q == [cards[c] EXCEPT !.assignee = NoProfile,
                                     !.status = IF @ = "ready" THEN "todo" ELSE @,
                                     !.rev = @ + 1]
    <2>1. c \in DOMAIN cards /\ cards' = [cards EXCEPT ![c] = q]
      BY <1>7 DEF UnassignCard, Editable, Exists
    <2>2. q.rev = cards[c].rev + 1
      BY <1>0, <2>1 DEF Card
    <2> QED
      BY <1>2, <2>1, <2>2
  <1>8. ASSUME NEW c, NEW r, c \in fresh, cards' = Insert(cards, c, r) PROVE RevisionsTell
    BY <1>1, <1>8 DEF Insert, StoreInv, TypeOK
  <1>9. ASSUME NEW gone, Remove(gone) PROVE RevisionsTell
    BY <1>1, <1>9 DEF Remove, Restrict
  <1>10. ASSUME NEW c, NEW s, NEW m, AddCard(c, s, m) PROVE RevisionsTell
    BY <1>8, <1>10 DEF AddCard
  <1>11. ASSUME NEW c, NEW p, NEW b, AddVoiceCard(c, p, b) PROVE RevisionsTell
    BY <1>8, <1>11 DEF AddVoiceCard
  <1>12. ASSUME NEW p, NEW c, LinkCards(p, c) PROVE RevisionsTell
    BY <1>1, <1>12 DEF LinkCards
  <1>13. ASSUME NEW c, DeleteCard(c) PROVE RevisionsTell
    BY <1>9, <1>13 DEF DeleteCard
  <1>14. ASSUME NEW s, DeleteByStatus(s) PROVE RevisionsTell
    <2>1. Remove({c \in DOMAIN cards : cards[c].status = s})
      BY <1>14 DEF DeleteByStatus
    <2> QED
      BY <1>9, <2>1
  <1> QED
    BY <1>3, <1>4, <1>5, <1>6, <1>7, <1>10, <1>11, <1>12, <1>13, <1>14
       DEF UserStep, Move, Retry

\* A claim moves it, and so does a claim's end; a heartbeat moves it only when
\* it repairs the status as well.
LEMMA WorkerStepTells == ASSUME StoreInv, WorkerStep PROVE RevisionsTell
  <1>0. /\ \A x \in DOMAIN cards : cards[x] \in Card /\ cards[x].rev \in Nat
        /\ now + LeaseTicks \in Nat
    BY BoundsAssumption DEF StoreInv, TypeOK, Card
  <1>1. ASSUME NEW c \in DOMAIN cards, NEW q, cards' = [cards EXCEPT ![c] = q],
               q.rev = cards[c].rev + 1
        PROVE  RevisionsTell
    <2>1. Follows(q, cards[c])
      BY <1>0, <1>1 DEF Follows
    <2> QED
      BY <1>1, <2>1, OneRowFollows
  <1>2. ASSUME NEW c, NEW w, NEW b, ClaimCard(c, w, b) PROVE RevisionsTell
    <2> DEFINE q == Taken(cards[c], nextToken, now + LeaseTicks)
    <2>1. c \in DOMAIN cards /\ cards' = [cards EXCEPT ![c] = q]
      BY <1>2 DEF ClaimCard, Claimable, Exists
    <2>2. q.rev = cards[c].rev + 1
      BY <1>0, <2>1 DEF Taken, Card
    <2> QED
      BY <1>1, <2>1, <2>2
  <1>3. ASSUME NEW c, NEW t, HeartbeatClaim(c, t) PROVE RevisionsTell
    <2> DEFINE q == [Repaired(cards[c]) EXCEPT !.lease = now + LeaseTicks]
    <2>1. c \in DOMAIN cards /\ cards' = [cards EXCEPT ![c] = q]
      BY <1>3 DEF HeartbeatClaim, Owns, Exists
    <2>2. Follows(q, cards[c])
      BY <1>0, <2>1, RepairedFollows
    <2> QED
      BY <2>1, <2>2, OneRowFollows
  <1>4. ASSUME NEW c, NEW t, NEW w, SetWorkerRunId(c, t, w) PROVE RevisionsTell
    <2>1. c \in DOMAIN cards /\ cards' = [cards EXCEPT ![c] = Repaired(cards[c])]
      BY <1>4 DEF SetWorkerRunId, Owns, Exists
    <2>2. Follows(Repaired(cards[c]), cards[c])
      BY <1>0, <2>1, RepairedFollows
    <2> QED
      BY <2>1, <2>2, OneRowFollows
  <1>5. ASSUME NEW c, NEW t, NEW o \in Outcomes, NEW d, NEW u \in BOOLEAN,
               FinishClaim(c, t, o, d, u)
        PROVE  RevisionsTell
    <2> DEFINE next == AfterClaim(c, o, u)
               due  == IF o = "failed" /\ next \in {"ready", "todo"} THEN now + d ELSE 0
               q    == [Released(cards[c], next) EXCEPT !.sched = due]
    <2>1. c \in DOMAIN cards /\ cards' = [cards EXCEPT ![c] = q]
      BY <1>5 DEF FinishClaim, Owns, Exists
    <2>2. q.rev = cards[c].rev + 1
      <3>1. next \in Statuses
        BY AfterClaimStatus
      <3> HIDE DEF due, next
      <3>2. /\ Released(cards[c], next) \in Card
            /\ Released(cards[c], next).rev = cards[c].rev + 1
        BY <1>0, <2>1, <3>1, ReleasedCard
      <3> QED
        BY <3>2 DEF Card
    <2> QED
      BY <1>1, <2>1, <2>2
  <1> QED
    BY <1>2, <1>3, <1>4, <1>5 DEF WorkerStep

\* Recovery moves it on every card it releases or repairs.
LEMMA RecoverTells == ASSUME StoreInv, RecoverExpiredClaims PROVE RevisionsTell
  <1>1. ASSUME NEW x \in DOMAIN cards PROVE Follows(cards'[x], cards[x])
    <2>1. cards[x] \in Card /\ cards[x].rev \in Nat
      BY DEF StoreInv, TypeOK, Card
    <2>2. "blocked" \in Statuses
      BY DEF Statuses
    <2>3. Expired(x) \in Statuses
      BY <2>2, RequeuedStatus DEF Expired
    <2>4. Released(cards[x], Expired(x)).rev = cards[x].rev + 1
      BY <2>1, <2>3, ReleasedCard
    <2>5. Follows(Released(cards[x], Expired(x)), cards[x])
      BY <2>1, <2>4 DEF Follows
    <2>6. 0 \in Nat
      OBVIOUS
    <2>7. Follows(Repaired(cards[x]), cards[x])
      BY <2>1, <2>6, RepairedFollows
    <2>8. Follows(cards[x], cards[x])
      BY <2>1 DEF Follows
    <2> QED
      BY <2>5, <2>7, <2>8 DEF RecoverExpiredClaims
  <1> QED
    BY <1>1, RowsFollow

\* What an older runtime resets is the one change the revision does not tell.
LEMMA LegacyTells == ASSUME StoreInv, NEW c, LegacyReset(c) PROVE RevisionsTell
  <1>1. \A x \in DOMAIN cards : cards[x].rev \in Nat /\ cards[x] \in Card
    BY DEF StoreInv, TypeOK, Card
  <1>2. /\ c \in DOMAIN cards /\ DOMAIN cards' = DOMAIN cards
        /\ \A x \in DOMAIN cards : x # c => cards'[x] = cards[x]
        /\ cards'[c] = [cards[c] EXCEPT !.status = "todo"]
    BY DEF LegacyReset, Exists
  <1>3. cards'[c].rev = cards[c].rev
    BY <1>1, <1>2 DEF Card
  <1>4. ASSUME NEW x \in DOMAIN cards
        PROVE  /\ cards'[x].rev >= cards[x].rev
               /\ Decided(cards'[x]) = Decided(cards[x]) \/ LegacyReset(x)
    <2>1. CASE x = c
      <3>1. LegacyReset(x)
        BY <2>1 DEF LegacyReset, Exists, Claimed
      <3> QED
        BY <1>1, <1>3, <2>1, <3>1
    <2>2. CASE x # c
      BY <1>1, <1>2, <2>2
    <2> QED
      BY <2>1, <2>2
  <1> QED
    BY <1>4 DEF RevisionsTell

\* A reader who finds the revision it knew finds the card it knew, but for the
\* lease and for what an older runtime does behind the store's back.
THEOREM RevisionTells == StoreSpec => RevisionMoves
  <1>1. ASSUME StoreInv, Tick PROVE RevisionsTell
    BY <1>1, RowsFollow DEF Tick, Follows, StoreInv, TypeOK, Card
  <1>2. StoreInv /\ [StoreNext]_storeVars => [RevisionsTell]_storeVars
    BY <1>1, UserStepTells, WorkerStepTells, RecoverTells, LegacyTells DEF StoreNext
  <1> QED
    BY <1>2, StoreInvariant, PTL DEF StoreSpec, RevisionMoves

-----------------------------------------------------------------------------
(* A live lease is only given up by its owner.                             *)

\* It is enough that claimed cards keep their claims.
LEMMA TokensHold ==
    ASSUME \A x \in DOMAIN cards :
              Claimed(x) => x \in DOMAIN cards' /\ cards'[x].token = cards[x].token
    PROVE  LiveLeasesHold
  BY DEF LiveLeasesHold

\* An edit keeps every claim, the edited card's too.
LEMMA EditHolds == ASSUME NEW c, Edit(c) PROVE LiveLeasesHold
  <1>1. /\ DOMAIN cards' = DOMAIN cards
        /\ \A x \in DOMAIN cards : cards'[x].token = cards[x].token
    BY DEF Edit
  <1> QED
    BY <1>1, TokensHold

\* Users edit, delete and add cards without touching a claim.
LEMMA UserStepHolds == ASSUME StoreInv, UserStep PROVE LiveLeasesHold
  <1>0. Times \subseteq Nat
    BY DEF Times, StoreInv, TypeOK
  <1>1. ASSUME NEW c, NEW r, c \in fresh, cards' = Insert(cards, c, r) PROVE LiveLeasesHold
    BY <1>1, TokensHold DEF Insert, StoreInv, TypeOK
  <1>2. ASSUME NEW gone, Remove(gone), \A x \in gone \cap DOMAIN cards : ~Claimed(x)
        PROVE  LiveLeasesHold
    <2>1. \A x \in DOMAIN cards \ gone : x \in DOMAIN cards' /\ cards'[x] = cards[x]
      BY <1>2 DEF Remove, Restrict
    <2> QED
      BY <1>2, <2>1, TokensHold
  <1>3. ASSUME NEW c, NEW s, NEW m, AddCard(c, s, m) PROVE LiveLeasesHold
    BY <1>1, <1>3 DEF AddCard
  <1>4. ASSUME NEW c, NEW p, NEW b, AddVoiceCard(c, p, b) PROVE LiveLeasesHold
    BY <1>1, <1>4 DEF AddVoiceCard
  <1>5. ASSUME NEW c \in Edited, NEW s \in Statuses, Move(c, s) PROVE Edit(c)
    BY <1>5, SetStatusEdits DEF Move
  <1>6. ASSUME NEW c \in Edited, Retry(c) PROVE Edit(c)
    BY <1>6, RequeuedStatus, SetStatusEdits DEF Retry
  <1>7. ASSUME NEW c \in Edited, NEW s \in Times \cup {cards[c].sched},
               NEW m \in 1..AttemptsLimit, UpdateCard(c, s, m)
        PROVE  Edit(c)
    <2>1. cards[c].sched \in Nat
      BY DEF Edited, StoreInv, TypeOK, Card
    <2> QED
      BY <1>0, <1>7, <2>1, UpdateCardEdits
  <1>8. ASSUME NEW c, Touch(c) PROVE Edit(c)
    BY <1>8, TouchEdits
  <1>9. ASSUME NEW c, NEW p \in Profiles, AssignCard(c, p) PROVE Edit(c)
    BY <1>9, AssignCardEdits
  <1>10. ASSUME NEW c, UnassignCard(c) PROVE Edit(c)
    BY <1>10, UnassignCardEdits
  <1>11. ASSUME NEW p, NEW c, LinkCards(p, c) PROVE LiveLeasesHold
    BY <1>11, TokensHold DEF LinkCards
  <1>12. ASSUME NEW c, DeleteCard(c) PROVE LiveLeasesHold
    BY <1>2, <1>12 DEF DeleteCard
  <1>13. ASSUME NEW s, DeleteByStatus(s) PROVE LiveLeasesHold
    <2> DEFINE column == {c \in DOMAIN cards : cards[c].status = s}
    <2>1. Remove(column) /\ \A x \in column : ~Claimed(x)
      BY <1>13 DEF DeleteByStatus
    <2> QED
      BY <1>2, <2>1
  <1> QED
    BY <1>3, <1>4, <1>5, <1>6, <1>7, <1>8, <1>9, <1>10, <1>11, <1>12, <1>13, EditHolds
       DEF UserStep

\* A new claim goes to an unclaimed card.
LEMMA ClaimHolds == ASSUME NEW c, NEW w, NEW b, ClaimCard(c, w, b) PROVE LiveLeasesHold
  <1>1. /\ ~Claimed(c) /\ DOMAIN cards' = DOMAIN cards
        /\ \A x \in DOMAIN cards : x # c => cards'[x] = cards[x]
    BY DEF ClaimCard, Claimable
  <1> QED
    BY <1>1, TokensHold

\* A worker's report keeps the claim.
LEMMA WorkerReportHolds ==
    ASSUME StoreInv, NEW c, NEW t, NEW w, SetWorkerRunId(c, t, w)
    PROVE  LiveLeasesHold
  <1>1. /\ c \in DOMAIN cards /\ cards[c] \in Card
        /\ cards' = [cards EXCEPT ![c] = Repaired(cards[c])]
    BY DEF SetWorkerRunId, Owns, Exists, StoreInv, TypeOK
  <1>2. Repaired(cards[c]).token = cards[c].token
    BY <1>1, RepairedCard
  <1> QED
    BY <1>1, <1>2, TokensHold

\* A claim's end is its own worker's: it names the token of the claim.
LEMMA FinishHolds ==
    ASSUME NEW c, NEW t, NEW o \in Outcomes, NEW d \in RetryDelays, NEW u \in BOOLEAN,
           FinishClaim(c, t, o, d, u)
    PROVE  LiveLeasesHold
  <1>1. /\ c \in DOMAIN cards /\ cards[c].token = t /\ DOMAIN cards' = DOMAIN cards
        /\ \A x \in DOMAIN cards : x # c => cards'[x] = cards[x]
    BY DEF FinishClaim, Owns, Exists
  <1>2. FinishClaim(c, cards[c].token, o, d, u)
    BY <1>1 DEF FinishClaim, Owns, Exists, Claimed
  <1>3. \E o1 \in Outcomes, d1 \in RetryDelays, u1 \in BOOLEAN :
           FinishClaim(c, cards[c].token, o1, d1, u1)
    BY <1>2
  <1> SUFFICES ASSUME NEW x \in DOMAIN cards
               PROVE  /\ x \in DOMAIN cards'
                      /\ \/ cards'[x].token = cards[x].token
                         \/ \E o1 \in Outcomes, d1 \in RetryDelays, u1 \in BOOLEAN :
                               FinishClaim(x, cards[x].token, o1, d1, u1)
    BY DEF LiveLeasesHold
  <1>4. CASE x = c
    BY <1>1, <1>3, <1>4
  <1>5. CASE x # c
    BY <1>1, <1>5
  <1> QED
    BY <1>4, <1>5

\* Recovery releases leases that have run out, and none that has not.
LEMMA RecoverHolds == ASSUME StoreInv, RecoverExpiredClaims PROVE LiveLeasesHold
  <1> SUFFICES ASSUME NEW x \in DOMAIN cards, Claimed(x), cards[x].lease > now
               PROVE  x \in DOMAIN cards' /\ cards'[x].token = cards[x].token
    BY DEF LiveLeasesHold
  <1>1. cards[x] \in Card /\ ~Lapsed(x)
    BY DEF Lapsed, StoreInv, TypeOK, Card
  <1>2. Repaired(cards[x]).token = cards[x].token
    BY <1>1, RepairedCard
  <1> QED
    BY <1>1, <1>2 DEF RecoverExpiredClaims

\* While a worker's lease runs, its card is not taken from it, released or
\* deleted under it by anyone else: not by users, by recovery, by a worker
\* with another token or by an older runtime.
THEOREM LeaseProtects == StoreSpec => LiveLeaseKept
  <1>1. ASSUME NEW c, NEW t, HeartbeatClaim(c, t), StoreInv PROVE LiveLeasesHold
    BY <1>1, HeartbeatEdits, EditHolds
  <1>2. ASSUME StoreInv, WorkerStep PROVE LiveLeasesHold
    BY <1>1, <1>2, ClaimHolds, WorkerReportHolds, FinishHolds DEF WorkerStep
  <1>3. ASSUME StoreInv, NEW c, LegacyReset(c) PROVE LiveLeasesHold
    BY <1>3, LegacyResetEdits, EditHolds
  <1>4. ASSUME Tick PROVE LiveLeasesHold
    BY <1>4, TokensHold DEF Tick
  <1>5. StoreInv /\ [StoreNext]_storeVars => [LiveLeasesHold]_storeVars
    BY <1>2, <1>3, <1>4, UserStepHolds, RecoverHolds DEF StoreNext
  <1> QED
    BY <1>5, StoreInvariant, PTL DEF StoreSpec, LiveLeaseKept

=============================================================================
