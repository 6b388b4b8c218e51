---------------------- MODULE BoardOrchestratorProofs -----------------------
(***************************************************************************)
(* Theorems of the Board's executor and dispatcher, for any number of      *)
(* cards, bots and workers: what every interleaving of executions, users,  *)
(* stops and crashes keeps of the store, of the voice ledger and of the    *)
(* executor's own books.                                                   *)
(***************************************************************************)
EXTENDS BoardOrchestrator, VoiceCommandsProofs

-----------------------------------------------------------------------------
(* What a step does to the tables.                                         *)

\* No claim appears or changes hands.
NoNewClaims ==
    \A c \in DOMAIN cards' :
        cards'[c].token # 0 => c \in DOMAIN cards /\ cards'[c].token = cards[c].token

TablesKept == StoreInv' /\ LedgerInv' /\ RowsGoOn /\ fresh' \subseteq fresh

\* Every step but a claim and a reconciliation is steady.
Steady == TablesKept /\ SettledRunsKept /\ NoNewClaims

LEMMA NothingSteady == ASSUME StoreInv, LedgerInv, UNCHANGED storeVars PROVE Steady
  <1>1. StoreInv'
    BY DEF storeVars, StoreInv, TypeOK, ClaimMatchesRun, ClaimedIsRunning, Claimed, Exists
  <1>2. LedgerInv' /\ RowsGoOn
    BY LedgerUntouched DEF storeVars
  <1> QED
    BY <1>1, <1>2 DEF Steady, TablesKept, SettledRunsKept, NoNewClaims, storeVars

LEMMA EditSteady == ASSUME StoreInv, LedgerInv, NEW c, Edit(c) PROVE Steady
  <1>1. StoreInv'
    BY EditKeepsInv
  <1>2. /\ DOMAIN cards' = DOMAIN cards /\ \A x \in DOMAIN cards : cards'[x].token = cards[x].token
        /\ UNCHANGED <<runs, cmds, fresh>>
    BY DEF Edit
  <1>3. LedgerInv' /\ RowsGoOn
    BY <1>2, LedgerUntouched
  <1> QED
    BY <1>1, <1>2, <1>3 DEF Steady, TablesKept, SettledRunsKept, NoNewClaims

LEMMA SetStatusSteady ==
    ASSUME StoreInv, LedgerInv, NEW c, NEW s \in Statuses, NEW b \in BOOLEAN, SetStatus(c, s, b)
    PROVE  Steady
  BY SetStatusEdits, EditSteady

LEMMA EnsureTerminalSteady ==
    ASSUME StoreInv, LedgerInv, NEW c, EnsureTerminal(c) PROVE Steady
  <1>1. CASE SetStatus(c, "cancelled", FALSE)
    BY <1>1, SetStatusSteady DEF Statuses
  <1>2. CASE UNCHANGED storeVars
    BY <1>2, NothingSteady
  <1> QED
    BY <1>1, <1>2 DEF EnsureTerminal

LEMMA FinishSteady ==
    ASSUME StoreInv, LedgerInv, NEW c, NEW t, NEW o \in Outcomes, NEW d \in Nat, NEW u \in BOOLEAN,
           FinishClaim(c, t, o, d, u)
    PROVE  Steady /\ c \in DOMAIN cards /\ cards'[c].token = 0
  <1> DEFINE next == AfterClaim(c, o, u)
             due  == IF o = "failed" /\ next \in {"ready", "todo"} THEN now + d ELSE 0
             r    == [Released(cards[c], next) EXCEPT !.sched = due]
  <1>1. c \in DOMAIN cards /\ cards \in [DOMAIN cards -> Card]
    BY DEF FinishClaim, Owns, Exists, StoreInv, TypeOK
  <1>2. cards' = [cards EXCEPT ![c] = r] /\ fresh' = fresh
    BY DEF FinishClaim
  <1>3. r.token = 0
    <2>1. Released(cards[c], next) \in Card /\ Released(cards[c], next).token = 0
      BY <1>1, AfterClaimStatus, ReleasedCard
    <2> HIDE DEF next, due
    <2> QED
      BY <2>1 DEF Card
  <1> HIDE DEF r
  <1>4. /\ DOMAIN cards' = DOMAIN cards /\ cards'[c].token = 0
        /\ \A x \in DOMAIN cards : x # c => cards'[x] = cards[x]
    BY <1>1, <1>2, <1>3
  <1>5. NoNewClaims
    BY <1>4 DEF NoNewClaims
  <1>6. StoreInv'
    BY FinishClaimInv
  <1>7. LedgerInv' /\ RowsGoOn
    BY FinishLedger
  <1>8. SettledRunsKept
    BY FinishKeepsRuns
  <1> QED
    BY <1>1, <1>2, <1>4, <1>5, <1>6, <1>7, <1>8 DEF Steady, TablesKept

LEMMA HeartbeatSteady ==
    ASSUME StoreInv, LedgerInv, NEW c, NEW t, HeartbeatClaim(c, t) PROVE Steady
  BY HeartbeatEdits, EditSteady

LEMMA WorkerReportSteady ==
    ASSUME StoreInv, LedgerInv, NEW c, NEW t, NEW w \in Nat, SetWorkerRunId(c, t, w) PROVE Steady
  <1>1. /\ c \in DOMAIN cards /\ cards \in [DOMAIN cards -> Card]
        /\ cards' = [cards EXCEPT ![c] = Repaired(cards[c])] /\ fresh' = fresh
    BY DEF SetWorkerRunId, Owns, Exists, StoreInv, TypeOK
  <1>2. Repaired(cards[c]).token = cards[c].token
    BY <1>1, RepairedCard
  <1>3. DOMAIN cards' = DOMAIN cards /\ \A x \in DOMAIN cards : cards'[x].token = cards[x].token
    BY <1>1, <1>2
  <1>4. StoreInv' /\ LedgerInv' /\ RowsGoOn /\ SettledRunsKept
    BY SetWorkerRunIdInv, WorkerReportLedger, WorkerReportKeepsRuns
  <1> QED
    BY <1>1, <1>3, <1>4 DEF Steady, TablesKept, NoNewClaims

\* Rows of the ledger only.
LEMMA LedgerOnlySteady ==
    ASSUME StoreInv', LedgerInv', RowsGoOn, runs' = runs, fresh' = fresh,
           DOMAIN cards' = DOMAIN cards, \A x \in DOMAIN cards : cards'[x].token = cards[x].token
    PROVE  Steady
  BY DEF Steady, TablesKept, SettledRunsKept, NoNewClaims

LEMMA BoundarySteady ==
    ASSUME StoreInv, LedgerInv, NEW c, NEW t, NEW i, AdvanceBoundary(c, t, i) PROVE Steady
  <1>1. StoreInv' /\ LedgerInv' /\ RowsGoOn
    BY AdvanceBoundaryInv, BoundaryLedger
  <1>2. UNCHANGED <<cards, runs, fresh>>
    BY DEF AdvanceBoundary
  <1> QED
    BY <1>1, <1>2, LedgerOnlySteady

LEMMA SettleStopSteady ==
    ASSUME StoreInv, LedgerInv, NEW i, NEW a \in {"stopping", "status_unknown", "stopped"}, NEW w,
           a = "stopped" => w \in DOMAIN CardVerdict,
           SettleStop(i, a, w)
    PROVE  Steady
  <1>1. StoreInv' /\ LedgerInv' /\ RowsGoOn
    BY SettleStopInv, SettleStopLedger
  <1>2. /\ UNCHANGED <<runs, fresh>>
        /\ \/ cards' = cards
           \/ \E v : cards' = [cards EXCEPT ![cmds[i].card] = Stopped(cards[cmds[i].card], v)]
    BY DEF SettleStop
  <1>3. ASSUME NEW v PROVE \A r \in Card : Stopped(r, v).token = r.token
    BY DEF Stopped, Card
  <1>4. DOMAIN cards' = DOMAIN cards /\ \A x \in DOMAIN cards : cards'[x].token = cards[x].token
    BY <1>2, <1>3 DEF StoreInv, TypeOK
  <1> QED
    BY <1>1, <1>2, <1>4, LedgerOnlySteady

LEMMA SettleResponseSteady ==
    ASSUME StoreInv, LedgerInv, NEW i,
           NEW s \in {"applied", "rejected", "status_unknown"}, SettleResponse(i, s)
    PROVE  Steady
  <1>1. StoreInv' /\ LedgerInv' /\ RowsGoOn
    BY SettleResponseInv, SettleResponseLedger DEF CmdStatuses
  <1>2. UNCHANGED <<cards, runs, fresh>>
    BY DEF SettleResponse
  <1> QED
    BY <1>1, <1>2, LedgerOnlySteady

LEMMA EnqueueSteady == ASSUME StoreInv, LedgerInv, NEW c, Enqueue(c) PROVE Steady
  <1>1. StoreInv' /\ LedgerInv' /\ RowsGoOn
    BY EnqueueInv, EnqueueLedger
  <1>2. /\ UNCHANGED <<runs, fresh>> /\ DOMAIN cards' = DOMAIN cards
        /\ \A x \in DOMAIN cards : cards'[x].token = cards[x].token
    BY DEF Enqueue, Addressable, StoreInv, TypeOK, Card
  <1> QED
    BY <1>1, <1>2, LedgerOnlySteady

LEMMA CancelSteady == ASSUME StoreInv, LedgerInv, NEW c, Cancel(c) PROVE Steady
  <1>1. StoreInv' /\ LedgerInv' /\ RowsGoOn
    BY CancelInv, CancelLedger
  <1>2. /\ UNCHANGED <<runs, fresh>> /\ DOMAIN cards' = DOMAIN cards
        /\ \A x \in DOMAIN cards : cards'[x].token = cards[x].token
    BY DEF Cancel, Addressable, StoreInv, TypeOK, Card
  <1> QED
    BY <1>1, <1>2, LedgerOnlySteady

LEMMA ResponseIntentSteady ==
    ASSUME StoreInv, LedgerInv, epoch \in Nat, NEW c, ResponseIntent(c) PROVE Steady
  <1>1. StoreInv' /\ LedgerInv' /\ RowsGoOn
    BY ResponseIntentInv, ResponseIntentLedger
  <1>2. /\ UNCHANGED <<runs, fresh>> /\ DOMAIN cards' = DOMAIN cards
        /\ \A x \in DOMAIN cards : cards'[x].token = cards[x].token
    BY DEF ResponseIntent, Addressable, StoreInv, TypeOK, Card
  <1> QED
    BY <1>1, <1>2, LedgerOnlySteady

LEMMA DeleteSteady == ASSUME StoreInv, LedgerInv, NEW c, DeleteCard(c) PROVE Steady
  <1>1. Remove({c})
    BY DEF DeleteCard
  <1>2. StoreInv' /\ LedgerInv' /\ RowsGoOn /\ SettledRunsKept
    BY <1>1, RemoveInv, RemoveLedger, RemoveKeepsRuns
  <1>3. fresh' = fresh /\ NoNewClaims
    BY <1>1 DEF Remove, Restrict, NoNewClaims
  <1> QED
    BY <1>2, <1>3 DEF Steady, TablesKept

LEMMA AddVoiceCardSteady ==
    ASSUME StoreInv, LedgerInv, NEW c, NEW p \in Profiles, NEW b \in BOOLEAN, AddVoiceCard(c, p, b)
    PROVE  Steady
  <1>1. StoreInv' /\ LedgerInv' /\ RowsGoOn
    BY AddVoiceCardInv, AddVoiceCardLedger
  <1>2. fresh' \subseteq fresh /\ SettledRunsKept
    BY DEF AddVoiceCard, SettledRunsKept
  <1>3. NoNewClaims
    BY DEF AddVoiceCard, Insert, NewCard, NoNewClaims, StoreInv, TypeOK
  <1> QED
    BY <1>1, <1>2, <1>3 DEF Steady, TablesKept

\* New background cards, one or several at once.
LEMMA InsertSteady ==
    ASSUME StoreInv, LedgerInv, NEW N, N \subseteq fresh \cap BgCards,
           DOMAIN cards' = DOMAIN cards \cup N, cards' \in [DOMAIN cards' -> Card],
           \A x \in DOMAIN cards \ N : cards'[x] = cards[x],
           \A x \in N : cards'[x].token = 0 /\ cards'[x].lease = 0,
           fresh' = fresh \ N,
           UNCHANGED <<runs, links, cmds, now, nextToken, nextCmd>>
    PROVE  Steady
  <1>1. N \cap DOMAIN cards = {} /\ N \subseteq Cards
    BY DEF StoreInv, TypeOK, Cards
  <1>2. \A x \in DOMAIN cards : cards'[x] = cards[x]
    BY <1>1
  <1>3. /\ TypeOK'
    BY <1>1 DEF StoreInv, TypeOK, Exists
  <1>4. ClaimMatchesRun'
    <2>1. \A t \in DOMAIN runs : runs[t].card \in DOMAIN cards
      BY DEF StoreInv, TypeOK, Exists
    <2>2. \A x \in DOMAIN cards' : cards'[x].token # 0 => x \in DOMAIN cards
      OBVIOUS
    <2> QED
      BY <1>2, <2>1, <2>2 DEF StoreInv, ClaimMatchesRun, Claimed
  <1>5. ClaimedIsRunning'
    BY <1>2 DEF StoreInv, ClaimedIsRunning, Claimed
  <1>6. StoreInv'
    BY <1>3, <1>4, <1>5 DEF StoreInv
  <1>7. LedgerInv' /\ RowsGoOn
    BY <1>2, LedgerUntouched
  <1>8. SettledRunsKept /\ NoNewClaims /\ fresh' \subseteq fresh
    BY <1>2 DEF SettledRunsKept, NoNewClaims
  <1> QED
    BY <1>6, <1>7, <1>8 DEF Steady, TablesKept

LEMMA AddForSteady ==
    ASSUME StoreInv, LedgerInv, NEW c, NEW p \in Profiles \cup {NoProfile}, AddFor(c, p)
    PROVE  Steady
  <1> DEFINE k == NewCard("todo", p, 0, AttemptsLimit)
             v == IF p = NoProfile THEN 0 ELSE 1
             N == {c}
  <1>1. k \in Card /\ k.token = 0 /\ k.lease = 0
    <2> AttemptsLimit \in 1..AttemptsLimit /\ "todo" \in Statuses
      BY BoundsAssumption DEF Statuses
    <2> QED
      BY NewCardType
  <1>2. v \in Nat
    OBVIOUS
  <1>3. cards' = Insert(cards, c, [k EXCEPT !.rev = v])
    BY DEF AddFor
  <1>4. /\ c \in fresh \cap BgCards /\ fresh' = fresh \ {c}
        /\ UNCHANGED <<runs, links, cmds, now, nextToken, nextCmd>>
    BY DEF AddFor
  <1> HIDE DEF k, v
  <1>5. PICK r \in Card : r.token = 0 /\ r.lease = 0 /\ cards' = Insert(cards, c, r)
    BY <1>1, <1>2, <1>3 DEF Card
  <1>6. cards \in [DOMAIN cards -> Card]
    BY DEF StoreInv, TypeOK
  <1>7. /\ DOMAIN cards' = DOMAIN cards \cup N /\ cards' \in [DOMAIN cards' -> Card]
        /\ \A x \in DOMAIN cards \ N : cards'[x] = cards[x]
        /\ \A x \in N : cards'[x].token = 0 /\ cards'[x].lease = 0
    BY <1>5, <1>6 DEF Insert
  <1>8. N \subseteq fresh \cap BgCards /\ fresh' = fresh \ N
    BY <1>4
  <1> HIDE DEF N
  <1> QED
    BY <1>4, <1>7, <1>8, InsertSteady

LEMMA GoalStartSteady ==
    ASSUME StoreInv, LedgerInv, NEW p, NEW kids, GoalStart(p, kids)
    PROVE  Steady
  <1> DEFINE N == {p} \cup kids
             k1 == NewCard("in_progress", NoProfile, 0, AttemptsLimit)
             k2 == NewCard("todo", NoProfile, 0, AttemptsLimit)
  <1>1. k1 \in Card /\ k1.token = 0 /\ k1.lease = 0 /\ k2 \in Card /\ k2.token = 0 /\ k2.lease = 0
    <2> /\ AttemptsLimit \in 1..AttemptsLimit /\ "todo" \in Statuses
        /\ "in_progress" \in Statuses /\ NoProfile \in Profiles \cup {NoProfile}
      BY BoundsAssumption DEF Statuses
    <2> QED
      BY NewCardType
  <1>2. cards' = [c \in DOMAIN cards \cup N |->
                    IF c = p THEN [k1 EXCEPT !.rev = 1] ELSE IF c \in kids THEN k2 ELSE cards[c]]
    BY DEF GoalStart
  <1>3. /\ N \subseteq fresh \cap BgCards /\ fresh' = fresh \ N
        /\ UNCHANGED <<runs, links, cmds, now, nextToken, nextCmd>>
    BY DEF GoalStart
  <1> HIDE DEF k1, k2
  <1>3a. /\ [k1 EXCEPT !.rev = 1] \in Card
         /\ [k1 EXCEPT !.rev = 1].token = 0 /\ [k1 EXCEPT !.rev = 1].lease = 0
    BY <1>1 DEF Card
  <1>4. PICK r1 \in Card : r1 = [k1 EXCEPT !.rev = 1] /\ r1.token = 0 /\ r1.lease = 0
    BY <1>3a
  <1>5. cards \in [DOMAIN cards -> Card] /\ p \in N /\ \A x \in N : x = p \/ x \in kids
    BY DEF StoreInv, TypeOK
  <1>6. /\ DOMAIN cards' = DOMAIN cards \cup N
        /\ \A x \in DOMAIN cards \cup N :
              cards'[x] = IF x = p THEN r1 ELSE IF x \in kids THEN k2 ELSE cards[x]
        /\ \A x \in kids : x \in N
    BY <1>2, <1>4
  <1>7. /\ cards' \in [DOMAIN cards' -> Card]
        /\ \A x \in DOMAIN cards \ N : cards'[x] = cards[x]
        /\ \A x \in N : cards'[x].token = 0 /\ cards'[x].lease = 0
    <2> HIDE DEF N
    <2>1. \A x \in DOMAIN cards \ N : cards'[x] = cards[x]
      BY <1>5, <1>6
    <2>2. \A x \in N : cards'[x] \in Card /\ cards'[x].token = 0 /\ cards'[x].lease = 0
      BY <1>1, <1>4, <1>5, <1>6
    <2>3. cards' = [x \in DOMAIN cards' |-> cards'[x]]
      BY <1>2, <1>6
    <2> QED
      BY <1>5, <1>6, <2>1, <2>2, <2>3
  <1> HIDE DEF N
  <1> QED
    BY <1>3, <1>6, <1>7, InsertSteady

LEMMA RecoverSteady == ASSUME StoreInv, LedgerInv, RecoverExpiredClaims PROVE Steady
  <1>1. StoreInv' /\ LedgerInv' /\ RowsGoOn /\ SettledRunsKept
    BY RecoverInv, RecoverLedger, RecoverKeepsRuns
  <1>2. DOMAIN cards' = DOMAIN cards /\ fresh' = fresh
    BY DEF RecoverExpiredClaims
  <1>3. ASSUME NEW x \in DOMAIN cards, cards'[x].token # 0
        PROVE  cards'[x].token = cards[x].token
    <2>1. cards[x] \in Card /\ Expired(x) \in Statuses
      BY RequeuedStatus DEF StoreInv, TypeOK, Expired, Statuses
    <2>2. Released(cards[x], Expired(x)).token = 0 /\ Repaired(cards[x]).token = cards[x].token
      BY <2>1, ReleasedCard, RepairedCard
    <2>3. cards'[x] = IF Lapsed(x) THEN Released(cards[x], Expired(x))
                      ELSE IF Damaged(x) THEN Repaired(cards[x]) ELSE cards[x]
      BY DEF RecoverExpiredClaims
    <2> QED
      BY <1>3, <2>2, <2>3
  <1> QED
    BY <1>1, <1>2, <1>3 DEF Steady, TablesKept, NoNewClaims

LEMMA SoonerNat ==
    ASSUME now \in Nat \ {0}, NEW x \in Nat
    PROVE  Sooner(x) \in Nat /\ (Sooner(x) # 0 <=> x # 0)
  BY DEF Sooner

LEMMA ElapseSteady == ASSUME StoreInv, LedgerInv, Elapse PROVE Steady
  <1>1. /\ cards \in [DOMAIN cards -> Card] /\ now \in Nat \ {0}
        /\ UNCHANGED <<runs, links, cmds, fresh, now, nextToken, nextCmd>>
    BY DEF Elapse, StoreInv, TypeOK
  <1>2. ASSUME NEW x \in DOMAIN cards
        PROVE  /\ cards'[x] \in Card /\ cards'[x].token = cards[x].token
               /\ cards'[x].attempts = cards[x].attempts /\ cards'[x].status = cards[x].status
               /\ cards'[x].lease # 0 <=> cards[x].lease # 0
    <2> DEFINE l == Sooner(cards[x].lease)
               s == Sooner(cards[x].sched)
    <2>1. l \in Nat /\ s \in Nat /\ (l # 0 <=> cards[x].lease # 0)
      BY <1>1, SoonerNat DEF Card
    <2>2. cards'[x] = [cards[x] EXCEPT !.lease = l, !.sched = s]
      BY DEF Elapse
    <2> HIDE DEF l, s
    <2> QED
      BY <1>1, <2>1, <2>2 DEF Card
  <1>3. DOMAIN cards' = DOMAIN cards /\ cards' \in [DOMAIN cards -> Card]
    BY <1>2 DEF Elapse
  <1>4. Quiet
    BY <1>1, <1>2, <1>3 DEF Quiet, StoreInv, TypeOK, Exists
  <1>5. StoreInv' /\ LedgerInv' /\ RowsGoOn
    BY <1>1, <1>2, <1>4, QuietKeepsInv, LedgerUntouched
  <1> QED
    BY <1>1, <1>2, <1>3, <1>5, LedgerOnlySteady

\* An end of the claim and cancel_card's own right behind it.
LEMMA FinishThenCancelSteady ==
    ASSUME StoreInv, LedgerInv, NEW c \in BgCards, NEW t, Owns(c, t), FinishThenCancel(c, t)
    PROVE  Steady /\ c \in DOMAIN cards /\ cards'[c].token = 0
  <1> DEFINE q == Released(cards[c], "cancelled")
             L == {c}
  <1>1. /\ c \in DOMAIN cards /\ cards[c] \in Card /\ cards[c].token = t /\ t # 0
        /\ t \in DOMAIN runs /\ runs[t].card = c /\ runs[t].status = "running"
    BY DEF Owns, Exists, Claimed, StoreInv, TypeOK, ClaimMatchesRun
  <1>2. q \in Card /\ q.token = 0 /\ q.lease = 0
    BY <1>1, ReleasedCard DEF Statuses
  <1>3. Closed(cards[c]) \in Card /\ Closed(cards[c]).token = 0 /\ Closed(cards[c]).lease = 0
    <2>1. Closed(cards[c]) = [q EXCEPT !.sched = 0, !.rev = @ + 1]
      BY DEF Closed
    <2> HIDE DEF q
    <2> DEFINE q2 == [q EXCEPT !.sched = 0]
    <2>2a. q2 \in Card /\ q2.token = 0 /\ q2.lease = 0
      BY <1>2 DEF Card
    <2>2. PICK v \in Card : v = q2 /\ v.token = 0 /\ v.lease = 0
      BY <2>2a
    <2>3. [q EXCEPT !.sched = 0, !.rev = @ + 1] = [v EXCEPT !.rev = v.rev + 1]
      BY <1>2, <2>2 DEF Card
    <2>4. /\ [v EXCEPT !.rev = v.rev + 1] \in Card
          /\ [v EXCEPT !.rev = v.rev + 1].token = 0 /\ [v EXCEPT !.rev = v.rev + 1].lease = 0
      <3> HIDE DEF q2
      <3>1. PICK n \in Nat : n = v.rev + 1
        BY <2>2 DEF Card
      <3>2. [v EXCEPT !.rev = n] \in Card /\ [v EXCEPT !.rev = n].token = 0
            /\ [v EXCEPT !.rev = n].lease = 0
        BY <2>2 DEF Card
      <3> QED
        BY <3>1, <3>2
    <2> QED
      BY <2>1, <2>3, <2>4
  <1>4. PICK r \in Card : r.token = 0 /\ r.lease = 0 /\ cards' = [cards EXCEPT ![c] = r]
    BY <1>3 DEF FinishThenCancel
  <1>5. /\ cards' \in [DOMAIN cards -> Card] /\ cards'[c] = r
        /\ \A x \in DOMAIN cards : x # c => cards'[x] = cards[x]
    BY <1>1, <1>4 DEF StoreInv, TypeOK
  <1>6. /\ runs' \in [DOMAIN runs -> Run] /\ runs'[t].status = "failed" /\ runs'[t].card = c
        /\ \A v \in DOMAIN runs : v # t => runs'[v] = runs[v]
    BY <1>1 DEF FinishThenCancel, StoreInv, TypeOK, Run, Outcomes
  <1>7. UNCHANGED <<links, cmds, fresh, now, nextToken, nextCmd>>
    BY DEF FinishThenCancel
  <1>8. StoreInv'
    <2>1. L \subseteq DOMAIN cards /\ \A x \in L : cards[x].token # 0
      BY <1>1
    <2>2. \A x \in L : cards'[x].token = 0 /\ cards'[x].lease = 0
      BY <1>4, <1>5
    <2>3. \A x \in DOMAIN cards \ L :
             /\ cards'[x].token = cards[x].token /\ cards'[x].attempts = cards[x].attempts
             /\ cards'[x].lease = cards[x].lease
             /\ cards[x].token # 0 /\ cards[x].status = "in_progress"
                   => cards'[x].status = "in_progress"
      BY <1>5
    <2>4. \A v \in DOMAIN runs : runs'[v].card = runs[v].card
      BY <1>1, <1>6
    <2>5. \A v \in DOMAIN runs :
             IF runs[v].card \in L /\ cards[runs[v].card].token = v
             THEN runs'[v].status # "running" ELSE runs'[v] = runs[v]
      BY <1>1, <1>6
    <2>6. cmds' \in [DOMAIN cmds -> Cmd] /\ \A i \in DOMAIN cmds : cmds'[i].card = cmds[i].card
      BY <1>7 DEF StoreInv, TypeOK
    <2> HIDE DEF L
    <2> QED
      BY <1>5, <1>6, <1>7, <2>1, <2>2, <2>3, <2>4, <2>5, <2>6, ReleaseInv
  <1>9. LedgerInv' /\ RowsGoOn
    <2>1. c \notin VoiceCards
      BY ModesDisjoint
    <2>2. \A x \in VoiceCards \cap DOMAIN cards : cards'[x].token = cards[x].token
      BY <1>5, <2>1
    <2> QED
      BY <1>7, <2>2, LedgerUntouched
  <1>10. SettledRunsKept /\ NoNewClaims
    BY <1>1, <1>4, <1>5, <1>6 DEF SettledRunsKept, NoNewClaims
  <1> QED
    BY <1>1, <1>4, <1>5, <1>7, <1>8, <1>9, <1>10 DEF Steady, TablesKept

\* A claim: the card's own, and no other.
LEMMA ClaimEffect ==
    ASSUME StoreInv, LedgerInv, NEW c, NEW w \in Profiles, NEW b \in BOOLEAN, ClaimCard(c, w, b)
    PROVE  /\ TablesKept /\ SettledRunsKept
           /\ c \in DOMAIN cards /\ cards[c].token = 0 /\ cards[c].assignee \in Profiles \cup {NoProfile}
           /\ DOMAIN cards' = DOMAIN cards /\ cards'[c].token = nextToken /\ nextToken \in Nat
           /\ \A x \in DOMAIN cards \ {c} : cards'[x] = cards[x]
  <1>1. /\ c \in DOMAIN cards /\ cards[c] \in Card /\ cards[c].token = 0
        /\ nextToken \in Nat /\ now + LeaseTicks \in Nat
    BY BoundsAssumption DEF ClaimCard, Claimable, Exists, Claimed, StoreInv, TypeOK
  <1>2. /\ cards' = [cards EXCEPT ![c] = Taken(cards[c], nextToken, now + LeaseTicks)]
        /\ fresh' = fresh
    BY DEF ClaimCard
  <1>3. Taken(cards[c], nextToken, now + LeaseTicks).token = nextToken
    BY <1>1, TakenCard
  <1>4. /\ DOMAIN cards' = DOMAIN cards /\ cards'[c].token = nextToken
        /\ \A x \in DOMAIN cards \ {c} : cards'[x] = cards[x]
    BY <1>1, <1>2, <1>3 DEF StoreInv, TypeOK
  <1>5. StoreInv' /\ LedgerInv' /\ RowsGoOn /\ SettledRunsKept
    BY ClaimCardInv, ClaimLedger, ClaimKeepsRuns
  <1> QED
    BY <1>1, <1>2, <1>4, <1>5 DEF TablesKept, Card

\* A late answer revises at most the verdict of the run it was read for.
LEMMA ReconciliationEffect ==
    ASSUME StoreInv, LedgerInv, NEW o, NEW a \in DOMAIN Reconciled, SettleReconciliation(o, a)
    PROVE  TablesKept /\ NoNewClaims
  <1>1. StoreInv' /\ LedgerInv' /\ RowsGoOn
    BY SettleReconciliationInv, ReconciliationLedger
  <1>2. /\ DOMAIN cards' = DOMAIN cards /\ fresh' = fresh
        /\ \A x \in DOMAIN cards : cards'[x].token = cards[x].token
    BY DEF SettleReconciliation, StoreInv, TypeOK, Card
  <1> QED
    BY <1>1, <1>2 DEF TablesKept, NoNewClaims

-----------------------------------------------------------------------------
(* Orders of a queue.                                                      *)

LEMMA WithoutOrders ==
    ASSUME NEW S, NEW T, NEW R \in Orders(S) PROVE Without(R, T) \in Orders(S \ T)
  <1>1. Without(R, T) \in SUBSET ((S \ T) \X (S \ T))
    BY DEF Orders, Without
  <1>2. \A p \in S \ T : <<p, p>> \notin Without(R, T)
    BY DEF Orders, Without
  <1>3. \A p, q \in S \ T : p # q => (<<p, q>> \in Without(R, T) \/ <<q, p>> \in Without(R, T))
    BY DEF Orders, Without
  <1>4. \A p, q, r \in S \ T : <<p, q>> \in Without(R, T) /\ <<q, r>> \in Without(R, T)
                                 => <<p, r>> \in Without(R, T)
    BY DEF Orders, Without
  <1> QED
    BY <1>1, <1>2, <1>3, <1>4 DEF Orders

\* Newcomers behind all who are in line.
LEMMA JoinOrders ==
    ASSUME NEW S, NEW T, S \cap T = {}, NEW R \in Orders(S), NEW Q \in Orders(T)
    PROVE  R \cup (S \X T) \cup Q \in Orders(S \cup T)
  <1> DEFINE J == R \cup (S \X T) \cup Q
  <1>1. R \subseteq S \X S /\ Q \subseteq T \X T
    BY DEF Orders
  <1>2. J \in SUBSET ((S \cup T) \X (S \cup T))
    BY <1>1
  <1>3. ASSUME NEW p, NEW q
        PROVE  <<p, q>> \in J <=> \/ <<p, q>> \in R /\ p \in S /\ q \in S
                                  \/ p \in S /\ q \in T
                                  \/ <<p, q>> \in Q /\ p \in T /\ q \in T
    BY <1>1
  <1> HIDE DEF J
  <1>4. \A p \in S \cup T : <<p, p>> \notin J
    BY <1>3 DEF Orders
  <1>5. ASSUME NEW p \in S \cup T, NEW q \in S \cup T, p # q
        PROVE  <<p, q>> \in J \/ <<q, p>> \in J
    BY <1>3, <1>5 DEF Orders
  <1>6. ASSUME NEW p \in S \cup T, NEW q \in S \cup T, NEW r \in S \cup T,
               <<p, q>> \in J, <<q, r>> \in J
        PROVE  <<p, r>> \in J
    <2>1. CASE p \in S /\ r \in T
      BY <1>3, <2>1
    <2>2. CASE p \in S /\ r \in S
      BY <1>3, <1>6, <2>2 DEF Orders
    <2>3. CASE p \in T
      BY <1>3, <1>6, <2>3 DEF Orders
    <2> QED
      BY <2>1, <2>2, <2>3
  <1>7. J \in Orders(S \cup T)
    BY <1>2, <1>4, <1>5, <1>6 DEF Orders
  <1> QED
    BY <1>7 DEF J

\* Whoever waits again goes to the end.
LEMMA ToTheEnd ==
    ASSUME NEW S, NEW e \in S, NEW R \in Orders(S)
    PROVE  Without(R, {e}) \cup ((S \ {e}) \X {e}) \in Orders(S)
  <1>1. Without(R, {e}) \in Orders(S \ {e})
    BY WithoutOrders
  <1>2. {} \in Orders({e})
    BY DEF Orders
  <1>3. Without(R, {e}) \cup ((S \ {e}) \X {e}) \cup {} \in Orders((S \ {e}) \cup {e})
    BY <1>1, <1>2, JoinOrders
  <1>4. (S \ {e}) \cup {e} = S
    OBVIOUS
  <1> QED
    BY <1>3, <1>4

-----------------------------------------------------------------------------
(* The inductive invariant.                                                *)

Pcs  == {"idle", "queued", "profile", "running", "unwind", "notify", "ending",
         "returned", "raised"}
Exec == [pc : Pcs, worker : Profiles \cup {NoProfile}, token : Nat,
         profile : Profiles \cup {NoProfile}, pend : BOOLEAN, err : BOOLEAN]

\* Only cards that exist or existed have executions, whoever waits for a bot
\* has one, and a card has no dispatch task next to an explicit run.
ExecsOK ==
    /\ ex \in [Execs -> Exec]
    /\ \A e \in Execs : ex[e].pc # "idle" => e[2] \notin fresh
    /\ \A e \in Execs : ex[e].pc = "profile" => ex[e].worker \in Profiles
    /\ \A c \in Cards : ~(ex[Manual(c)].pc # "idle" /\ ex[Dispatch(c)].pc # "idle")

\* The line is an order of those who wait, and the budget is kept.
BooksOK ==
    /\ line \in Orders(Waiters)
    /\ IsFiniteSet(Inside) /\ Cardinality(Inside) <= MaxParallel

\* Only background cards are cancelled through a task.
ControlOK ==
    /\ reg \in [Cards -> Execs \cup {NoExec}]
    /\ \A c \in Cards : reg[c] # NoExec => reg[c][2] = c
    /\ cancelReq \subseteq BgCards /\ cancelling \subseteq BgCards
    /\ phase \in {"up", "stopping", "stopped"} /\ wake \in BOOLEAN
    /\ boot \in Nat /\ epoch \in Nat

OrchInv == StoreInv /\ LedgerInv /\ ExecsOK /\ BooksOK /\ ControlOK /\ NoOrphanClaim

LEMMA ExecNames ==
    ASSUME NEW e \in Execs
    PROVE  /\ e = <<e[1], e[2]>> /\ e[1] \in Kinds /\ e[2] \in Cards /\ e # NoExec
  BY DEF Execs, NoExec

LEMMA ExecOf ==
    ASSUME NEW c \in Cards
    PROVE  /\ Manual(c) \in Execs /\ Manual(c)[1] = "manual" /\ Manual(c)[2] = c
           /\ Dispatch(c) \in Execs /\ Dispatch(c)[1] = "dispatch" /\ Dispatch(c)[2] = c
           /\ Manual(c) # Dispatch(c) /\ Manual(c) # NoExec
  BY DEF Execs, Kinds, Manual, Dispatch, NoExec

LEMMA IdleExec == Idle \in Exec /\ Idle.pc = "idle"
  BY DEF Idle, Exec, Pcs

LEMMA QueuedExec == [Idle EXCEPT !.pc = "queued"] \in Exec /\ [Idle EXCEPT !.pc = "queued"].pc = "queued"
  BY DEF Idle, Exec, Pcs

LEMMA ReturnExec ==
    ASSUME NEW e, ex[e] \in Exec
    PROVE  Return(e) \in Exec /\ Return(e).pc \in {"returned", "notify"}
  <1>1. ex[e].pend \in BOOLEAN
    BY DEF Exec
  <1> QED
    BY <1>1 DEF Return, Idle, Exec, Pcs

LEMMA RaiseExec ==
    ASSUME NEW e
    PROVE  Raise(e) \in Exec /\ Raise(e).pc \in {"raised", "ending"}
  BY DEF Raise, Idle, Exec, Pcs

\* A step that starts no execution.
LEMMA ExecsKept ==
    ASSUME ExecsOK, fresh' \subseteq fresh, ex' \in [Execs -> Exec],
           \A e \in Execs : ex'[e].pc # "idle" => ex[e].pc # "idle",
           \A e \in Execs : ex'[e].pc = "profile" => ex'[e].worker \in Profiles
    PROVE  ExecsOK'
  BY ExecOf DEF ExecsOK, Manual, Dispatch

\* Execution e goes on to r.
LEMMA OneGoesOn ==
    ASSUME ExecsOK, fresh' \subseteq fresh, NEW e \in Execs, NEW r \in Exec,
           ex' = [ex EXCEPT ![e] = r],
           ex[e].pc # "idle", r.pc = "profile" => r.worker \in Profiles
    PROVE  /\ ExecsOK' /\ ex'[e] = r
           /\ \A f \in Execs \ {e} : ex'[f] = ex[f]
  <1>1. /\ ex' \in [Execs -> Exec] /\ ex'[e] = r /\ \A f \in Execs \ {e} : ex'[f] = ex[f]
    BY DEF ExecsOK
  <1>2. \A f \in Execs : ex'[f].pc # "idle" => ex[f].pc # "idle"
    BY <1>1
  <1>3. \A f \in Execs : ex'[f].pc = "profile" => ex'[f].worker \in Profiles
    BY <1>1 DEF ExecsOK
  <1> QED
    BY <1>1, <1>2, <1>3, ExecsKept

LEMMA BudgetKept ==
    ASSUME BooksOK, NEW e, Inside' \subseteq Inside \/ (SlotFree /\ Inside' \subseteq Inside \cup {e})
    PROVE  IsFiniteSet(Inside') /\ Cardinality(Inside') <= MaxParallel
  <1>1. IsFiniteSet(Inside) /\ Cardinality(Inside) \in Nat /\ Cardinality(Inside) <= MaxParallel
    BY FS_CardinalityType DEF BooksOK
  <1>2. MaxParallel \in Nat
    BY ParallelAssumption
  <1>3. CASE Inside' \subseteq Inside
    <2>1. IsFiniteSet(Inside') /\ Cardinality(Inside') <= Cardinality(Inside)
      BY <1>1, <1>3, FS_Subset
    <2>2. Cardinality(Inside') \in Nat
      BY <2>1, FS_CardinalityType
    <2> QED
      BY <1>1, <1>2, <2>1, <2>2
  <1>4. CASE SlotFree /\ Inside' \subseteq Inside \cup {e}
    <2>1. IsFiniteSet(Inside \cup {e}) /\ Cardinality(Inside \cup {e}) <= Cardinality(Inside) + 1
      <3>1. /\ IsFiniteSet(Inside \cup {e})
            /\ Cardinality(Inside \cup {e}) = IF e \in Inside THEN Cardinality(Inside)
                                             ELSE Cardinality(Inside) + 1
        BY <1>1, FS_AddElement
      <3> HIDE DEF Inside
      <3> QED
        BY <1>1, <3>1
    <2>2. IsFiniteSet(Inside') /\ Cardinality(Inside') <= Cardinality(Inside \cup {e})
      BY <1>4, <2>1, FS_Subset
    <2>3. Cardinality(Inside') \in Nat /\ Cardinality(Inside \cup {e}) \in Nat
      BY <2>1, <2>2, FS_CardinalityType
    <2>4. Cardinality(Inside) < MaxParallel
      BY <1>4 DEF SlotFree
    <2> QED
      BY <1>1, <1>2, <2>1, <2>2, <2>3, <2>4
  <1> QED
    BY <1>3, <1>4

\* Nobody joins or leaves the line.
LEMMA LineKept ==
    ASSUME BooksOK, line' = line,
           \A f \in Execs : ex'[f].pc \in {"queued", "profile"} <=> ex[f].pc \in {"queued", "profile"},
           \A f \in Execs : ex'[f].pc \in {"profile", "running", "unwind"}
                               => ex[f].pc \in {"profile", "running", "unwind"}
    PROVE  BooksOK'
  <1>1. Waiters' = Waiters /\ Inside' \subseteq Inside
    BY DEF Waiters, Inside
  <1> QED
    BY <1>1, BudgetKept DEF BooksOK

\* Execution e leaves the line.
LEMMA LineLeft ==
    ASSUME BooksOK, NEW e \in Execs, line' = Left(e),
           \A f \in Execs \ {e} : ex'[f] = ex[f],
           ex'[e].pc \notin {"queued", "profile"},
           \/ ex'[e].pc \notin {"running", "unwind"}
           \/ ex[e].pc \in {"profile", "running", "unwind"}
           \/ SlotFree
    PROVE  BooksOK'
  <1>1. Waiters' = Waiters \ {e}
    BY DEF Waiters
  <1>2. line' \in Orders(Waiters')
    BY <1>1, WithoutOrders DEF BooksOK, Left
  <1>3. Inside' \subseteq Inside \/ (SlotFree /\ Inside' \subseteq Inside \cup {e})
    BY DEF Inside
  <1> QED
    BY <1>2, <1>3, BudgetKept DEF BooksOK

\* Executions S join the line.
LEMMA LineJoined ==
    ASSUME BooksOK, NEW S, S \subseteq Execs, Join(S),
           \A f \in Execs \ S : ex'[f] = ex[f],
           \A f \in S : ex'[f].pc = "queued" /\ ex[f].pc = "idle"
    PROVE  BooksOK'
  <1>1. Waiters' = Waiters \cup S /\ Waiters \cap S = {} /\ Inside' \subseteq Inside
    BY DEF Waiters, Inside
  <1>2. PICK q \in Orders(S) : line' = line \cup (Waiters \X S) \cup q
    BY DEF Join
  <1>3. line' \in Orders(Waiters')
    BY <1>1, <1>2, JoinOrders DEF BooksOK
  <1> QED
    BY <1>1, <1>3, BudgetKept DEF BooksOK

\* A claim stays with its worker through a step that makes no claim, unless
\* the worker leaves and the claim with it.
LEMMA ClaimsKept ==
    ASSUME NoOrphanClaim, NoNewClaims, boot' = boot,
           \A e \in Execs : /\ ex[e].pc = "running" /\ e[2] \in DOMAIN cards'
                            /\ cards'[e[2]].token = ex[e].token /\ ex[e].token # 0
                            => ex'[e].pc = "running" /\ ex'[e].token = ex[e].token
    PROVE  NoOrphanClaim'
  <1> SUFFICES ASSUME NEW c \in DOMAIN cards', cards'[c].token # 0, cards'[c].token >= boot
               PROVE  \E e \in Execs : /\ e[2] = c /\ ex'[e].pc = "running"
                                       /\ ex'[e].token = cards'[c].token
    BY DEF NoOrphanClaim, Claimed, Running
  <1>1. c \in DOMAIN cards /\ cards'[c].token = cards[c].token
    BY DEF NoNewClaims
  <1>2. PICK e \in Execs : e[2] = c /\ ex[e].pc = "running" /\ ex[e].token = cards[c].token
    BY <1>1 DEF NoOrphanClaim, Claimed, Running
  <1> QED
    BY <1>1, <1>2

-----------------------------------------------------------------------------
(* Every step keeps the invariant.                                         *)

StepOK == OrchInv' /\ RowsGoOn /\ VerdictsFenced

LEMMA RunsStay == ASSUME SettledRunsKept, obs \subseteq obs' PROVE VerdictsFenced
  BY DEF SettledRunsKept, VerdictsFenced

LEMMA ControlSame ==
    ASSUME ControlOK, UNCHANGED <<reg, cancelReq, cancelling, phase, wake, boot, epoch>>
    PROVE  ControlOK'
  BY DEF ControlOK

\* Steps that concern no execution.
LEMMA NobodyMoves ==
    ASSUME OrchInv, Steady, ControlOK', obs \subseteq obs', UNCHANGED <<ex, line, boot>>
    PROVE  StepOK
  <1>1. /\ StoreInv /\ LedgerInv /\ ExecsOK /\ BooksOK /\ ControlOK /\ NoOrphanClaim
        /\ TablesKept /\ SettledRunsKept /\ NoNewClaims
    BY DEF OrchInv, Steady
  <1>2. StoreInv' /\ LedgerInv' /\ RowsGoOn /\ fresh' \subseteq fresh
    BY <1>1 DEF TablesKept
  <1>3. ExecsOK'
    BY <1>1, <1>2 DEF ExecsOK
  <1>4. BooksOK'
    BY <1>1, LineKept
  <1>5. NoOrphanClaim'
    BY <1>1, ClaimsKept
  <1> QED
    BY <1>1, <1>2, <1>3, <1>4, <1>5, RunsStay DEF StepOK, OrchInv

\* Steps of one execution that make no claim.
LEMMA OneMoves ==
    ASSUME OrchInv, Steady, ControlOK', obs \subseteq obs', boot' = boot,
           NEW e \in Execs, NEW r \in Exec, ex' = [ex EXCEPT ![e] = r],
           ex[e].pc # "idle", r.pc = "profile" => r.worker \in Profiles,
           \/ /\ line' = line
              /\ r.pc \in {"queued", "profile"} <=> ex[e].pc \in {"queued", "profile"}
              /\ r.pc \in {"profile", "running", "unwind"}
                    => ex[e].pc \in {"profile", "running", "unwind"}
           \/ line' = Left(e) /\ r.pc \notin {"queued", "profile", "running", "unwind"},
           /\ ex[e].pc = "running" /\ e[2] \in DOMAIN cards'
           /\ cards'[e[2]].token = ex[e].token /\ ex[e].token # 0
           => r.pc = "running" /\ r.token = ex[e].token
    PROVE  StepOK
  <1>1. /\ StoreInv /\ LedgerInv /\ ExecsOK /\ BooksOK /\ ControlOK /\ NoOrphanClaim
        /\ TablesKept /\ SettledRunsKept /\ NoNewClaims
    BY DEF OrchInv, Steady
  <1>2. StoreInv' /\ LedgerInv' /\ RowsGoOn /\ fresh' \subseteq fresh
    BY <1>1 DEF TablesKept
  <1>3. ExecsOK' /\ ex'[e] = r /\ \A f \in Execs \ {e} : ex'[f] = ex[f]
    BY <1>1, <1>2, OneGoesOn
  <1>4. BooksOK'
    <2>1. CASE /\ line' = line
               /\ r.pc \in {"queued", "profile"} <=> ex[e].pc \in {"queued", "profile"}
               /\ r.pc \in {"profile", "running", "unwind"}
                     => ex[e].pc \in {"profile", "running", "unwind"}
      <3>1. /\ \A f \in Execs : ex'[f].pc \in {"queued", "profile"}
                                   <=> ex[f].pc \in {"queued", "profile"}
            /\ \A f \in Execs : ex'[f].pc \in {"profile", "running", "unwind"}
                                   => ex[f].pc \in {"profile", "running", "unwind"}
        BY <1>3, <2>1
      <3> QED
        BY <1>1, <2>1, <3>1, LineKept
    <2>2. CASE line' = Left(e) /\ r.pc \notin {"queued", "profile", "running", "unwind"}
      BY <1>1, <1>3, <2>2, LineLeft
    <2> QED
      BY <2>1, <2>2
  <1>5. NoOrphanClaim'
    <2>1. ASSUME NEW f \in Execs, ex[f].pc = "running", f[2] \in DOMAIN cards',
                 cards'[f[2]].token = ex[f].token, ex[f].token # 0
          PROVE  ex'[f].pc = "running" /\ ex'[f].token = ex[f].token
      BY <1>3, <2>1
    <2> QED
      BY <1>1, <2>1, ClaimsKept
  <1> QED
    BY <1>1, <1>2, <1>3, <1>4, <1>5, RunsStay DEF StepOK, OrchInv

LEMMA TryClaimOK ==
    ASSUME OrchInv, NEW e \in Execs, NEW w \in Profiles,
           ex[e].pc = "profile" \/ (ex[e].pc = "queued" /\ SlotFree), TryClaim(e, w),
           UNCHANGED <<obs, epoch, cancelReq, cancelling, goal, asks, wake, phase, boot>>
    PROVE  StepOK
  <1> DEFINE c == e[2]
             b == e[1] = "manual"
  <1>1. /\ StoreInv /\ LedgerInv /\ ExecsOK /\ BooksOK /\ ControlOK /\ NoOrphanClaim
        /\ ex[e] \in Exec /\ line' = Left(e) /\ b \in BOOLEAN /\ c \in Cards
    BY ExecNames DEF OrchInv, ExecsOK, TryClaim
  <1>2. CASE Claimable(c, b)
    <2> DEFINE r == [ex[e] EXCEPT !.pc = "running", !.worker = w, !.token = nextToken,
                                  !.profile = cards[c].assignee]
    <2>1. /\ ClaimCard(c, w, b) /\ ex' = [ex EXCEPT ![e] = r] /\ reg' = [reg EXCEPT ![c] = e]
      BY <1>2 DEF TryClaim
    <2>2. /\ TablesKept /\ SettledRunsKept
          /\ c \in DOMAIN cards /\ cards[c].token = 0
          /\ cards[c].assignee \in Profiles \cup {NoProfile}
          /\ DOMAIN cards' = DOMAIN cards /\ cards'[c].token = nextToken /\ nextToken \in Nat
          /\ \A x \in DOMAIN cards \ {c} : cards'[x] = cards[x]
      BY <1>1, <2>1, ClaimEffect
    <2>3. r \in Exec /\ r.pc = "running" /\ r.token = nextToken
      BY <1>1, <2>2 DEF Exec, Pcs
    <2> HIDE DEF r
    <2>4. StoreInv' /\ LedgerInv' /\ RowsGoOn /\ fresh' \subseteq fresh
      BY <2>2 DEF TablesKept
    <2>5. ExecsOK' /\ ex'[e] = r /\ \A f \in Execs \ {e} : ex'[f] = ex[f]
      BY <1>1, <2>1, <2>3, <2>4, OneGoesOn
    <2>6. BooksOK'
      BY <1>1, <2>3, <2>5, LineLeft
    <2>7. ControlOK'
      BY <1>1, <2>1, ExecNames DEF ControlOK
    <2>8. NoOrphanClaim'
      <3> SUFFICES ASSUME NEW d \in DOMAIN cards', cards'[d].token # 0, cards'[d].token >= boot
                   PROVE  \E f \in Execs : /\ f[2] = d /\ ex'[f].pc = "running"
                                           /\ ex'[f].token = cards'[d].token
        BY DEF NoOrphanClaim, Claimed, Running
      <3>1. CASE d = c
        BY <2>2, <2>3, <2>5, <3>1
      <3>2. CASE d # c
        <4>1. d \in DOMAIN cards /\ cards'[d] = cards[d]
          BY <2>2, <3>2
        <4>2. PICK f \in Execs : f[2] = d /\ ex[f].pc = "running" /\ ex[f].token = cards[d].token
          BY <1>1, <4>1 DEF NoOrphanClaim, Claimed, Running
        <4> QED
          BY <2>5, <3>2, <4>1, <4>2
      <3> QED
        BY <3>1, <3>2
    <2>9. VerdictsFenced
      BY <2>2, RunsStay
    <2> QED
      BY <2>4, <2>5, <2>6, <2>7, <2>8, <2>9 DEF StepOK, OrchInv
  <1>3. CASE ~Claimable(c, b)
    <2>1. /\ UNCHANGED storeVars /\ reg' = reg
          /\ ex' = [ex EXCEPT ![e] = IF Exists(c) THEN Return(e) ELSE Raise(e)]
      BY <1>3 DEF TryClaim
    <2>2. PICK r \in Exec : /\ ex' = [ex EXCEPT ![e] = r]
                            /\ r.pc \in {"returned", "notify", "raised", "ending"}
      BY <1>1, <2>1, ReturnExec, RaiseExec
    <2>3. Steady
      BY <1>1, <2>1, NothingSteady
    <2>4. ControlOK'
      BY <1>1, <2>1, ControlSame
    <2> QED
      BY <1>1, <2>2, <2>3, <2>4, OneMoves
  <1> QED
    BY <1>2, <1>3

LEMMA EnterOK == ASSUME OrchInv, NEW e \in Execs, Enter(e) PROVE StepOK
  <1> DEFINE c == e[2]
             w == IF cards[c].assignee = NoProfile THEN Default ELSE cards[c].assignee
  <1>1. /\ StoreInv /\ LedgerInv /\ ExecsOK /\ BooksOK /\ ControlOK /\ NoOrphanClaim
        /\ ex[e] \in Exec /\ ex[e].pc = "queued" /\ SlotFree
        /\ UNCHANGED <<obs, epoch, cancelReq, cancelling, goal, asks, wake, phase, boot>>
    BY DEF OrchInv, ExecsOK, Enter
  <1>2. CASE ~Exists(c) \/ cards[c].status = "cancelled"
    <2>1. /\ ex' = [ex EXCEPT ![e] = Return(e)] /\ line' = Left(e)
          /\ UNCHANGED storeVars /\ reg' = reg
      BY <1>2 DEF Enter
    <2>2. Return(e) \in Exec /\ Return(e).pc \in {"returned", "notify"}
      BY <1>1, ReturnExec
    <2>3. Steady /\ ControlOK'
      BY <1>1, <2>1, NothingSteady, ControlSame
    <2> QED
      BY <1>1, <2>1, <2>2, <2>3, OneMoves
  <1>3. CASE ~(~Exists(c) \/ cards[c].status = "cancelled")
    <2>1. w \in Profiles
      BY <1>1, <1>3, ProfilesAssumption DEF StoreInv, TypeOK, Exists, Card
    <2>2. CASE TryClaim(e, w)
      <3> HIDE DEF w
      <3> QED
        BY <1>1, <2>1, <2>2, TryClaimOK
    <2>3. CASE /\ ex' = [ex EXCEPT ![e].pc = "profile", ![e].worker = w]
               /\ line' = Left(e) \cup ((Waiters \ {e}) \X {e})
               /\ UNCHANGED storeVars /\ UNCHANGED reg
      <3> HIDE DEF w
      <3> DEFINE r == [ex[e] EXCEPT !.pc = "profile", !.worker = w]
      <3>1. ex' = [ex EXCEPT ![e] = r]
        BY <1>1, <2>3 DEF ExecsOK
      <3>2. r \in Exec /\ r.pc = "profile" /\ r.worker \in Profiles
        BY <1>1, <2>1 DEF Exec, Pcs
      <3> HIDE DEF r
      <3>3. Steady
        BY <1>1, <2>3, NothingSteady
      <3>4. StoreInv' /\ LedgerInv' /\ RowsGoOn /\ fresh' \subseteq fresh /\ SettledRunsKept /\ NoNewClaims
        BY <3>3 DEF Steady, TablesKept
      <3>5. ExecsOK' /\ ex'[e] = r /\ \A f \in Execs \ {e} : ex'[f] = ex[f]
        BY <1>1, <3>1, <3>2, <3>4, OneGoesOn
      <3>6. BooksOK'
        <4>1. Waiters' = Waiters /\ e \in Waiters /\ Inside' \subseteq Inside \cup {e}
          BY <1>1, <3>2, <3>5 DEF Waiters, Inside
        <4>2. line' \in Orders(Waiters')
          BY <1>1, <2>3, <4>1, ToTheEnd DEF BooksOK, Left
        <4> QED
          BY <1>1, <4>1, <4>2, BudgetKept DEF BooksOK
      <3>7. ControlOK'
        BY <1>1, <2>3, ControlSame
      <3>8. NoOrphanClaim'
        <4>1. \A f \in Execs : ex[f].pc = "running" => ex'[f] = ex[f]
          BY <1>1, <3>5
        <4> QED
          BY <1>1, <3>4, <4>1, ClaimsKept
      <3> QED
        BY <1>1, <3>4, <3>5, <3>6, <3>7, <3>8, RunsStay DEF StepOK, OrchInv
    <2> QED
      BY <1>3, <2>2, <2>3 DEF Enter
  <1> QED
    BY <1>2, <1>3

LEMMA AcquireOK == ASSUME OrchInv, NEW e \in Execs, Acquire(e) PROVE StepOK
  <1>1. /\ ex[e].pc = "profile" /\ TryClaim(e, ex[e].worker)
        /\ UNCHANGED <<obs, epoch, cancelReq, cancelling, goal, asks, wake, phase, boot>>
    BY DEF Acquire
  <1>2. ex[e].worker \in Profiles
    BY <1>1 DEF OrchInv, ExecsOK
  <1> QED
    BY <1>1, <1>2, TryClaimOK

\* The worker of e is gone, and so is its hold on the card.
LEMMA WorkerLeaves ==
    ASSUME OrchInv, Steady, ControlOK', obs \subseteq obs', line' = line, boot' = boot,
           NEW e \in Execs, ex[e].pc = "running", NEW b \in BOOLEAN,
           ex' = [ex EXCEPT ![e].pc = "unwind", ![e].pend = FALSE, ![e].err = b],
           ~Owns(e[2], ex[e].token) \/ cards'[e[2]].token = 0
    PROVE  StepOK
  <1> DEFINE r == [ex[e] EXCEPT !.pc = "unwind", !.pend = FALSE, !.err = b]
  <1>1. ex[e] \in Exec /\ ex' = [ex EXCEPT ![e] = r]
    BY DEF OrchInv, ExecsOK
  <1>2. r \in Exec /\ r.pc = "unwind"
    BY <1>1 DEF Exec, Pcs
  <1>3. ~(/\ e[2] \in DOMAIN cards' /\ cards'[e[2]].token = ex[e].token /\ ex[e].token # 0)
    BY DEF Steady, NoNewClaims, Owns, Exists, Claimed
  <1> HIDE DEF r
  <1> QED
    BY <1>1, <1>2, <1>3, OneMoves

LEMMA SettleOK ==
    ASSUME OrchInv, NEW e \in Execs, ex[e].pc = "running",
           NEW o \in Outcomes, NEW d \in Nat, NEW u \in BOOLEAN, Settle(e, o, d, u),
           UNCHANGED <<obs, epoch, reg, cancelReq, cancelling, goal, line, asks, wake, phase, boot>>
    PROVE  StepOK
  <1> DEFINE stale == ~Owns(e[2], ex[e].token)
  <1>1. StoreInv /\ LedgerInv /\ ControlOK /\ stale \in BOOLEAN
    BY DEF OrchInv
  <1>2. ex' = [ex EXCEPT ![e].pc = "unwind", ![e].pend = FALSE, ![e].err = stale]
    BY DEF Settle
  <1>3. CASE stale
    <2>1. UNCHANGED storeVars
      BY <1>3 DEF Settle
    <2>2. Steady /\ ControlOK'
      BY <1>1, <2>1, NothingSteady, ControlSame
    <2> QED
      BY <1>1, <1>2, <1>3, <2>2, WorkerLeaves
  <1>4. CASE ~stale
    <2>1. FinishClaim(e[2], ex[e].token, o, d, u)
      BY <1>4 DEF Settle
    <2>2. Steady /\ cards'[e[2]].token = 0 /\ ControlOK'
      BY <1>1, <2>1, FinishSteady, ControlSame
    <2> QED
      BY <1>1, <1>2, <2>2, WorkerLeaves
  <1> QED
    BY <1>3, <1>4

LEMMA SpawnDoneOK == ASSUME OrchInv, NEW e \in Execs, SpawnDone(e) PROVE StepOK
  <1>1. "done" \in Outcomes
    BY DEF Outcomes
  <1> QED
    BY <1>1, SettleOK DEF SpawnDone, Running

LEMMA SpawnFailedOK == ASSUME OrchInv, NEW e \in Execs, SpawnFailed(e) PROVE StepOK
  <1>1. /\ ex[e].pc = "running"
        /\ UNCHANGED <<obs, epoch, reg, cancelReq, cancelling, goal, line, asks, wake, phase, boot>>
    BY DEF SpawnFailed, Running
  <1>2. PICK o \in Outcomes, d \in Nat, u \in BOOLEAN : Settle(e, o, d, u)
    <2>1. {"failed", "cancelled"} \subseteq Outcomes /\ RetryDelays \subseteq Nat
      BY BoundsAssumption DEF Outcomes
    <2>2. \/ \E d \in RetryDelays, u \in BOOLEAN : Settle(e, "failed", d, u)
          \/ Settle(e, "cancelled", 0, FALSE)
      BY DEF SpawnFailed
    <2> QED
      BY <2>1, <2>2
  <1> QED
    BY <1>1, <1>2, SettleOK

LEMMA SpawnCancelledOK == ASSUME OrchInv, NEW e \in Execs, SpawnCancelled(e) PROVE StepOK
  <1> DEFINE c == e[2]
             t == ex[e].token
             waits == c \in cancelling /\ e[1] # "manual"
             outcome == IF c \in cancelReq THEN "cancelled" ELSE "failed"
             stale == ~Owns(c, t)
  <1>1. /\ StoreInv /\ LedgerInv /\ ControlOK /\ stale \in BOOLEAN
        /\ ex[e].pc = "running"
        /\ UNCHANGED <<obs, epoch, reg, cancelReq, goal, line, asks, wake, phase, boot>>
        /\ cancelling' \subseteq cancelling
    BY DEF OrchInv, SpawnCancelled, Running
  <1>2. ex' = [ex EXCEPT ![e].pc = "unwind", ![e].pend = FALSE, ![e].err = stale]
    BY DEF SpawnCancelled
  <1>3. ControlOK'
    BY <1>1 DEF ControlOK
  <1>4. CASE stale
    <2>1. EnsureTerminal(c) \/ UNCHANGED storeVars
      BY <1>4 DEF SpawnCancelled
    <2>2. Steady
      BY <1>1, <2>1, NothingSteady, EnsureTerminalSteady
    <2> QED
      BY <1>1, <1>2, <1>3, <1>4, <2>2, WorkerLeaves
  <1>5. CASE ~stale /\ waits /\ outcome = "failed"
    <2>1. FinishThenCancel(c, t) /\ Owns(c, t)
      BY <1>5 DEF SpawnCancelled
    <2>2. c \in BgCards
      BY <1>1, <1>5 DEF ControlOK
    <2>3. Steady /\ cards'[c].token = 0
      BY <1>1, <2>1, <2>2, FinishThenCancelSteady
    <2> QED
      BY <1>1, <1>2, <1>3, <2>3, WorkerLeaves
  <1>6. CASE ~stale /\ ~(waits /\ outcome = "failed")
    <2>1. FinishClaim(c, t, outcome, 0, c \in VoiceCards)
      BY <1>6 DEF SpawnCancelled
    <2>2. outcome \in Outcomes /\ (c \in VoiceCards) \in BOOLEAN
      BY DEF Outcomes
    <2> HIDE DEF outcome
    <2>3. Steady /\ cards'[c].token = 0
      BY <1>1, <2>1, <2>2, FinishSteady
    <2> QED
      BY <1>1, <1>2, <1>3, <2>3, WorkerLeaves
  <1> QED
    BY <1>4, <1>5, <1>6

LEMMA UnwindOK == ASSUME OrchInv, NEW e \in Execs, Unwind(e) PROVE StepOK
  <1>1. /\ StoreInv /\ LedgerInv /\ ExecsOK /\ ControlOK /\ ex[e] \in Exec /\ ex[e].pc = "unwind"
        /\ UNCHANGED voiceVars /\ UNCHANGED <<cancelling, goal, line, asks, phase, boot>>
        /\ reg' = [reg EXCEPT ![e[2]] = NoExec] /\ cancelReq' \subseteq cancelReq /\ wake' = TRUE
    BY DEF OrchInv, ExecsOK, Unwind
  <1>2. PICK r \in Exec : /\ ex' = [ex EXCEPT ![e] = r]
                          /\ r.pc \in {"returned", "notify", "raised", "ending"}
    <2>1. ex' = [ex EXCEPT ![e] = IF ex[e].err THEN Raise(e) ELSE Return(e)]
      BY DEF Unwind
    <2> QED
      BY <1>1, <2>1, ReturnExec, RaiseExec
  <1>3. Steady /\ obs' = obs /\ epoch' = epoch
    BY <1>1, NothingSteady DEF voiceVars, storeVars
  <1>4. ControlOK'
    BY <1>1, <1>3, ExecNames DEF ControlOK
  <1> QED
    BY <1>1, <1>2, <1>3, <1>4, OneMoves

LEMMA InterruptOK == ASSUME OrchInv, NEW e \in Execs, Interrupt(e) PROVE StepOK
  <1>1. /\ StoreInv /\ LedgerInv /\ ControlOK
        /\ ex' = [ex EXCEPT ![e] = Raise(e)] /\ line' = Left(e)
        /\ UNCHANGED voiceVars
        /\ UNCHANGED <<reg, cancelReq, cancelling, goal, asks, wake, phase, boot>>
        /\ ex[e].pc \in {"queued", "profile", "unwind", "notify"}
    BY DEF OrchInv, Interrupt, Interruptible
  <1>2. Steady /\ obs' = obs /\ epoch' = epoch
    BY <1>1, NothingSteady DEF voiceVars, storeVars
  <1>3. ControlOK'
    BY <1>1, <1>2, ControlSame
  <1>4. Raise(e) \in Exec /\ Raise(e).pc \in {"raised", "ending"}
    BY RaiseExec
  <1> QED
    BY <1>1, <1>2, <1>3, <1>4, OneMoves

LEMMA EndOK == ASSUME OrchInv, NEW e \in Execs, End(e) PROVE StepOK
  <1>1. /\ StoreInv /\ LedgerInv /\ ControlOK
        /\ ex' = [ex EXCEPT ![e] = Idle] /\ cancelling' \subseteq cancelling
        /\ UNCHANGED <<obs, epoch, reg, cancelReq, goal, line, asks, phase, boot>>
        /\ ex[e].pc \in {"ending", "notify"}
        /\ EnsureTerminal(e[2]) \/ UNCHANGED storeVars
    BY DEF OrchInv, End
  <1>2. Steady
    BY <1>1, NothingSteady, EnsureTerminalSteady
  <1>3. wake' \in BOOLEAN
    BY DEF End
  <1>4. ControlOK'
    BY <1>1, <1>3 DEF ControlOK
  <1> QED
    BY <1>1, <1>2, <1>4, IdleExec, OneMoves

LEMMA ReapOK == ASSUME OrchInv, NEW e \in Execs, Reap(e) PROVE StepOK
  <1>1. /\ StoreInv /\ LedgerInv /\ ControlOK
        /\ ex' = [ex EXCEPT ![e] = Idle]
        /\ UNCHANGED voiceVars
        /\ UNCHANGED <<reg, cancelReq, cancelling, goal, line, asks, wake, phase, boot>>
        /\ ex[e].pc \in {"returned", "raised"}
    BY DEF OrchInv, Reap
  <1>2. Steady /\ obs' = obs /\ epoch' = epoch
    BY <1>1, NothingSteady DEF voiceVars, storeVars
  <1>3. ControlOK'
    BY <1>1, <1>2, ControlSame
  <1> QED
    BY <1>1, <1>2, <1>3, IdleExec, OneMoves

LEMMA WorkerReportsOK ==
    ASSUME OrchInv, NEW e \in Execs, Heartbeat(e) \/ WorkerStarted(e) \/ TurnBoundary(e)
    PROVE  StepOK
  <1>1. /\ StoreInv /\ LedgerInv /\ ControlOK
        /\ UNCHANGED <<obs, epoch>> /\ UNCHANGED orchVars
    BY DEF OrchInv, Heartbeat, WorkerStarted, TurnBoundary, AdvanceBoundary
  <1>2. Steady
    <2>1. CASE Heartbeat(e)
      BY <1>1, <2>1, HeartbeatSteady DEF Heartbeat
    <2>2. CASE WorkerStarted(e)
      <3>1. PICK i \in InFlight(cmds, e[2], ex[e].token) : SetWorkerRunId(e[2], ex[e].token, i)
        BY <2>2 DEF WorkerStarted
      <3>2. i \in Nat
        BY <1>1 DEF InFlight, CommandsOf, StoreInv, TypeOK
      <3> QED
        BY <1>1, <3>1, <3>2, WorkerReportSteady
    <2>3. CASE TurnBoundary(e)
      BY <1>1, <2>3, BoundarySteady DEF TurnBoundary
    <2> QED
      BY <2>1, <2>2, <2>3
  <1>3. ControlOK' /\ UNCHANGED <<ex, line, boot>>
    BY <1>1, ControlSame DEF orchVars
  <1> QED
    BY <1>1, <1>2, <1>3, NobodyMoves

\* Executions S start and join the line.
LEMMA ManyStart ==
    ASSUME OrchInv, Steady, ControlOK', obs \subseteq obs', boot' = boot,
           NEW S, S \subseteq Execs, Join(S),
           ex' = [f \in Execs |-> IF f \in S THEN [Idle EXCEPT !.pc = "queued"] ELSE ex[f]],
           \A f \in S : ex[f].pc = "idle" /\ f[2] \notin fresh',
           \A f \in S : /\ f[1] = "manual" => ex[Dispatch(f[2])].pc = "idle" /\ Dispatch(f[2]) \notin S
                        /\ f[1] = "dispatch" => ex[Manual(f[2])].pc = "idle" /\ Manual(f[2]) \notin S
    PROVE  StepOK
  <1>1. /\ StoreInv /\ LedgerInv /\ ExecsOK /\ BooksOK /\ ControlOK /\ NoOrphanClaim
        /\ TablesKept /\ SettledRunsKept /\ NoNewClaims
    BY DEF OrchInv, Steady
  <1>2. StoreInv' /\ LedgerInv' /\ RowsGoOn /\ fresh' \subseteq fresh
    BY <1>1 DEF TablesKept
  <1>3. /\ \A f \in S : ex'[f] \in Exec /\ ex'[f].pc = "queued"
        /\ \A f \in Execs \ S : ex'[f] = ex[f]
    BY QueuedExec
  <1>4. ExecsOK'
    <2>1. ex' \in [Execs -> Exec]
      BY <1>1, <1>3, QueuedExec DEF ExecsOK
    <2>2. \A f \in Execs : ex'[f].pc # "idle" => f[2] \notin fresh'
      BY <1>1, <1>2, <1>3 DEF ExecsOK
    <2>3. \A f \in Execs : ex'[f].pc = "profile" => ex'[f].worker \in Profiles
      BY <1>1, <1>3 DEF ExecsOK
    <2>4. ASSUME NEW c \in Cards
          PROVE  ~(ex'[Manual(c)].pc # "idle" /\ ex'[Dispatch(c)].pc # "idle")
      <3>1. CASE Manual(c) \in S
        BY <1>3, <3>1, ExecOf
      <3>2. CASE Dispatch(c) \in S
        BY <1>3, <3>2, ExecOf
      <3>3. CASE Manual(c) \notin S /\ Dispatch(c) \notin S
        BY <1>1, <1>3, <3>3, ExecOf DEF ExecsOK
      <3> QED
        BY <3>1, <3>2, <3>3
    <2>5. \A c \in Cards : Manual(c)' = Manual(c) /\ Dispatch(c)' = Dispatch(c)
      BY DEF Manual, Dispatch
    <2> QED
      BY <2>1, <2>2, <2>3, <2>4, <2>5 DEF ExecsOK
  <1>5. BooksOK'
    BY <1>1, <1>3, LineJoined
  <1>6. NoOrphanClaim'
    <2>1. \A f \in Execs : ex[f].pc = "running" => ex'[f] = ex[f]
      BY <1>3
    <2> QED
      BY <1>1, <2>1, ClaimsKept
  <1> QED
    BY <1>1, <1>2, <1>4, <1>5, <1>6, RunsStay DEF StepOK, OrchInv

\* Some executions are cancelled, or have their results taken.
LEMMA ManyMove ==
    ASSUME OrchInv, Steady, ControlOK', obs \subseteq obs', line' = line, boot' = boot,
           ex' \in [Execs -> Exec],
           \A f \in Execs :
              \/ /\ ex'[f].pc = ex[f].pc /\ ex'[f].token = ex[f].token
                 /\ ex'[f].worker = ex[f].worker
              \/ ex[f].pc \in {"returned", "raised"} /\ ex'[f].pc = "idle"
    PROVE  StepOK
  <1>1. /\ StoreInv /\ LedgerInv /\ ExecsOK /\ BooksOK /\ ControlOK /\ NoOrphanClaim
        /\ TablesKept /\ SettledRunsKept /\ NoNewClaims
    BY DEF OrchInv, Steady
  <1>2. StoreInv' /\ LedgerInv' /\ RowsGoOn /\ fresh' \subseteq fresh
    BY <1>1 DEF TablesKept
  <1>3. ExecsOK'
    <2>1. \A f \in Execs : ex'[f].pc # "idle" => ex[f].pc # "idle"
      OBVIOUS
    <2>2. \A f \in Execs : ex'[f].pc = "profile" => ex'[f].worker \in Profiles
      BY <1>1 DEF ExecsOK
    <2> QED
      BY <1>1, <1>2, <2>1, <2>2, ExecsKept
  <1>4. BooksOK'
    <2>1. /\ \A f \in Execs : ex'[f].pc \in {"queued", "profile"} <=> ex[f].pc \in {"queued", "profile"}
          /\ \A f \in Execs : ex'[f].pc \in {"profile", "running", "unwind"}
                                 => ex[f].pc \in {"profile", "running", "unwind"}
      OBVIOUS
    <2> QED
      BY <1>1, <2>1, LineKept
  <1>5. NoOrphanClaim'
    <2>1. \A f \in Execs : ex[f].pc = "running"
                              => ex'[f].pc = "running" /\ ex'[f].token = ex[f].token
      OBVIOUS
    <2> QED
      BY <1>1, <2>1, ClaimsKept
  <1> QED
    BY <1>1, <1>2, <1>3, <1>4, <1>5, RunsStay DEF StepOK, OrchInv

LEMMA StartCardOK == ASSUME OrchInv, NEW c, StartCard(c) PROVE StepOK
  <1> DEFINE S == {Manual(c)}
  <1>1. /\ StoreInv /\ LedgerInv /\ ExecsOK /\ ControlOK
        /\ UNCHANGED voiceVars
        /\ UNCHANGED <<reg, cancelReq, cancelling, goal, asks, wake, phase, boot>>
        /\ ex' = [ex EXCEPT ![Manual(c)] = [Idle EXCEPT !.pc = "queued"]] /\ Join(S)
        /\ ex[Manual(c)].pc = "idle" /\ ex[Dispatch(c)].pc = "idle" /\ Exists(c)
    BY DEF OrchInv, StartCard, Active
  <1>2. Steady /\ obs' = obs /\ epoch' = epoch /\ fresh' = fresh
    BY <1>1, NothingSteady DEF voiceVars, storeVars
  <1>3. ControlOK'
    BY <1>1, <1>2, ControlSame
  <1>4. c \in Cards /\ c \notin fresh
    BY <1>1 DEF StoreInv, TypeOK, Exists
  <1>5. S \subseteq Execs /\ \A f \in S : f = Manual(c) /\ f[1] = "manual" /\ f[2] = c
    BY <1>4, ExecOf
  <1>6. Dispatch(c) \notin S
    BY <1>4, ExecOf
  <1>7. ex' = [f \in Execs |-> IF f \in S THEN [Idle EXCEPT !.pc = "queued"] ELSE ex[f]]
    BY <1>1 DEF ExecsOK
  <1>8. \A f \in S : ex[f].pc = "idle" /\ f[2] \notin fresh'
    BY <1>1, <1>2, <1>4, <1>5
  <1>9. \A f \in S : /\ f[1] = "manual" => ex[Dispatch(f[2])].pc = "idle" /\ Dispatch(f[2]) \notin S
                     /\ f[1] = "dispatch" => ex[Manual(f[2])].pc = "idle" /\ Manual(f[2]) \notin S
    BY <1>1, <1>5, <1>6
  <1> HIDE DEF S
  <1> QED
    BY <1>1, <1>2, <1>3, <1>5, <1>7, <1>8, <1>9, ManyStart

LEMMA CancelCardOK == ASSUME OrchInv, NEW c, CancelCard(c) PROVE StepOK
  <1> DEFINE victim == IF Active(Manual(c)) THEN Manual(c) ELSE reg[c]
             live == /\ victim # NoExec
                     /\ IF Active(Manual(c)) THEN ex[victim].pc # "ending" ELSE Running(victim)
  <1>1. /\ StoreInv /\ LedgerInv /\ ExecsOK /\ ControlOK
        /\ UNCHANGED <<obs, epoch, reg, goal, line, asks, wake, phase, boot>>
        /\ c \in BgCards /\ c \in Cards
    BY DEF OrchInv, CancelCard, Cards
  <1>2. CASE live
    <2>1. /\ ex' = [ex EXCEPT ![victim].pend = TRUE] /\ UNCHANGED storeVars
          /\ cancelReq' = cancelReq \cup {c} /\ cancelling' = cancelling \cup {c}
      BY <1>2 DEF CancelCard
    <2>2. PICK e \in Execs : e = victim /\ ex[e].pc # "idle"
      <3>1. CASE Active(Manual(c))
        BY <1>1, <3>1, ExecOf DEF Active
      <3>2. CASE ~Active(Manual(c))
        BY <1>1, <1>2, <3>2 DEF ControlOK, Running
      <3> QED
        BY <3>1, <3>2
    <2> HIDE DEF victim
    <2> DEFINE r == [ex[e] EXCEPT !.pend = TRUE]
    <2>3. r \in Exec /\ r.pc = ex[e].pc /\ r.token = ex[e].token /\ r.worker = ex[e].worker
      BY <1>1 DEF ExecsOK, Exec
    <2>4. ex' = [ex EXCEPT ![e] = r]
      BY <2>1, <2>2
    <2>5. Steady
      BY <1>1, <2>1, NothingSteady
    <2>6. ControlOK'
      BY <1>1, <2>1 DEF ControlOK
    <2>7. r.pc = "profile" => r.worker \in Profiles
      BY <1>1, <2>3 DEF ExecsOK
    <2> HIDE DEF r
    <2> QED
      BY <1>1, <2>2, <2>3, <2>4, <2>5, <2>6, <2>7, OneMoves
  <1>3. CASE ~live
    <2>1. /\ \/ FinishClaim(c, cards[c].token, "cancelled", 0, FALSE)
             \/ SetStatus(c, "cancelled", FALSE)
          /\ UNCHANGED <<ex, cancelReq, cancelling>>
      BY <1>3 DEF CancelCard
    <2>2. Steady
      <3>1. "cancelled" \in Outcomes /\ "cancelled" \in Statuses
        BY DEF Outcomes, Statuses
      <3> QED
        BY <1>1, <2>1, <3>1, FinishSteady, SetStatusSteady
    <2>3. ControlOK'
      BY <1>1, <2>1, ControlSame
    <2> QED
      BY <1>1, <2>1, <2>2, <2>3, NobodyMoves
  <1> QED
    BY <1>2, <1>3

LEMMA GoalStartOK == ASSUME OrchInv, NEW p, NEW kids, GoalStart(p, kids) PROVE StepOK
  <1> DEFINE S == {"goal"} \X kids
  <1>1. /\ StoreInv /\ LedgerInv /\ ExecsOK /\ ControlOK
        /\ UNCHANGED <<obs, epoch, reg, cancelReq, cancelling, asks, wake, phase, boot>>
        /\ Join(S) /\ kids \subseteq fresh \cap BgCards /\ fresh' = fresh \ ({p} \cup kids)
        /\ ex' = [e \in Execs |-> IF e[1] = "goal" /\ e[2] \in kids
                                  THEN [Idle EXCEPT !.pc = "queued"] ELSE ex[e]]
    BY DEF OrchInv, GoalStart
  <1>2. Steady
    BY <1>1, GoalStartSteady
  <1>3. ControlOK'
    BY <1>1, ControlSame
  <1>4. /\ S \subseteq Execs /\ \A f \in S : f[1] = "goal" /\ f[2] \in kids
        /\ \A f \in Execs : f \in S <=> f[1] = "goal" /\ f[2] \in kids
    BY <1>1 DEF Execs, Kinds, Cards
  <1>5. ex' = [f \in Execs |-> IF f \in S THEN [Idle EXCEPT !.pc = "queued"] ELSE ex[f]]
    <2> HIDE DEF S
    <2> QED
      BY <1>1, <1>4
  <1>6. \A f \in S : ex[f].pc = "idle" /\ f[2] \notin fresh'
    BY <1>1, <1>4 DEF ExecsOK
  <1> HIDE DEF S
  <1> QED
    BY <1>1, <1>2, <1>3, <1>4, <1>5, <1>6, ManyStart

LEMMA GoalEndOK == ASSUME OrchInv, GoalEnd PROVE StepOK
  <1>1. /\ StoreInv /\ LedgerInv /\ ExecsOK /\ ControlOK
        /\ UNCHANGED <<obs, epoch, reg, cancelReq, cancelling, line, asks, wake, phase, boot>>
        /\ ex' = [e \in Execs |-> IF e \in Children /\ ex[e].pc \in {"returned", "raised"}
                                  THEN Idle ELSE ex[e]]
        /\ SetStatus(goal.parent, "done", FALSE) \/ UNCHANGED storeVars
    BY DEF OrchInv, GoalEnd
  <1>2. Steady
    <2> "done" \in Statuses
      BY DEF Statuses
    <2> QED
      BY <1>1, NothingSteady, SetStatusSteady
  <1>3. ControlOK'
    BY <1>1, ControlSame
  <1>4. ex' \in [Execs -> Exec]
    BY <1>1, IdleExec DEF ExecsOK
  <1>5. \A f \in Execs : ex'[f] = ex[f] \/ (ex[f].pc \in {"returned", "raised"} /\ ex'[f].pc = "idle")
    BY <1>1, IdleExec
  <1> QED
    BY <1>1, <1>2, <1>3, <1>4, <1>5, ManyMove

LEMMA DispatchOnceOK == ASSUME OrchInv, DispatchOnce PROVE StepOK
  <1>1. /\ StoreInv /\ LedgerInv /\ ExecsOK /\ ControlOK
        /\ UNCHANGED <<epoch, reg, cancelReq, cancelling, goal, phase, boot>> /\ wake' = FALSE
        /\ RecoverExpiredClaims \/ UNCHANGED storeVars
    BY DEF OrchInv, DispatchOnce
  <1>2. obs \subseteq obs'
    BY DEF DispatchOnce
  <1>3. Steady
    BY <1>1, NothingSteady, RecoverSteady
  <1>4. ControlOK'
    BY <1>1 DEF ControlOK
  <1>5. PICK D : /\ D \subseteq DOMAIN cards'
                 /\ LET started == {Dispatch(c) : c \in {d \in D : Unoccupied(d)}}
                    IN  /\ ex' = [e \in Execs |-> IF e \in started
                                                  THEN [Idle EXCEPT !.pc = "queued"] ELSE ex[e]]
                        /\ Join(started)
    BY DEF DispatchOnce, Listed, Eligible
  <1> DEFINE S == {Dispatch(c) : c \in {d \in D : Unoccupied(d)}}
  <1>6. DOMAIN cards' \subseteq Cards /\ \A d \in DOMAIN cards' : d \notin fresh'
    BY <1>3 DEF Steady, TablesKept, StoreInv, TypeOK, Cards
  <1>7. /\ S \subseteq Execs
        /\ \A f \in S : /\ f[1] = "dispatch" /\ f[2] \in D /\ f = Dispatch(f[2])
                        /\ ex[Dispatch(f[2])].pc = "idle" /\ ex[Manual(f[2])].pc = "idle"
    BY <1>5, <1>6, ExecOf DEF Unoccupied, Active
  <1>8. /\ ex' = [f \in Execs |-> IF f \in S THEN [Idle EXCEPT !.pc = "queued"] ELSE ex[f]]
        /\ Join(S)
    BY <1>5
  <1> HIDE DEF S
  <1>9. \A f \in S : ex[f].pc = "idle" /\ f[2] \notin fresh'
    BY <1>5, <1>6, <1>7
  <1>10. \A f \in S : Manual(f[2]) \notin S
    BY <1>5, <1>6, <1>7, ExecOf
  <1> QED
    BY <1>1, <1>2, <1>3, <1>4, <1>7, <1>8, <1>9, <1>10, ManyStart

LEMMA StopAnsweredOK == ASSUME OrchInv, NEW i, StopAnswered(i) PROVE StepOK
  <1>1. /\ StoreInv /\ LedgerInv /\ ControlOK
        /\ UNCHANGED <<ex, reg, cancelReq, cancelling, goal, line, wake, phase, boot>>
        /\ UNCHANGED <<obs, epoch>>
    BY DEF OrchInv, StopAnswered, SettleStop, voiceVars
  <1>2. Steady
    <2>1. CASE \E a \in {"stopping", "status_unknown"} : SettleStop(i, a, "none")
      BY <1>1, <2>1, SettleStopSteady
    <2>2. CASE \E w \in DOMAIN CardVerdict : SettleStop(i, "stopped", w)
      BY <1>1, <2>2, SettleStopSteady
    <2>3. CASE UNCHANGED voiceVars
      BY <1>1, <2>3, NothingSteady DEF voiceVars, storeVars
    <2> QED
      BY <2>1, <2>2, <2>3 DEF StopAnswered
  <1>3. ControlOK'
    BY <1>1, ControlSame
  <1> QED
    BY <1>1, <1>2, <1>3, NobodyMoves

\* A late answer counts only if nothing has touched the card since the read.
LEMMA ReconciliationFenced ==
    ASSUME StoreInv, NEW o, NEW a \in DOMAIN Reconciled, SettleReconciliation(o, a)
    PROVE  VerdictsFenced
  <1>1. obs' = obs \ {o} /\ epoch' = epoch
    BY DEF SettleReconciliation
  <1>2. CASE ~StillCurrent(o)
    <2>1. UNCHANGED <<cards, cmds, runs>>
      BY <1>2 DEF SettleReconciliation
    <2> QED
      BY <2>1 DEF VerdictsFenced
  <1>3. CASE StillCurrent(o)
    <2> DEFINE i == o.cmd
               c == cmds[i].card
               t == cmds[i].token
    <2>1. /\ i \in DOMAIN cmds /\ Orphan(i) /\ o = Candidate(i)
      BY <1>3 DEF StillCurrent, Orphans
    <2>2. o.card = c /\ o.token = t /\ o.rev = cards[c].rev
      <3> HIDE DEF i, c, t
      <3>1. Candidate(i).card = cmds[i].card /\ Candidate(i).token = cmds[i].token
            /\ Candidate(i).rev = cards[cmds[i].card].rev
        BY DEF Candidate
      <3> QED
        BY <2>1, <3>1 DEF c, t
    <2>3. /\ i \in Unknown(c) /\ ~Claimed(c) /\ t \in DOMAIN runs /\ runs[t].card = c
          /\ runs[t].attempt = cards[c].attempts
      BY <2>1 DEF Orphan
    <2>4. \A v \in DOMAIN runs : v # t => runs'[v] = runs[v]
      BY <1>3, <2>2 DEF SettleReconciliation, StoreInv, TypeOK
    <2> HIDE DEF i, c, t
    <2>5. ASSUME NEW v \in DOMAIN runs \cap DOMAIN runs', runs'[v] # runs[v]
          PROVE  /\ ~Claimed(runs[v].card) /\ runs[v].attempt = cards[runs[v].card].attempts
                 /\ \E j \in Unknown(runs[v].card) : cmds[j].token = v
      <3>1. v = t /\ runs[v].card = c
        BY <2>3, <2>4, <2>5
      <3>2. cmds[i].token = v
        BY <3>1 DEF t
      <3> QED
        BY <2>3, <3>1, <3>2
    <2>6. \A p \in obs \ obs' : p = o
      BY <1>1
    <2> QED
      BY <2>2, <2>5, <2>6 DEF VerdictsFenced
  <1> QED
    BY <1>2, <1>3

LEMMA RecoveryAnsweredOK == ASSUME OrchInv, NEW o, RecoveryAnswered(o) PROVE StepOK
  <1>1. /\ StoreInv /\ LedgerInv /\ ExecsOK /\ BooksOK /\ ControlOK /\ NoOrphanClaim
        /\ UNCHANGED orchVars /\ epoch' = epoch
    BY DEF OrchInv, RecoveryAnswered, SettleReconciliation, DropObservation
  <1>2. TablesKept /\ NoNewClaims /\ VerdictsFenced
    <2>1. CASE \E a \in DOMAIN Reconciled : SettleReconciliation(o, a)
      BY <1>1, <2>1, ReconciliationEffect, ReconciliationFenced
    <2>2. CASE DropObservation(o)
      <3>1. UNCHANGED storeVars
        BY <2>2 DEF DropObservation
      <3>2. Steady
        BY <1>1, <3>1, NothingSteady
      <3>3. VerdictsFenced
        BY <3>1 DEF VerdictsFenced, storeVars
      <3> QED
        BY <3>2, <3>3 DEF Steady
    <2> QED
      BY <2>1, <2>2 DEF RecoveryAnswered
  <1>3. StoreInv' /\ LedgerInv' /\ RowsGoOn /\ fresh' \subseteq fresh
    BY <1>2 DEF TablesKept
  <1>4. UNCHANGED <<ex, reg, cancelReq, cancelling, goal, line, asks, wake, phase, boot>>
    BY <1>1 DEF orchVars
  <1>5. ExecsOK'
    BY <1>1, <1>3, <1>4 DEF ExecsOK
  <1>6. BooksOK' /\ ControlOK' /\ NoOrphanClaim'
    BY <1>1, <1>2, <1>4, LineKept, ControlSame, ClaimsKept
  <1> QED
    BY <1>2, <1>3, <1>5, <1>6 DEF StepOK, OrchInv

LEMMA ResponseAnsweredOK == ASSUME OrchInv, NEW i, ResponseAnswered(i) PROVE StepOK
  <1>1. /\ StoreInv /\ LedgerInv /\ ControlOK /\ UNCHANGED orchVars /\ UNCHANGED <<obs, epoch>>
    BY DEF OrchInv, ResponseAnswered, SettleResponse
  <1>2. Steady
    BY <1>1, SettleResponseSteady DEF ResponseAnswered
  <1>3. ControlOK' /\ UNCHANGED <<ex, line, boot>>
    BY <1>1, ControlSame DEF orchVars
  <1> QED
    BY <1>1, <1>2, <1>3, NobodyMoves

LEMMA StopOK == ASSUME OrchInv, Stop PROVE StepOK
  <1>1. /\ StoreInv /\ LedgerInv /\ ExecsOK /\ ControlOK
        /\ UNCHANGED voiceVars
        /\ UNCHANGED <<reg, cancelReq, cancelling, goal, line, asks, wake, boot>>
        /\ phase' \in {"stopping", "stopped"}
    BY DEF OrchInv, Stop
  <1>2. PICK T : ex' = [e \in Execs |-> IF e \in T THEN [ex[e] EXCEPT !.pend = TRUE] ELSE ex[e]]
    <2> DEFINE T == {e \in Execs : /\ e[1] = (IF phase = "up" THEN "dispatch" ELSE "manual")
                                   /\ ex[e].pc \notin {"idle", "ending"}}
    <2>1. ex' = [e \in Execs |-> IF e \in T THEN [ex[e] EXCEPT !.pend = TRUE] ELSE ex[e]]
      BY DEF Stop
    <2> QED
      BY <2>1
  <1>3. Steady /\ obs' = obs /\ epoch' = epoch
    BY <1>1, NothingSteady DEF voiceVars, storeVars
  <1>4. ControlOK'
    BY <1>1, <1>3 DEF ControlOK
  <1>5. ASSUME NEW e \in Execs
        PROVE  /\ ex'[e] \in Exec /\ ex'[e].pc = ex[e].pc /\ ex'[e].token = ex[e].token
               /\ ex'[e].worker = ex[e].worker
    BY <1>1, <1>2 DEF ExecsOK, Exec
  <1>6. ex' \in [Execs -> Exec]
    BY <1>2, <1>5
  <1> QED
    BY <1>1, <1>3, <1>4, <1>5, <1>6, ManyMove

LEMMA CrashOK == ASSUME OrchInv, Crash PROVE StepOK
  <1>1. /\ StoreInv /\ LedgerInv /\ ExecsOK /\ BooksOK /\ ControlOK
        /\ UNCHANGED storeVars /\ epoch' = epoch + 1
        /\ ex' = [e \in Execs |-> Idle] /\ reg' = [c \in Cards |-> NoExec]
        /\ cancelReq' = {} /\ cancelling' = {} /\ line' = {}
        /\ wake' = FALSE /\ phase' = "up" /\ boot' = nextToken
    BY DEF OrchInv, Crash, Restart
  <1>2. Steady
    BY <1>1, NothingSteady
  <1>3. StoreInv' /\ LedgerInv' /\ RowsGoOn /\ fresh' \subseteq fresh /\ SettledRunsKept
    BY <1>2 DEF Steady, TablesKept
  <1>4. \A e \in Execs : ex'[e] \in Exec /\ ex'[e].pc = "idle"
    BY <1>1, IdleExec
  <1>5. ExecsOK'
    <2>1. ex' \in [Execs -> Exec]
      BY <1>1, IdleExec
    <2> QED
      BY <1>1, <1>3, <1>4, <2>1, ExecsKept
  <1>6. BooksOK'
    <2>1. Waiters' = {} /\ Inside' = {}
      BY <1>4 DEF Waiters, Inside
    <2>2. line' \in Orders(Waiters')
      BY <1>1, <2>1 DEF Orders
    <2> QED
      BY <1>1, <2>1, <2>2, BudgetKept DEF BooksOK
  <1>7. ControlOK'
    <2>1. boot' \in Nat /\ epoch' \in Nat
      BY <1>1 DEF ControlOK, StoreInv, TypeOK
    <2>2. reg' \in [Cards -> Execs \cup {NoExec}] /\ \A c \in Cards : reg'[c] = NoExec
      BY <1>1
    <2> QED
      BY <1>1, <2>1, <2>2 DEF ControlOK
  <1>8. NoOrphanClaim'
    <2>1. ASSUME NEW c \in DOMAIN cards, cards[c].token # 0
          PROVE  ~(cards[c].token >= nextToken)
      <3>1. cards[c].token \in DOMAIN runs
        BY <1>1, <2>1 DEF StoreInv, ClaimMatchesRun, Claimed
      <3>2. nextToken \in Nat /\ DOMAIN runs \subseteq 1..(nextToken - 1)
        BY <1>1 DEF StoreInv, TypeOK
      <3> QED
        BY <3>1, <3>2
    <2>2. cards' = cards
      BY <1>1 DEF storeVars
    <2> QED
      BY <1>1, <2>1, <2>2 DEF NoOrphanClaim, Claimed
  <1>9. VerdictsFenced
    <2>1. epoch' # epoch
      BY <1>1 DEF ControlOK
    <2> QED
      BY <1>3, <2>1 DEF VerdictsFenced, SettledRunsKept
  <1> QED
    BY <1>3, <1>5, <1>6, <1>7, <1>8, <1>9 DEF StepOK, OrchInv

LEMMA ElapseOK == ASSUME OrchInv, Elapse PROVE StepOK
  <1>1. /\ StoreInv /\ LedgerInv /\ ControlOK /\ UNCHANGED orchVars /\ UNCHANGED <<obs, epoch>>
    BY DEF OrchInv, Elapse
  <1>2. Steady /\ ControlOK' /\ UNCHANGED <<ex, line, boot>>
    BY <1>1, ElapseSteady, ControlSame DEF orchVars
  <1> QED
    BY <1>1, <1>2, NobodyMoves

LEMMA UserEditOK == ASSUME OrchInv, UserEdit PROVE StepOK
  <1>1. /\ StoreInv /\ LedgerInv /\ ControlOK
    BY DEF OrchInv
  <1>2. ASSUME Steady,
               obs' = obs \/ UNCHANGED <<obs, epoch>>, epoch' = epoch,
               wake' = TRUE \/ wake' = wake,
               UNCHANGED <<ex, reg, cancelReq, cancelling, line, phase, boot>>
        PROVE  StepOK
    <2>1. ControlOK'
      BY <1>1, <1>2 DEF ControlOK
    <2> QED
      BY <1>2, <2>1, NobodyMoves
  <1>3. /\ epoch' = epoch /\ obs' = obs
        /\ wake' = TRUE \/ wake' = wake
        /\ UNCHANGED <<ex, reg, cancelReq, cancelling, line, phase, boot>>
    BY DEF UserEdit, Quietly, Waking, Enqueue, Cancel, ResponseIntent, orchVars
  <1>4. Steady
    <2>1. CASE \E c \in BgCards, p \in Profiles \cup {NoProfile} : Quietly(AddFor(c, p))
      BY <1>1, <2>1, AddForSteady DEF Quietly
    <2>2. CASE \E c \in VoiceCards, p \in Profiles : Waking(AddVoiceCard(c, p, FALSE))
      BY <1>1, <2>2, AddVoiceCardSteady DEF Waking
    <2>3. CASE \E c \in Touched, p \in Profiles : Quietly(AssignCard(c, p))
      BY <1>1, <2>3, AssignCardEdits, EditSteady DEF Quietly
    <2>4. CASE \E c \in Touched : Waking(Retry(c) \/ UnassignCard(c))
      BY <1>1, <2>4, RequeuedStatus, SetStatusSteady, UnassignCardEdits, EditSteady
      DEF Waking, Retry
    <2>5. CASE \E c \in Touched, s \in Moves : Waking(Move(c, s))
      BY <1>1, <2>5, ParallelAssumption, SetStatusSteady DEF Waking, Move
    <2>6. CASE \E c \in EditCards : Quietly(DeleteCard(c))
      BY <1>1, <2>6, DeleteSteady DEF Quietly
    <2>7. CASE \E c \in Touched : Enqueue(c) \/ Cancel(c)
      BY <1>1, <2>7, EnqueueSteady, CancelSteady
    <2>8. CASE \E c \in Touched : ResponseIntent(c)
      BY <1>1, <2>8, ResponseIntentSteady DEF ControlOK
    <2> QED
      BY <2>1, <2>2, <2>3, <2>4, <2>5, <2>6, <2>7, <2>8 DEF UserEdit
  <1> QED
    BY <1>2, <1>3, <1>4

-----------------------------------------------------------------------------
(* The theorems.                                                           *)

LEMMA OrchInitInv == Init => OrchInv
  <1> SUFFICES ASSUME Init PROVE OrchInv
    OBVIOUS
  <1>1. StoreInv
    BY InitInv DEF Init, VoiceInit
  <1>2. DOMAIN cmds = {} /\ DOMAIN cards = {}
    BY DEF Init, VoiceInit, StoreInit
  <1>3. LedgerInv /\ NoOrphanClaim
    BY <1>2 DEF LedgerInv, NoOrphanClaim
  <1>4. \A e \in Execs : ex[e] \in Exec /\ ex[e].pc = "idle"
    BY IdleExec DEF Init
  <1>5. ExecsOK
    <2>1. ex \in [Execs -> Exec]
      BY IdleExec DEF Init
    <2> QED
      BY <1>4, <2>1, ExecOf DEF ExecsOK
  <1>6. BooksOK
    <2>1. Waiters = {} /\ Inside = {}
      BY <1>4 DEF Waiters, Inside
    <2>2. line \in Orders(Waiters)
      BY <2>1 DEF Init, Orders
    <2>3. IsFiniteSet(Inside) /\ Cardinality(Inside) = 0
      BY <2>1, FS_EmptySet
    <2> HIDE DEF Init
    <2> QED
      BY <2>2, <2>3, ParallelAssumption DEF BooksOK
  <1>7. ControlOK
    <2>1. reg \in [Cards -> Execs \cup {NoExec}] /\ \A c \in Cards : reg[c] = NoExec
      BY DEF Init
    <2> QED
      BY <2>1 DEF Init, VoiceInit, ControlOK
  <1> QED
    BY <1>1, <1>3, <1>5, <1>6, <1>7 DEF OrchInv

LEMMA UserRunOK == ASSUME OrchInv, UserRun PROVE StepOK
  BY StartCardOK, CancelCardOK, GoalStartOK DEF UserRun

LEMMA ExecutionOK ==
    ASSUME OrchInv, NEW e \in Execs,
           Advance(e) \/ Heartbeat(e) \/ WorkerStarted(e) \/ TurnBoundary(e)
    PROVE  StepOK
  BY EnterOK, AcquireOK, UnwindOK, InterruptOK, EndOK, ReapOK, SpawnDoneOK, SpawnFailedOK,
     SpawnCancelledOK, WorkerReportsOK DEF Advance, Progress, Worker

LEMMA StutterOK == ASSUME OrchInv, UNCHANGED vars PROVE StepOK
  <1>1. /\ StoreInv /\ LedgerInv /\ ControlOK /\ UNCHANGED storeVars /\ UNCHANGED <<obs, epoch>>
        /\ UNCHANGED <<ex, reg, cancelReq, cancelling, goal, line, asks, wake, phase, boot>>
    BY DEF OrchInv, vars, voiceVars, storeVars, orchVars
  <1>2. Steady /\ ControlOK'
    BY <1>1, NothingSteady, ControlSame
  <1> QED
    BY <1>1, <1>2, NobodyMoves

LEMMA OrchNextOK == ASSUME OrchInv, [Next]_vars PROVE StepOK
  <1>1. CASE UserEdit
    BY <1>1, UserEditOK
  <1>2. CASE UserRun
    BY <1>2, UserRunOK
  <1>3. CASE \E e \in Execs : Advance(e) \/ Heartbeat(e) \/ WorkerStarted(e) \/ TurnBoundary(e)
    BY <1>3, ExecutionOK
  <1>4. CASE GoalEnd \/ DispatchOnce \/ Stop \/ Crash \/ Elapse
    BY <1>4, GoalEndOK, DispatchOnceOK, StopOK, CrashOK, ElapseOK
  <1>5. CASE \/ \E i \in asks : StopAnswered(i)
             \/ \E o \in obs : RecoveryAnswered(o)
             \/ \E i \in DOMAIN cmds : ResponseAnswered(i)
    BY <1>5, StopAnsweredOK, RecoveryAnsweredOK, ResponseAnsweredOK
  <1>6. CASE UNCHANGED vars
    BY <1>6, StutterOK
  <1> QED
    BY <1>1, <1>2, <1>3, <1>4, <1>5, <1>6 DEF Next

\* Whatever the executions, the dispatcher, the users and the worker's host
\* do, and whenever the process stops or crashes.
THEOREM OrchInvariant == Spec => []OrchInv
  <1>1. OrchInv /\ [Next]_vars => OrchInv'
    BY OrchNextOK DEF StepOK
  <1> QED
    BY <1>1, OrchInitInv, PTL DEF Spec

\* The store's tables stay of their types, and a claim, its open run and the
\* running column stay in step, under the real callers too.
THEOREM BoardTablesKept == Spec => [](TypeOK /\ ClaimMatchesRun /\ ClaimedIsRunning)
  <1>1. OrchInv => TypeOK /\ ClaimMatchesRun /\ ClaimedIsRunning
    BY DEF OrchInv, StoreInv
  <1> QED
    BY <1>1, OrchInvariant, PTL

\* The global semaphore of _execute is never over-committed, the waiters are
\* exactly the ones in line, and a registered worker is one of that card.
THEOREM OrchTypes == Spec => []OrchTypeOK
  <1>1. OrchInv => OrchTypeOK
    <2> SUFFICES ASSUME OrchInv PROVE OrchTypeOK
      OBVIOUS
    <2>1. ex \in [Execs -> [pc : {"idle", "queued", "profile", "running", "unwind",
                               "notify", "ending", "returned", "raised"},
                            worker : Profiles \cup {NoProfile}, token : Nat,
                            profile : Profiles \cup {NoProfile},
                            pend : BOOLEAN, err : BOOLEAN]]
      BY DEF OrchInv, ExecsOK, Exec, Pcs
    <2>2. \A c \in Cards : reg[c] = NoExec \/ (reg[c] \in Execs /\ reg[c][2] = c)
      BY DEF OrchInv, ControlOK
    <2>3. /\ cancelReq \subseteq Cards /\ cancelling \subseteq Cards
          /\ phase \in {"up", "stopping", "stopped"} /\ wake \in BOOLEAN /\ boot \in Nat
      BY DEF OrchInv, ControlOK, Cards
    <2>4. Cardinality({e \in Execs : ex[e].pc \in {"profile", "running", "unwind"}}) <= MaxParallel
      BY DEF OrchInv, BooksOK, Inside
    <2>5. line \in Orders(Waiters)
      BY DEF OrchInv, BooksOK
    <2> QED
      BY <2>1, <2>2, <2>3, <2>4, <2>5 DEF OrchTypeOK
  <1> QED
    BY <1>1, OrchInvariant, PTL

\* Whatever ends an execution - success, failure, a cancellation, a stop or a
\* goal that gave up on it - the claim of this process ends with its worker.
THEOREM ClaimsHaveWorkers == Spec => []NoOrphanClaim
  <1>1. OrchInv => NoOrphanClaim
    BY DEF OrchInv
  <1> QED
    BY <1>1, OrchInvariant, PTL

\* While an outcome is unverified or a stop is pending no turn can start.
THEOREM DoubtBlocks == Spec => []DoubtBlocksWork
  <1>1. OrchInv => DoubtBlocksWork
    BY LedgerProperties DEF OrchInv
  <1> QED
    BY <1>1, OrchInvariant, PTL

\* Instructions are delivered in the user's order, one at a time, each by the
\* claim the card is under.
THEOREM InstructionsInOrder == Spec => []NoOvertaking
  <1>1. OrchInv => NoOvertaking
    BY LedgerProperties DEF OrchInv
  <1> QED
    BY <1>1, OrchInvariant, PTL

\* No instruction is delivered a second time, across crashes and recoveries.
THEOREM DeliveredOnce == Spec => NoReplay
  <1>1. OrchInv /\ [Next]_vars => [RowsGoOn]_voiceVars
    BY OrchNextOK DEF StepOK
  <1> QED
    BY <1>1, OrchInvariant, PTL DEF Spec, NoReplay

\* A late answer of the worker's host never overrides what happened since.
THEOREM LateAnswersFenced == Spec => ReconcileFenced
  <1>1. OrchInv /\ [Next]_vars => [VerdictsFenced]_voiceVars
    BY OrchNextOK DEF StepOK
  <1> QED
    BY <1>1, OrchInvariant, PTL DEF Spec, ReconcileFenced

-----------------------------------------------------------------------------
(* One worker per card.  The children of a goal are started without asking *)
(* who is at work on their card, so this is about the boards where no goal *)
(* runs; for the others it holds of every card without a child of a goal.  *)

GoalExec(c) == <<"goal", c>>

LEMMA ThreeExecs ==
    ASSUME NEW e \in Execs
    PROVE  e \in {Manual(e[2]), Dispatch(e[2]), GoalExec(e[2])}
  BY DEF Execs, Kinds, Manual, Dispatch, GoalExec

\* An explicit run and a dispatch of one card exclude each other from start
\* to end, so no two of them ever have a worker.
LEMMA OneOfTwo ==
    ASSUME ExecsOK, NEW c \in Cards, ex[GoalExec(c)].pc # "running"
    PROVE  Cardinality({e \in Execs : e[2] = c /\ Running(e)}) <= 1
  <1> DEFINE S == {e \in Execs : e[2] = c /\ Running(e)}
  <1>1. PICK f : \A e \in S : e = f
    <2>1. ~(ex[Manual(c)].pc # "idle" /\ ex[Dispatch(c)].pc # "idle")
      BY DEF ExecsOK
    <2>2. \A e \in S : ex[e].pc = "running" /\ e \in {Manual(c), Dispatch(c)}
      BY ThreeExecs DEF Running
    <2> HIDE DEF S
    <2>3. CASE ex[Manual(c)].pc = "running"
      BY <2>1, <2>2, <2>3
    <2>4. CASE ex[Manual(c)].pc # "running"
      BY <2>2, <2>4
    <2> QED
      BY <2>3, <2>4
  <1>2. S \subseteq {f}
    BY <1>1
  <1> HIDE DEF S
  <1>3. IsFiniteSet({f}) /\ Cardinality({f}) = 1
    BY FS_Singleton
  <1>4. Cardinality(S) <= 1
    BY <1>2, <1>3, FS_Subset
  <1> QED
    BY <1>4 DEF S

\* The registry knows every worker that an explicit run's task does not.
WorkersKnown ==
    /\ \A c \in Cards : ex[GoalExec(c)].pc = "idle"
    /\ RunningIsCancellable

\* A step that registers no worker and drops none that runs.
LEMMA KnownKept ==
    ASSUME WorkersKnown,
           \A e \in Execs : ex'[e].pc # "idle" /\ ex[e].pc = "idle" => e[1] # "goal",
           \A e \in Execs : ex'[e].pc = "running" =>
              reg'[e[2]] = e \/ (ex[e].pc = "running" /\ reg'[e[2]] = reg[e[2]])
    PROVE  WorkersKnown'
  <1>1. \A c \in Cards : ex'[GoalExec(c)].pc = "idle"
    <2>1. \A c \in Cards : GoalExec(c) \in Execs /\ GoalExec(c)[1] = "goal"
      BY DEF GoalExec, Execs, Kinds
    <2> QED
      BY <2>1 DEF WorkersKnown
  <1>2. \A e \in Execs : ex'[e].pc = "running" => e = Manual(e[2]) \/ reg'[e[2]] = e
    BY DEF WorkersKnown, RunningIsCancellable, Running
  <1> QED
    BY <1>1, <1>2 DEF WorkersKnown, RunningIsCancellable, Running, GoalExec, Manual

\* Execution e alone moves, and it runs a worker only if that is registered.
LEMMA KnownOne ==
    ASSUME ExecsOK, ControlOK, WorkersKnown, NEW e \in Execs, ex[e].pc # "idle",
           NEW r, ex' = [ex EXCEPT ![e] = r],
           \/ reg' = reg /\ (r.pc = "running" => ex[e].pc = "running")
           \/ reg' = [reg EXCEPT ![e[2]] = e]
           \/ reg' = [reg EXCEPT ![e[2]] = NoExec] /\ r.pc # "running"
    PROVE  WorkersKnown'
  <1>1. /\ ex'[e] = r /\ \A f \in Execs \ {e} : ex'[f] = ex[f]
        /\ e[2] \in Cards /\ DOMAIN reg = Cards
    BY ExecNames DEF ExecsOK, ControlOK
  <1>2. \A f \in Execs : ex'[f].pc # "idle" /\ ex[f].pc = "idle" => f[1] # "goal"
    BY <1>1
  <1>3. ASSUME NEW f \in Execs, ex'[f].pc = "running"
        PROVE  reg'[f[2]] = f \/ (ex[f].pc = "running" /\ reg'[f[2]] = reg[f[2]])
    <2>1. CASE f = e
      BY <1>1, <1>3, <2>1
    <2>2. CASE f # e /\ f[2] # e[2]
      BY <1>1, <1>3, <2>2, ExecNames DEF ControlOK
    <2>3. CASE f # e /\ f[2] = e[2]
      <3>1. ex[f].pc = "running"
        BY <1>1, <1>3, <2>3
      <3>2. /\ f \in {Manual(e[2]), Dispatch(e[2])} /\ e \in {Manual(e[2]), Dispatch(e[2])}
        BY <1>1, <2>3, <3>1, ThreeExecs DEF WorkersKnown
      <3>3. ~(ex[Manual(e[2])].pc # "idle" /\ ex[Dispatch(e[2])].pc # "idle")
        BY <1>1 DEF ExecsOK
      <3> QED
        BY <2>3, <3>1, <3>2, <3>3
    <2> QED
      BY <2>1, <2>2, <2>3
  <1> QED
    BY <1>2, <1>3, KnownKept

LEMMA TryClaimKnown ==
    ASSUME OrchInv, WorkersKnown, NEW e \in Execs, NEW w, ex[e].pc \in {"queued", "profile"},
           TryClaim(e, w)
    PROVE  WorkersKnown'
  <1>1. ExecsOK /\ ControlOK /\ ex[e] \in Exec
    BY DEF OrchInv, ExecsOK
  <1>2. CASE Claimable(e[2], e[1] = "manual")
    <2>1. /\ ex' = [ex EXCEPT ![e] = [ex[e] EXCEPT !.pc = "running", !.worker = w,
                                        !.token = nextToken, !.profile = cards[e[2]].assignee]]
          /\ reg' = [reg EXCEPT ![e[2]] = e]
      BY <1>2 DEF TryClaim
    <2> QED
      BY <1>1, <2>1, KnownOne
  <1>3. CASE ~Claimable(e[2], e[1] = "manual")
    <2>1. /\ ex' = [ex EXCEPT ![e] = IF Exists(e[2]) THEN Return(e) ELSE Raise(e)] /\ reg' = reg
      BY <1>3 DEF TryClaim
    <2>2. /\ Return(e).pc \in {"returned", "notify"} /\ Raise(e).pc \in {"raised", "ending"}
      BY <1>1, ReturnExec, RaiseExec
    <2>3. PICK r : ex' = [ex EXCEPT ![e] = r] /\ r.pc # "running"
      BY <2>1, <2>2
    <2> QED
      BY <1>1, <2>1, <2>3, KnownOne
  <1> QED
    BY <1>2, <1>3

LEMMA EnterKnown == ASSUME OrchInv, WorkersKnown, NEW e \in Execs, Enter(e) PROVE WorkersKnown'
  <1>1. ExecsOK /\ ControlOK /\ ex[e] \in Exec /\ ex[e].pc = "queued"
    BY DEF OrchInv, ExecsOK, Enter
  <1>2. \/ \E w : TryClaim(e, w)
        \/ ex' = [ex EXCEPT ![e] = Return(e)] /\ reg' = reg
        \/ \E w : ex' = [ex EXCEPT ![e].pc = "profile", ![e].worker = w] /\ reg' = reg
    BY DEF Enter
  <1>3. CASE \E w : TryClaim(e, w)
    BY <1>1, <1>3, TryClaimKnown
  <1>4. CASE ex' = [ex EXCEPT ![e] = Return(e)] /\ reg' = reg
    <2>1. Return(e).pc # "running"
      BY <1>1, ReturnExec
    <2> QED
      BY <1>1, <1>4, <2>1, KnownOne
  <1>5. ASSUME NEW w, ex' = [ex EXCEPT ![e].pc = "profile", ![e].worker = w], reg' = reg
        PROVE  WorkersKnown'
    <2> DEFINE r == [ex[e] EXCEPT !.pc = "profile", !.worker = w]
    <2>1. ex' = [ex EXCEPT ![e] = r] /\ r.pc = "profile"
      BY <1>1, <1>5 DEF ExecsOK, Exec
    <2> HIDE DEF r
    <2> QED
      BY <1>1, <1>5, <2>1, KnownOne
  <1> QED
    BY <1>2, <1>3, <1>4, <1>5

LEMMA WorkerKnown ==
    ASSUME OrchInv, WorkersKnown, NEW e \in Execs, Worker(e)
    PROVE  WorkersKnown'
  <1>1. ExecsOK /\ ControlOK /\ ex[e] \in Exec /\ ex[e].pc = "running" /\ reg' = reg
    BY DEF OrchInv, ExecsOK, Worker, SpawnDone, SpawnFailed, SpawnCancelled, Running
  <1>2. PICK b : ex' = [ex EXCEPT ![e].pc = "unwind", ![e].pend = FALSE, ![e].err = b]
    BY DEF Worker, SpawnDone, SpawnFailed, SpawnCancelled, Settle
  <1> DEFINE r == [ex[e] EXCEPT !.pc = "unwind", !.pend = FALSE, !.err = b]
  <1>3. ex' = [ex EXCEPT ![e] = r] /\ r.pc = "unwind"
    BY <1>1, <1>2 DEF ExecsOK, Exec
  <1> HIDE DEF r
  <1> QED
    BY <1>1, <1>3, KnownOne

LEMMA ProgressKnown ==
    ASSUME OrchInv, WorkersKnown, NEW e \in Execs, Progress(e)
    PROVE  WorkersKnown'
  <1>1. ExecsOK /\ ControlOK /\ ex[e] \in Exec
    BY DEF OrchInv, ExecsOK
  <1>2. /\ Return(e).pc # "running" /\ Raise(e).pc # "running" /\ Idle.pc # "running"
    BY <1>1, ReturnExec, RaiseExec, IdleExec
  <1>3. CASE Unwind(e)
    <2>1. /\ ex' = [ex EXCEPT ![e] = IF ex[e].err THEN Raise(e) ELSE Return(e)]
          /\ reg' = [reg EXCEPT ![e[2]] = NoExec] /\ ex[e].pc = "unwind"
      BY <1>3 DEF Unwind
    <2>2. PICK r : ex' = [ex EXCEPT ![e] = r] /\ r.pc # "running"
      BY <1>2, <2>1
    <2> QED
      BY <1>1, <2>1, <2>2, KnownOne
  <1>4. CASE Interrupt(e) \/ End(e) \/ Reap(e)
    <2>1. /\ ex' = [ex EXCEPT ![e] = Raise(e)] \/ ex' = [ex EXCEPT ![e] = Idle]
          /\ reg' = reg /\ ex[e].pc # "idle"
      BY <1>4 DEF Interrupt, Interruptible, End, Reap
    <2> QED
      BY <1>1, <1>2, <2>1, KnownOne
  <1> QED
    BY <1>3, <1>4 DEF Progress

LEMMA NoGoals == ASSUME MaxChildren = 0, UserRun PROVE \E c : StartCard(c) \/ CancelCard(c)
  <1>1. ASSUME NEW p, NEW kids, Cardinality(kids) <= MaxChildren, GoalStart(p, kids)
        PROVE  FALSE
    <2>1. kids # {} /\ IsFiniteSet(kids)
      BY <1>1 DEF GoalStart
    <2>2. Cardinality(kids) \in Nat /\ Cardinality(kids) # 0
      BY <2>1, FS_CardinalityType, FS_EmptySet
    <2> QED
      BY <1>1, <2>2
  <1> QED
    BY <1>1 DEF UserRun

LEMMA RunKnown ==
    ASSUME OrchInv, WorkersKnown, NEW c, StartCard(c) \/ CancelCard(c)
    PROVE  WorkersKnown'
  <1>1. ExecsOK /\ ControlOK /\ StoreInv /\ reg' = reg
    BY DEF OrchInv, StartCard, CancelCard
  <1>2. CASE StartCard(c)
    <2>1. c \in Cards /\ ex' = [ex EXCEPT ![Manual(c)] = [Idle EXCEPT !.pc = "queued"]]
      BY <1>1, <1>2 DEF StartCard, StoreInv, TypeOK, Exists
    <2>2. /\ ex'[Manual(c)].pc = "queued" /\ \A f \in Execs \ {Manual(c)} : ex'[f] = ex[f]
          /\ Manual(c)[1] # "goal"
      BY <1>1, <2>1, QueuedExec, ExecOf DEF ExecsOK
    <2>3. /\ \A e \in Execs : ex'[e].pc # "idle" /\ ex[e].pc = "idle" => e[1] # "goal"
          /\ \A e \in Execs : ex'[e].pc = "running" => ex[e].pc = "running"
      BY <2>2
    <2> QED
      BY <1>1, <2>3, KnownKept
  <1>3. CASE CancelCard(c)
    <2>1. \/ ex' = ex
          \/ \E v : ex' = [ex EXCEPT ![v].pend = TRUE]
      BY <1>3 DEF CancelCard
    <2>2. \A e \in Execs : ex'[e].pc = ex[e].pc
      BY <1>1, <2>1 DEF ExecsOK, Exec
    <2> QED
      BY <1>1, <2>2, KnownKept
  <1> QED
    BY <1>2, <1>3

LEMMA OthersKnown ==
    ASSUME OrchInv, WorkersKnown,
           \/ UserEdit \/ GoalEnd \/ Stop \/ Elapse
           \/ \E e \in Execs : Heartbeat(e) \/ WorkerStarted(e) \/ TurnBoundary(e)
           \/ \E i : StopAnswered(i) \/ ResponseAnswered(i)
           \/ \E o : RecoveryAnswered(o)
           \/ UNCHANGED vars
    PROVE  WorkersKnown'
  <1>1. reg' = reg
    BY DEF UserEdit, Quietly, Waking, GoalEnd, Stop, Elapse, Heartbeat, WorkerStarted,
           TurnBoundary, StopAnswered, ResponseAnswered, RecoveryAnswered, vars, orchVars
  <1>2. \A e \in Execs : ex'[e].pc = ex[e].pc \/ ex'[e].pc = "idle"
    <2>1. ex \in [Execs -> Exec]
      BY DEF OrchInv, ExecsOK
    <2>2. CASE GoalEnd
      BY <2>2, IdleExec DEF GoalEnd
    <2>3. CASE Stop
      BY <2>1, <2>3 DEF Stop, Exec
    <2>4. CASE ~(GoalEnd \/ Stop)
      BY <2>4 DEF UserEdit, Quietly, Waking, Elapse, Heartbeat, WorkerStarted,
           TurnBoundary, StopAnswered, ResponseAnswered, RecoveryAnswered, vars, orchVars
    <2> QED
      BY <2>2, <2>3, <2>4
  <1> QED
    BY <1>1, <1>2, KnownKept

LEMMA DispatchKnown == ASSUME OrchInv, WorkersKnown, DispatchOnce PROVE WorkersKnown'
  <1>1. PICK D : ex' = [e \in Execs |-> IF e \in {Dispatch(c) : c \in {d \in D : Unoccupied(d)}}
                                        THEN [Idle EXCEPT !.pc = "queued"] ELSE ex[e]]
    BY DEF DispatchOnce
  <1>2. reg' = reg
    BY DEF DispatchOnce
  <1>3. \A e \in Execs : ex'[e] = ex[e] \/ (e[1] # "goal" /\ ex'[e].pc = "queued")
    BY <1>1, QueuedExec DEF Dispatch
  <1> QED
    BY <1>2, <1>3, KnownKept

LEMMA CrashKnown == ASSUME Crash PROVE WorkersKnown'
  <1>1. \A e \in Execs : ex'[e].pc = "idle"
    BY IdleExec DEF Crash
  <1> QED
    BY <1>1 DEF WorkersKnown, RunningIsCancellable, Running, GoalExec, Execs, Kinds

LEMMA NextKnown ==
    ASSUME MaxChildren = 0, OrchInv, WorkersKnown, [Next]_vars
    PROVE  WorkersKnown'
  <1>1. CASE UserRun
    BY <1>1, NoGoals, RunKnown
  <1>2. CASE \E e \in Execs : Advance(e)
    <2>1. PICK e \in Execs : Advance(e)
      BY <1>2
    <2>2. CASE Acquire(e)
      BY <2>2, TryClaimKnown DEF Acquire
    <2> QED
      BY <2>1, <2>2, EnterKnown, ProgressKnown, WorkerKnown DEF Advance
  <1>3. CASE DispatchOnce
    BY <1>3, DispatchKnown
  <1>4. CASE Crash
    BY <1>4, CrashKnown
  <1> QED
    BY <1>1, <1>2, <1>3, <1>4, OthersKnown DEF Next

\* start_card and dispatch_once look for each other's tasks, so one process
\* never runs two workers for a card that no goal has given a third.
THEOREM OneOwnWorker ==
    Spec => [](\A c \in Cards : ex[GoalExec(c)].pc # "running"
                  => Cardinality({e \in Execs : e[2] = c /\ Running(e)}) <= 1)
  <1>1. OrchInv => \A c \in Cards : ex[GoalExec(c)].pc # "running"
                      => Cardinality({e \in Execs : e[2] = c /\ Running(e)}) <= 1
    BY OneOfTwo DEF OrchInv
  <1> QED
    BY <1>1, OrchInvariant, PTL

LEMMA KnownInvariant == MaxChildren = 0 => (Spec => []WorkersKnown)
  <1> SUFFICES ASSUME MaxChildren = 0 PROVE Spec => []WorkersKnown
    OBVIOUS
  <1>1. Init => WorkersKnown
    BY IdleExec DEF Init, WorkersKnown, RunningIsCancellable, Running, GoalExec, Execs, Kinds
  <1>2. OrchInv /\ WorkersKnown /\ [Next]_vars => WorkersKnown'
    BY NextKnown
  <1> QED
    BY <1>1, <1>2, OrchInvariant, PTL DEF Spec

\* cancel_card finds the worker it has to stop: no run that ends takes another
\* run's entry out of the registry.
THEOREM WorkersCancellable == MaxChildren = 0 => (Spec => []RunningIsCancellable)
  <1>1. WorkersKnown => RunningIsCancellable
    BY DEF WorkersKnown
  <1> QED
    BY <1>1, KnownInvariant, PTL

\* Without goals that is every card, also after a suspended machine let the
\* lease of a live worker lapse and its card was requeued.
THEOREM OneWorker == MaxChildren = 0 => (Spec => []OneWorkerPerCard)
  <1>1. OrchInv /\ WorkersKnown => OneWorkerPerCard
    BY OneOfTwo DEF OrchInv, WorkersKnown, OneWorkerPerCard
  <1> QED
    BY <1>1, KnownInvariant, OrchInvariant, PTL
=============================================================================
