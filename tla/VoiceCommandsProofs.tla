------------------------ MODULE VoiceCommandsProofs -------------------------
(***************************************************************************)
(* What the operations on a voice task's ledger do to the store and to the *)
(* order in which instructions reach workers.  The theorems for the whole  *)
(* Board are in BoardOrchestratorProofs.                                   *)
(***************************************************************************)
EXTENDS VoiceCommands, BoardStoreProofs, FiniteSetTheorems

-----------------------------------------------------------------------------
(* The store's invariant, over the ledger's operations.                    *)

\* A step that leaves claims, attempts and open runs as they are.
Quiet ==
    /\ cards' \in [DOMAIN cards -> Card]
    /\ \A x \in DOMAIN cards :
          /\ cards'[x].token = cards[x].token /\ cards'[x].attempts = cards[x].attempts
          /\ cards'[x].lease # 0 <=> cards[x].lease # 0
          /\ TriggerInstalled /\ cards[x].token # 0 /\ cards[x].status = "in_progress"
                => cards'[x].status = "in_progress"
    /\ runs' \in [DOMAIN runs -> Run]
    /\ \A t \in DOMAIN runs :
          /\ runs'[t].card = runs[t].card /\ runs'[t].attempt = runs[t].attempt
          /\ runs'[t].status = "running" <=> runs[t].status = "running"
    /\ cmds' \in [DOMAIN cmds' -> Cmd] /\ DOMAIN cmds' \subseteq 1..(nextCmd' - 1)
    /\ nextCmd' \in Nat \ {0}
    /\ \A i \in DOMAIN cmds' : cmds'[i].card \in DOMAIN cards
    /\ UNCHANGED <<links, fresh, now, nextToken>>

LEMMA QuietKeepsInv == ASSUME StoreInv, Quiet PROVE StoreInv'
  <1> USE DEF Quiet
  <1>1. DOMAIN cards' = DOMAIN cards /\ DOMAIN runs' = DOMAIN runs
    OBVIOUS
  <1>2. TypeOK'
    BY <1>1 DEF StoreInv, TypeOK, Exists
  <1>3. ClaimMatchesRun'
    <2>1. \A t \in DOMAIN runs : runs[t].card \in DOMAIN cards
      BY DEF StoreInv, TypeOK, Exists
    <2>2. ASSUME NEW c \in DOMAIN cards, cards'[c].token # 0
          PROVE  /\ cards'[c].token \in DOMAIN runs
                 /\ runs'[cards'[c].token].card = c
                 /\ runs'[cards'[c].token].status = "running"
                 /\ runs'[cards'[c].token].attempt = cards'[c].attempts
      <3>1. cards'[c].token = cards[c].token /\ cards'[c].attempts = cards[c].attempts
        OBVIOUS
      <3>2. /\ cards[c].token \in DOMAIN runs /\ runs[cards[c].token].card = c
            /\ runs[cards[c].token].status = "running"
            /\ runs[cards[c].token].attempt = cards[c].attempts
        BY <2>2, <3>1 DEF StoreInv, ClaimMatchesRun, Claimed
      <3> QED
        BY <3>1, <3>2
    <2>3. ASSUME NEW t \in DOMAIN runs, runs'[t].status = "running"
          PROVE  cards'[runs'[t].card].token = t
      BY <2>1, <2>3 DEF StoreInv, ClaimMatchesRun
    <2> HIDE DEF Quiet
    <2> QED
      BY <1>1, <2>2, <2>3 DEF ClaimMatchesRun, Claimed
  <1>4. ClaimedIsRunning'
    BY <1>1 DEF StoreInv, ClaimedIsRunning, Claimed
  <1> QED
    BY <1>2, <1>3, <1>4 DEF StoreInv

\* A row of the ledger, and the ledger with one more of them.
LEMMA NewCmdType ==
    ASSUME NEW c \in Cards, NEW k \in CmdKinds, NEW s \in CmdStatuses, NEW t \in Nat, NEW o \in Nat
    PROVE  NewCmd(c, k, s, t, o) \in Cmd
  BY DEF NewCmd, Cmd

LEMMA AppendRowType ==
    ASSUME StoreInv, NEW r \in Cmd, r.card \in DOMAIN cards
    PROVE  /\ DOMAIN AppendRow(r) = DOMAIN cmds \cup {nextCmd}
           /\ AppendRow(r) \in [DOMAIN AppendRow(r) -> Cmd]
           /\ DOMAIN AppendRow(r) \subseteq 1..nextCmd
           /\ \A i \in DOMAIN AppendRow(r) : AppendRow(r)[i].card \in DOMAIN cards
           /\ nextCmd \notin DOMAIN cmds /\ AppendRow(r)[nextCmd] = r
           /\ \A i \in DOMAIN cmds : AppendRow(r)[i] = cmds[i]
  BY DEF AppendRow, Insert, StoreInv, TypeOK, Exists

LEMMA EnqueueInv == ASSUME StoreInv, NEW c, Enqueue(c) PROVE StoreInv'
  <1> DEFINE row == NewCmd(c, "steer", "queued", 0, 0)
             st  == IF Claimed(c) THEN "in_progress" ELSE "ready"
  <1>1. /\ c \in DOMAIN cards /\ c \in Cards
        /\ cmds' = AppendRow(row) /\ nextCmd' = nextCmd + 1
        /\ cards' = [cards EXCEPT ![c].status = st, ![c].sched = 0, ![c].rev = @ + 1]
        /\ UNCHANGED <<runs, links, fresh, now, nextToken>>
    BY DEF Enqueue, Addressable, Exists, Cards
  <1>2. row \in Cmd /\ row.card = c
    BY <1>1, NewCmdType DEF CmdKinds, CmdStatuses, NewCmd
  <1>3. st \in Statuses /\ (cards[c].token # 0 => st = "in_progress")
    BY DEF Statuses, Claimed
  <1> HIDE DEF row, st
  <1>4. /\ cards \in [DOMAIN cards -> Card] /\ runs \in [DOMAIN runs -> Run]
        /\ nextCmd \in Nat \ {0}
    BY DEF StoreInv, TypeOK
  <1>5. /\ cards' \in [DOMAIN cards -> Card]
        /\ \A x \in DOMAIN cards :
              /\ cards'[x].token = cards[x].token /\ cards'[x].attempts = cards[x].attempts
              /\ cards'[x].lease = cards[x].lease
              /\ cards[x].token # 0 /\ cards[x].status = "in_progress"
                    => cards'[x].status = "in_progress"
    BY <1>1, <1>3, <1>4 DEF Card
  <1>6. /\ cmds' \in [DOMAIN cmds' -> Cmd] /\ DOMAIN cmds' \subseteq 1..nextCmd
        /\ \A i \in DOMAIN cmds' : cmds'[i].card \in DOMAIN cards
    BY <1>1, <1>2, AppendRowType
  <1> QED
    BY <1>1, <1>4, <1>5, <1>6, QuietKeepsInv DEF Quiet

\* A card that changes its column only.
LEMMA MovedCard ==
    ASSUME NEW r \in Card, NEW s \in Statuses
    PROVE  LET k == [r EXCEPT !.status = s, !.rev = @ + 1]
           IN  /\ k \in Card /\ k.token = r.token /\ k.attempts = r.attempts
               /\ k.lease = r.lease /\ k.status = s
  <1>1. PICK q : q = [r EXCEPT !.status = s]
    OBVIOUS
  <1>2. /\ q \in Card /\ q.token = r.token /\ q.attempts = r.attempts
        /\ q.lease = r.lease /\ q.status = s /\ q.rev = r.rev
    BY <1>1 DEF Card
  <1>3. PICK n : n = q.rev + 1
    OBVIOUS
  <1>4. n \in Nat
    BY <1>2, <1>3 DEF Card
  <1>5. PICK k : k = [q EXCEPT !.rev = n]
    OBVIOUS
  <1>6. /\ k \in Card /\ k.token = q.token /\ k.attempts = q.attempts
        /\ k.lease = q.lease /\ k.status = q.status
    BY <1>2, <1>4, <1>5 DEF Card
  <1>7. k = [r EXCEPT !.status = s, !.rev = @ + 1]
    BY <1>1, <1>2, <1>3, <1>5
  <1> QED
    BY <1>2, <1>6, <1>7

LEMMA CancelInv == ASSUME StoreInv, NEW c, Cancel(c) PROVE StoreInv'
  <1> DEFINE status == IF cards[c].attempts = 0 /\ ~Claimed(c) THEN "stopped" ELSE "stopping"
             target == IF LastDelivered(c) = {} THEN 0 ELSE CHOOSE i \in LastDelivered(c) : TRUE
             row == NewCmd(c, "cancel", status, target, 0)
             q   == [i \in DOMAIN cmds \cup {nextCmd} |->
                       IF i = nextCmd THEN row
                       ELSE IF i \in Drained(c) THEN [cmds[i] EXCEPT !.status = "cancelled"]
                       ELSE cmds[i]]
             st  == IF status = "stopped" THEN "cancelled" ELSE cards[c].status
             k   == [cards[c] EXCEPT !.status = st, !.rev = @ + 1]
  <1>1. /\ c \in DOMAIN cards /\ c \in Cards
        /\ cmds' = q /\ nextCmd' = nextCmd + 1
        /\ UNCHANGED <<runs, links, fresh, now, nextToken>>
    BY DEF Cancel, Addressable, Exists, Cards
  <1>2. cards' = [cards EXCEPT ![c] = k]
    BY DEF Cancel
  <1>3. /\ cards \in [DOMAIN cards -> Card] /\ runs \in [DOMAIN runs -> Run]
        /\ cmds \in [DOMAIN cmds -> Cmd] /\ DOMAIN cmds \subseteq 1..(nextCmd - 1)
        /\ \A i \in DOMAIN cmds : cmds[i].card \in DOMAIN cards
        /\ nextCmd \in Nat \ {0}
    BY DEF StoreInv, TypeOK, Exists
  <1>4. target \in Nat
    BY <1>3 DEF LastDelivered, Instructions, CommandsOf
  <1>5. row \in Cmd /\ row.card = c
    BY <1>1, <1>4, NewCmdType DEF CmdKinds, CmdStatuses, NewCmd
  <1>10. cards[c].token # 0 => st = cards[c].status
    BY DEF Claimed
  <1>11. cards[c] \in Card /\ st \in Statuses
    BY <1>1, <1>3 DEF Card, Statuses
  <1> HIDE DEF st
  <1>6. /\ k \in Card /\ k.token = cards[c].token /\ k.attempts = cards[c].attempts
        /\ k.lease = cards[c].lease
        /\ cards[c].token # 0 /\ cards[c].status = "in_progress" => k.status = "in_progress"
    BY <1>10, <1>11, MovedCard
  <1> HIDE DEF row, k
  <1>7. ASSUME NEW r \in Cmd
        PROVE  /\ [r EXCEPT !.status = "cancelled"] \in Cmd
               /\ [r EXCEPT !.status = "cancelled"].card = r.card
    BY DEF Cmd, CmdStatuses
  <1>8. ASSUME NEW i \in DOMAIN q PROVE q[i] \in Cmd /\ q[i].card \in DOMAIN cards
    BY <1>1, <1>3, <1>5, <1>7
  <1>12. DOMAIN q = DOMAIN cmds \cup {nextCmd} /\ q = [i \in DOMAIN q |-> q[i]]
    OBVIOUS
  <1> HIDE DEF q
  <1>9. /\ q \in [DOMAIN q -> Cmd] /\ DOMAIN q \subseteq 1..nextCmd
        /\ \A i \in DOMAIN q : q[i].card \in DOMAIN cards
    BY <1>3, <1>8, <1>12
  <1> QED
    BY <1>1, <1>2, <1>3, <1>6, <1>9, QuietKeepsInv DEF Quiet

LEMMA ResponseIntentInv ==
    ASSUME StoreInv, epoch \in Nat, NEW c, ResponseIntent(c)
    PROVE  StoreInv'
  <1> DEFINE row == NewCmd(c, "respond", "delivering", 0, epoch)
             k   == [cards[c] EXCEPT !.rev = @ + 1]
  <1>1. /\ c \in DOMAIN cards /\ c \in Cards
        /\ cmds' = AppendRow(row) /\ nextCmd' = nextCmd + 1
        /\ cards' = [cards EXCEPT ![c] = k]
        /\ UNCHANGED <<runs, links, fresh, now, nextToken>>
    BY DEF ResponseIntent, Addressable, Exists, Cards
  <1>2. row \in Cmd /\ row.card = c
    BY <1>1, NewCmdType DEF CmdKinds, CmdStatuses, NewCmd
  <1>3. /\ cards \in [DOMAIN cards -> Card] /\ runs \in [DOMAIN runs -> Run]
        /\ nextCmd \in Nat \ {0}
    BY DEF StoreInv, TypeOK
  <1>4. /\ k \in Card /\ k.token = cards[c].token /\ k.attempts = cards[c].attempts
        /\ k.lease = cards[c].lease /\ k.status = cards[c].status
    BY <1>1, <1>3 DEF Card
  <1> HIDE DEF row, k
  <1>5. /\ cmds' \in [DOMAIN cmds' -> Cmd] /\ DOMAIN cmds' \subseteq 1..nextCmd
        /\ \A i \in DOMAIN cmds' : cmds'[i].card \in DOMAIN cards
    BY <1>1, <1>2, AppendRowType
  <1> QED
    BY <1>1, <1>3, <1>4, <1>5, QuietKeepsInv DEF Quiet

\* Steps that touch nothing but the rows' state.
LEMMA RowsOnlyInv ==
    ASSUME StoreInv, cmds' \in [DOMAIN cmds -> Cmd],
           \A i \in DOMAIN cmds : cmds'[i].card = cmds[i].card,
           UNCHANGED <<cards, runs, links, fresh, now, nextToken, nextCmd>>
    PROVE  StoreInv'
  <1>1. /\ cards \in [DOMAIN cards -> Card] /\ runs \in [DOMAIN runs -> Run]
        /\ nextCmd \in Nat \ {0} /\ DOMAIN cmds \subseteq 1..(nextCmd - 1)
        /\ \A i \in DOMAIN cmds : cmds[i].card \in DOMAIN cards
    BY DEF StoreInv, TypeOK, Exists
  <1> QED
    BY <1>1, QuietKeepsInv DEF Quiet

LEMMA SettleResponseInv ==
    ASSUME StoreInv, NEW i, NEW s \in CmdStatuses, SettleResponse(i, s)
    PROVE  StoreInv'
  <1>1. cmds \in [DOMAIN cmds -> Cmd]
    BY DEF StoreInv, TypeOK
  <1>2. /\ cmds' = [cmds EXCEPT ![i].status = s] /\ i \in DOMAIN cmds
        /\ UNCHANGED <<cards, runs, links, fresh, now, nextToken, nextCmd>>
    BY DEF SettleResponse
  <1>3. cmds' \in [DOMAIN cmds -> Cmd] /\ \A j \in DOMAIN cmds : cmds'[j].card = cmds[j].card
    BY <1>1, <1>2 DEF Cmd
  <1> QED
    BY <1>2, <1>3, RowsOnlyInv

LEMMA AdvanceBoundaryInv ==
    ASSUME StoreInv, NEW c, NEW t, NEW i, AdvanceBoundary(c, t, i)
    PROVE  StoreInv'
  <1> DEFINE ended == [cmds EXCEPT ![i].status = "completed"]
  <1>1. /\ i \in DOMAIN cmds /\ cmds[i].token = t
        /\ cmds' = [j \in DOMAIN cmds |->
                       IF j \in NextLocked(ended, c) THEN ClaimLocked(ended, j, t)[j] ELSE ended[j]]
        /\ UNCHANGED <<cards, runs, links, fresh, now, nextToken, nextCmd>>
    BY DEF AdvanceBoundary, Instructions, CommandsOf
  <1>2. cmds \in [DOMAIN cmds -> Cmd]
    BY DEF StoreInv, TypeOK
  <1>3. ended \in [DOMAIN cmds -> Cmd] /\ t \in Nat
    BY <1>1, <1>2 DEF Cmd, CmdStatuses
  <1>4. \A j \in DOMAIN cmds : ended[j].card = cmds[j].card
    BY <1>1, <1>2 DEF Cmd
  <1> HIDE DEF ended
  <1>5. ASSUME NEW j \in DOMAIN cmds
        PROVE  ClaimLocked(ended, j, t)[j] \in Cmd /\ ClaimLocked(ended, j, t)[j].card = cmds[j].card
    BY <1>3, <1>4 DEF ClaimLocked, Cmd, CmdStatuses
  <1>6. cmds' \in [DOMAIN cmds -> Cmd] /\ \A j \in DOMAIN cmds : cmds'[j].card = cmds[j].card
    BY <1>1, <1>3, <1>4, <1>5
  <1> QED
    BY <1>1, <1>6, RowsOnlyInv

\* The verdict of a run whose own claim recorded one.
LEMMA VerifiedVerdict ==
    ASSUME NEW i, VerifiedRuns(i) # {}
    PROVE  WorkerVerdict[runs[CHOOSE t \in VerifiedRuns(i) : TRUE].status]
              \in {"completed", "error", "aborted"}
  <1>1. PICK t : t = CHOOSE u \in VerifiedRuns(i) : TRUE
    OBVIOUS
  <1>2. t \in VerifiedRuns(i)
    BY <1>1
  <1>3. runs[t].status \in {"done", "failed", "cancelled"}
    BY <1>2 DEF VerifiedRuns
  <1>4. WorkerVerdict[runs[t].status] \in {"completed", "error", "aborted"}
    BY <1>3 DEF WorkerVerdict
  <1> QED
    BY <1>1, <1>4

\* A stop that is confirmed: its card was not claimed.
LEMMA SettleStopInv ==
    ASSUME StoreInv, NEW i, NEW a \in {"stopping", "status_unknown", "stopped"}, NEW w,
           a = "stopped" => w \in DOMAIN CardVerdict,
           SettleStop(i, a, w)
    PROVE  StoreInv'
  <1> DEFINE c == cmds[i].card
             status == IF a = "stopped" /\ Claimed(c) THEN "stopping" ELSE a
             verdict == IF VerifiedRuns(i) # {}
                        THEN WorkerVerdict[runs[CHOOSE t \in VerifiedRuns(i) : TRUE].status] ELSE w
  <1>1. /\ i \in DOMAIN cmds
        /\ cmds' = [j \in DOMAIN cmds |->
                       IF j = i THEN [cmds[j] EXCEPT !.status = status]
                       ELSE IF status = "stopped" /\ j \in Unknown(c)
                            THEN [cmds[j] EXCEPT !.status = CmdVerdict[verdict]]
                       ELSE cmds[j]]
        /\ cards' = IF status = "stopped"
                    THEN [cards EXCEPT ![c] = Stopped(cards[c], verdict)] ELSE cards
        /\ UNCHANGED <<runs, links, fresh, now, nextToken, nextCmd>>
    BY DEF SettleStop
  <1>2. /\ cmds \in [DOMAIN cmds -> Cmd] /\ c \in DOMAIN cards
        /\ cards \in [DOMAIN cards -> Card] /\ runs \in [DOMAIN runs -> Run]
        /\ nextCmd \in Nat \ {0} /\ DOMAIN cmds \subseteq 1..(nextCmd - 1)
        /\ \A j \in DOMAIN cmds : cmds[j].card \in DOMAIN cards
    BY <1>1 DEF StoreInv, TypeOK, Exists
  <1>3. status \in CmdStatuses /\ (status = "stopped" => a = "stopped" /\ cards[c].token = 0)
    BY DEF CmdStatuses, Claimed
  <1>4. a = "stopped" => verdict \in {"completed", "error", "aborted"}
    BY VerifiedVerdict DEF CardVerdict
  <1> HIDE DEF status, verdict
  <1>5. a = "stopped" => CmdVerdict[verdict] \in CmdStatuses /\ CardVerdict[verdict] \in Statuses
    BY <1>4 DEF CmdVerdict, CardVerdict, CmdStatuses, Statuses
  <1>6. ASSUME NEW j \in DOMAIN cmds, NEW s \in CmdStatuses
        PROVE  [cmds[j] EXCEPT !.status = s] \in Cmd /\ [cmds[j] EXCEPT !.status = s].card = cmds[j].card
    BY <1>2 DEF Cmd
  <1>7. ASSUME NEW j \in DOMAIN cmds PROVE cmds'[j] \in Cmd /\ cmds'[j].card = cmds[j].card
    BY <1>1, <1>2, <1>3, <1>5, <1>6
  <1>8. cmds' \in [DOMAIN cmds -> Cmd]
    BY <1>1, <1>7
  <1>9. CASE status = "stopped"
    <2>1. PICK v : v = CardVerdict[verdict]
      OBVIOUS
    <2>2. PICK k : k = Stopped(cards[c], verdict)
      OBVIOUS
    <2>3. k \in Card /\ k.token = cards[c].token /\ k.attempts = cards[c].attempts
          /\ k.lease = cards[c].lease
      BY <1>2, <1>3, <1>5, <1>9, <2>1, <2>2, MovedCard DEF Stopped
    <2>4. cards' = [cards EXCEPT ![c] = k]
      BY <1>1, <1>9, <2>2
    <2> HIDE DEF c
    <2> QED
      BY <1>1, <1>2, <1>3, <1>7, <1>8, <1>9, <2>3, <2>4, QuietKeepsInv DEF Quiet
  <1>10. CASE status # "stopped"
    BY <1>1, <1>7, <1>8, <1>10, RowsOnlyInv
  <1> QED
    BY <1>9, <1>10

\* A recovery read that is still current changes a settled run of a card
\* that nobody holds.
LEMMA SettleReconciliationInv ==
    ASSUME StoreInv, NEW o, NEW a \in DOMAIN Reconciled, SettleReconciliation(o, a)
    PROVE  StoreInv'
  <1>1. CASE ~StillCurrent(o)
    BY <1>1, QuietKeepsInv DEF SettleReconciliation, Quiet, StoreInv, TypeOK, Exists
  <1>2. CASE StillCurrent(o)
    <2> DEFINE v == Reconciled[a]
    <2>1. v \in {"done", "cancelled", "failed"} /\ (a # "completed" => v # "done")
      BY DEF Reconciled
    <2>2. PICK i : /\ i = o.cmd /\ i \in Unknown(cmds[i].card) /\ Candidate(i) = o
                   /\ ~Claimed(cmds[i].card) /\ cmds[i].token \in DOMAIN runs
                   /\ runs[cmds[i].token].status \in {"expired", "failed", "cancelled"}
      BY <1>2 DEF StillCurrent, Orphans, Orphan
    <2>3. o.card = cmds[i].card /\ o.token = cmds[i].token
      BY <2>2 DEF Candidate
    <2>4. PICK c, t : c = o.card /\ t = o.token
      OBVIOUS
    <2>5. PICK s1, s2 : /\ s1 = (IF a = "completed" THEN "completed" ELSE v)
                        /\ s2 = (IF v = "failed" THEN "blocked" ELSE v)
      OBVIOUS
    <2>6. s1 \in CmdStatuses /\ s2 \in Statuses
      BY <2>1, <2>5 DEF CmdStatuses, Statuses
    <2>7. /\ cmds' = [cmds EXCEPT ![i].status = s1, ![i].worker = i]
          /\ cards' = [cards EXCEPT ![c].status = s2, ![c].sched = 0, ![c].rev = @ + 1]
          /\ runs' = [runs EXCEPT ![t].status = v, ![t].worker = i]
          /\ UNCHANGED <<links, fresh, now, nextToken, nextCmd>>
      BY <1>2, <2>2, <2>4, <2>5 DEF SettleReconciliation
    <2> HIDE DEF v
    <2>8. /\ cmds \in [DOMAIN cmds -> Cmd] /\ c \in DOMAIN cards
          /\ cards \in [DOMAIN cards -> Card] /\ runs \in [DOMAIN runs -> Run]
          /\ nextCmd \in Nat \ {0} /\ DOMAIN cmds \subseteq 1..(nextCmd - 1)
          /\ \A j \in DOMAIN cmds : cmds[j].card \in DOMAIN cards
          /\ i \in DOMAIN cmds /\ t \in DOMAIN runs /\ i \in Nat
      BY <2>2, <2>3, <2>4 DEF StoreInv, TypeOK, Exists, Unknown, Instructions, CommandsOf
    <2>9. cards[c].token = 0 /\ runs[t].status # "running"
      BY <2>2, <2>3, <2>4 DEF Claimed
    <2>10. cmds' \in [DOMAIN cmds -> Cmd] /\ \A j \in DOMAIN cmds : cmds'[j].card = cmds[j].card
      BY <2>6, <2>7, <2>8 DEF Cmd
    <2>11. /\ runs' \in [DOMAIN runs -> Run]
           /\ \A u \in DOMAIN runs :
                 /\ runs'[u].card = runs[u].card /\ runs'[u].attempt = runs[u].attempt
                 /\ runs'[u].status = "running" <=> runs[u].status = "running"
      BY <2>1, <2>7, <2>8, <2>9 DEF Run, Outcomes
    <2>12. /\ cards' \in [DOMAIN cards -> Card]
           /\ \A x \in DOMAIN cards :
                 /\ cards'[x].token = cards[x].token /\ cards'[x].attempts = cards[x].attempts
                 /\ cards'[x].lease = cards[x].lease
                 /\ cards[x].token # 0 => cards'[x].status = cards[x].status
      BY <2>6, <2>7, <2>8, <2>9 DEF Card
    <2> QED
      BY <2>7, <2>8, <2>10, <2>11, <2>12, QuietKeepsInv DEF Quiet
  <1> QED
    BY <1>1, <1>2

-----------------------------------------------------------------------------
(* The order of instructions.                                              *)

\* One row: which kinds a claim may take, and that an instruction is with a
\* worker under its card's claim, and in doubt only on a card without one.
RowInv(i) ==
    /\ cmds[i].card \in VoiceCards
    /\ cmds[i].token # 0 => cmds[i].kind \in {"initial", "steer"}
    /\ cmds[i].status \in {"queued", "held"} =>
          cmds[i].token = 0 /\ cmds[i].kind \in {"initial", "steer"}
    /\ cmds[i].kind \in {"initial", "steer"} =>
          /\ cmds[i].status \in {"delivering", "applied"} =>
                cmds[i].token # 0 /\ cards[cmds[i].card].token = cmds[i].token
          /\ cmds[i].status = "status_unknown" => cards[cmds[i].card].token = 0

\* Two rows of one card: at most one is with a worker or in doubt, none waits
\* behind a doubt or a stop, and none was taken before an earlier one.
PairInv(i, j) ==
    cmds[i].card = cmds[j].card =>
       /\ cmds[i].kind \in {"initial", "steer"} /\ cmds[j].kind \in {"initial", "steer"} =>
             /\ {cmds[i].status, cmds[j].status} \subseteq {"delivering", "applied", "status_unknown"}
                   => i = j
             /\ cmds[i].status = "status_unknown" => cmds[j].status # "queued"
             /\ i < j /\ cmds[j].token # 0 => cmds[i].status # "queued"
       /\ cmds[i].kind = "cancel" /\ cmds[i].status \in {"stopping", "status_unknown"} =>
             /\ cmds[j].status \notin {"queued", "held"}
             /\ cmds[j].kind = "cancel" /\ cmds[j].status \in {"stopping", "status_unknown"}
                   => i = j

LedgerInv == (\A i \in DOMAIN cmds : RowInv(i)) /\ (\A i, j \in DOMAIN cmds : PairInv(i, j))

\* Steps that leave the ledger alone, and the claims of the voice cards.
LEMMA LedgerUntouched ==
    ASSUME LedgerInv, cmds' = cmds, StoreInv,
           \A x \in VoiceCards \cap DOMAIN cards : cards'[x].token = cards[x].token
    PROVE  LedgerInv' /\ RowsGoOn
  <1>1. \A i \in DOMAIN cmds : cmds[i].card \in DOMAIN cards
    BY DEF StoreInv, TypeOK, Exists
  <1>2. ASSUME NEW i \in DOMAIN cmds PROVE RowInv(i)'
    BY <1>1 DEF LedgerInv, RowInv
  <1>3. ASSUME NEW i \in DOMAIN cmds, NEW j \in DOMAIN cmds PROVE PairInv(i, j)'
    BY DEF LedgerInv, PairInv
  <1>4. RowsGoOn
    BY DEF RowsGoOn
  <1> QED
    BY <1>2, <1>3, <1>4 DEF LedgerInv

\* A claim takes the first instruction that waits, or is of a card without.
LEMMA ClaimLedger ==
    ASSUME StoreInv, LedgerInv, NEW c, NEW w, NEW b, ClaimCard(c, w, b)
    PROVE  LedgerInv' /\ RowsGoOn
  <1> DEFINE N == IF c \in VoiceCards THEN NextLocked(cmds, c) ELSE {}
  <1>1. /\ c \in DOMAIN cards /\ cards[c].token = 0 /\ nextToken \in Nat \ {0}
        /\ cards' = [cards EXCEPT ![c] = Taken(cards[c], nextToken, now + LeaseTicks)]
        /\ cmds' = [i \in DOMAIN cmds |-> IF i \in N THEN ClaimLocked(cmds, i, nextToken)[i] ELSE cmds[i]]
        /\ c \in VoiceCards => N # {}
    BY DEF ClaimCard, Claimable, Exists, Claimed, StoreInv, TypeOK
  <1>2. /\ cmds \in [DOMAIN cmds -> Cmd] /\ cards \in [DOMAIN cards -> Card]
        /\ DOMAIN cmds \subseteq Nat /\ now \in Nat
        /\ \A i \in DOMAIN cmds : cmds[i].card \in DOMAIN cards
    BY DEF StoreInv, TypeOK, Exists
  <1>3. \A n \in N : /\ n \in DOMAIN cmds /\ cmds[n].card = c /\ cmds[n].status = "queued"
                     /\ c \in VoiceCards
                     /\ \A i \in DOMAIN cmds : cmds[i].card = c =>
                          /\ ~(cmds[i].kind = "cancel" /\ cmds[i].status \in {"stopping", "status_unknown"})
                          /\ cmds[i].kind \in {"initial", "steer"} =>
                                cmds[i].status \notin {"status_unknown", "delivering", "applied"}
                          /\ cmds[i].status = "queued" => n <= i
    BY DEF NextLocked, Queued, CommandsOf, PendingStop, Instructions
  <1>4. \A x \in DOMAIN cards : cards'[x].token = IF x = c THEN nextToken ELSE cards[x].token
    <2>1. now + LeaseTicks \in Nat
      BY <1>2, BoundsAssumption
    <2>2. Taken(cards[c], nextToken, now + LeaseTicks).token = nextToken
      <3>1. cards[c] \in Card /\ nextToken \in Nat
        BY <1>1, <1>2
      <3> QED
        BY <2>1, <3>1, TakenCard
    <2> QED
      BY <1>1, <1>2, <2>2
  <1> HIDE DEF N
  <1>5. DOMAIN cmds' = DOMAIN cmds
    BY <1>1
  <1>6. ASSUME NEW i \in DOMAIN cmds
        PROVE  /\ i \notin N => cmds'[i] = cmds[i]
               /\ i \in N => /\ cmds'[i].status = "delivering" /\ cmds'[i].token = nextToken
                             /\ cmds'[i].card = cmds[i].card /\ cmds'[i].kind = cmds[i].kind
    BY <1>1, <1>2 DEF ClaimLocked, Cmd
  <1>7. ASSUME NEW i \in DOMAIN cmds PROVE RowInv(i)'
    BY <1>1, <1>2, <1>3, <1>4, <1>6 DEF LedgerInv, RowInv
  <1>8. ASSUME NEW i \in DOMAIN cmds, NEW j \in DOMAIN cmds PROVE PairInv(i, j)'
    <2>1. i \in Nat /\ j \in Nat
      BY <1>2
    <2> QED
      BY <1>1, <1>3, <1>6, <2>1 DEF LedgerInv, RowInv, PairInv
  <1>9. RowsGoOn
    BY <1>5, <1>6, <1>3 DEF RowsGoOn, LedgerInv, RowInv
  <1> QED
    BY <1>5, <1>7, <1>8, <1>9 DEF LedgerInv

\* The turn an uncertain end of claim t puts in doubt.
Doubted(c, t) == IF InFlight(cmds, c, t) = {} THEN LastCompleted(cmds, c, t)
                 ELSE InFlight(cmds, c, t)

\* A claim ends: what it was delivering takes the outcome, or becomes a doubt,
\* and a doubt leaves nothing waiting.  c may be one of several such cards.
LEMMA FinishRows ==
    ASSUME StoreInv, LedgerInv, NEW c \in VoiceCards \cap DOMAIN cards, cards[c].token # 0,
           NEW o \in Outcomes, NEW u \in BOOLEAN,
           NEW i \in DOMAIN cmds, cmds[i].card = c, NEW r,
           r = FinishLocked(cmds, c, cards[c].token, o, u)[i]
    PROVE  /\ r.card = c /\ r.kind = cmds[i].kind /\ r.token = cmds[i].token
           /\ r.status \notin {"delivering", "applied"} \/ r.kind \notin {"initial", "steer"}
           /\ cmds[i].status # "queued" => r.status \notin {"queued", "held"}
                                          \/ r.status = cmds[i].status
           /\ cmds[i].status = "queued" => r.status \in {"queued", "held"}
           /\ cmds[i].status = "held" => r.status = "held"
           /\ u => r.status # "queued"
           /\ r.kind = "cancel" => r.status = cmds[i].status
           /\ r.status = "delivering" => cmds[i].status = "delivering"
           /\ r.status = "status_unknown" /\ r.kind \in {"initial", "steer"} =>
                 u /\ i \in Doubted(c, cards[c].token)
  <1> DEFINE t == cards[c].token
             ended == IF u THEN "status_unknown" ELSE IF o = "done" THEN "completed" ELSE o
             settled == IF u /\ InFlight(cmds, c, t) = {}
                        THEN LastCompleted(cmds, c, t) ELSE InFlight(cmds, c, t)
             held == IF o # "done" \/ u THEN Queued(cmds, c) ELSE {}
  <1>1. r = (IF i \in settled THEN [cmds[i] EXCEPT !.status = ended]
             ELSE IF i \in held THEN [cmds[i] EXCEPT !.status = "held"]
             ELSE cmds[i])
    BY DEF FinishLocked
  <1>2. cmds[i] \in Cmd /\ cmds[i].status \in CmdStatuses /\ RowInv(i)
    BY DEF StoreInv, TypeOK, Cmd, LedgerInv
  <1>3. i \in settled => /\ cmds[i].token = t
                        /\ cmds[i].status \in {"delivering", "applied", "completed"}
                        /\ cmds[i].kind \in {"initial", "steer"}
    BY <1>2 DEF InFlight, LastCompleted, Instructions, CommandsOf, RowInv
  <1>4. cmds[i].token = t /\ cmds[i].status \in {"delivering", "applied"} =>
           i \in InFlight(cmds, c, t)
    BY DEF InFlight, CommandsOf
  <1>5. i \in held => cmds[i].status = "queued"
    BY DEF Queued
  <1>6. u /\ cmds[i].status = "queued" => i \in held
    BY DEF Queued, CommandsOf
  <1>7. /\ ended \notin {"queued", "held", "delivering", "applied"}
        /\ ended = "status_unknown" => u
    BY DEF Outcomes
  <1>8. i \in InFlight(cmds, c, t) => i \in settled
    BY DEF settled
  <1>9. u /\ i \in settled => i \in Doubted(c, t)
    BY DEF settled, Doubted
  <1> HIDE DEF ended, settled, held
  <1>10. /\ r.card = c /\ r.kind = cmds[i].kind /\ r.token = cmds[i].token
         /\ r.status = (IF i \in settled THEN ended ELSE IF i \in held THEN "held" ELSE cmds[i].status)
    BY <1>1, <1>2 DEF Cmd
  <1>11. cmds[i].kind \in {"initial", "steer"} =>
            /\ cmds[i].status \in {"delivering", "applied"} => cmds[i].token = t
            /\ cmds[i].status # "status_unknown"
    BY <1>2 DEF RowInv
  <1>12. cmds[i].status = "queued" => cmds[i].kind \in {"initial", "steer"}
    BY <1>2 DEF RowInv
  <1>13. r.status = "status_unknown" /\ r.kind \in {"initial", "steer"} =>
            u /\ i \in Doubted(c, t)
    <2>1. r.status = "status_unknown" /\ r.kind \in {"initial", "steer"} => u /\ i \in settled
      BY <1>5, <1>7, <1>10, <1>11
    <2> QED
      BY <1>9, <2>1
  <1>14. /\ r.status \notin {"delivering", "applied"} \/ r.kind \notin {"initial", "steer"}
         /\ cmds[i].status # "queued" => r.status \notin {"queued", "held"}
                                        \/ r.status = cmds[i].status
         /\ cmds[i].status = "queued" => r.status \in {"queued", "held"}
         /\ cmds[i].status = "held" => r.status = "held"
         /\ u => r.status # "queued"
         /\ r.kind = "cancel" => r.status = cmds[i].status
         /\ r.status = "delivering" => cmds[i].status = "delivering"
    <2> HIDE DEF t
    <2>1. i \in settled => cmds[i].status \in {"delivering", "applied", "completed"}
                         /\ cmds[i].kind \in {"initial", "steer"}
      BY <1>3
    <2>2. cmds[i].status \in {"delivering", "applied"} /\ cmds[i].kind \in {"initial", "steer"}
             => i \in settled
      BY <1>4, <1>8, <1>11
    <2>3. r.kind = cmds[i].kind
          /\ r.status = (IF i \in settled THEN ended ELSE IF i \in held THEN "held" ELSE cmds[i].status)
      BY <1>10
    <2> QED
      BY <1>5, <1>6, <1>7, <1>12, <2>1, <2>2, <2>3
  <1> QED
    BY <1>10, <1>13, <1>14

\* Claims of several cards end at once, as in recovery.
LEMMA ReleaseLedger ==
    ASSUME StoreInv, LedgerInv, NEW L, L \subseteq VoiceCards \cap DOMAIN cards,
           \A x \in L : cards[x].token # 0, NEW o \in Outcomes, NEW u \in BOOLEAN,
           cmds' = [i \in DOMAIN cmds |->
                       IF cmds[i].card \in L
                       THEN FinishLocked(cmds, cmds[i].card, cards[cmds[i].card].token, o, u)[i]
                       ELSE cmds[i]],
           \A x \in L : cards'[x].token = 0,
           \A x \in (VoiceCards \cap DOMAIN cards) \ L : cards'[x].token = cards[x].token
    PROVE  LedgerInv' /\ RowsGoOn
  <1>1. /\ \A i \in DOMAIN cmds : cmds[i].card \in DOMAIN cards
        /\ DOMAIN cmds \subseteq Nat /\ DOMAIN cmds' = DOMAIN cmds
        /\ cmds \in [DOMAIN cmds -> Cmd]
    BY DEF StoreInv, TypeOK, Exists
  <1>2. ASSUME NEW i \in DOMAIN cmds, NEW c \in L, cmds[i].card = c
        PROVE  /\ cmds'[i].card = c /\ cmds'[i].kind = cmds[i].kind
               /\ cmds'[i].token = cmds[i].token
               /\ cmds'[i].status \notin {"delivering", "applied"} \/ cmds'[i].kind \notin {"initial", "steer"}
               /\ cmds[i].status # "queued" => cmds'[i].status \notin {"queued", "held"}
                                              \/ cmds'[i].status = cmds[i].status
               /\ cmds[i].status = "queued" => cmds'[i].status \in {"queued", "held"}
               /\ cmds[i].status = "held" => cmds'[i].status = "held"
               /\ u => cmds'[i].status # "queued"
               /\ cmds'[i].kind = "cancel" => cmds'[i].status = cmds[i].status
               /\ cmds'[i].status = "delivering" => cmds[i].status = "delivering"
               /\ cmds'[i].status = "status_unknown" /\ cmds'[i].kind \in {"initial", "steer"} =>
                     u /\ i \in Doubted(c, cards[c].token)
    <2>1. cmds'[i] = FinishLocked(cmds, c, cards[c].token, o, u)[i]
      BY <1>2
    <2>2. c \in VoiceCards \cap DOMAIN cards /\ cards[c].token # 0
      OBVIOUS
    <2> QED
      BY <1>2, <2>1, <2>2, FinishRows
  <1>3. ASSUME NEW i \in DOMAIN cmds, NEW j \in DOMAIN cmds, cmds[i].card = cmds[j].card,
               NEW c, c = cmds[i].card, cards[c].token # 0,
               i \in Doubted(c, cards[c].token), j \in Doubted(c, cards[c].token)
        PROVE  i = j
    <2>1. CASE InFlight(cmds, c, cards[c].token) = {}
      <3>1. i <= j /\ j <= i
        BY <1>3, <2>1 DEF LastCompleted, Doubted
      <3> QED
        BY <1>1, <3>1
    <2>2. CASE InFlight(cmds, c, cards[c].token) # {}
      BY <1>3, <2>2 DEF InFlight, LedgerInv, RowInv, PairInv, Doubted
    <2> QED
      BY <2>1, <2>2
  <1>4. ASSUME NEW i \in DOMAIN cmds, cmds[i].card \notin L PROVE cmds'[i] = cmds[i]
    BY <1>4
  <1>5. ASSUME NEW i \in DOMAIN cmds PROVE RowInv(i)'
    <2>1. RowInv(i)
      BY DEF LedgerInv
    <2>2. CASE cmds[i].card \in L
      BY <1>1, <1>2, <2>1, <2>2 DEF RowInv
    <2>3. CASE cmds[i].card \notin L
      BY <1>1, <1>4, <2>1, <2>3 DEF RowInv
    <2> QED
      BY <2>2, <2>3
  <1>6. ASSUME NEW i \in DOMAIN cmds, NEW j \in DOMAIN cmds PROVE PairInv(i, j)'
    <2>1. PairInv(i, j) /\ RowInv(i) /\ RowInv(j)
      BY DEF LedgerInv
    <2>2. CASE cmds[i].card \in L /\ cmds[j].card = cmds[i].card
      <3>1. PICK c : c = cmds[i].card
        OBVIOUS
      <3>2. c \in L /\ cards[c].token # 0 /\ cmds[j].card = c
        BY <2>2, <3>1
      <3>3. i \in Doubted(c, cards[c].token) /\ j \in Doubted(c, cards[c].token) => i = j
        BY <1>3, <3>1, <3>2
      <3> QED
        BY <1>2, <2>1, <3>1, <3>2, <3>3 DEF PairInv
    <2>3. CASE cmds[i].card \notin L /\ cmds[j].card = cmds[i].card
      BY <1>4, <2>1, <2>3 DEF PairInv
    <2>4. CASE cmds[j].card # cmds[i].card
      <3>1. cmds'[j].card # cmds'[i].card
        BY <1>2, <1>4, <2>4
      <3> QED
        BY <3>1 DEF PairInv
    <2> QED
      BY <2>2, <2>3, <2>4
  <1>7. RowsGoOn
    <2> SUFFICES ASSUME NEW i \in DOMAIN cmds
                 PROVE  /\ cmds[i].token # 0 => cmds'[i].token = cmds[i].token
                        /\ cmds[i].status # "queued" => cmds'[i].status # "queued"
                        /\ cmds[i].status = "held" => cmds'[i].status \in {"held", "cancelled"}
                        /\ cmds'[i].status = "delivering" /\ cmds[i].kind # "respond"
                              => cmds[i].status \in {"queued", "delivering"}
      BY DEF RowsGoOn
    <2> QED
      BY <1>2, <1>4
  <1> QED
    BY <1>1, <1>5, <1>6, <1>7 DEF LedgerInv

LEMMA FinishLedger ==
    ASSUME StoreInv, LedgerInv, NEW c, NEW t, NEW o \in Outcomes, NEW d, NEW u \in BOOLEAN,
           FinishClaim(c, t, o, d, u)
    PROVE  LedgerInv' /\ RowsGoOn
  <1>1. c \in DOMAIN cards /\ cards[c].token = t /\ t # 0
    BY DEF FinishClaim, Owns, Exists, Claimed
  <1>2. PICK k : cards' = [cards EXCEPT ![c] = k] /\ k.token = 0
    <2>1. cards[c] \in Card /\ AfterClaim(c, o, u) \in Statuses
      BY <1>1, AfterClaimStatus DEF StoreInv, TypeOK
    <2>2. PICK r : r = Released(cards[c], AfterClaim(c, o, u))
      OBVIOUS
    <2>3. r \in Card /\ r.token = 0
      BY <2>1, <2>2, ReleasedCard
    <2>4. PICK s : s = (IF o = "failed" /\ AfterClaim(c, o, u) \in {"ready", "todo"} THEN now + d ELSE 0)
      OBVIOUS
    <2>5. cards' = [cards EXCEPT ![c] = [r EXCEPT !.sched = s]]
      BY <2>2, <2>4 DEF FinishClaim
    <2>6. [r EXCEPT !.sched = s].token = 0
      BY <2>3 DEF Card
    <2> QED
      BY <2>5, <2>6
  <1>3. \A x \in DOMAIN cards : x # c => cards'[x].token = cards[x].token
    BY <1>2
  <1>4. cards'[c].token = 0
    BY <1>1, <1>2 DEF StoreInv, TypeOK
  <1>5. CASE c \in VoiceCards
    <2>1. cmds' = FinishLocked(cmds, c, t, o, u)
      BY <1>5 DEF FinishClaim
    <2>2. cmds' = [i \in DOMAIN cmds |->
                     IF cmds[i].card \in {c}
                     THEN FinishLocked(cmds, cmds[i].card, cards[cmds[i].card].token, o, u)[i]
                     ELSE cmds[i]]
      <3>1. ASSUME NEW i \in DOMAIN cmds, cmds[i].card # c
            PROVE  FinishLocked(cmds, c, t, o, u)[i] = cmds[i]
        BY <3>1 DEF FinishLocked, InFlight, LastCompleted, Instructions, CommandsOf, Queued
      <3>2. /\ DOMAIN FinishLocked(cmds, c, t, o, u) = DOMAIN cmds
            /\ FinishLocked(cmds, c, t, o, u)
                  = [i \in DOMAIN cmds |-> FinishLocked(cmds, c, t, o, u)[i]]
        BY DEF FinishLocked
      <3>3. ASSUME NEW i \in DOMAIN cmds
            PROVE  FinishLocked(cmds, c, t, o, u)[i] =
                     IF cmds[i].card \in {c}
                     THEN FinishLocked(cmds, cmds[i].card, cards[cmds[i].card].token, o, u)[i]
                     ELSE cmds[i]
        BY <1>1, <3>1
      <3> QED
        BY <2>1, <3>2, <3>3
    <2>3. PICK L : L = {c}
      OBVIOUS
    <2>4. /\ L \subseteq VoiceCards \cap DOMAIN cards /\ \A x \in L : cards[x].token # 0
          /\ \A x \in L : cards'[x].token = 0
          /\ \A x \in (VoiceCards \cap DOMAIN cards) \ L : cards'[x].token = cards[x].token
      BY <1>1, <1>3, <1>4, <1>5, <2>3
    <2> QED
      BY <2>2, <2>3, <2>4, ReleaseLedger
  <1>6. CASE c \notin VoiceCards
    BY <1>3, <1>6, LedgerUntouched DEF FinishClaim
  <1> QED
    BY <1>5, <1>6

LEMMA RecoverLedger ==
    ASSUME StoreInv, LedgerInv, RecoverExpiredClaims
    PROVE  LedgerInv' /\ RowsGoOn
  <1> DEFINE L == {x \in VoiceCards \cap DOMAIN cards : Lapsed(x)}
  <1>1. cmds' = [i \in DOMAIN cmds |->
                   IF cmds[i].card \in L
                   THEN FinishLocked(cmds, cmds[i].card, cards[cmds[i].card].token, "failed", TRUE)[i]
                   ELSE cmds[i]]
    <2>1. cmds' = [i \in DOMAIN cmds |->
                     IF Lapsed(cmds[i].card)
                     THEN FinishLocked(cmds, cmds[i].card, cards[cmds[i].card].token, "failed", TRUE)[i]
                     ELSE cmds[i]]
      BY DEF RecoverExpiredClaims
    <2>2. \A i \in DOMAIN cmds : cmds[i].card \in VoiceCards \cap DOMAIN cards
      BY DEF StoreInv, TypeOK, Exists, LedgerInv, RowInv
    <2> QED
      BY <2>1, <2>2
  <1>2. ASSUME NEW x \in DOMAIN cards
        PROVE  cards'[x].token = IF Lapsed(x) THEN 0 ELSE cards[x].token
    <2>1. cards[x] \in Card /\ Expired(x) \in Statuses
      BY RequeuedStatus DEF StoreInv, TypeOK, Expired, Statuses
    <2>2. cards'[x] = (IF Lapsed(x) THEN Released(cards[x], Expired(x))
                       ELSE IF Damaged(x) THEN Repaired(cards[x]) ELSE cards[x])
      BY DEF RecoverExpiredClaims
    <2> QED
      BY <2>1, <2>2, ReleasedCard, RepairedCard
  <1>3. \A x \in L : cards[x].token # 0
    BY DEF Lapsed, Claimed
  <1>4. \A x \in L : cards'[x].token = 0
    BY <1>2
  <1>5. \A x \in (VoiceCards \cap DOMAIN cards) \ L : cards'[x].token = cards[x].token
    BY <1>2
  <1>6. L \subseteq VoiceCards \cap DOMAIN cards /\ "failed" \in Outcomes
    BY DEF Outcomes
  <1> HIDE DEF L
  <1> QED
    BY <1>1, <1>3, <1>4, <1>5, <1>6, ReleaseLedger

\* Claims stay as they are, and each row's new state is told by its old one.
LEMMA RowsLedger ==
    ASSUME StoreInv, LedgerInv, DOMAIN cmds' = DOMAIN cmds,
           \A x \in VoiceCards \cap DOMAIN cards : cards'[x].token = cards[x].token,
           \A i \in DOMAIN cmds :
              /\ cmds'[i].card = cmds[i].card /\ cmds'[i].kind = cmds[i].kind
              /\ cmds'[i].token = cmds[i].token
              /\ \/ cmds'[i].status = cmds[i].status
                 \/ cmds[i].status = "delivering" /\ cmds'[i].status = "applied"
                 \/ /\ cmds[i].status # "held"
                    /\ cmds'[i].status \notin {"queued", "held", "delivering", "applied", "stopping", "status_unknown"}
                 \/ /\ cmds[i].kind = "cancel" /\ cmds[i].status \in {"stopping", "status_unknown"}
                    /\ cmds'[i].status \in {"stopping", "status_unknown", "stopped"}
                 \/ cmds[i].kind = "respond" /\ cmds'[i].status \notin {"queued", "held"}
    PROVE  LedgerInv' /\ RowsGoOn
  <1>1. \A i \in DOMAIN cmds : cmds[i].card \in DOMAIN cards
    BY DEF StoreInv, TypeOK, Exists
  <1>2. ASSUME NEW i \in DOMAIN cmds PROVE RowInv(i)'
    BY <1>1 DEF LedgerInv, RowInv
  <1>3. ASSUME NEW i \in DOMAIN cmds, NEW j \in DOMAIN cmds PROVE PairInv(i, j)'
    BY DEF LedgerInv, RowInv, PairInv
  <1>4. RowsGoOn
    BY DEF RowsGoOn, LedgerInv, RowInv
  <1> QED
    BY <1>2, <1>3, <1>4 DEF LedgerInv

LEMMA WorkerReportLedger ==
    ASSUME StoreInv, LedgerInv, NEW c, NEW t, NEW w, SetWorkerRunId(c, t, w)
    PROVE  LedgerInv' /\ RowsGoOn
  <1>1. /\ c \in DOMAIN cards /\ cards \in [DOMAIN cards -> Card]
        /\ cmds \in [DOMAIN cmds -> Cmd]
        /\ cards' = [cards EXCEPT ![c] = Repaired(cards[c])]
    BY DEF SetWorkerRunId, Owns, Exists, StoreInv, TypeOK
  <1>2. \A x \in DOMAIN cards : cards'[x].token = cards[x].token
    BY <1>1, RepairedCard
  <1>3. CASE c \in VoiceCards
    <2>1. cmds' = AppliedLocked(cmds, c, t, w)
      BY <1>3 DEF SetWorkerRunId
    <2>2. DOMAIN cmds' = DOMAIN cmds
      BY <2>1 DEF AppliedLocked
    <2>3. ASSUME NEW i \in DOMAIN cmds
          PROVE  /\ cmds'[i].card = cmds[i].card /\ cmds'[i].kind = cmds[i].kind
                 /\ cmds'[i].token = cmds[i].token
                 /\ \/ cmds'[i].status = cmds[i].status
                    \/ cmds[i].status = "delivering" /\ cmds'[i].status = "applied"
      BY <1>1, <2>1 DEF AppliedLocked, Cmd
    <2> QED
      BY <1>2, <2>2, <2>3, RowsLedger
  <1>4. CASE c \notin VoiceCards
    BY <1>2, <1>4, LedgerUntouched DEF SetWorkerRunId
  <1> QED
    BY <1>3, <1>4

LEMMA SettleResponseLedger ==
    ASSUME StoreInv, LedgerInv, NEW i,
           NEW s \in {"applied", "rejected", "status_unknown"}, SettleResponse(i, s)
    PROVE  LedgerInv' /\ RowsGoOn
  <1>1. /\ cmds \in [DOMAIN cmds -> Cmd] /\ i \in DOMAIN cmds /\ cmds[i].kind = "respond"
        /\ cmds' = [cmds EXCEPT ![i].status = s] /\ cards' = cards
    BY DEF SettleResponse, StoreInv, TypeOK
  <1>2. DOMAIN cmds' = DOMAIN cmds
    BY <1>1
  <1>3. ASSUME NEW j \in DOMAIN cmds
        PROVE  /\ cmds'[j].card = cmds[j].card /\ cmds'[j].kind = cmds[j].kind
               /\ cmds'[j].token = cmds[j].token
               /\ \/ cmds'[j].status = cmds[j].status
                  \/ cmds[j].kind = "respond" /\ cmds'[j].status \notin {"queued", "held"}
    BY <1>1 DEF Cmd
  <1> QED
    BY <1>1, <1>2, <1>3, RowsLedger

LEMMA SettleStopLedger ==
    ASSUME StoreInv, LedgerInv, NEW i, NEW a \in {"stopping", "status_unknown", "stopped"}, NEW w,
           a = "stopped" => w \in DOMAIN CardVerdict,
           SettleStop(i, a, w)
    PROVE  LedgerInv' /\ RowsGoOn
  <1> DEFINE c == cmds[i].card
             status == IF a = "stopped" /\ Claimed(c) THEN "stopping" ELSE a
             verdict == IF VerifiedRuns(i) # {}
                        THEN WorkerVerdict[runs[CHOOSE t \in VerifiedRuns(i) : TRUE].status] ELSE w
  <1>1. /\ i \in DOMAIN cmds /\ i \in PendingStop(cmds, c)
        /\ cmds' = [j \in DOMAIN cmds |->
                       IF j = i THEN [cmds[j] EXCEPT !.status = status]
                       ELSE IF status = "stopped" /\ j \in Unknown(c)
                            THEN [cmds[j] EXCEPT !.status = CmdVerdict[verdict]]
                       ELSE cmds[j]]
        /\ cards' = IF status = "stopped"
                    THEN [cards EXCEPT ![c] = Stopped(cards[c], verdict)] ELSE cards
    BY DEF SettleStop
  <1>2. cmds \in [DOMAIN cmds -> Cmd] /\ cards \in [DOMAIN cards -> Card] /\ c \in DOMAIN cards
    BY <1>1 DEF StoreInv, TypeOK, Exists
  <1>3. status \in {"stopping", "status_unknown", "stopped"} /\ (status = "stopped" => a = "stopped")
    OBVIOUS
  <1>4. a = "stopped" => verdict \in {"completed", "error", "aborted"}
    BY VerifiedVerdict DEF CardVerdict
  <1> HIDE DEF status, verdict
  <1>5. a = "stopped" => CmdVerdict[verdict] \in {"completed", "failed", "cancelled"}
                          /\ CardVerdict[verdict] \in Statuses
    BY <1>4 DEF CmdVerdict, CardVerdict, Statuses
  <1>6. \A x \in DOMAIN cards : cards'[x].token = cards[x].token
    <2>1. CASE status = "stopped"
      <3>1. PICK k : k = Stopped(cards[c], verdict)
        OBVIOUS
      <3>2. PICK v : v = CardVerdict[verdict]
        OBVIOUS
      <3>3. k.token = cards[c].token
        BY <1>2, <1>3, <1>5, <2>1, <3>1, <3>2, MovedCard DEF Stopped
      <3>4. cards' = [cards EXCEPT ![c] = k]
        BY <1>1, <2>1, <3>1
      <3> HIDE DEF c
      <3> QED
        BY <1>2, <3>3, <3>4
    <2> QED
      BY <1>1, <2>1
  <1>7. DOMAIN cmds' = DOMAIN cmds
    BY <1>1
  <1>8. /\ cmds[i].kind = "cancel" /\ cmds[i].status \in {"stopping", "status_unknown"}
        /\ \A j \in Unknown(c) : cmds[j].status = "status_unknown"
    BY <1>1 DEF PendingStop, Unknown
  <1>9. ASSUME NEW j \in DOMAIN cmds
        PROVE  /\ cmds'[j].card = cmds[j].card /\ cmds'[j].kind = cmds[j].kind
               /\ cmds'[j].token = cmds[j].token
               /\ \/ cmds'[j].status = cmds[j].status
                  \/ /\ cmds[j].status # "held"
                     /\ cmds'[j].status \notin {"queued", "held", "delivering", "applied", "stopping", "status_unknown"}
                  \/ /\ cmds[j].kind = "cancel" /\ cmds[j].status \in {"stopping", "status_unknown"}
                     /\ cmds'[j].status \in {"stopping", "status_unknown", "stopped"}
    <2>1. ASSUME NEW s \in CmdStatuses, cmds'[j] = [cmds[j] EXCEPT !.status = s]
          PROVE  /\ cmds'[j].card = cmds[j].card /\ cmds'[j].kind = cmds[j].kind
                 /\ cmds'[j].token = cmds[j].token /\ cmds'[j].status = s
      BY <1>2, <2>1 DEF Cmd
    <2>2. CASE j = i
      <3>1. status \in CmdStatuses
        BY <1>3 DEF CmdStatuses
      <3> QED
        BY <1>1, <1>3, <1>8, <2>1, <2>2, <3>1
    <2>3. CASE j # i /\ status = "stopped" /\ j \in Unknown(c)
      <3>1. CmdVerdict[verdict] \in CmdStatuses
        BY <1>3, <1>5, <2>3 DEF CmdStatuses
      <3> QED
        BY <1>1, <1>3, <1>5, <1>8, <2>1, <2>3, <3>1
    <2>4. CASE j # i /\ ~(status = "stopped" /\ j \in Unknown(c))
      BY <1>1, <2>4
    <2> QED
      BY <2>2, <2>3, <2>4
  <1> HIDE DEF c
  <1> QED
    BY <1>6, <1>7, <1>9, RowsLedger

LEMMA ReconciliationLedger ==
    ASSUME StoreInv, LedgerInv, NEW o, NEW a \in DOMAIN Reconciled, SettleReconciliation(o, a)
    PROVE  LedgerInv' /\ RowsGoOn
  <1>1. CASE ~StillCurrent(o)
    BY <1>1, LedgerUntouched DEF SettleReconciliation
  <1>2. CASE StillCurrent(o)
    <2>1. PICK v : v = Reconciled[a] /\ v \in {"done", "cancelled", "failed"}
                   /\ (a # "completed" => v # "done")
      BY DEF Reconciled
    <2>2. PICK i : i = o.cmd /\ i \in Unknown(cmds[i].card)
      BY <1>2 DEF StillCurrent, Orphans, Orphan
    <2>3. PICK s, s2 : /\ s = (IF a = "completed" THEN "completed" ELSE v)
                       /\ s2 = (IF v = "failed" THEN "blocked" ELSE v)
      OBVIOUS
    <2>4. /\ cmds' = [cmds EXCEPT ![i].status = s, ![i].worker = i]
          /\ cards' = [cards EXCEPT ![o.card].status = s2, ![o.card].sched = 0, ![o.card].rev = @ + 1]
      BY <1>2, <2>1, <2>2, <2>3 DEF SettleReconciliation
    <2>5. /\ cmds \in [DOMAIN cmds -> Cmd] /\ cards \in [DOMAIN cards -> Card]
          /\ i \in DOMAIN cmds /\ cmds[i].status = "status_unknown"
          /\ s \in {"completed", "cancelled", "failed"}
      BY <2>1, <2>2, <2>3 DEF Unknown, Instructions, CommandsOf, StoreInv, TypeOK
    <2>6. \A x \in DOMAIN cards : cards'[x].token = cards[x].token
      BY <2>4, <2>5 DEF Card
    <2>7. DOMAIN cmds' = DOMAIN cmds
      BY <2>4
    <2>8. ASSUME NEW j \in DOMAIN cmds
          PROVE  /\ cmds'[j].card = cmds[j].card /\ cmds'[j].kind = cmds[j].kind
                 /\ cmds'[j].token = cmds[j].token
                 /\ \/ cmds'[j].status = cmds[j].status
                    \/ /\ cmds[j].status # "held"
                       /\ cmds'[j].status \notin {"queued", "held", "delivering", "applied", "stopping", "status_unknown"}
      BY <2>4, <2>5 DEF Cmd
    <2> QED
      BY <2>6, <2>7, <2>8, RowsLedger
  <1> QED
    BY <1>1, <1>2

\* A turn ends and the worker takes the next instruction under its claim.
LEMMA BoundaryLedger ==
    ASSUME StoreInv, LedgerInv, NEW c, NEW t, NEW i, AdvanceBoundary(c, t, i)
    PROVE  LedgerInv' /\ RowsGoOn
  <1> DEFINE ended == [cmds EXCEPT ![i].status = "completed"]
             N == NextLocked(ended, c)
  <1>1. /\ i \in DOMAIN cmds /\ cmds[i].card = c /\ cmds[i].token = t
        /\ cmds[i].kind \in {"initial", "steer"} /\ cmds[i].status \in {"applied", "completed"}
        /\ cards[c].token = t /\ t # 0 /\ c \in DOMAIN cards /\ cards' = cards
        /\ cmds' = [j \in DOMAIN cmds |-> IF j \in N THEN ClaimLocked(ended, j, t)[j] ELSE ended[j]]
    BY DEF AdvanceBoundary, Instructions, CommandsOf, Owns, Exists, Claimed
  <1>2. /\ cmds \in [DOMAIN cmds -> Cmd] /\ DOMAIN cmds \subseteq Nat
        /\ \A j \in DOMAIN cmds : cmds[j].card \in DOMAIN cards
    BY DEF StoreInv, TypeOK, Exists
  <1>3. /\ ended \in [DOMAIN cmds -> Cmd] /\ DOMAIN ended = DOMAIN cmds
        /\ \A j \in DOMAIN cmds :
              /\ ended[j].card = cmds[j].card /\ ended[j].kind = cmds[j].kind
              /\ ended[j].token = cmds[j].token
              /\ ended[j].status = IF j = i THEN "completed" ELSE cmds[j].status
    BY <1>1, <1>2 DEF Cmd, CmdStatuses
  <1>4. \A n \in N : /\ n \in DOMAIN cmds /\ ended[n].card = c /\ ended[n].status = "queued"
                     /\ \A j \in DOMAIN cmds : ended[j].card = c =>
                          /\ ~(ended[j].kind = "cancel" /\ ended[j].status \in {"stopping", "status_unknown"})
                          /\ ended[j].kind \in {"initial", "steer"} =>
                                ended[j].status \notin {"status_unknown", "delivering", "applied"}
                          /\ ended[j].status = "queued" => n <= j
    BY <1>3 DEF NextLocked, Queued, CommandsOf, PendingStop, Instructions
  <1> HIDE DEF ended, N
  <1>5. DOMAIN cmds' = DOMAIN cmds
    BY <1>1
  <1>6. ASSUME NEW j \in DOMAIN cmds
        PROVE  /\ cmds'[j].card = cmds[j].card /\ cmds'[j].kind = cmds[j].kind
               /\ j \notin N => /\ cmds'[j].token = cmds[j].token
                               /\ cmds'[j].status = IF j = i THEN "completed" ELSE cmds[j].status
               /\ j \in N => cmds'[j].status = "delivering" /\ cmds'[j].token = t
    <2>1. ASSUME j \in N
          PROVE  /\ cmds'[j] = [ended[j] EXCEPT !.status = "delivering", !.token = t]
                 /\ ended[j] \in Cmd
      BY <1>1, <1>3, <2>1 DEF ClaimLocked
    <2>2. ASSUME j \notin N PROVE cmds'[j] = ended[j]
      BY <1>1, <2>2
    <2>3. ASSUME NEW r \in Cmd, NEW q, q = [r EXCEPT !.status = "delivering", !.token = t]
          PROVE  q.status = "delivering" /\ q.token = t /\ q.card = r.card /\ q.kind = r.kind
      BY <2>3 DEF Cmd
    <2>4. CASE j \in N
      <3>1. PICK r : r = ended[j]
        OBVIOUS
      <3>2. /\ cmds'[j].status = "delivering" /\ cmds'[j].token = t
            /\ cmds'[j].card = r.card /\ cmds'[j].kind = r.kind
        BY <2>1, <2>3, <2>4, <3>1
      <3> QED
        BY <1>3, <2>4, <3>1, <3>2
    <2> QED
      BY <1>3, <2>2, <2>4
  <1>7. \A n \in N : /\ n \in DOMAIN cmds /\ n # i /\ cmds[n].card = c /\ cmds[n].status = "queued"
                     /\ \A j \in DOMAIN cmds : j # i /\ cmds[j].card = c =>
                          /\ ~(cmds[j].kind = "cancel" /\ cmds[j].status \in {"stopping", "status_unknown"})
                          /\ cmds[j].kind \in {"initial", "steer"} =>
                                cmds[j].status \notin {"status_unknown", "delivering", "applied"}
                          /\ cmds[j].status = "queued" => n <= j
    BY <1>3, <1>4
  <1>8. ASSUME NEW j \in DOMAIN cmds PROVE RowInv(j)'
    BY <1>1, <1>2, <1>6, <1>7 DEF LedgerInv, RowInv
  <1>9. ASSUME NEW j \in DOMAIN cmds, NEW k \in DOMAIN cmds PROVE PairInv(j, k)'
    <2>1. j \in Nat /\ k \in Nat
      BY <1>2
    <2> QED
      BY <1>1, <1>6, <1>7, <2>1 DEF LedgerInv, RowInv, PairInv
  <1>10. RowsGoOn
    BY <1>1, <1>5, <1>6, <1>7 DEF RowsGoOn, LedgerInv, RowInv
  <1> QED
    BY <1>5, <1>8, <1>9, <1>10 DEF LedgerInv

\* A new row: an instruction where nothing is in doubt, or a response.
LEMMA NewRowLedger ==
    ASSUME StoreInv, LedgerInv, NEW r,
           r.card \in VoiceCards, r.token = 0,
           \/ /\ r.kind \in {"initial", "steer"} /\ r.status = "queued"
              /\ PendingStop(cmds, r.card) = {} /\ Unknown(r.card) = {}
           \/ r.kind = "respond" /\ r.status = "delivering",
           cmds' = AppendRow(r),
           \A x \in VoiceCards \cap DOMAIN cards : cards'[x].token = cards[x].token
    PROVE  LedgerInv' /\ RowsGoOn
  <1>1. /\ \A i \in DOMAIN cmds : cmds[i].card \in DOMAIN cards
        /\ nextCmd \in Nat /\ \A i \in DOMAIN cmds : i \in Nat /\ i < nextCmd
    BY DEF StoreInv, TypeOK, Exists
  <1>2. /\ DOMAIN cmds' = DOMAIN cmds \cup {nextCmd} /\ cmds'[nextCmd] = r
        /\ \A i \in DOMAIN cmds : cmds'[i] = cmds[i]
    BY <1>1 DEF AppendRow, Insert
  <1>3. r.kind \in {"initial", "steer"} =>
           \A i \in DOMAIN cmds : cmds[i].card = r.card =>
              /\ ~(cmds[i].kind = "cancel" /\ cmds[i].status \in {"stopping", "status_unknown"})
              /\ cmds[i].kind \in {"initial", "steer"} => cmds[i].status # "status_unknown"
    BY DEF PendingStop, CommandsOf, Unknown, Instructions
  <1>4. ASSUME NEW i \in DOMAIN cmds' PROVE RowInv(i)'
    BY <1>1, <1>2 DEF LedgerInv, RowInv
  <1>5. ASSUME NEW i \in DOMAIN cmds', NEW j \in DOMAIN cmds' PROVE PairInv(i, j)'
    <2>1. CASE i \in DOMAIN cmds /\ j \in DOMAIN cmds
      BY <1>2, <2>1 DEF LedgerInv, PairInv
    <2>2. CASE i \in DOMAIN cmds /\ j = nextCmd
      BY <1>1, <1>2, <1>3, <2>2 DEF LedgerInv, RowInv, PairInv
    <2>3. CASE i = nextCmd /\ j \in DOMAIN cmds
      BY <1>1, <1>2, <1>3, <2>3 DEF LedgerInv, RowInv, PairInv
    <2>4. CASE i = nextCmd /\ j = nextCmd
      BY <1>1, <1>2, <2>4 DEF PairInv
    <2> QED
      BY <1>2, <2>1, <2>2, <2>3, <2>4
  <1>6. RowsGoOn
    BY <1>2 DEF RowsGoOn
  <1> QED
    BY <1>4, <1>5, <1>6 DEF LedgerInv

LEMMA EnqueueLedger ==
    ASSUME StoreInv, LedgerInv, NEW c, Enqueue(c)
    PROVE  LedgerInv' /\ RowsGoOn
  <1>1. PICK r : r = NewCmd(c, "steer", "queued", 0, 0)
    OBVIOUS
  <1>2. r.card = c /\ r.kind = "steer" /\ r.status = "queued" /\ r.token = 0
    BY <1>1 DEF NewCmd
  <1>3. /\ c \in VoiceCards /\ cmds' = AppendRow(r)
        /\ PendingStop(cmds, r.card) = {} /\ Unknown(r.card) = {}
    BY <1>1, <1>2 DEF Enqueue, Addressable
  <1>4. \A x \in DOMAIN cards : cards'[x].token = cards[x].token
    BY DEF Enqueue, StoreInv, TypeOK, Card
  <1> QED
    BY <1>2, <1>3, <1>4, NewRowLedger

LEMMA ResponseIntentLedger ==
    ASSUME StoreInv, LedgerInv, NEW c, ResponseIntent(c)
    PROVE  LedgerInv' /\ RowsGoOn
  <1>1. PICK r : r = NewCmd(c, "respond", "delivering", 0, epoch)
    OBVIOUS
  <1>2. r.card = c /\ r.kind = "respond" /\ r.status = "delivering" /\ r.token = 0
    BY <1>1 DEF NewCmd
  <1>3. c \in VoiceCards /\ cmds' = AppendRow(r)
    BY <1>1 DEF ResponseIntent, Addressable
  <1>4. \A x \in DOMAIN cards : cards'[x].token = cards[x].token
    BY DEF ResponseIntent, StoreInv, TypeOK, Card
  <1> QED
    BY <1>2, <1>3, <1>4, NewRowLedger

LEMMA AddVoiceCardLedger ==
    ASSUME StoreInv, LedgerInv, NEW c, NEW p, NEW b \in BOOLEAN, AddVoiceCard(c, p, b)
    PROVE  LedgerInv' /\ RowsGoOn
  <1>1. /\ c \in VoiceCards /\ c \notin DOMAIN cards
        /\ \A i \in DOMAIN cmds : cmds[i].card \in DOMAIN cards
    BY DEF AddVoiceCard, StoreInv, TypeOK, Exists
  <1>2. \A x \in DOMAIN cards : cards'[x] = cards[x]
    BY <1>1 DEF AddVoiceCard, Insert
  <1>3. CASE b
    BY <1>2, <1>3, LedgerUntouched DEF AddVoiceCard
  <1>4. CASE ~b
    <2>1. PICK r : r = NewCmd(c, "initial", "queued", 0, 0)
      OBVIOUS
    <2>2. r.card = c /\ r.kind = "initial" /\ r.status = "queued" /\ r.token = 0
      BY <2>1 DEF NewCmd
    <2>3. cmds' = AppendRow(r)
      BY <1>4, <2>1 DEF AddVoiceCard, AppendRow
    <2>4. PendingStop(cmds, r.card) = {} /\ Unknown(r.card) = {}
      BY <1>1, <2>2 DEF PendingStop, Unknown, Instructions, CommandsOf
    <2> QED
      BY <1>1, <1>2, <2>2, <2>3, <2>4, NewRowLedger
  <1> QED
    BY <1>3, <1>4

\* A stop takes all that waits off the queue.
LEMMA CancelLedger ==
    ASSUME StoreInv, LedgerInv, NEW c, Cancel(c)
    PROVE  LedgerInv' /\ RowsGoOn
  <1> DEFINE status == IF cards[c].attempts = 0 /\ ~Claimed(c) THEN "stopped" ELSE "stopping"
             target == IF LastDelivered(c) = {} THEN 0 ELSE CHOOSE i \in LastDelivered(c) : TRUE
             row == NewCmd(c, "cancel", status, target, 0)
  <1>0. /\ row.card = c /\ row.kind = "cancel" /\ row.token = 0
        /\ row.status \in {"stopped", "stopping"}
        /\ cmds' = [i \in DOMAIN cmds \cup {nextCmd} |->
                       IF i = nextCmd THEN row
                       ELSE IF i \in Drained(c) THEN [cmds[i] EXCEPT !.status = "cancelled"]
                       ELSE cmds[i]]
    <2>1. row.card = c /\ row.kind = "cancel" /\ row.token = 0 /\ row.status = status
      BY DEF NewCmd
    <2>2. cmds' = [i \in DOMAIN cmds \cup {nextCmd} |->
                       IF i = nextCmd THEN row
                       ELSE IF i \in Drained(c) THEN [cmds[i] EXCEPT !.status = "cancelled"]
                       ELSE cmds[i]]
      BY DEF Cancel
    <2> QED
      BY <2>1, <2>2
  <1> HIDE DEF row
  <1>1. PICK r : /\ r.card = c /\ r.kind = "cancel" /\ r.token = 0
                 /\ r.status \in {"stopped", "stopping"}
                 /\ cmds' = [i \in DOMAIN cmds \cup {nextCmd} |->
                       IF i = nextCmd THEN r
                       ELSE IF i \in Drained(c) THEN [cmds[i] EXCEPT !.status = "cancelled"]
                       ELSE cmds[i]]
    BY <1>0
  <1>2. /\ c \in VoiceCards /\ PendingStop(cmds, c) = {}
        /\ \A x \in DOMAIN cards : cards'[x].token = cards[x].token
    BY DEF Cancel, Addressable, StoreInv, TypeOK, Card
  <1>3. /\ \A i \in DOMAIN cmds : cmds[i].card \in DOMAIN cards
        /\ nextCmd \in Nat /\ \A i \in DOMAIN cmds : i \in Nat /\ i < nextCmd
        /\ cmds \in [DOMAIN cmds -> Cmd]
    BY DEF StoreInv, TypeOK, Exists
  <1>4. DOMAIN cmds' = DOMAIN cmds \cup {nextCmd} /\ cmds'[nextCmd] = r
    BY <1>1
  <1>5. ASSUME NEW i \in DOMAIN cmds
        PROVE  /\ cmds'[i].card = cmds[i].card /\ cmds'[i].kind = cmds[i].kind
               /\ cmds'[i].token = cmds[i].token
               /\ i \in Drained(c) => cmds'[i].status = "cancelled"
               /\ i \notin Drained(c) => cmds'[i].status = cmds[i].status
    BY <1>1, <1>3 DEF Cmd
  <1>6. ASSUME NEW i \in DOMAIN cmds
        PROVE  /\ i \in Drained(c) <=> /\ cmds[i].card = c
                                       /\ cmds[i].status \in {"queued", "held"}
                                       /\ cmds[i].kind \in {"initial", "steer"}
               /\ cmds[i].card = c =>
                     ~(cmds[i].kind = "cancel" /\ cmds[i].status \in {"stopping", "status_unknown"})
    BY <1>2 DEF Drained, Instructions, CommandsOf, PendingStop
  <1>7. ASSUME NEW i \in DOMAIN cmds' PROVE RowInv(i)'
    BY <1>1, <1>2, <1>3, <1>4, <1>5, <1>6 DEF LedgerInv, RowInv
  <1>8. ASSUME NEW i \in DOMAIN cmds', NEW j \in DOMAIN cmds' PROVE PairInv(i, j)'
    <2>1. CASE i \in DOMAIN cmds /\ j \in DOMAIN cmds
      BY <1>5, <2>1 DEF LedgerInv, PairInv
    <2>2. CASE i \in DOMAIN cmds /\ j = nextCmd
      BY <1>1, <1>3, <1>4, <1>5, <1>6, <2>2 DEF LedgerInv, RowInv, PairInv
    <2>3. CASE i = nextCmd /\ j \in DOMAIN cmds
      BY <1>1, <1>3, <1>4, <1>5, <1>6, <2>3 DEF LedgerInv, RowInv, PairInv
    <2>4. CASE i = nextCmd /\ j = nextCmd
      BY <1>1, <1>4, <2>4 DEF PairInv
    <2> QED
      BY <1>4, <2>1, <2>2, <2>3, <2>4
  <1>9. RowsGoOn
    BY <1>4, <1>5, <1>6 DEF RowsGoOn
  <1> QED
    BY <1>7, <1>8, <1>9 DEF LedgerInv

LEMMA RemoveLedger ==
    ASSUME StoreInv, LedgerInv, NEW gone, Remove(gone)
    PROVE  LedgerInv' /\ RowsGoOn
  <1>1. /\ DOMAIN cmds' = {i \in DOMAIN cmds : cmds[i].card \notin gone}
        /\ \A i \in DOMAIN cmds' : cmds'[i] = cmds[i]
        /\ \A x \in DOMAIN cards \ gone : cards'[x] = cards[x]
    BY DEF Remove, Restrict
  <1>2. \A i \in DOMAIN cmds : cmds[i].card \in DOMAIN cards
    BY DEF StoreInv, TypeOK, Exists
  <1>3. ASSUME NEW i \in DOMAIN cmds' PROVE RowInv(i)'
    BY <1>1, <1>2 DEF LedgerInv, RowInv
  <1>4. ASSUME NEW i \in DOMAIN cmds', NEW j \in DOMAIN cmds' PROVE PairInv(i, j)'
    BY <1>1 DEF LedgerInv, PairInv
  <1>5. RowsGoOn
    BY <1>1 DEF RowsGoOn
  <1> QED
    BY <1>3, <1>4, <1>5 DEF LedgerInv

\* What the invariant says of a task: its properties.
LEMMA LedgerProperties ==
    ASSUME StoreInv, LedgerInv
    PROVE  DoubtBlocksWork /\ NoOvertaking
  <1>1. ASSUME NEW S, \A i, j \in S : i = j
        PROVE  Cardinality(S) <= 1 /\ (S # {} => Cardinality(S) = 1)
    <2>1. CASE S = {}
      BY <2>1, FS_EmptySet
    <2>2. ASSUME NEW x \in S PROVE Cardinality(S) = 1
      <3>1. S = {x}
        BY <1>1, <2>2
      <3> QED
        BY <3>1, FS_Singleton
    <2> QED
      BY <2>1, <2>2
  <1>2. \A i \in DOMAIN cmds : cmds[i].card \in DOMAIN cards
    BY DEF StoreInv, TypeOK, Exists
  <1>3. ASSUME NEW c \in VoiceCards
        PROVE  /\ \A i, j \in Unknown(c) : i = j
               /\ Unknown(c) # {} => ~Claimed(c) /\ Queued(cmds, c) = {}
               /\ \A i, j \in PendingStop(cmds, c) : i = j
               /\ PendingStop(cmds, c) # {} =>
                     \A i \in Instructions(cmds, c) : cmds[i].status \notin {"queued", "held"}
    <2> USE DEF LedgerInv, Instructions, CommandsOf
    <2>1. \A i, j \in Unknown(c) : i = j
      BY DEF Unknown, PairInv
    <2>2. Unknown(c) # {} => ~Claimed(c) /\ Queued(cmds, c) = {}
      BY DEF Unknown, PairInv, RowInv, Claimed, Queued
    <2>3. \A i, j \in PendingStop(cmds, c) : i = j
      BY DEF PendingStop, PairInv
    <2>4. PendingStop(cmds, c) # {} =>
             \A i \in Instructions(cmds, c) : cmds[i].status \notin {"queued", "held"}
      BY DEF PendingStop, PairInv
    <2> QED
      BY <2>1, <2>2, <2>3, <2>4
  <1>4. DoubtBlocksWork
    BY <1>1, <1>3 DEF DoubtBlocksWork
  <1>5. ASSUME NEW c \in VoiceCards, NEW F,
               F = {i \in Instructions(cmds, c) : cmds[i].status \in {"delivering", "applied"}}
        PROVE  /\ Cardinality(F) <= 1
               /\ \A i \in F : Exists(c) /\ Claimed(c) /\ cmds[i].token = cards[c].token
    <2>1. \A i, j \in F : i = j
      BY <1>5 DEF LedgerInv, PairInv, Instructions, CommandsOf
    <2>2. \A i \in F : Exists(c) /\ Claimed(c) /\ cmds[i].token = cards[c].token
      BY <1>2, <1>5 DEF LedgerInv, RowInv, Instructions, CommandsOf, Exists, Claimed
    <2> QED
      BY <1>1, <2>1, <2>2
  <1>6. ASSUME NEW i \in DOMAIN cmds, NEW j \in DOMAIN cmds,
               cmds[i].card = cmds[j].card, i < j,
               cmds[j].kind \in {"initial", "steer"}, cmds[j].token # 0
        PROVE  cmds[i].status # "queued"
    BY <1>6 DEF LedgerInv, RowInv, PairInv
  <1> QED
    BY <1>4, <1>5, <1>6 DEF NoOvertaking
=============================================================================
