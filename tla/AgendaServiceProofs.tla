----------------------- MODULE AgendaServiceProofs -----------------------
(***************************************************************************)
(* The safety properties of AgendaService for every number of agents,      *)
(* conversations and wake-ups, and every value of the limits and times:    *)
(* the inductive invariant AgendaInv, and the theorems that rest on it.    *)
(***************************************************************************)
EXTENDS AgendaService, FiniteSetTheorems, NaturalsInduction, TLAPS

-----------------------------------------------------------------------------
(* The inductive invariant.                                                *)

ItemRecord == [st : Open \cup {"unplanned", "settled"}, due : Nat, att : 0..MaxAttempts]
ConvRecord == [unanswered : Nat, last : Nat]
TickRecord == [pc : {"idle", "review", "pass", "reserve"}, at : Nat,
               todo : SUBSET Items, run : SUBSET Items]
WakeRecord == [st : {"none", "created", "waiting"}, n : Nat, at : Nat, until : Nat]
Entry      == [tok : Items \X Nat, who : Agents, at : Nat, st : {"reserved", "sent"}]
KeptSlot      == [tok : Items \X Nat, at : Nat]

AgendaTypes ==
    /\ now \in 1..MaxTime
    /\ item \in [Items -> ItemRecord] /\ conv \in [Convs -> ConvRecord]
    /\ ownerAt \in [Agents -> 0..now]
    /\ goal \in [Agents -> BOOLEAN] /\ level \in [Agents -> Levels]
    /\ budget \subseteq Entry
    /\ up \in [Agents -> BOOLEAN] /\ edits \in 0..MaxEdits /\ ends \in 0..MaxEnds
    /\ tick \in [Agents -> TickRecord] /\ wake \in [Items -> WakeRecord]
    /\ future \in [Items -> Outcome \cup {"none", "open"}]
    /\ lane \in [Convs -> Seq(Items)] /\ busy \in [Convs -> BOOLEAN]
    /\ fails \in 0..MaxFails
    /\ taken \in [Items -> Nat] /\ starts \in [Items -> Nat]
    /\ confirmed \subseteq KeptSlot /\ lost \subseteq Items \X Nat /\ stranded \subseteq Items

Waked(i) == wake[i].st # "none"

TickInv ==
    \A a \in Agents :
       /\ tick[a].run \subseteq tick[a].todo
       /\ tick[a].pc # "idle" => /\ up[a]
                                 /\ tick[a].at <= now /\ now <= tick[a].at + ReviewTimeout
       /\ \A i \in tick[a].todo : /\ tick[a].pc \in {"pass", "reserve"}
                                  /\ Owner(i) = a /\ item[i].st = "pending"

LaneInv == \A k \in Convs : \A x \in 1..Len(lane[k]) : Session[lane[k][x]] = k

WakeInv ==
    \A i \in Items :
       /\ Waked(i) =>
            /\ up[Owner(i)]
            /\ item[i].st \in {"running", "settled"}
            /\ wake[i].at <= now /\ wake[i].n < taken[i]
            /\ [tok |-> Slot(i), who |-> Owner(i), at |-> wake[i].at, st |-> "reserved"] \in budget
            /\ Slot(i) \notin lost
       /\ wake[i].st = "created" => now <= wake[i].at + ReviewTimeout
       /\ wake[i].st = "waiting" => /\ now <= wake[i].until
                                    /\ wake[i].until <= wake[i].at + ReviewTimeout + TurnTimeout
       /\ wake[i].st = "waiting" <=> future[i] # "none"
       /\ item[i].st = "running" /\ up[Owner(i)] => Waked(i) \/ i \in stranded

SlotInv ==
    /\ \A e \in budget : /\ e.tok[2] < taken[e.tok[1]]
                         /\ e.who = Owner(e.tok[1]) /\ e.at <= now
    /\ \A e, f \in budget : e.tok = f.tok => e = f
    /\ \A e \in budget : e.st = "reserved" =>
          e.tok \in lost \/ (Waked(e.tok[1]) /\ e.tok = Slot(e.tok[1]))
    /\ \A o \in lost : o[2] < taken[o[1]]
    /\ \A c \in confirmed :
          [tok |-> c.tok, who |-> Owner(c.tok[1]), at |-> c.at, st |-> "sent"] \in budget

StartsInv ==
    \A i \in Items :
       /\ starts[i] <= MaxAttempts
       /\ item[i].st # "settled" => item[i].att < MaxAttempts
       /\ item[i].st \in {"unplanned", "pending"} => starts[i] <= item[i].att
       /\ item[i].st = "running" => starts[i] <= item[i].att + 1

Fits(B) ==
    /\ IsFiniteSet(B)
    /\ \A d \in Nat : /\ Cardinality(OnDay(B, d)) <= GlobalCap
                      /\ \A a \in Agents : Cardinality(ByAgent(OnDay(B, d), a)) <= TopCap

LimitInv == Fits(budget)

\* A pass that may reserve has room for one more wake-up; lost slots have a cause.
CountInv ==
    /\ \A a \in Agents : /\ IsFiniteSet(Wakes(a)) /\ Cardinality(Wakes(a)) <= MaxWakes
                         /\ tick[a].pc = "reserve" => Cardinality(Wakes(a)) < MaxWakes
    /\ IsFiniteSet(lost) /\ Cardinality(lost) <= fails + MaxWakes * ends

AgendaInv == /\ AgendaTypes /\ TickInv /\ LaneInv /\ WakeInv /\ SlotInv /\ StartsInv /\ LimitInv
             /\ CountInv

-----------------------------------------------------------------------------
(* Numbers.                                                                *)

LEMMA PowerIsNat == \A n \in Nat : 2^n \in Nat
  <1>1. SUFFICES ASSUME NEW n \in Nat PROVE 2^n \in Nat
    OBVIOUS
  <1>2. IsFiniteSet(1..n) /\ Cardinality(1..n) = n
    <2>1. IsFiniteSet(1..n) /\ Cardinality(1..n) = (IF 1 > n THEN 0 ELSE n - 1 + 1)
      BY FS_Interval
    <2> QED
      BY <2>1
  <1>3. IsFiniteSet(SUBSET (1..n)) /\ Cardinality(SUBSET (1..n)) = 2^n
    BY <1>2, FS_SUBSET
  <1> QED
    BY <1>3, FS_CardinalityType

LEMMA DayOf ==
    ASSUME NEW t \in Nat
    PROVE  /\ Day(t) \in Nat /\ t % DayTicks \in 0..(DayTicks - 1)
           /\ t = DayTicks * Day(t) + (t % DayTicks)
  <1>1. DayTicks \in Nat /\ DayTicks > 0
    BY AgendaAssumption
  <1>2. t \div DayTicks \in Nat
    BY <1>1
  <1>3. t % DayTicks \in 0..(DayTicks - 1)
    BY <1>1
  <1>4. t = DayTicks * (t \div DayTicks) + (t % DayTicks)
    BY <1>1
  <1> QED
    BY <1>2, <1>3, <1>4 DEF Day

LEMMA InDay ==
    ASSUME NEW m \in Nat, NEW q \in 0..(DayTicks - 1)
    PROVE  (DayTicks * m + q) % DayTicks = q
  <1> DEFINE t == DayTicks * m + q
             r == t % DayTicks
  <1>1. DayTicks \in Nat \ {0} /\ t \in Nat
    <2>1. DayTicks \in Nat \ {0}
      BY AgendaAssumption
    <2>2. DayTicks * m \in Nat
      BY <2>1
    <2> QED
      BY <2>1, <2>2
  <1>2. Day(t) \in Nat /\ r \in 0..(DayTicks - 1) /\ t = DayTicks * Day(t) + r
    BY <1>1, DayOf
  <1>3. Day(t) = m
    <2>1. DayTicks * (Day(t) - m) = q - r
      BY <1>1, <1>2
    <2>2. CASE Day(t) > m
      <3>1. DayTicks * (Day(t) - m) >= DayTicks
        BY <1>1, <1>2, <2>2
      <3> QED
        BY <3>1, <2>1, <1>1, <1>2
    <2>3. CASE Day(t) < m
      <3>1. DayTicks * (m - Day(t)) >= DayTicks
        BY <1>1, <1>2, <2>3
      <3> QED
        BY <3>1, <2>1, <1>1, <1>2
    <2> QED
      BY <2>2, <2>3, <1>2
  <1> QED
    BY <1>1, <1>2, <1>3

LEMMA QuietEnds ==
    ASSUME NEW t \in Nat
    PROVE  QuietUntil(t) \in Nat
  <1> DEFINE m == Day(t)
             r == t % DayTicks
             Loud == {u \in t..(t + DayTicks) : ~Quiet(u)}
  <1>1. DayTicks \in Nat \ {0} /\ m \in Nat /\ r \in 0..(DayTicks - 1) /\ t = DayTicks * m + r
    BY DayOf, AgendaAssumption
  <1>2. PICK q \in 0..(DayTicks - 1) : q \notin QuietTicks
    BY AgendaAssumption
  <1>3. Loud # {}
    <2>1. CASE q >= r
      <3>1. DayTicks * m + q \in t..(t + DayTicks)
        BY <1>1, <2>1
      <3>2. ~Quiet(DayTicks * m + q)
        BY <1>1, <1>2, InDay DEF Quiet
      <3> QED
        BY <3>1, <3>2
    <2>2. CASE q < r
      <3>1. DayTicks * (m + 1) + q \in t..(t + DayTicks)
        BY <1>1, <2>2
      <3>2. (DayTicks * (m + 1) + q) % DayTicks = q
        <4>1. m + 1 \in Nat
          BY <1>1
        <4> HIDE DEF m
        <4> QED
          BY <4>1, InDay
      <3>3. ~Quiet(DayTicks * (m + 1) + q)
        BY <1>2, <3>2 DEF Quiet
      <3> QED
        BY <3>1, <3>3
    <2> QED
      BY <2>1, <2>2, <1>1
  <1>4. \E u \in Loud : \A x \in Loud : u <= x
    <2>1. Loud \subseteq Nat
      BY <1>1
    <2> DEFINE Before == {p \in Nat \X Nat : p[1] < p[2]}
    <2>2. IsWellFoundedOn(Before, Nat)
      BY NatLessThanWellFounded, Zenon DEF OpToRel
    <2> HIDE DEF Before
    <2>3. PICK u \in Loud : \A x \in Loud : ~(<<x, u>> \in Before)
      BY <1>3, <2>1, <2>2, WFMin
    <2>4. \A x \in Loud : ~(x < u)
      BY <2>1, <2>3 DEF Before
    <2> QED
      BY <2>1, <2>4
  <1>5. \E u \in t..(t + DayTicks) : ~Quiet(u) /\ \A x \in t..(u - 1) : Quiet(x)
    <2>1. PICK u \in Loud : \A x \in Loud : u <= x
      BY <1>4
    <2>2. ASSUME NEW x \in t..(u - 1) PROVE Quiet(x)
      <3>1. x \in t..(t + DayTicks) /\ ~(u <= x)
        BY <1>1, <2>1
      <3> QED
        BY <3>1, <2>1
    <2> QED
      BY <2>1, <2>2
  <1>6. QuietUntil(t) \in t..(t + DayTicks)
    BY <1>5 DEF QuietUntil
  <1> QED
    BY <1>6, <1>1

-----------------------------------------------------------------------------
(* The agenda file.                                                        *)

LEMMA Constants ==
    /\ Host \in [Convs -> Agents] /\ Session \in [Items -> Convs]
    /\ \A i \in Items : Owner(i) \in Agents
    /\ GlobalCap \in Nat /\ MaxAttempts \in Nat \ {0} /\ MaxWakes \in Nat
    /\ ReviewTimeout \in Nat /\ TurnTimeout \in Nat /\ StaleAfter \in Nat
    /\ TurnTimeout + ReviewTimeout <= StaleAfter
    /\ RetryDelay \in Nat /\ Backoff \in Nat
    /\ MaxEdits \in Nat /\ MaxEnds \in Nat /\ MaxTime \in Nat \ {0} /\ MaxFails \in Nat
  BY AgendaAssumption DEF Owner

LEMMA EditTyped == ASSUME edits \in 0..MaxEdits, Edit PROVE edits' \in 0..MaxEdits
  BY Constants DEF Edit

\* The count of the steps with a call that gets no lock only grows.
Counted == fails' \in fails..MaxFails

LEMMA Missed ==
    ASSUME AgendaTypes, NEW missed, Miss(missed)
    PROVE  Counted /\ (missed # {} => fails' = fails + 1)
  <1>1. fails \in Nat /\ MaxFails \in Nat
    BY Constants DEF AgendaTypes
  <1>2. CASE missed = {}
    <2>1. fails' = fails + 0 /\ fails' <= MaxFails
      BY <1>2 DEF Miss
    <2> QED
      BY <1>1, <1>2, <2>1 DEF Counted
  <1>3. CASE missed # {}
    <2>1. fails' = fails + 1 /\ fails' <= MaxFails
      BY <1>3 DEF Miss
    <2> QED
      BY <1>1, <2>1 DEF Counted
  <1> QED
    BY <1>2, <1>3

LEMMA NoneMissed == ASSUME AgendaTypes, UNCHANGED fails PROVE Counted
  BY Constants DEF Counted, AgendaTypes

LEMMA CountedTyped == ASSUME AgendaTypes, Counted PROVE fails' \in 0..MaxFails
  BY Constants DEF Counted, AgendaTypes

LEMMA NowTyped == ASSUME AgendaTypes PROVE now \in Nat /\ now + 1 \in Nat
  BY DEF AgendaTypes

LEMMA SettledItems ==
    ASSUME AgendaTypes, NEW S
    PROVE  /\ Settled(S) \in [Items -> ItemRecord]
           /\ \A j \in Items : \/ Settled(S)[j] = item[j]
                               \/ j \in S /\ item[j].st \in Open /\ Settled(S)[j].st = "settled"
  <1>1. History \in ItemRecord /\ History.st = "settled"
    BY Constants DEF History, ItemRecord
  <1> QED
    BY <1>1 DEF Settled, AgendaTypes

LEMMA FailedItem ==
    ASSUME AgendaTypes, NEW i \in Items, NEW t \in Nat
    PROVE  /\ Failed(i, t) \in ItemRecord
           /\ item[i].st \notin Open => Failed(i, t) = item[i]
           /\ item[i].st \in Open =>
                \/ Failed(i, t).st = "settled"
                \/ /\ Failed(i, t).st = "pending" /\ Failed(i, t).att = item[i].att + 1
                   /\ item[i].att + 1 < MaxAttempts
  <1>1. History \in ItemRecord /\ History.st = "settled"
    BY Constants DEF History, ItemRecord
  <1>2. item[i] \in ItemRecord /\ item[i].att \in Nat
    BY DEF AgendaTypes, ItemRecord
  <1>3. ASSUME item[i].att + 1 < MaxAttempts
        PROVE  [st |-> "pending", due |-> t, att |-> item[i].att + 1] \in ItemRecord
    BY <1>2, <1>3, Constants DEF ItemRecord, Open
  <1> QED
    BY <1>1, <1>2, <1>3, Constants DEF Failed

-----------------------------------------------------------------------------
(* Steps of the owner and the tools: wake-ups are planned or leave the     *)
(* list, and nothing else of the service moves.                            *)

Calm(i) ==
    \/ item'[i] = item[i]
    \/ item'[i].st = "settled"
    \/ /\ item[i].st \in {"unplanned", "pending"} /\ item'[i].st = "pending"
       /\ item'[i].att = item[i].att

Quieter(i) == Calm(i) /\ (item'[i] = item[i] \/ Idle(Owner(i)) \/ item[i].st # "pending")

ServiceInv == TickInv /\ WakeInv /\ SlotInv /\ StartsInv /\ LimitInv /\ CountInv

\* No wake-up starts, a pass has room for what it may reserve, and no more than
\* one slot is lost, to a lock.
LEMMA CountsKept ==
    ASSUME AgendaInv, Counted, UNCHANGED ends,
           \A i \in Items : Waked(i)' => Waked(i),
           \A a \in Agents : tick'[a].pc = "reserve" => Cardinality(Wakes(a)) < MaxWakes,
           UNCHANGED lost \/ (fails' = fails + 1 /\ \E tok : lost' = lost \cup {tok})
    PROVE  CountInv'
  <1>1. ASSUME NEW a \in Agents
        PROVE  /\ IsFiniteSet(Wakes(a)') /\ Cardinality(Wakes(a)') <= MaxWakes
               /\ tick'[a].pc = "reserve" => Cardinality(Wakes(a)') < MaxWakes
    <2>1. Wakes(a)' \subseteq Wakes(a)
      BY DEF Wakes, Waked, Owner
    <2>2. IsFiniteSet(Wakes(a)) /\ Cardinality(Wakes(a)) <= MaxWakes
      BY DEF AgendaInv, CountInv
    <2>3. /\ IsFiniteSet(Wakes(a)') /\ Cardinality(Wakes(a)') <= Cardinality(Wakes(a))
          /\ Cardinality(Wakes(a)') \in Nat /\ Cardinality(Wakes(a)) \in Nat
      BY <2>1, <2>2, FS_Subset, FS_CardinalityType
    <2> QED
      BY <2>2, <2>3, Constants
  <1>2. IsFiniteSet(lost') /\ Cardinality(lost') <= fails' + MaxWakes * ends'
    <2>1. /\ IsFiniteSet(lost) /\ Cardinality(lost) <= fails + MaxWakes * ends
          /\ Cardinality(lost) \in Nat
      BY FS_CardinalityType DEF AgendaInv, CountInv
    <2>2. fails \in Nat /\ fails' \in Nat /\ fails <= fails' /\ MaxWakes * ends \in Nat
      BY Constants DEF Counted, AgendaInv, AgendaTypes
    <2>3. CASE UNCHANGED lost
      BY <2>1, <2>2, <2>3
    <2>4. ASSUME fails' = fails + 1, NEW tok, lost' = lost \cup {tok}
          PROVE  IsFiniteSet(lost') /\ Cardinality(lost') <= fails' + MaxWakes * ends'
      <3>1. IsFiniteSet(lost') /\ Cardinality(lost') <= Cardinality(lost) + 1 /\ Cardinality(lost') \in Nat
        BY <2>1, <2>4, FS_AddElement, FS_CardinalityType
      <3> QED
        BY <2>1, <2>2, <2>4, <3>1
    <2> QED
      BY <2>3, <2>4
  <1> QED
    BY <1>1, <1>2 DEF CountInv

\* The same for a step of neither a pass nor a wake-up.
LEMMA CountsStay ==
    ASSUME AgendaInv, Counted, UNCHANGED <<ends, tick, wake, lost>>
    PROVE  CountInv'
  <1>1. \A i \in Items : Waked(i)' => Waked(i)
    BY DEF Waked
  <1>2. \A a \in Agents : tick'[a].pc = "reserve" => Cardinality(Wakes(a)) < MaxWakes
    BY DEF AgendaInv, CountInv
  <1> QED
    BY <1>1, <1>2, CountsKept

LEMMA CalmItems ==
    ASSUME AgendaInv, item' \in [Items -> ItemRecord], \A i \in Items : Calm(i),
           \A i \in Items : future'[i] # "none" <=> future[i] # "none",
           UNCHANGED <<now, budget, up, wake, taken, starts, confirmed, lost, stranded>>
    PROVE  WakeInv' /\ SlotInv' /\ StartsInv' /\ LimitInv'
  <1> USE DEF AgendaInv
  <1>1. \A i \in Items : /\ item[i].st = "running" => item'[i] = item[i] \/ item'[i].st = "settled"
                         /\ item'[i].st = "running" => item'[i] = item[i]
                         /\ item[i].st = "settled" => item'[i].st = "settled"
    BY DEF Calm
  <1>2. \A i \in Items : Slot(i)' = Slot(i) /\ (Waked(i)' <=> Waked(i))
    BY DEF Slot, Waked
  <1>3. WakeInv'
    BY <1>1, <1>2 DEF WakeInv, Owner
  <1>4. SlotInv'
    <2>1. \A e \in budget : e.tok[1] \in Items
      BY DEF AgendaTypes, Entry
    <2> QED
      BY <1>2, <2>1 DEF SlotInv, Owner
  <1>5. StartsInv'
    BY DEF StartsInv, Calm
  <1>6. LimitInv'
    BY DEF LimitInv
  <1> QED
    BY <1>3, <1>4, <1>5, <1>6

LEMMA ItemsMove ==
    ASSUME AgendaInv, item' \in [Items -> ItemRecord], \A i \in Items : Quieter(i),
           \A i \in Items : future'[i] # "none" <=> future[i] # "none",
           Counted,
           UNCHANGED <<now, budget, up, ends, tick, wake, taken, starts, confirmed, lost, stranded>>
    PROVE  ServiceInv'
  <1>1. TickInv'
    <2>3. ASSUME NEW a \in Agents, NEW i \in tick[a].todo PROVE item'[i] = item[i]
      <3>1. i \in Items /\ Owner(i) = a /\ item[i].st = "pending" /\ ~Idle(a)
        BY <2>3 DEF AgendaInv, TickInv, AgendaTypes, TickRecord, Idle
      <3> QED
        BY <3>1 DEF Quieter
    <2> QED
      BY <2>3 DEF AgendaInv, TickInv, Owner
  <1>2. WakeInv' /\ SlotInv' /\ StartsInv' /\ LimitInv'
    BY CalmItems DEF Quieter
  <1>3. CountInv'
    BY CountsStay
  <1> QED
    BY <1>1, <1>2, <1>3 DEF ServiceInv

LEMMA PlanInv == ASSUME AgendaInv, NEW i \in Items, Plan(i, now + 1) PROVE AgendaInv'
  <1> DEFINE replaced == IF i \in CheckIns
                         THEN {j \in CheckIns : Owner(j) = Owner(i) /\ item[j].st = "pending"} ELSE {}
  <1>1. /\ item' = [Settled(replaced) EXCEPT ![i].st = "pending", ![i].due = now + 1]
        /\ item[i].st = "unplanned" /\ Idle(Owner(i))
        /\ edits' \in 0..MaxEdits
        /\ UNCHANGED <<now, conv, ownerAt, goal, level, budget, up, ends, fails, procVars, historyVars>>
    BY EditTyped DEF AgendaInv, AgendaTypes, Plan, Fresh
  <1>2. \A j \in replaced : Owner(j) = Owner(i) /\ item[j].st = "pending"
    OBVIOUS
  <1> HIDE DEF replaced
  <1>3. AgendaTypes
    BY DEF AgendaInv
  <1>4. /\ Settled(replaced) \in [Items -> ItemRecord]
        /\ \A j \in Items : \/ Settled(replaced)[j] = item[j]
                            \/ j \in replaced /\ Settled(replaced)[j].st = "settled"
    BY <1>3, SettledItems
  <1>5. now + 1 \in Nat
    BY <1>3, Constants DEF AgendaTypes
  <1>6. item' \in [Items -> ItemRecord]
    BY <1>1, <1>4, <1>5 DEF ItemRecord, Open
  <1>7. \A j \in Items : Quieter(j)
    <2>1. ASSUME NEW j \in Items, j # i PROVE Quieter(j)
      BY <1>1, <1>2, <1>4, <2>1 DEF Quieter, Calm
    <2>2. Settled(replaced)[i] = item[i]
      BY <1>1, <1>2, <1>4
    <2>3. Quieter(i)
      BY <1>1, <1>4, <2>2 DEF Quieter, Calm, ItemRecord
    <2> QED
      BY <2>1, <2>3
  <1>8. ServiceInv'
    BY <1>1, <1>3, <1>6, <1>7, NoneMissed, ItemsMove DEF procVars, historyVars
  <1>9. AgendaTypes'
    BY <1>1, <1>3, <1>6 DEF AgendaTypes, procVars, historyVars
  <1> QED
    BY <1>1, <1>8, <1>9 DEF AgendaInv, ServiceInv, LaneInv, procVars

\* Wake-ups in S, all of idle processes, leave the list.
LEMMA SettleInv ==
    ASSUME AgendaInv, NEW S, item' = Settled(S), \A j \in S : j \in Items => Idle(Owner(j)),
           \A i \in Items : future'[i] # "none" <=> future[i] # "none",
           Counted,
           UNCHANGED <<now, budget, up, ends, tick, wake, taken, starts, confirmed, lost, stranded>>
    PROVE  item' \in [Items -> ItemRecord] /\ ServiceInv'
  <1> AgendaTypes
    BY DEF AgendaInv
  <1>1. /\ item' \in [Items -> ItemRecord]
        /\ \A j \in Items : item'[j] = item[j] \/ (j \in S /\ item'[j].st = "settled")
    BY SettledItems
  <1>2. \A j \in Items : Quieter(j)
    BY <1>1 DEF Quieter, Calm
  <1> QED
    BY <1>1, <1>2, ItemsMove

LEMMA CancelInv == ASSUME AgendaInv, NEW i \in Items, Cancel(i) PROVE AgendaInv'
  <1>1. /\ item' = Settled({i}) /\ Idle(Owner(i))
        /\ edits' \in 0..MaxEdits
        /\ UNCHANGED <<now, conv, ownerAt, goal, level, budget, up, ends, fails, procVars, historyVars>>
        /\ Counted
    BY EditTyped, NoneMissed DEF AgendaInv, AgendaTypes, Cancel
  <1>2. item' \in [Items -> ItemRecord] /\ ServiceInv'
    BY <1>1, SettleInv DEF procVars, historyVars
  <1>3. AgendaTypes'
    BY <1>1, <1>2 DEF AgendaInv, AgendaTypes, procVars, historyVars
  <1> QED
    BY <1>1, <1>2, <1>3 DEF AgendaInv, ServiceInv, LaneInv, procVars

LEMMA CloseGoalInv == ASSUME AgendaInv, NEW a \in Agents, CloseGoal(a) PROVE AgendaInv'
  <1> DEFINE S == Pending({i \in CheckIns : Owner(i) = a})
  <1>1. /\ item' = Settled(S) \/ UNCHANGED item
        /\ Idle(a) /\ edits' \in 0..MaxEdits
        /\ goal' = [goal EXCEPT ![a] = FALSE]
        /\ UNCHANGED <<now, conv, ownerAt, level, budget, up, ends, procVars, historyVars>>
    BY EditTyped DEF AgendaInv, AgendaTypes, CloseGoal
  <1>2. Counted /\ fails' \in 0..MaxFails
    BY Missed, CountedTyped DEF CloseGoal, AgendaInv
  <1>3. \A j \in S : j \in Items => Idle(Owner(j))
    BY <1>1 DEF Pending
  <1> HIDE DEF S
  <1>4. item' \in [Items -> ItemRecord] /\ ServiceInv'
    <2>1. CASE item' = Settled(S)
      BY <1>1, <1>2, <1>3, <2>1, SettleInv DEF procVars, historyVars
    <2>2. CASE UNCHANGED item
      BY <1>1, <1>2, <2>2, ItemsMove DEF procVars, historyVars, Quieter, Calm, AgendaInv, AgendaTypes
    <2> QED
      BY <1>1, <2>1, <2>2
  <1>5. AgendaTypes'
    BY <1>1, <1>2, <1>4 DEF AgendaInv, AgendaTypes, procVars, historyVars
  <1> QED
    BY <1>1, <1>4, <1>5 DEF AgendaInv, ServiceInv, LaneInv, procVars

LEMMA ResumeGoalInv ==
    ASSUME AgendaInv, NEW a \in Agents, NEW i \in CheckIns, ResumeGoal(a, i, now + 1) PROVE AgendaInv'
  <1>1. /\ edits' \in 0..MaxEdits
        /\ goal' = [goal EXCEPT ![a] = TRUE]
        /\ \/ UNCHANGED item
           \/ /\ item[i].st = "unplanned"
              /\ item' = [item EXCEPT ![i].st = "pending", ![i].due = now + 1]
        /\ UNCHANGED <<now, conv, ownerAt, level, budget, up, ends, procVars, historyVars>>
    BY EditTyped DEF AgendaInv, AgendaTypes, ResumeGoal, Fresh
  <1>2. AgendaTypes /\ i \in Items
    BY AgendaAssumption DEF AgendaInv
  <1> now + 1 \in Nat
    BY <1>2, Constants DEF AgendaTypes
  <1>3. item' \in [Items -> ItemRecord]
    <2>1. item \in [Items -> ItemRecord]
      BY <1>2 DEF AgendaTypes
    <2> QED
      BY <1>1, <1>2, <2>1 DEF ItemRecord, Open
  <1>4. \A j \in Items : Quieter(j)
    BY <1>1, <1>2 DEF Quieter, Calm, AgendaTypes, ItemRecord
  <1>5. Counted /\ fails' \in 0..MaxFails
    BY <1>2, Missed, CountedTyped DEF ResumeGoal
  <1>6. ServiceInv'
    BY <1>1, <1>3, <1>4, <1>5, ItemsMove DEF procVars, historyVars
  <1>7. AgendaTypes'
    BY <1>1, <1>2, <1>3, <1>5 DEF AgendaTypes, procVars, historyVars
  <1> QED
    BY <1>1, <1>6, <1>7 DEF AgendaInv, ServiceInv, LaneInv, procVars

LEMMA SetLevelInv == ASSUME AgendaInv, NEW a \in Agents, NEW l \in Levels, SetLevel(a, l) PROVE AgendaInv'
  <1>1. /\ edits' \in 0..MaxEdits
        /\ level' = [level EXCEPT ![a] = l]
        /\ UNCHANGED <<now, item, conv, ownerAt, goal, budget, up, ends, fails, procVars, historyVars>>
        /\ Counted
    BY EditTyped, NoneMissed DEF AgendaInv, AgendaTypes, SetLevel
  <1>2. AgendaTypes'
    BY <1>1 DEF AgendaInv, AgendaTypes, procVars, historyVars
  <1>3. ServiceInv'
    BY <1>1, <1>2, ItemsMove DEF procVars, historyVars, Quieter, Calm, AgendaTypes
  <1> QED
    BY <1>1, <1>2, <1>3 DEF AgendaInv, ServiceInv, LaneInv, procVars

LEMMA OwnerWritesInv == ASSUME AgendaInv, NEW k \in Convs, OwnerWrites(k) PROVE AgendaInv'
  <1> DEFINE S == Pending({i \in Items \ (CheckIns \cup Kept) : Session[i] = k})
  <1>1. /\ Idle(Host[k]) /\ edits' \in 0..MaxEdits
        /\ busy' = [busy EXCEPT ![k] = TRUE]
        /\ \/ UNCHANGED <<conv, ownerAt, item>>
           \/ /\ conv' = [conv EXCEPT ![k].unanswered = 0]
              /\ ownerAt' = [ownerAt EXCEPT ![Host[k]] = now]
              /\ item' = Settled(S)
        /\ UNCHANGED <<now, goal, level, budget, up, ends, tick, wake, future, lane, historyVars>>
    BY EditTyped DEF AgendaInv, AgendaTypes, OwnerWrites
  <1>2. Counted /\ fails' \in 0..MaxFails
    BY Missed, CountedTyped DEF OwnerWrites, AgendaInv
  <1>3. \A j \in S : j \in Items => Idle(Owner(j))
    BY <1>1 DEF Pending, Owner
  <1> HIDE DEF S
  <1>4. item' \in [Items -> ItemRecord] /\ ServiceInv'
    <2>1. CASE item' = Settled(S)
      BY <1>1, <1>2, <1>3, <2>1, SettleInv DEF historyVars
    <2>2. CASE UNCHANGED item
      BY <1>1, <1>2, <2>2, ItemsMove DEF historyVars, Quieter, Calm, AgendaInv, AgendaTypes
    <2> QED
      BY <1>1, <2>1, <2>2
  <1>5. conv' \in [Convs -> ConvRecord]
    <2>1. conv \in [Convs -> ConvRecord]
      BY DEF AgendaInv, AgendaTypes
    <2>2. [conv EXCEPT ![k].unanswered = 0] \in [Convs -> ConvRecord]
      BY <2>1 DEF ConvRecord
    <2> QED
      BY <1>1, <2>1, <2>2
  <1>6. ownerAt' \in [Agents -> 0..now']
    <2>1. now \in 0..now /\ ownerAt \in [Agents -> 0..now] /\ now' = now
      <3>1. now \in 0..now
        BY NowTyped DEF AgendaInv
      <3> QED
        BY <1>1, <3>1 DEF AgendaInv, AgendaTypes, historyVars
    <2> QED
      BY <1>1, <2>1
  <1>7. AgendaTypes'
    BY <1>1, <1>2, <1>4, <1>5, <1>6 DEF AgendaInv, AgendaTypes, historyVars
  <1> QED
    BY <1>1, <1>4, <1>7 DEF AgendaInv, ServiceInv, LaneInv

LEMMA OwnerTurnEndsInv == ASSUME AgendaInv, NEW k \in Convs, OwnerTurnEnds(k) PROVE AgendaInv'
  <1>1. /\ busy' = [busy EXCEPT ![k] = FALSE]
        /\ UNCHANGED <<now, item, conv, ownerAt, goal, level, budget, up, edits, ends, fails, tick, wake,
                       future, lane, historyVars>>
        /\ Counted
    BY NoneMissed DEF OwnerTurnEnds, AgendaInv
  <1>2. AgendaTypes'
    BY <1>1 DEF AgendaInv, AgendaTypes, historyVars
  <1>3. ServiceInv'
    BY <1>1, <1>2, ItemsMove DEF historyVars, Quieter, Calm, AgendaTypes
  <1> QED
    BY <1>1, <1>2, <1>3 DEF AgendaInv, ServiceInv, LaneInv

-----------------------------------------------------------------------------
(* Passes over the due wake-ups.                                           *)

\* What the pass of agent a may become.
Sane(a, t) ==
    /\ t \in TickRecord /\ t.run \subseteq t.todo
    /\ t.pc # "idle" => up[a] /\ t.at <= now /\ now <= t.at + ReviewTimeout
    /\ \A j \in t.todo : /\ t.pc \in {"pass", "reserve"}
                         /\ Owner(j) = a /\ item'[j].st = "pending"

LEMMA PassMoves ==
    ASSUME AgendaInv, NEW a \in Agents, NEW t, Sane(a, t), tick' = [tick EXCEPT ![a] = t],
           \A j \in Items : Owner(j) # a => item'[j] = item[j], UNCHANGED <<now, up>>
    PROVE  TickInv' /\ tick' \in [Agents -> TickRecord]
  <1>1. tick \in [Agents -> TickRecord] /\ TickInv
    BY DEF AgendaInv, AgendaTypes
  <1>2. tick' \in [Agents -> TickRecord]
    BY <1>1 DEF Sane
  <1>3. ASSUME NEW b \in Agents
        PROVE  /\ tick'[b].run \subseteq tick'[b].todo
               /\ tick'[b].pc # "idle" => /\ up'[b]
                                         /\ tick'[b].at <= now' /\ now' <= tick'[b].at + ReviewTimeout
               /\ \A i \in tick'[b].todo : /\ tick'[b].pc \in {"pass", "reserve"}
                                           /\ Owner(i) = b /\ item'[i].st = "pending"
    <2>1. CASE b = a
      <3>1. tick'[b] = t
        BY <1>1, <2>1
      <3> QED
        BY <3>1, <2>1 DEF Sane, Idle
    <2>2. CASE b # a
      <3>1. tick'[b] = tick[b] /\ (Idle(b)' <=> Idle(b))
        BY <1>1, <2>2 DEF Idle
      <3>2. \A i \in tick[b].todo : i \in Items /\ Owner(i) = b
        BY <1>1 DEF TickInv, TickRecord
      <3> QED
        BY <1>1, <2>2, <3>1, <3>2 DEF TickInv
    <2> QED
      BY <2>1, <2>2
  <1> QED
    BY <1>2, <1>3 DEF TickInv, Owner

LEMMA NoTickSane == \A a \in Agents : Sane(a, NoTick)
  BY DEF Sane, NoTick, TickRecord

\* A pass that moves on reserves nothing without room.
LEMMA PassCounts ==
    ASSUME AgendaInv, Counted, NEW a \in Agents, NEW t, tick' = [tick EXCEPT ![a] = t],
           t.pc = "reserve" => Cardinality(Wakes(a)) < MaxWakes, UNCHANGED <<ends, wake, lost>>
    PROVE  CountInv'
  <1>1. tick \in [Agents -> TickRecord]
    BY DEF AgendaInv, AgendaTypes
  <1>2. \A b \in Agents : tick'[b].pc = "reserve" => Cardinality(Wakes(b)) < MaxWakes
    <2>1. ASSUME NEW b \in Agents, tick'[b].pc = "reserve" PROVE Cardinality(Wakes(b)) < MaxWakes
      <3>1. CASE b = a
        BY <1>1, <2>1, <3>1
      <3>2. CASE b # a
        BY <1>1, <2>1, <3>2 DEF AgendaInv, CountInv
      <3> QED
        BY <3>1, <3>2
    <2> QED
      BY <2>1
  <1>3. \A i \in Items : Waked(i)' => Waked(i)
    BY DEF Waked
  <1> QED
    BY <1>2, <1>3, CountsKept

LEMMA PastReserves == ASSUME NEW a, NEW i, tick[a] \in TickRecord PROVE Past(a, i).pc # "reserve"
  BY DEF Past, NoTick, TickRecord

LEMMA TickStartInv == ASSUME AgendaInv, NEW a \in Agents, TickStart(a) PROVE AgendaInv'
  <1> DEFINE t == [pc |-> "review", at |-> now, todo |-> {}, run |-> {}]
  <1>1. /\ up[a] /\ tick' = [tick EXCEPT ![a] = t]
        /\ UNCHANGED <<now, item, conv, ownerAt, goal, level, budget, up, edits, ends, fails, wake, future,
                       lane, busy, historyVars>>
        /\ Counted
    BY NoneMissed DEF TickStart, AgendaInv
  <1>2. now \in Nat /\ now <= now + ReviewTimeout
    BY Constants DEF AgendaInv, AgendaTypes
  <1>3. Sane(a, t)
    <2>1. t \in TickRecord
      BY <1>2 DEF TickRecord
    <2>2. t.run = {} /\ t.todo = {} /\ t.at = now
      OBVIOUS
    <2> HIDE DEF t
    <2> QED
      BY <1>1, <1>2, <2>1, <2>2 DEF Sane
  <1> HIDE DEF t
  <1>4. TickInv' /\ tick' \in [Agents -> TickRecord]
    BY <1>1, <1>3, PassMoves
  <1>5. AgendaTypes'
    BY <1>1, <1>4 DEF AgendaInv, AgendaTypes, historyVars
  <1>6. WakeInv' /\ SlotInv' /\ StartsInv' /\ LimitInv'
    BY <1>1, <1>5, CalmItems DEF historyVars, Calm, AgendaTypes
  <1>7. CountInv'
    BY <1>1, <1>3, PassCounts DEF historyVars, t
  <1> QED
    BY <1>1, <1>4, <1>5, <1>6, <1>7 DEF AgendaInv, LaneInv

LEMMA TickPassInv == ASSUME AgendaInv, NEW a \in Agents, TickPass(a) PROVE AgendaInv'
  <1>0. PICK missed \in SUBSET {"agenda"} :
          /\ Miss(missed)
          /\ LET due == IF missed = {} THEN Due(a, tick[a].at) ELSE {}
             IN  tick' = [tick EXCEPT ![a] =
                            IF due = {} THEN NoTick ELSE [@ EXCEPT !.pc = "pass", !.todo = due]]
    BY DEF TickPass
  <1> DEFINE due == IF missed = {} THEN Due(a, tick[a].at) ELSE {}
             t == IF due = {} THEN NoTick ELSE [tick[a] EXCEPT !.pc = "pass", !.todo = due]
  <1>1. /\ tick[a].pc = "review" /\ tick' = [tick EXCEPT ![a] = t]
        /\ UNCHANGED <<now, item, conv, ownerAt, goal, level, budget, up, edits, ends, wake, future,
                       lane, busy, historyVars>>
    BY <1>0 DEF TickPass, AgendaInv, AgendaTypes
  <1>2. tick[a] \in TickRecord /\ tick[a].run \subseteq tick[a].todo
        /\ up[a] /\ tick[a].at <= now /\ now <= tick[a].at + ReviewTimeout
    BY <1>1 DEF AgendaInv, AgendaTypes, TickInv
  <1>3. tick[a].run = {}
    BY <1>1, <1>2 DEF AgendaInv, TickInv, Idle
  <1>4. Sane(a, t)
    <2>1. \A i \in due : i \in Items /\ Owner(i) = a /\ item'[i].st = "pending"
      BY <1>1 DEF Due, Pending
    <2> HIDE DEF due
    <2>2. CASE due = {}
      BY <2>2, NoTickSane
    <2>3. CASE due # {}
      <3> DEFINE u == [tick[a] EXCEPT !.pc = "pass", !.todo = due]
      <3>1. u \in TickRecord /\ u.run = {} /\ u.pc = "pass" /\ u.todo = due /\ u.at = tick[a].at
        BY <1>2, <1>3, <2>1 DEF TickRecord
      <3>2. t = u
        BY <2>3
      <3> HIDE DEF u, t
      <3> QED
        BY <1>2, <2>1, <3>1, <3>2 DEF Sane
    <2> QED
      BY <2>2, <2>3
  <1>5. t.pc # "reserve"
    BY <1>2 DEF NoTick, TickRecord
  <1> HIDE DEF t
  <1>6. TickInv' /\ tick' \in [Agents -> TickRecord]
    BY <1>1, <1>4, PassMoves
  <1>7. Counted /\ fails' \in 0..MaxFails
    BY <1>0, Missed, CountedTyped DEF AgendaInv
  <1>8. AgendaTypes'
    BY <1>1, <1>6, <1>7 DEF AgendaInv, AgendaTypes, historyVars
  <1>9. WakeInv' /\ SlotInv' /\ StartsInv' /\ LimitInv'
    BY <1>1, <1>8, CalmItems DEF historyVars, Calm, AgendaTypes
  <1>10. CountInv'
    BY <1>1, <1>5, <1>7, PassCounts DEF historyVars
  <1> QED
    BY <1>1, <1>6, <1>8, <1>9, <1>10 DEF AgendaInv, LaneInv

LEMMA DecisionTyped ==
    ASSUME AgendaTypes, NEW i \in Items, NEW t \in Nat, NEW missed
    PROVE  Decision(i, t, missed).act \in {"run", "drop", "defer"} /\ Decision(i, t, missed).till \in Nat
  <1>1. Session[i] \in Convs
    BY Constants
  <1>2. conv[Session[i]].last \in Nat /\ conv[Session[i]].unanswered \in Nat
    BY <1>1 DEF AgendaTypes, ConvRecord
  <1>3. conv[Session[i]].unanswered > 0 => AllowedAt(Session[i]) \in Nat
    <2> DEFINE n == conv[Session[i]].unanswered - 1
    <2>1. ASSUME conv[Session[i]].unanswered > 0 PROVE n \in Nat
      BY <1>2, <2>1
    <2>2. ASSUME conv[Session[i]].unanswered > 0 PROVE 2^n \in Nat
      <3> HIDE DEF n
      <3> QED
        BY <2>1, <2>2, PowerIsNat
    <2>3. ASSUME NEW p \in Nat PROVE conv[Session[i]].last + Backoff * p \in Nat
      <3>1. Backoff * p \in Nat
        BY Constants
      <3> QED
        BY <1>2, <3>1
    <2> QED
      BY <2>2, <2>3 DEF AllowedAt
  <1>4. QuietUntil(t) \in Nat
    BY QuietEnds
  <1>5. NextDayStart(t) \in Nat
    <2>1. Day(t) \in Nat /\ DayTicks \in Nat
      BY DayOf, AgendaAssumption
    <2>2. (Day(t) + 1) * DayTicks \in Nat
      BY <2>1
    <2> QED
      BY <2>2, QuietEnds DEF NextDayStart
  <1>6. t + 1 \in Nat
    OBVIOUS
  <1>7. /\ Run.act = "run" /\ Run.till \in Nat /\ Drop.act = "drop" /\ Drop.till \in Nat
        /\ \A u \in Nat : Defer(u).act = "defer" /\ Defer(u).till \in Nat
    BY DEF Run, Drop, Defer
  <1> DEFINE today == IF "budget" \in missed THEN {} ELSE Today(Live(t), t)
             wait == IF Quiet(t) /\ ~OwnerAwake(Owner(i), t) THEN Defer(QuietUntil(t))
                     ELSE IF conv[Session[i]].unanswered > 0 /\ t < AllowedAt(Session[i])
                          THEN Defer(AllowedAt(Session[i]))
                     ELSE IF \/ Cardinality(ByAgent(today, Owner(i))) >= DailyCap[level[Owner(i)]]
                             \/ Cardinality(today) >= GlobalCap
                          THEN Defer(NextDayStart(t))
                     ELSE IF busy[Session[i]] THEN Defer(t + 1) ELSE Run
  <1>8. wait.act \in {"run", "drop", "defer"} /\ wait.till \in Nat
    BY <1>3, <1>4, <1>5, <1>6, <1>7
  <1>9. Decision(i, t, missed) = Drop \/ Decision(i, t, missed) = wait
    BY DEF Decision
  <1> HIDE DEF wait
  <1> QED
    BY <1>7, <1>8, <1>9

LEMMA PastSane ==
    ASSUME AgendaInv, NEW a \in Agents, NEW i \in tick[a].todo,
           tick[a].pc \in {"pass", "reserve"}, \A j \in tick[a].todo \ {i} : item'[j] = item[j]
    PROVE  Sane(a, Past(a, i))
  <1>1. tick[a] \in TickRecord
    BY DEF AgendaInv, AgendaTypes
  <1>2. /\ up[a] /\ tick[a].at <= now /\ now <= tick[a].at + ReviewTimeout
        /\ \A j \in tick[a].todo : Owner(j) = a /\ item[j].st = "pending"
    BY DEF AgendaInv, TickInv
  <1>3. CASE tick[a].todo = {i}
    BY <1>3, NoTickSane DEF Past
  <1>4. CASE tick[a].todo # {i}
    <2> DEFINE u == [tick[a] EXCEPT !.pc = "pass", !.todo = @ \ {i}, !.run = {}]
    <2>1. u \in TickRecord /\ u.run = {} /\ u.pc = "pass" /\ u.todo = tick[a].todo \ {i}
          /\ u.at = tick[a].at
      BY <1>1 DEF TickRecord
    <2>2. Past(a, i) = u
      BY <1>4 DEF Past
    <2> HIDE DEF u
    <2>3. \A j \in u.todo : Owner(j) = a /\ item'[j].st = "pending"
      BY <1>2, <2>1
    <2>4. Sane(a, u)
      BY <1>2, <2>1, <2>3 DEF Sane
    <2> QED
      BY <2>2, <2>4
  <1> QED
    BY <1>3, <1>4

LEMMA ConsiderInv == ASSUME AgendaInv, NEW a \in Agents, NEW i \in Items, Consider(a, i) PROVE AgendaInv'
  <1>0. PICK missed \in SUBSET {"budget", "agenda"} :
          /\ Miss(missed) \/ UNCHANGED fails
          /\ \/ tick' = [tick EXCEPT ![a] = NoTick] /\ UNCHANGED item
             \/ tick' = [tick EXCEPT ![a] = Past(a, i)] /\ UNCHANGED item
             \/ /\ ~(Cardinality(Wakes(a)) >= MaxWakes)
                /\ LET d == Decision(i, tick[a].at, missed)
                   IN  /\ tick' = [tick EXCEPT ![a] =
                                     IF d.act = "run" THEN [@ EXCEPT !.pc = "reserve", !.run = {i}]
                                     ELSE Past(a, i)]
                       /\ item' = CASE d.act = "drop"  -> Settled({i})
                                    [] d.act = "defer" -> [item EXCEPT ![i].due = d.till]
                                    [] OTHER           -> item
    BY Zenon DEF Consider
  <1> DEFINE d == Decision(i, tick[a].at, missed)
  <1>1. /\ tick[a].pc = "pass" /\ i \in tick[a].todo
        /\ \/ tick' = [tick EXCEPT ![a] = NoTick] /\ UNCHANGED item
           \/ tick' = [tick EXCEPT ![a] = Past(a, i)] /\ UNCHANGED item
           \/ /\ tick' = [tick EXCEPT ![a] = IF d.act = "run" THEN [tick[a] EXCEPT !.pc = "reserve", !.run = {i}]
                                             ELSE Past(a, i)]
              /\ item' = CASE d.act = "drop"  -> Settled({i})
                           [] d.act = "defer" -> [item EXCEPT ![i].due = d.till]
                           [] OTHER           -> item
              /\ Cardinality(Wakes(a)) < MaxWakes
        /\ UNCHANGED <<now, conv, ownerAt, goal, level, budget, up, edits, ends, wake, future, lane,
                       busy, historyVars>>
    <2>1. Cardinality(Wakes(a)) \in Nat
      BY FS_CardinalityType DEF AgendaInv, CountInv
    <2>2. ~(Cardinality(Wakes(a)) >= MaxWakes) => Cardinality(Wakes(a)) < MaxWakes
      BY <2>1, Constants
    <2>3. tick[a].pc = "pass" /\ i \in tick[a].todo
          /\ UNCHANGED <<now, conv, ownerAt, goal, level, budget, up, edits, ends, wake, future, lane,
                         busy, historyVars>>
      BY DEF Consider, Earliest
    <2> HIDE DEF d
    <2>4. tick \in [Agents -> TickRecord]
      BY DEF AgendaInv, AgendaTypes
    <2> QED
      BY <1>0, <2>2, <2>3, <2>4 DEF d
  <1>2. /\ AgendaTypes /\ tick[a] \in TickRecord /\ Owner(i) = a /\ item[i].st = "pending"
        /\ up[a] /\ tick[a].at <= now /\ now <= tick[a].at + ReviewTimeout
        /\ \A j \in tick[a].todo : Owner(j) = a /\ item[j].st = "pending"
    BY <1>1 DEF AgendaInv, AgendaTypes, TickInv
  <1>3. d.act \in {"run", "drop", "defer"} /\ d.till \in Nat
    BY <1>2, DecisionTyped DEF TickRecord
  <1> HIDE DEF d
  <1>4. \/ UNCHANGED item
        \/ d.act = "drop" /\ item' = Settled({i})
        \/ d.act = "defer" /\ item' = [item EXCEPT ![i].due = d.till]
    <2>1. CASE UNCHANGED item
      BY <2>1
    <2>2. CASE item' = CASE d.act = "drop"  -> Settled({i})
                         [] d.act = "defer" -> [item EXCEPT ![i].due = d.till]
                         [] OTHER           -> item
      <3>1. CASE d.act = "run"
        BY <2>2, <3>1
      <3>2. CASE d.act = "drop"
        BY <2>2, <3>2
      <3>3. CASE d.act = "defer"
        BY <2>2, <3>3
      <3> QED
        BY <1>3, <3>1, <3>2, <3>3
    <2> QED
      BY <1>1, <2>1, <2>2
  <1>5. /\ item' \in [Items -> ItemRecord]
        /\ \A j \in Items : Calm(j) /\ (j # i => item'[j] = item[j])
    <2>1. item \in [Items -> ItemRecord]
      BY <1>2 DEF AgendaTypes
    <2>2. CASE UNCHANGED item
      BY <2>1, <2>2 DEF Calm
    <2>3. CASE item' = Settled({i})
      BY <1>2, <2>3, SettledItems DEF Calm
    <2>4. CASE item' = [item EXCEPT ![i].due = d.till]
      BY <1>2, <1>3, <2>1, <2>4 DEF Calm, ItemRecord
    <2> QED
      BY <1>4, <2>2, <2>3, <2>4
  <1>6. WakeInv' /\ SlotInv' /\ StartsInv' /\ LimitInv'
    BY <1>1, <1>5, CalmItems DEF historyVars
  <1>7. TickInv' /\ tick' \in [Agents -> TickRecord]
    <2>1. CASE tick' = [tick EXCEPT ![a] = NoTick]
      BY <1>1, <1>2, <1>5, <2>1, NoTickSane, PassMoves
    <2>2. CASE tick' = [tick EXCEPT ![a] = Past(a, i)]
      <3>1. Sane(a, Past(a, i))
        BY <1>1, <1>2, <1>5, PastSane DEF TickRecord
      <3> QED
        BY <1>1, <1>2, <1>5, <2>2, <3>1, PassMoves
    <2>3. CASE /\ tick' = [tick EXCEPT ![a] = [tick[a] EXCEPT !.pc = "reserve", !.run = {i}]]
               /\ UNCHANGED item
      <3> DEFINE u == [tick[a] EXCEPT !.pc = "reserve", !.run = {i}]
      <3>1. u \in TickRecord /\ u.run = {i} /\ u.pc = "reserve" /\ u.todo = tick[a].todo /\ u.at = tick[a].at
        BY <1>2 DEF TickRecord
      <3>2. tick' = [tick EXCEPT ![a] = u]
        BY <2>3
      <3> HIDE DEF u
      <3>3. Sane(a, u)
        BY <1>1, <1>2, <2>3, <3>1 DEF Sane
      <3> QED
        BY <1>1, <1>2, <1>5, <3>2, <3>3, PassMoves
    <2>4. CASE d.act = "run"
      BY <1>1, <1>4, <2>1, <2>2, <2>3, <2>4
    <2>5. CASE d.act # "run"
      BY <1>1, <2>1, <2>2, <2>5
    <2> QED
      BY <2>4, <2>5
  <1>8. Counted /\ fails' \in 0..MaxFails
    BY <1>0, <1>2, Missed, NoneMissed, CountedTyped
  <1>9. AgendaTypes'
    BY <1>1, <1>2, <1>5, <1>7, <1>8 DEF AgendaTypes, historyVars
  <1>10. CountInv'
    <2>1. PICK t : /\ tick' = [tick EXCEPT ![a] = t]
                   /\ t.pc # "reserve" \/ Cardinality(Wakes(a)) < MaxWakes
      <3>1. NoTick.pc # "reserve" /\ Past(a, i).pc # "reserve"
        BY <1>2, PastReserves DEF NoTick
      <3> QED
        BY <1>1, <3>1
    <2> QED
      BY <1>1, <1>8, <2>1, PassCounts DEF historyVars
  <1> QED
    BY <1>1, <1>6, <1>7, <1>9, <1>10 DEF AgendaInv, LaneInv

-----------------------------------------------------------------------------
(* The wake-up's task and its turn.                                        *)

LEMMA WakeBeginInv == ASSUME AgendaInv, NEW i \in Items, WakeBegin(i) PROVE AgendaInv'
  <1>1. /\ Idle(Owner(i)) /\ wake[i].st = "created"
        /\ wake' = [wake EXCEPT ![i].st = "waiting", ![i].until = now + TurnTimeout]
        /\ future' = [future EXCEPT ![i] = "open"]
        /\ lane' = [lane EXCEPT ![Session[i]] = Append(@, i)]
        /\ UNCHANGED <<now, item, conv, ownerAt, goal, level, budget, up, edits, ends, fails, tick, busy,
                       taken, starts, confirmed, lost, stranded>>
        /\ Counted
    BY NoneMissed DEF WakeBegin, historyVars, AgendaInv
  <1>2. /\ wake \in [Items -> WakeRecord] /\ future \in [Items -> Outcome \cup {"none", "open"}]
        /\ lane \in [Convs -> Seq(Items)] /\ now \in Nat /\ WakeInv
        /\ Session[i] \in Convs /\ TurnTimeout \in Nat /\ ReviewTimeout \in Nat
    BY Constants DEF AgendaInv, AgendaTypes
  <1>3. /\ wake' \in [Items -> WakeRecord] /\ future' \in [Items -> Outcome \cup {"none", "open"}]
        /\ wake'[i].st = "waiting" /\ wake'[i].until = now + TurnTimeout
        /\ wake'[i].n = wake[i].n /\ wake'[i].at = wake[i].at
        /\ \A j \in Items : j # i => wake'[j] = wake[j] /\ future'[j] = future[j]
    <2> DEFINE w == [wake[i] EXCEPT !.st = "waiting", !.until = now + TurnTimeout]
    <2>1. wake' = [wake EXCEPT ![i] = w]
      BY <1>1, <1>2
    <2>2. /\ w \in WakeRecord /\ w.st = "waiting" /\ w.until = now + TurnTimeout
          /\ w.n = wake[i].n /\ w.at = wake[i].at
      <3>1. wake[i] \in WakeRecord /\ now + TurnTimeout \in Nat
        BY <1>2
      <3> QED
        BY <3>1 DEF WakeRecord
    <2> HIDE DEF w
    <2>3. wake' \in [Items -> WakeRecord] /\ wake'[i] = w /\ \A j \in Items : j # i => wake'[j] = wake[j]
      BY <1>2, <2>1, <2>2
    <2>4. future' \in [Items -> Outcome \cup {"none", "open"}]
          /\ \A j \in Items : j # i => future'[j] = future[j]
      BY <1>1, <1>2
    <2> QED
      BY <2>2, <2>3, <2>4
  <1>4. lane' \in [Convs -> Seq(Items)] /\ LaneInv'
    <2>1. lane[Session[i]] \in Seq(Items) /\ Append(lane[Session[i]], i) \in Seq(Items)
      BY <1>2
    <2>2. lane' \in [Convs -> Seq(Items)]
      BY <1>1, <1>2, <2>1
    <2>3. ASSUME NEW k \in Convs, NEW x \in 1..Len(lane'[k]) PROVE Session[lane'[k][x]] = k
      <3>1. CASE k = Session[i]
        <4>1. lane'[k] = Append(lane[k], i)
          BY <1>1, <1>2, <3>1
        <4>2. x = Len(lane[k]) + 1 \/ x \in 1..Len(lane[k])
          BY <2>1, <3>1, <4>1
        <4>3. CASE x = Len(lane[k]) + 1
          BY <2>1, <3>1, <4>1, <4>3
        <4>4. CASE x \in 1..Len(lane[k])
          <5>1. lane'[k][x] = lane[k][x]
            BY <2>1, <3>1, <4>1, <4>4
          <5> QED
            BY <4>4, <5>1 DEF AgendaInv, LaneInv
        <4> QED
          BY <4>2, <4>3, <4>4
      <3>2. CASE k # Session[i]
        BY <1>1, <1>2, <3>2 DEF AgendaInv, LaneInv
      <3> QED
        BY <3>1, <3>2
    <2> QED
      BY <2>2, <2>3 DEF LaneInv
  <1>5. AgendaTypes'
    BY <1>1, <1>3, <1>4 DEF AgendaInv, AgendaTypes
  <1>6. \A j \in Items : Slot(j)' = Slot(j) /\ (Waked(j)' <=> Waked(j))
    BY <1>1, <1>3 DEF Slot, Waked
  <1>7. WakeInv'
    <2>1. \A j \in Items : wake'[j].at = wake[j].at /\ wake'[j].n = wake[j].n
      BY <1>3
    <2>2. now <= wake[i].at + ReviewTimeout /\ wake[i].at \in Nat
      BY <1>1, <1>2 DEF WakeInv, WakeRecord
    <2>3. now <= wake'[i].until /\ wake'[i].until <= wake'[i].at + ReviewTimeout + TurnTimeout
      BY <1>2, <1>3, <2>2
    <2>4. future'[i] # "none"
      BY <1>1, <1>2
    <2> QED
      BY <1>1, <1>2, <1>3, <1>6, <2>1, <2>3, <2>4 DEF WakeInv, Owner, Waked
  <1>8. SlotInv'
    <2>1. \A e \in budget : e.tok[1] \in Items
      BY DEF AgendaInv, AgendaTypes, Entry
    <2> QED
      BY <1>1, <1>6, <2>1 DEF AgendaInv, SlotInv, Owner
  <1>9. TickInv'
    BY <1>1 DEF AgendaInv, TickInv, Owner, Idle
  <1>10. StartsInv'
    BY <1>1 DEF AgendaInv, StartsInv
  <1>11. LimitInv'
    BY <1>1 DEF AgendaInv, LimitInv
  <1>12. CountInv'
    <2>1. \A a \in Agents : tick'[a].pc = "reserve" => Cardinality(Wakes(a)) < MaxWakes
      BY <1>1 DEF AgendaInv, CountInv
    <2> QED
      BY <1>1, <1>6, <2>1, CountsKept
  <1> QED
    BY <1>4, <1>5, <1>7, <1>8, <1>9, <1>10, <1>11, <1>12 DEF AgendaInv

LEMMA DeliveredTyped == ASSUME AgendaTypes, NEW k \in Convs PROVE Delivered(k) \in [Convs -> ConvRecord]
  <1> DEFINE c == [conv[k] EXCEPT !.unanswered = @ + 1, !.last = now]
  <1>1. conv \in [Convs -> ConvRecord] /\ now \in Nat
    BY Constants DEF AgendaTypes
  <1>2. c \in ConvRecord
    <2>1. conv[k] \in ConvRecord
      BY <1>1
    <2>2. conv[k].unanswered + 1 \in Nat /\ conv[k].last \in Nat
      BY <2>1 DEF ConvRecord
    <2> QED
      BY <1>1, <2>1, <2>2 DEF ConvRecord
  <1>3. Delivered(k) = [conv EXCEPT ![k] = c]
    BY <1>1 DEF Delivered, ConvRecord
  <1> HIDE DEF c
  <1> QED
    BY <1>1, <1>2, <1>3

LEMMA TurnFinishedInv ==
    ASSUME AgendaInv, NEW k \in Convs, NEW how \in Outcome, TurnFinished(k, how) PROVE AgendaInv'
  <1> DEFINE i == Head(lane[k])
  <1>1. /\ Idle(Host[k]) /\ lane[k] # <<>> /\ lane' = [lane EXCEPT ![k] = Tail(@)]
        /\ \/ future[i] = "open" /\ future' = [future EXCEPT ![i] = how] /\ UNCHANGED <<item, conv>>
           \/ /\ UNCHANGED future /\ (item' = Settled({i}) \/ UNCHANGED item)
              /\ conv' = Delivered(k) \/ UNCHANGED conv
        /\ UNCHANGED <<now, ownerAt, goal, level, budget, up, edits, ends, tick, wake, busy,
                       taken, starts, confirmed, lost, stranded>>
    BY DEF TurnFinished, SpokeLate, Count, historyVars
  <1>2. AgendaTypes /\ lane[k] \in Seq(Items) /\ lane \in [Convs -> Seq(Items)]
        /\ future \in [Items -> Outcome \cup {"none", "open"}]
        /\ item \in [Items -> ItemRecord] /\ conv \in [Convs -> ConvRecord]
    BY DEF AgendaInv, AgendaTypes
  <1>3. i \in Items /\ Owner(i) = Host[k]
    <2>1. Len(lane[k]) \in Nat /\ Len(lane[k]) > 0 /\ Head(lane[k]) = lane[k][1] /\ i \in Items
      BY <1>1, <1>2
    <2>2. Session[i] = k
      BY <2>1 DEF AgendaInv, LaneInv
    <2> QED
      BY <2>1, <2>2 DEF Owner
  <1>4. lane' \in [Convs -> Seq(Items)] /\ LaneInv'
    <2>1. /\ Tail(lane[k]) \in Seq(Items) /\ Len(Tail(lane[k])) = Len(lane[k]) - 1
          /\ \A x \in 1..Len(Tail(lane[k])) : Tail(lane[k])[x] = lane[k][x + 1]
          /\ Len(lane[k]) \in Nat
      BY <1>1, <1>2
    <2>2. lane' \in [Convs -> Seq(Items)] /\ lane'[k] = Tail(lane[k])
          /\ \A j \in Convs : j # k => lane'[j] = lane[j]
      BY <1>1, <1>2, <2>1
    <2>3. \A x \in 1..Len(lane'[k]) : Session[lane'[k][x]] = k
      <3>1. SUFFICES ASSUME NEW x \in 1..Len(lane'[k]) PROVE Session[lane'[k][x]] = k
        OBVIOUS
      <3>2. lane'[k][x] = lane[k][x + 1] /\ x + 1 \in 1..Len(lane[k])
        BY <2>1, <2>2
      <3> QED
        BY <3>2 DEF AgendaInv, LaneInv
    <2> QED
      BY <2>2, <2>3 DEF AgendaInv, LaneInv
  <1> HIDE DEF i
  <1>5. /\ future' \in [Items -> Outcome \cup {"none", "open"}]
        /\ \A j \in Items : future'[j] # "none" <=> future[j] # "none"
    BY <1>1, <1>2, <1>3 DEF Outcome
  <1>9. Counted /\ fails' \in 0..MaxFails
    <2>1. UNCHANGED fails \/ \E missed \in SUBSET {"count", "agenda"} : Miss(missed)
      BY DEF TurnFinished
    <2> QED
      BY <1>2, <2>1, Missed, NoneMissed, CountedTyped
  <1>6. item' \in [Items -> ItemRecord] /\ ServiceInv'
    <2>1. CASE item' = Settled({i})
      <3>1. \A j \in {i} : j \in Items => Idle(Owner(j))
        BY <1>1, <1>3
      <3>2. UNCHANGED <<now, budget, up, ends, tick, wake, taken, starts, confirmed, lost, stranded>>
        BY <1>1
      <3> QED
        BY <1>5, <1>9, <2>1, <3>1, <3>2, SettleInv
    <2>2. CASE UNCHANGED item
      BY <1>1, <1>2, <1>5, <1>9, <2>2, ItemsMove DEF Quieter, Calm
    <2> QED
      BY <1>1, <2>1, <2>2
  <1>7. conv' \in [Convs -> ConvRecord]
    BY <1>1, <1>2, DeliveredTyped
  <1>8. AgendaTypes'
    BY <1>1, <1>2, <1>4, <1>5, <1>6, <1>7, <1>9 DEF AgendaTypes
  <1> QED
    BY <1>4, <1>6, <1>8 DEF AgendaInv, ServiceInv

-----------------------------------------------------------------------------
(* The budget: entries that leave, change their state or are added.        *)

LEMMA TopCapTyped == TopCap \in Nat /\ \A l \in Levels : DailyCap[l] <= TopCap
  <1> DEFINE caps == {DailyCap[l] : l \in Levels}
  <1>1. Levels \subseteq {"off", "low", "normal", "high"} /\ Levels # {}
    BY AgendaAssumption DEF AllLevels
  <1>2. DailyCap["off"] = 0 /\ DailyCap["low"] = 1 /\ DailyCap["normal"] = 2 /\ DailyCap["high"] = 4
    BY DEF DailyCap
  <1>3. \E m \in Levels : \A l \in Levels : DailyCap[l] <= DailyCap[m]
    <2>1. CASE "high" \in Levels
      BY <1>1, <1>2, <2>1
    <2>2. CASE "high" \notin Levels /\ "normal" \in Levels
      BY <1>1, <1>2, <2>2
    <2>3. CASE "high" \notin Levels /\ "normal" \notin Levels /\ "low" \in Levels
      BY <1>1, <1>2, <2>3
    <2>4. CASE "high" \notin Levels /\ "normal" \notin Levels /\ "low" \notin Levels
      <3>1. \A l \in Levels : l = "off"
        BY <1>1, <2>4
      <3>2. "off" \in Levels
        BY <1>1, <3>1
      <3> QED
        BY <1>2, <3>1, <3>2
    <2> QED
      BY <2>1, <2>2, <2>3, <2>4
  <1>4. \E c \in caps : \A l \in Levels : DailyCap[l] <= c
    BY <1>3
  <1>5. TopCap \in caps /\ \A l \in Levels : DailyCap[l] <= TopCap
    BY <1>4 DEF TopCap
  <1>6. caps \subseteq Nat
    BY <1>1, <1>2
  <1> QED
    BY <1>5, <1>6

LEMMA OnDays ==
    ASSUME NEW B, IsFiniteSet(B), NEW d
    PROVE  /\ IsFiniteSet(OnDay(B, d)) /\ Cardinality(OnDay(B, d)) \in Nat
           /\ \A a : /\ IsFiniteSet(ByAgent(OnDay(B, d), a))
                    /\ Cardinality(ByAgent(OnDay(B, d), a)) \in Nat
  <1>1. OnDay(B, d) \subseteq B /\ \A a : ByAgent(OnDay(B, d), a) \subseteq B
    BY DEF OnDay, ByAgent
  <1> QED
    BY <1>1, FS_Subset, FS_CardinalityType

LEMMA FitsSubset == ASSUME NEW B, Fits(B), NEW C \in SUBSET B PROVE Fits(C)
  <1>1. IsFiniteSet(B) /\ IsFiniteSet(C)
    BY FS_Subset DEF Fits
  <1>2. ASSUME NEW d \in Nat, NEW a \in Agents
        PROVE  /\ Cardinality(OnDay(C, d)) <= Cardinality(OnDay(B, d))
               /\ Cardinality(ByAgent(OnDay(C, d), a)) <= Cardinality(ByAgent(OnDay(B, d), a))
    <2>1. OnDay(C, d) \subseteq OnDay(B, d) /\ ByAgent(OnDay(C, d), a) \subseteq ByAgent(OnDay(B, d), a)
      BY DEF OnDay, ByAgent
    <2> QED
      BY <1>1, <2>1, OnDays, FS_Subset
  <1>3. ASSUME NEW d \in Nat PROVE Cardinality(OnDay(C, d)) <= Cardinality(OnDay(B, d))
    <2>1. OnDay(C, d) \subseteq OnDay(B, d)
      BY DEF OnDay
    <2> QED
      BY <1>1, <2>1, OnDays, FS_Subset
  <1>4. ASSUME NEW d \in Nat PROVE Cardinality(OnDay(C, d)) <= GlobalCap
    BY <1>1, <1>3, OnDays, Constants DEF Fits
  <1>5. ASSUME NEW d \in Nat, NEW a \in Agents PROVE Cardinality(ByAgent(OnDay(C, d), a)) <= TopCap
    BY <1>1, <1>2, OnDays, TopCapTyped DEF Fits
  <1> QED
    BY <1>1, <1>4, <1>5 DEF Fits

LEMMA Swapped ==
    ASSUME NEW B, IsFiniteSet(B), NEW e \in B, NEW f
    PROVE  LET C == (B \ {e}) \cup {f} IN IsFiniteSet(C) /\ Cardinality(C) <= Cardinality(B)
  <1>1. IsFiniteSet(B \ {e}) /\ Cardinality(B \ {e}) = Cardinality(B) - 1 /\ Cardinality(B) \in Nat
    BY FS_RemoveElement, FS_CardinalityType
  <1>2. /\ IsFiniteSet((B \ {e}) \cup {f}) /\ Cardinality(B \ {e}) \in Nat
        /\ Cardinality((B \ {e}) \cup {f}) =
             IF f \in B \ {e} THEN Cardinality(B \ {e}) ELSE Cardinality(B \ {e}) + 1
    BY <1>1, FS_AddElement, FS_CardinalityType
  <1> QED
    BY <1>1, <1>2

LEMMA FitsSwap ==
    ASSUME NEW B, Fits(B), NEW e \in B, NEW f, f.at = e.at, f.who = e.who
    PROVE  Fits((B \ {e}) \cup {f})
  <1> DEFINE C == (B \ {e}) \cup {f}
  <1>1. IsFiniteSet(B) /\ IsFiniteSet(C)
    BY Swapped DEF Fits
  <1>2. ASSUME NEW d \in Nat PROVE Cardinality(OnDay(C, d)) <= Cardinality(OnDay(B, d))
    <2>1. CASE e \in OnDay(B, d)
      <3>1. OnDay(C, d) = (OnDay(B, d) \ {e}) \cup {f}
        BY <2>1 DEF OnDay
      <3> QED
        BY <1>1, <2>1, <3>1, OnDays, Swapped
    <2>2. CASE e \notin OnDay(B, d)
      <3>1. OnDay(C, d) \subseteq OnDay(B, d)
        BY <2>2 DEF OnDay
      <3> QED
        BY <1>1, <3>1, OnDays, FS_Subset
    <2> QED
      BY <2>1, <2>2
  <1>3. ASSUME NEW d \in Nat, NEW a \in Agents
        PROVE  Cardinality(ByAgent(OnDay(C, d), a)) <= Cardinality(ByAgent(OnDay(B, d), a))
    <2>1. CASE e \in ByAgent(OnDay(B, d), a)
      <3>1. ByAgent(OnDay(C, d), a) = (ByAgent(OnDay(B, d), a) \ {e}) \cup {f}
        BY <2>1 DEF OnDay, ByAgent
      <3> QED
        BY <1>1, <2>1, <3>1, OnDays, Swapped
    <2>2. CASE e \notin ByAgent(OnDay(B, d), a)
      <3>1. ByAgent(OnDay(C, d), a) \subseteq ByAgent(OnDay(B, d), a)
        BY <2>2 DEF OnDay, ByAgent
      <3> QED
        BY <1>1, <3>1, OnDays, FS_Subset
    <2> QED
      BY <2>1, <2>2
  <1> HIDE DEF C
  <1>4. ASSUME NEW d \in Nat PROVE Cardinality(OnDay(C, d)) <= GlobalCap
    BY <1>1, <1>2, OnDays, Constants DEF Fits
  <1>5. ASSUME NEW d \in Nat, NEW a \in Agents PROVE Cardinality(ByAgent(OnDay(C, d), a)) <= TopCap
    BY <1>1, <1>3, OnDays, TopCapTyped DEF Fits
  <1>6. Fits(C)
    BY <1>1, <1>4, <1>5 DEF Fits
  <1> QED
    BY <1>6 DEF C

LEMMA FitsAdd ==
    ASSUME NEW B, Fits(B), NEW f, f.at \in Nat,
           Cardinality(Today(B, f.at)) < GlobalCap,
           Cardinality(ByAgent(Today(B, f.at), f.who)) < TopCap
    PROVE  Fits(B \cup {f})
  <1> DEFINE C == B \cup {f}
             D == Day(f.at)
  <1>1. IsFiniteSet(B) /\ IsFiniteSet(C) /\ D \in Nat
    BY FS_AddElement, DayOf DEF Fits
  <1>2. Today(B, f.at) = OnDay(B, D)
    BY DEF Today, OnDay
  <1>3. ASSUME NEW S, IsFiniteSet(S) PROVE Cardinality(S \cup {f}) <= Cardinality(S) + 1
    <2>1. /\ Cardinality(S) \in Nat
          /\ Cardinality(S \cup {f}) = IF f \in S THEN Cardinality(S) ELSE Cardinality(S) + 1
      BY <1>3, FS_AddElement, FS_CardinalityType
    <2> QED
      BY <2>1
  <1>4. ASSUME NEW d \in Nat PROVE Cardinality(OnDay(C, d)) <= GlobalCap
    <2>1. CASE d = D
      <3>1. OnDay(C, d) = OnDay(B, d) \cup {f}
        BY <2>1 DEF OnDay
      <3> QED
        <4>1. Cardinality(OnDay(B, d)) \in Nat /\ IsFiniteSet(OnDay(B, d))
          BY <1>1, OnDays
        <4>2. Cardinality(OnDay(C, d)) <= Cardinality(OnDay(B, d)) + 1
          BY <1>3, <3>1, <4>1
        <4>3. IsFiniteSet(OnDay(C, d)) /\ Cardinality(OnDay(C, d)) \in Nat
          BY <1>1, OnDays
        <4>4. Cardinality(OnDay(B, d)) < GlobalCap
          BY <1>2, <2>1
        <4> QED
          BY <4>1, <4>2, <4>3, <4>4, Constants
    <2>2. CASE d # D
      <3>1. OnDay(C, d) = OnDay(B, d)
        BY <2>2 DEF OnDay
      <3> QED
        BY <3>1 DEF Fits
    <2> QED
      BY <2>1, <2>2
  <1>5. ASSUME NEW d \in Nat, NEW a \in Agents PROVE Cardinality(ByAgent(OnDay(C, d), a)) <= TopCap
    <2>1. CASE d = D /\ a = f.who
      <3>1. ByAgent(OnDay(C, d), a) = ByAgent(OnDay(B, d), a) \cup {f}
        BY <2>1 DEF OnDay, ByAgent
      <3> QED
        BY <1>1, <1>2, <1>3, <2>1, <3>1, OnDays, TopCapTyped
    <2>2. CASE ~(d = D /\ a = f.who)
      <3>1. ByAgent(OnDay(C, d), a) = ByAgent(OnDay(B, d), a)
        BY <2>2 DEF OnDay, ByAgent
      <3> QED
        BY <3>1 DEF Fits
    <2> QED
      BY <2>1, <2>2
  <1> HIDE DEF C
  <1>6. Fits(C)
    BY <1>1, <1>4, <1>5 DEF Fits
  <1> QED
    BY <1>6 DEF C

\* The entry of the slot a wake-up holds.
Mine(i) == [tok |-> Slot(i), who |-> Owner(i), at |-> wake[i].at, st |-> "reserved"]

LEMMA Settling ==
    ASSUME AgendaInv, NEW i \in Items, Waked(i)
    PROVE  /\ Mine(i) \in budget /\ \A e \in budget : e.tok = Slot(i) => e = Mine(i)
           /\ Release({Slot(i)}) = budget \ {Mine(i)}
           /\ Confirm(Slot(i)) = (budget \ {Mine(i)}) \cup {[Mine(i) EXCEPT !.st = "sent"]}
  <1>1. Mine(i) \in budget /\ Mine(i).tok = Slot(i)
    BY DEF AgendaInv, WakeInv, Mine
  <1>2. \A e \in budget : e.tok = Slot(i) <=> e = Mine(i)
    BY <1>1 DEF AgendaInv, SlotInv
  <1>3. Release({Slot(i)}) = budget \ {Mine(i)}
    BY <1>2 DEF Release
  <1> DEFINE M == Mine(i)
  <1>4. Confirm(Slot(i)) = {IF e = M THEN [e EXCEPT !.st = "sent"] ELSE e : e \in budget}
    BY <1>2 DEF Confirm
  <1> HIDE DEF M
  <1>5. {IF e = M THEN [e EXCEPT !.st = "sent"] ELSE e : e \in budget}
          = (budget \ {M}) \cup {[M EXCEPT !.st = "sent"]}
    <2>1. M \in budget
      BY <1>1 DEF M
    <2> QED
      BY <2>1
  <1> QED
    BY <1>1, <1>2, <1>3, <1>4, <1>5 DEF M

\* What the end of a wake-up's task may make of the wake-up and of its slot.
Ended(i) ==
    \/ item'[i].st = "settled"
    \/ /\ item[i].st = "running" /\ item'[i].st = "pending"
       /\ item'[i].att = item[i].att + 1 /\ item[i].att + 1 < MaxAttempts

Unrecorded(i) == item'[i] = item[i] /\ stranded' = stranded \cup {i}

ItemSettles(i) ==
    /\ item' \in [Items -> ItemRecord] /\ \A j \in Items : j # i => item'[j] = item[j]
    /\ (Ended(i) /\ UNCHANGED stranded) \/ Unrecorded(i)

SlotSettles(i) ==
    \/ budget' = Release({Slot(i)}) /\ UNCHANGED <<confirmed, lost>>
    \/ /\ budget' = Confirm(Slot(i)) /\ UNCHANGED lost
       /\ confirmed' = confirmed \cup {[tok |-> Slot(i), at |-> wake[i].at]}
    \/ /\ UNCHANGED <<budget, confirmed>>
       /\ fails' = fails + 1 /\ lost' = lost \cup {Slot(i)}

LEMMA WakeEnds ==
    ASSUME AgendaInv, NEW i \in Items, Waked(i), Idle(Owner(i)), Over(i),
           ItemSettles(i), SlotSettles(i), Counted, conv' \in [Convs -> ConvRecord],
           UNCHANGED <<now, ownerAt, goal, level, up, edits, ends, tick, lane, busy, taken, starts>>
    PROVE  AgendaInv'
  <1> DEFINE M == Mine(i)
             K == [M EXCEPT !.st = "sent"]
  <1>1. /\ AgendaTypes /\ TickInv /\ LaneInv /\ WakeInv /\ SlotInv /\ StartsInv /\ LimitInv
        /\ wake \in [Items -> WakeRecord] /\ future \in [Items -> Outcome \cup {"none", "open"}]
        /\ item \in [Items -> ItemRecord] /\ taken \in [Items -> Nat]
    BY DEF AgendaInv, AgendaTypes
  <1>2. /\ wake' = [wake EXCEPT ![i] = NoWake] /\ future' = [future EXCEPT ![i] = "none"]
    BY DEF Over
  <1>3. /\ wake' \in [Items -> WakeRecord] /\ future' \in [Items -> Outcome \cup {"none", "open"}]
        /\ wake'[i].st = "none" /\ future'[i] = "none"
        /\ \A j \in Items : j # i => wake'[j] = wake[j] /\ future'[j] = future[j]
    BY <1>1, <1>2 DEF NoWake, WakeRecord
  <1>4. /\ M \in budget /\ \A e \in budget : e.tok = Slot(i) => e = M
        /\ Release({Slot(i)}) = budget \ {M} /\ Confirm(Slot(i)) = (budget \ {M}) \cup {K}
        /\ M.tok = Slot(i) /\ M.st = "reserved" /\ M.who = Owner(i) /\ M.at = wake[i].at
        /\ K = [tok |-> Slot(i), who |-> Owner(i), at |-> wake[i].at, st |-> "sent"]
    BY Settling DEF Mine
  <1>5. Slot(i)[1] = i /\ Slot(i)[2] \in Nat /\ Slot(i) \in Items \X Nat /\ wake[i].at \in Nat
        /\ Slot(i)[2] < taken[i] /\ wake[i].at <= now /\ Owner(i) \in Agents
        /\ (item[i].st = "settled" \/ item[i].st = "running")
    BY <1>1, Constants DEF Slot, WakeRecord, WakeInv
  <1>6. /\ item' \in [Items -> ItemRecord] /\ \A j \in Items : j # i => item'[j] = item[j]
        /\ (Ended(i) /\ UNCHANGED stranded) \/ (item'[i] = item[i] /\ stranded' = stranded \cup {i})
    BY DEF ItemSettles, Unrecorded
  <1>7. \A j \in Items : j # i => Slot(j)' = Slot(j) /\ (Waked(j)' <=> Waked(j)) /\ Slot(j) # Slot(i)
    BY <1>3 DEF Slot, Waked
  <1>8. M \in Entry /\ budget \subseteq Entry
    BY <1>1, <1>4 DEF AgendaTypes
  <1>9. K \in Entry /\ K.tok = Slot(i) /\ K.st = "sent" /\ K.who = Owner(i) /\ K.at = wake[i].at
    BY <1>4, <1>5 DEF Entry
  <1>10. [tok |-> Slot(i), at |-> wake[i].at] \in KeptSlot
    BY <1>5 DEF KeptSlot
  <1> HIDE DEF M, K
  <1>11. \/ budget' = budget \ {M} /\ UNCHANGED <<confirmed, lost>>
         \/ /\ budget' = (budget \ {M}) \cup {K} /\ UNCHANGED lost
            /\ confirmed' = confirmed \cup {[tok |-> Slot(i), at |-> wake[i].at]}
         \/ UNCHANGED <<budget, confirmed>> /\ fails' = fails + 1 /\ lost' = lost \cup {Slot(i)}
    BY <1>4 DEF SlotSettles
  <1>12. /\ budget' \subseteq budget \cup {K} /\ budget \ {M} \subseteq budget' /\ budget' \subseteq Entry
         /\ M \in budget' => Slot(i) \in lost' /\ K \notin budget'
         /\ lost \subseteq lost' /\ lost' \subseteq lost \cup {Slot(i)}
    BY <1>4, <1>8, <1>9, <1>11
  <1>13. AgendaTypes'
    <2>1. confirmed' \subseteq KeptSlot
      BY <1>1, <1>10, <1>11 DEF AgendaTypes
    <2>2. lost' \subseteq Items \X Nat /\ stranded' \subseteq Items
      BY <1>1, <1>5, <1>6, <1>12 DEF AgendaTypes
    <2>3. fails' \in 0..MaxFails
      BY <1>1, CountedTyped
    <2> QED
      BY <1>1, <1>3, <1>6, <1>12, <2>1, <2>2, <2>3 DEF AgendaTypes
  <1>14. TickInv'
    <2>1. ASSUME NEW a \in Agents, NEW j \in tick[a].todo PROVE item'[j] = item[j]
      <3>1. j \in Items /\ Owner(j) = a /\ ~Idle(a)
        BY <1>1 DEF TickInv, AgendaTypes, TickRecord, Idle
      <3> QED
        BY <1>6, <3>1
    <2> QED
      BY <1>1, <2>1 DEF TickInv, Owner
  <1>15. WakeInv'
    <2>1. ASSUME NEW j \in Items, j # i, Waked(j)
          PROVE  /\ [tok |-> Slot(j), who |-> Owner(j), at |-> wake[j].at, st |-> "reserved"] \in budget'
                 /\ Slot(j) \notin lost'
      BY <1>1, <1>4, <1>7, <1>12, <2>1 DEF WakeInv
    <2>2. ~Waked(i)' /\ wake'[i].st = "none"
      BY <1>3 DEF Waked
    <2>3. item'[i].st = "running" => i \in stranded'
      BY <1>6 DEF Ended
    <2>4. stranded \subseteq stranded'
      BY <1>6
    <2> QED
      BY <1>1, <1>3, <1>6, <1>7, <2>1, <2>2, <2>3, <2>4 DEF WakeInv, Owner
  <1>16. SlotInv'
    <2>1. \A e \in budget' : e \in budget \/ e = K
      BY <1>12
    <2>2. \A e \in budget : e.tok[1] \in Items /\ e.tok[2] \in Nat
      BY <1>8 DEF Entry
    <2>3. ASSUME NEW e \in budget'
          PROVE  e.tok[2] < taken[e.tok[1]] /\ e.who = Owner(e.tok[1]) /\ e.at <= now
      <3>1. CASE e \in budget
        BY <1>1, <3>1 DEF SlotInv
      <3>2. CASE e = K
        BY <1>5, <1>9, <3>2
      <3> QED
        BY <2>1, <3>1, <3>2
    <2>4. ASSUME NEW e \in budget', NEW f \in budget', e.tok = f.tok PROVE e = f
      <3>1. CASE e \in budget /\ f \in budget
        BY <1>1, <2>4, <3>1 DEF SlotInv
      <3>2. CASE e = K /\ f = K
        BY <3>2
      <3>3. CASE e = K /\ f \in budget
        BY <1>4, <1>9, <1>12, <2>4, <3>3
      <3>4. CASE e \in budget /\ f = K
        BY <1>4, <1>9, <1>12, <2>4, <3>4
      <3> QED
        BY <2>1, <3>1, <3>2, <3>3, <3>4
    <2>5. ASSUME NEW e \in budget', e.st = "reserved"
          PROVE  e.tok \in lost' \/ (Waked(e.tok[1])' /\ e.tok = Slot(e.tok[1])')
      <3>1. e \in budget
        BY <1>9, <2>1, <2>5
      <3>2. CASE e = M
        BY <1>4, <1>12, <3>2
      <3>3. CASE e # M
        <4>1. e.tok \in lost \/ (Waked(e.tok[1]) /\ e.tok = Slot(e.tok[1]))
          BY <1>1, <2>5, <3>1 DEF SlotInv
        <4>2. e.tok # Slot(i)
          BY <1>4, <3>1, <3>3
        <4> QED
          BY <1>7, <1>12, <2>2, <3>1, <4>1, <4>2
      <3> QED
        BY <3>2, <3>3
    <2>6. \A o \in lost' : o[2] < taken[o[1]]
      BY <1>1, <1>5, <1>12 DEF SlotInv
    <2>7. ASSUME NEW c \in confirmed'
          PROVE  [tok |-> c.tok, who |-> Owner(c.tok[1]), at |-> c.at, st |-> "sent"] \in budget'
      <3>1. CASE c \in confirmed
        BY <1>1, <1>4, <1>12, <3>1 DEF SlotInv
      <3>2. CASE c \notin confirmed
        <4>1. budget' = (budget \ {M}) \cup {K} /\ c = [tok |-> Slot(i), at |-> wake[i].at]
          BY <1>11, <3>2
        <4> QED
          BY <1>4, <1>5, <4>1
      <3> QED
        BY <3>1, <3>2
    <2> QED
      BY <2>3, <2>4, <2>5, <2>6, <2>7 DEF SlotInv, Owner
  <1>17. StartsInv'
    BY <1>1, <1>6 DEF StartsInv, Ended, ItemRecord
  <1>18. LimitInv'
    <2>1. CASE budget' = budget \ {M}
      BY <1>1, <2>1, FitsSubset DEF LimitInv
    <2>2. CASE budget' = (budget \ {M}) \cup {K}
      BY <1>1, <1>4, <1>9, <2>2, FitsSwap DEF LimitInv
    <2>3. CASE UNCHANGED budget
      BY <1>1, <2>3 DEF LimitInv
    <2> QED
      BY <1>11, <2>1, <2>2, <2>3
  <1>19. LaneInv'
    BY <1>1 DEF LaneInv
  <1>20. CountInv'
    <2>1. \A j \in Items : Waked(j)' => Waked(j)
      BY <1>7
    <2>2. \A a \in Agents : tick'[a].pc = "reserve" => Cardinality(Wakes(a)) < MaxWakes
      BY DEF AgendaInv, CountInv
    <2>3. UNCHANGED lost \/ (fails' = fails + 1 /\ \E tok : lost' = lost \cup {tok})
      BY <1>11
    <2> QED
      BY <2>1, <2>2, <2>3, CountsKept
  <1> QED
    BY <1>13, <1>14, <1>15, <1>16, <1>17, <1>18, <1>19, <1>20 DEF AgendaInv

LEMMA TurnEnded ==
    ASSUME AgendaInv, NEW i \in Items, Waked(i), item' = RetryOrGiveUp(i) \/ item' = Settled({i})
    PROVE  item' \in [Items -> ItemRecord] /\ Ended(i) /\ \A j \in Items : j # i => item'[j] = item[j]
  <1>1. AgendaTypes /\ item \in [Items -> ItemRecord] /\ now \in Nat
    BY NowTyped DEF AgendaInv, AgendaTypes
  <1>2. item[i].st = "settled" \/ item[i].st = "running"
    BY DEF AgendaInv, WakeInv
  <1>3. CASE item' = Settled({i})
    <2>1. item'[i] = item[i] \/ item'[i].st = "settled"
      BY <1>1, <1>3, SettledItems
    <2>2. item[i].st = "running" => item'[i].st = "settled"
      BY <1>3 DEF Settled, Open, History
    <2> QED
      BY <1>1, <1>2, <1>3, <2>1, <2>2, SettledItems DEF Ended
  <1>4. CASE item' = RetryOrGiveUp(i)
    <2> DEFINE f == Failed(i, now + RetryDelay)
    <2>1. now + RetryDelay \in Nat
      BY <1>1, Constants
    <2>2. /\ f \in ItemRecord
          /\ item[i].st \notin Open => f = item[i]
          /\ item[i].st \in Open =>
                \/ f.st = "settled"
                \/ /\ f.st = "pending" /\ f.att = item[i].att + 1 /\ item[i].att + 1 < MaxAttempts
      BY <1>1, <2>1, FailedItem
    <2>3. item' = [item EXCEPT ![i] = f]
      BY <1>4 DEF RetryOrGiveUp
    <2> HIDE DEF f
    <2>4. /\ item' \in [Items -> ItemRecord] /\ item'[i] = f
          /\ \A j \in Items : j # i => item'[j] = item[j]
      BY <1>1, <2>2, <2>3
    <2>5. Ended(i)
      BY <1>2, <2>2, <2>4 DEF Ended, Open
    <2> QED
      BY <2>4, <2>5
  <1> QED
    BY <1>3, <1>4

\* The last two calls of a task, each of which may not get its lock.
LEMMA ItemSettled ==
    ASSUME AgendaInv, NEW i \in Items, Waked(i), NEW file, NEW missed,
           file = RetryOrGiveUp(i) \/ file = Settled({i}), SettleItem(i, file, missed)
    PROVE  ItemSettles(i)
  <1>1. CASE item' = file /\ UNCHANGED stranded
    BY <1>1, TurnEnded DEF ItemSettles
  <1>2. CASE stranded' = stranded \cup {i} /\ UNCHANGED item
    BY <1>2 DEF ItemSettles, Unrecorded, AgendaInv, AgendaTypes
  <1> QED
    BY <1>1, <1>2 DEF SettleItem

LEMMA TurnLostEnds ==
    ASSUME AgendaInv, NEW i \in Items, Waked(i), NEW missed, Miss(missed), TurnLost(i, missed)
    PROVE  ItemSettles(i) /\ SlotSettles(i) /\ Counted /\ conv' = conv
  <1>1. Counted /\ (missed # {} => fails' = fails + 1)
    BY Missed DEF AgendaInv
  <1>2. ItemSettles(i)
    BY ItemSettled DEF TurnLost
  <1>3. SlotSettles(i)
    BY <1>1 DEF TurnLost, SettleSlot, SlotSettles
  <1> QED
    BY <1>1, <1>2, <1>3 DEF TurnLost

LEMMA WakeDiesInv == ASSUME AgendaInv, NEW i \in Items, WakeDies(i) PROVE AgendaInv'
  <1>1. /\ Idle(Owner(i)) /\ wake[i].st = "created" /\ Over(i) /\ Miss({"agenda"})
        /\ lost' = lost \cup {Slot(i)} /\ stranded' = stranded \cup {i}
        /\ UNCHANGED <<now, item, conv, ownerAt, goal, level, budget, up, edits, ends, tick, lane, busy,
                       taken, starts, confirmed>>
    BY DEF WakeDies
  <1>2. Waked(i)
    BY <1>1 DEF Waked
  <1>3. Counted /\ fails' = fails + 1
    BY <1>1, Missed DEF AgendaInv
  <1>4. ItemSettles(i) /\ conv' \in [Convs -> ConvRecord]
    BY <1>1 DEF ItemSettles, Unrecorded, AgendaInv, AgendaTypes
  <1>5. SlotSettles(i)
    BY <1>1, <1>3 DEF SlotSettles
  <1> QED
    BY <1>1, <1>2, <1>3, <1>4, <1>5, WakeEnds

LEMMA WakeTimeoutInv == ASSUME AgendaInv, NEW i \in Items, WakeTimeout(i) PROVE AgendaInv'
  <1>1. /\ Idle(Owner(i)) /\ future[i] = "open" /\ Over(i)
        /\ \E missed \in SUBSET {"budget", "agenda"} : Miss(missed) /\ TurnLost(i, missed)
        /\ UNCHANGED <<now, ownerAt, goal, level, up, edits, ends, tick, lane, busy, taken, starts>>
    BY DEF WakeTimeout
  <1>2. Waked(i)
    BY <1>1 DEF AgendaInv, WakeInv, Waked
  <1>3. ItemSettles(i) /\ SlotSettles(i) /\ Counted /\ conv' = conv
    BY <1>1, <1>2, TurnLostEnds
  <1>4. conv' \in [Convs -> ConvRecord]
    BY <1>3 DEF AgendaInv, AgendaTypes
  <1> QED
    BY <1>1, <1>2, <1>3, <1>4, WakeEnds

LEMMA WakeResumesInv == ASSUME AgendaInv, NEW i \in Items, WakeResumes(i) PROVE AgendaInv'
  <1>1. /\ Idle(Owner(i)) /\ future[i] \in Outcome /\ Over(i)
        /\ UNCHANGED <<now, ownerAt, goal, level, up, edits, ends, tick, lane, busy, taken, starts>>
    BY DEF WakeResumes
  <1>2. PICK missed \in SUBSET {"budget", "count", "agenda"} :
          /\ Miss(missed)
          /\ TurnSpoke(i, missed) \/ TurnSilent(i, missed) \/ TurnLost(i, missed)
    BY DEF WakeResumes
  <1>3. Waked(i)
    BY <1>1 DEF AgendaInv, WakeInv, Waked, Outcome
  <1>4. AgendaTypes /\ conv \in [Convs -> ConvRecord] /\ Session[i] \in Convs
    BY Constants DEF AgendaInv, AgendaTypes
  <1>5. Counted /\ (missed # {} => fails' = fails + 1)
    BY <1>2, <1>4, Missed
  <1>6. CASE TurnSpoke(i, missed)
    <2>1. ItemSettles(i)
      BY <1>3, <1>6, ItemSettled DEF TurnSpoke
    <2>2. SlotSettles(i)
      BY <1>5, <1>6 DEF TurnSpoke, SettleSlot, SlotSettles
    <2>3. conv' \in [Convs -> ConvRecord]
      BY <1>4, <1>6, DeliveredTyped DEF TurnSpoke, Count
    <2> QED
      BY <1>1, <1>3, <1>5, <2>1, <2>2, <2>3, WakeEnds
  <1>7. CASE TurnSilent(i, missed)
    <2>1. ItemSettles(i)
      BY <1>3, <1>7, ItemSettled DEF TurnSilent
    <2>2. SlotSettles(i)
      BY <1>5, <1>7 DEF TurnSilent, SettleSlot, SlotSettles
    <2>3. conv' \in [Convs -> ConvRecord]
      BY <1>4, <1>7 DEF TurnSilent
    <2> QED
      BY <1>1, <1>3, <1>5, <2>1, <2>2, <2>3, WakeEnds
  <1>8. CASE TurnLost(i, missed)
    BY <1>1, <1>2, <1>3, <1>4, <1>8, TurnLostEnds, WakeEnds
  <1> QED
    BY <1>2, <1>6, <1>7, <1>8

-----------------------------------------------------------------------------
(* The clock and the process.                                              *)

LEMMA AdvanceInv == ASSUME AgendaInv, Advance PROVE AgendaInv'
  <1>1. /\ now < MaxTime /\ now' = now + 1
        /\ \A i \in Items : wake[i].st # "none" => future[i] = "open" /\ now < wake[i].until
        /\ \A a \in Agents : \/ tick[a].pc = "idle"
                             \/ tick[a].pc = "review" /\ now < tick[a].at + ReviewTimeout
        /\ UNCHANGED <<item, conv, ownerAt, goal, level, budget, up, edits, ends, fails, tick, wake, future,
                       lane, busy, taken, starts, confirmed, lost, stranded>>
    BY DEF Advance, procVars, historyVars
  <1>2. /\ now \in Nat /\ now' \in Nat /\ now < now' /\ now' \in 1..MaxTime
        /\ \A t \in Nat : now < t => now' <= t
    BY <1>1, Constants DEF AgendaInv, AgendaTypes
  <1>3. AgendaTypes'
    <2>1. ownerAt' \in [Agents -> 0..now']
      <3>1. 0..now \subseteq 0..now'
        BY <1>2
      <3>2. ownerAt \in [Agents -> 0..now] /\ ownerAt' = ownerAt
        BY <1>1 DEF AgendaInv, AgendaTypes
      <3> QED
        BY <3>1, <3>2
    <2> QED
      BY <1>1, <1>2, <2>1 DEF AgendaInv, AgendaTypes
  <1>4. TickInv'
    <2>1. ASSUME NEW a \in Agents, tick[a].pc # "idle"
          PROVE  tick[a].at <= now' /\ now' <= tick[a].at + ReviewTimeout
      <3>1. tick[a].at \in Nat /\ tick[a].at <= now /\ now < tick[a].at + ReviewTimeout
        BY <1>1, <2>1 DEF AgendaInv, AgendaTypes, TickRecord, TickInv
      <3> QED
        BY <1>2, <3>1, Constants
    <2> QED
      BY <1>1, <2>1 DEF AgendaInv, TickInv, Owner
  <1>5. WakeInv'
    <2>1. \A i \in Items : Slot(i)' = Slot(i) /\ (Waked(i)' <=> Waked(i))
      BY <1>1 DEF Slot, Waked
    <2>2. ASSUME NEW i \in Items, Waked(i)
          PROVE  /\ wake[i].st = "waiting" /\ now' <= wake[i].until /\ wake[i].at <= now'
      <3>1. /\ future[i] = "open" /\ now < wake[i].until /\ wake[i].at <= now
            /\ wake[i].until \in Nat /\ wake[i].at \in Nat
        BY <1>1, <2>2 DEF AgendaInv, AgendaTypes, WakeRecord, WakeInv, Waked
      <3>2. wake[i].st = "waiting"
        BY <3>1 DEF AgendaInv, WakeInv
      <3>3. now' <= wake[i].until
        BY <1>2, <3>1
      <3>4. wake[i].at <= now'
        BY <1>2, <3>1
      <3> QED
        BY <3>2, <3>3, <3>4
    <2> QED
      BY <1>1, <2>1, <2>2 DEF AgendaInv, WakeInv, Owner, Waked
  <1>6. SlotInv'
    <2>1. \A e \in budget : e.at \in Nat /\ e.tok[1] \in Items
      BY DEF AgendaInv, AgendaTypes, Entry
    <2>2. \A e \in budget : e.at <= now => e.at <= now'
      BY <1>2, <2>1
    <2>3. \A i \in Items : Slot(i)' = Slot(i) /\ (Waked(i)' <=> Waked(i))
      BY <1>1 DEF Slot, Waked
    <2> QED
      BY <1>1, <2>1, <2>2, <2>3 DEF AgendaInv, SlotInv, Owner
  <1>7. StartsInv'
    BY <1>1 DEF AgendaInv, StartsInv
  <1>8. LimitInv'
    BY <1>1 DEF AgendaInv, LimitInv
  <1>9. LaneInv'
    BY <1>1 DEF AgendaInv, LaneInv
  <1>10. CountInv'
    BY <1>1, NoneMissed, CountsStay DEF AgendaInv
  <1> QED
    BY <1>3, <1>4, <1>5, <1>6, <1>7, <1>8, <1>9, <1>10 DEF AgendaInv

LEMMA StartInv == ASSUME AgendaInv, NEW a \in Agents, Start(a) PROVE AgendaInv'
  <1>0. PICK missed \in SUBSET {"agenda"} :
          /\ Miss(missed)
          /\ item' = IF missed = {} THEN RecoverInterrupted(a) ELSE item
          /\ stranded' = IF missed = {} THEN stranded \ RunningOf(a) ELSE stranded \cup RunningOf(a)
    BY DEF Start
  <1>1. /\ ~up[a] /\ up' = [up EXCEPT ![a] = TRUE]
        /\ UNCHANGED <<now, conv, ownerAt, goal, level, budget, edits, ends, tick, wake, future, lane,
                       busy, taken, starts, confirmed, lost>>
    BY DEF Start, procVars
  <1>2. /\ AgendaTypes /\ TickInv /\ WakeInv /\ SlotInv /\ StartsInv
        /\ item \in [Items -> ItemRecord] /\ up \in [Agents -> BOOLEAN] /\ now + 1 \in Nat
    BY Constants DEF AgendaInv, AgendaTypes
  <1>3. ASSUME NEW i \in Items
        PROVE  /\ item'[i] \in ItemRecord
               /\ Owner(i) # a \/ item[i].st # "running" => item'[i] = item[i]
               /\ Owner(i) = a /\ item[i].st = "running" =>
                    \/ item'[i].st = "settled"
                    \/ /\ item'[i].st = "pending" /\ item'[i].att = item[i].att + 1
                       /\ item[i].att + 1 < MaxAttempts
                    \/ item'[i] = item[i] /\ i \in stranded'
               /\ Owner(i) # a => (i \in stranded' <=> i \in stranded)
    <2>1. /\ Failed(i, now + 1) \in ItemRecord
          /\ item[i].st \in Open =>
                \/ Failed(i, now + 1).st = "settled"
                \/ /\ Failed(i, now + 1).st = "pending" /\ Failed(i, now + 1).att = item[i].att + 1
                   /\ item[i].att + 1 < MaxAttempts
      BY <1>2, FailedItem
    <2>2. item[i] \in ItemRecord
      BY <1>2
    <2>3. CASE missed = {}
      <3>1. item'[i] = IF Owner(i) = a /\ item[i].st = "running" THEN Failed(i, now + 1) ELSE item[i]
        BY <1>0, <2>3 DEF RecoverInterrupted
      <3>2. Owner(i) # a => (i \in stranded' <=> i \in stranded)
        BY <1>0, <2>3 DEF RunningOf
      <3> QED
        BY <2>1, <2>2, <3>1, <3>2 DEF Open
    <2>4. CASE missed # {}
      <3>1. item' = item /\ stranded' = stranded \cup RunningOf(a)
        BY <1>0, <2>4
      <3> QED
        BY <2>2, <3>1 DEF RunningOf
    <2> QED
      BY <2>3, <2>4
  <1>4. item' \in [Items -> ItemRecord] /\ stranded' \subseteq Items
    <2>1. item' = [i \in Items |-> item'[i]]
      BY <1>0, <1>2 DEF RecoverInterrupted
    <2>2. item' \in [Items -> ItemRecord]
      BY <1>3, <2>1
    <2>3. stranded \subseteq Items
      BY <1>2 DEF AgendaTypes
    <2> QED
      BY <1>0, <2>2, <2>3 DEF RunningOf
  <1>5. \A i \in Items : Slot(i)' = Slot(i) /\ (Waked(i)' <=> Waked(i)) /\ (Waked(i) => Owner(i) # a)
    BY <1>1, <1>2 DEF Slot, Waked, WakeInv
  <1>6. \A b \in Agents : (b # a => up'[b] = up[b]) /\ up'[a]
    BY <1>1, <1>2
  <1>7. Counted /\ fails' \in 0..MaxFails
    BY <1>0, <1>2, Missed, CountedTyped
  <1>8. AgendaTypes'
    <2>1. up' \in [Agents -> BOOLEAN]
      BY <1>1, <1>2
    <2> QED
      BY <1>1, <1>2, <1>4, <1>7, <2>1 DEF AgendaTypes
  <1>9. TickInv'
    <2>1. \A b \in Agents : \A i \in tick[b].todo : i \in Items
      BY <1>2 DEF AgendaTypes, TickRecord
    <2>2. \A b \in Agents : \A i \in tick[b].todo : item'[i] = item[i]
      BY <1>2, <1>3, <2>1 DEF TickInv
    <2> QED
      BY <1>1, <1>2, <1>6, <2>2 DEF TickInv, Owner
  <1>10. WakeInv'
    <2>1. \A i \in Items : item'[i].st = "running" =>
            item'[i] = item[i] /\ (Owner(i) # a \/ i \in stranded')
      BY <1>3
    <2>2. \A i \in Items : Owner(i) \in Agents
      BY Constants
    <2>3. \A i \in Items : Owner(i) # a => item'[i] = item[i] /\ (i \in stranded' <=> i \in stranded)
      BY <1>3
    <2> QED
      BY <1>1, <1>2, <1>5, <1>6, <2>1, <2>2, <2>3 DEF WakeInv, Owner
  <1>11. SlotInv'
    <2>1. \A e \in budget : e.tok[1] \in Items
      BY <1>2 DEF AgendaTypes, Entry
    <2> QED
      BY <1>1, <1>2, <1>5, <2>1 DEF SlotInv, Owner
  <1>12. StartsInv'
    BY <1>1, <1>2, <1>3 DEF StartsInv, ItemRecord
  <1>13. LimitInv' /\ LaneInv'
    BY <1>1 DEF AgendaInv, LimitInv, LaneInv
  <1>14. CountInv'
    BY <1>1, <1>7, CountsStay
  <1> QED
    BY <1>8, <1>9, <1>10, <1>11, <1>12, <1>13, <1>14 DEF AgendaInv

\* What a process leaves reserved when it ends: no more than one slot for each
\* of its wake-ups.
LEMMA GoneCounts ==
    ASSUME AgendaInv, NEW a \in Agents, Counted, ends' = ends + 1,
           lost' \subseteq lost \cup {Slot(j) : j \in Wakes(a)},
           \A i \in Items : Waked(i)' => Waked(i),
           \A b \in Agents : tick'[b].pc = "reserve" => tick[b].pc = "reserve"
    PROVE  CountInv'
  <1> DEFINE T == {Slot(j) : j \in Wakes(a)}
  <1>1. /\ IsFiniteSet(Wakes(a)) /\ Cardinality(Wakes(a)) <= MaxWakes
        /\ IsFiniteSet(lost) /\ Cardinality(lost) <= fails + MaxWakes * ends
        /\ Cardinality(Wakes(a)) \in Nat /\ Cardinality(lost) \in Nat
    BY FS_CardinalityType DEF AgendaInv, CountInv
  <1>2. IsFiniteSet(T) /\ Cardinality(T) <= Cardinality(Wakes(a)) /\ Cardinality(T) \in Nat
    <2> DEFINE f == [j \in Wakes(a) |-> Slot(j)]
    <2>1. f \in Surjection(Wakes(a), T)
      BY DEF Surjection
    <2> HIDE DEF T, f
    <2> QED
      BY <1>1, <2>1, FS_Surjection, FS_CardinalityType
  <1> HIDE DEF T
  <1>3. /\ IsFiniteSet(lost \cup T) /\ Cardinality(lost \cup T) \in Nat
        /\ Cardinality(lost \cup T) <= Cardinality(lost) + Cardinality(T)
    <2>1. /\ IsFiniteSet(lost \cup T)
          /\ Cardinality(lost \cup T) = Cardinality(lost) + Cardinality(T) - Cardinality(lost \cap T)
      BY <1>1, <1>2, FS_Union
    <2>2. IsFiniteSet(lost \cap T)
      BY <1>1, FS_Subset
    <2>3. Cardinality(lost \cap T) \in Nat /\ Cardinality(lost \cup T) \in Nat
      BY <2>1, <2>2, FS_CardinalityType
    <2> QED
      BY <1>1, <1>2, <2>1, <2>3
  <1>4. /\ IsFiniteSet(lost') /\ Cardinality(lost') \in Nat
        /\ Cardinality(lost') <= Cardinality(lost \cup T)
    BY <1>3, FS_Subset, FS_CardinalityType DEF T
  <1>5. Cardinality(lost') <= fails' + MaxWakes * ends'
    <2>1. /\ ends \in Nat /\ MaxWakes \in Nat /\ fails \in Nat /\ fails' \in Nat /\ fails <= fails'
      BY Constants DEF Counted, AgendaInv, AgendaTypes
    <2>2. MaxWakes * ends' = MaxWakes * ends + MaxWakes /\ MaxWakes * ends \in Nat
      BY <2>1
    <2> QED
      BY <1>1, <1>2, <1>3, <1>4, <2>1, <2>2
  <1>6. ASSUME NEW b \in Agents
        PROVE  /\ IsFiniteSet(Wakes(b)') /\ Cardinality(Wakes(b)') <= MaxWakes
               /\ tick'[b].pc = "reserve" => Cardinality(Wakes(b)') < MaxWakes
    <2>1. Wakes(b)' \subseteq Wakes(b)
      BY DEF Wakes, Waked, Owner
    <2>2. /\ IsFiniteSet(Wakes(b)) /\ Cardinality(Wakes(b)) <= MaxWakes
          /\ tick'[b].pc = "reserve" => Cardinality(Wakes(b)) < MaxWakes
      BY DEF AgendaInv, CountInv
    <2>3. /\ IsFiniteSet(Wakes(b)') /\ Cardinality(Wakes(b)') <= Cardinality(Wakes(b))
          /\ Cardinality(Wakes(b)') \in Nat /\ Cardinality(Wakes(b)) \in Nat
      BY <2>1, <2>2, FS_Subset, FS_CardinalityType
    <2> QED
      BY <2>2, <2>3, Constants
  <1> QED
    BY <1>4, <1>5, <1>6 DEF CountInv

\* A process ends and leaves the file as it is, less slots it gives back.
LEMMA GoneInv ==
    ASSUME AgendaInv, NEW a \in Agents, Counted, Gone(a, budget'), budget' \subseteq budget,
           \A e \in budget \ budget' : \E j \in Wakes(a) : e.tok = Slot(j)
    PROVE  AgendaInv'
  <1>1. /\ ends < MaxEnds /\ ends' = ends + 1
        /\ up' = [up EXCEPT ![a] = FALSE]
        /\ tick' = [tick EXCEPT ![a] = NoTick]
        /\ wake' = [i \in Items |-> IF Owner(i) = a THEN NoWake ELSE wake[i]]
        /\ future' = [i \in Items |-> IF Owner(i) = a THEN "none" ELSE future[i]]
        /\ lane' = [k \in Convs |-> IF Host[k] = a THEN <<>> ELSE lane[k]]
        /\ busy' = [k \in Convs |-> busy[k] /\ Host[k] # a]
        /\ lost' = lost \cup {e.tok : e \in {f \in budget' : f.who = a /\ f.st = "reserved"}}
        /\ UNCHANGED <<now, item, conv, ownerAt, goal, level, edits, taken, starts, confirmed, stranded>>
    BY DEF Gone
  <1>2. /\ AgendaTypes /\ TickInv /\ LaneInv /\ WakeInv /\ SlotInv /\ StartsInv /\ LimitInv
        /\ budget \subseteq Entry /\ budget' \subseteq Entry
    BY DEF AgendaInv, AgendaTypes
  <1>3. \A e \in budget : /\ e.tok[1] \in Items /\ e.tok[2] \in Nat /\ e.tok \in Items \X Nat
                          /\ e.who = Owner(e.tok[1])
    BY <1>2 DEF Entry, SlotInv
  <1>4. \A j \in Items : /\ Slot(j)[1] = j
                         /\ Owner(j) = a => wake'[j] = NoWake /\ future'[j] = "none"
                         /\ Owner(j) # a => wake'[j] = wake[j] /\ future'[j] = future[j]
    BY <1>1 DEF Slot
  <1>5. \A j \in Items : /\ Waked(j)' <=> Waked(j) /\ Owner(j) # a
                         /\ Owner(j) # a => Slot(j)' = Slot(j)
    BY <1>1, <1>4 DEF Waked, Slot, NoWake
  <1>6. \A e \in budget : Owner(e.tok[1]) # a \/ e.st = "sent" => e \in budget'
    <2>1. SUFFICES ASSUME NEW e \in budget, e \notin budget' PROVE Owner(e.tok[1]) = a /\ e.st # "sent"
      OBVIOUS
    <2>2. PICK j \in Wakes(a) : e.tok = Slot(j)
      BY <2>1
    <2>3. j \in Items /\ Owner(j) = a /\ Waked(j)
      BY DEF Wakes, Waked
    <2>4. e = Mine(j)
      BY <2>2, <2>3, Settling
    <2> QED
      BY <1>4, <2>2, <2>3, <2>4 DEF Mine
  <1>7. AgendaTypes'
    <2>1. wake' \in [Items -> WakeRecord] /\ future' \in [Items -> Outcome \cup {"none", "open"}]
      BY <1>1, <1>2 DEF AgendaTypes, NoWake, WakeRecord
    <2>2. lane' \in [Convs -> Seq(Items)] /\ busy' \in [Convs -> BOOLEAN]
      <3>1. <<>> \in Seq(Items)
        OBVIOUS
      <3>2. lane \in [Convs -> Seq(Items)] /\ busy \in [Convs -> BOOLEAN]
        BY <1>2 DEF AgendaTypes
      <3> QED
        BY <1>1, <3>1, <3>2
    <2>3. tick' \in [Agents -> TickRecord] /\ up' \in [Agents -> BOOLEAN] /\ ends' \in 0..MaxEnds
      BY <1>1, <1>2, Constants DEF AgendaTypes, NoTick, TickRecord
    <2>4. lost' \subseteq Items \X Nat
      BY <1>1, <1>2, <1>3 DEF AgendaTypes
    <2>5. fails' \in 0..MaxFails
      BY <1>2, CountedTyped
    <2> QED
      BY <1>1, <1>2, <2>1, <2>2, <2>3, <2>4, <2>5 DEF AgendaTypes
  <1>8. TickInv'
    <2>1. tick \in [Agents -> TickRecord] /\ up \in [Agents -> BOOLEAN]
      BY <1>2 DEF AgendaTypes
    <2>2. tick'[a].pc = "idle" /\ tick'[a].todo = {} /\ tick'[a].run = {}
          /\ \A b \in Agents : b # a => tick'[b] = tick[b] /\ up'[b] = up[b]
      BY <1>1, <2>1 DEF NoTick
    <2> QED
      BY <1>1, <1>2, <2>2 DEF TickInv, Owner
  <1>9. LaneInv'
    <2>1. ASSUME NEW k \in Convs, NEW x \in 1..Len(lane'[k]) PROVE Session[lane'[k][x]] = k
      <3>1. Host[k] # a /\ lane'[k] = lane[k]
        BY <1>1, <2>1
      <3> QED
        BY <1>2, <3>1 DEF LaneInv
    <2> QED
      BY <2>1 DEF LaneInv
  <1>10. \A o \in lost' \ lost : \E e \in budget : o = e.tok /\ e.who = a /\ e.st = "reserved"
    BY <1>1
  <1>11. WakeInv'
    <2>1. \A j \in Items : Owner(j) # a => up'[Owner(j)] = up[Owner(j)]
      BY <1>1, <1>2, Constants DEF AgendaTypes
    <2>2. \A j \in Items : Owner(j) = a => ~up'[Owner(j)]
      BY <1>1, <1>2, Constants DEF AgendaTypes
    <2>3. ASSUME NEW j \in Items, Waked(j), Owner(j) # a
          PROVE  /\ [tok |-> Slot(j), who |-> Owner(j), at |-> wake[j].at, st |-> "reserved"] \in budget'
                 /\ Slot(j) \notin lost'
      <3>1. Mine(j) \in budget /\ Mine(j).tok = Slot(j)
        BY <2>3, Settling DEF Mine
      <3>2. Mine(j) \in budget'
        BY <1>4, <1>6, <2>3, <3>1
      <3>3. Slot(j) \notin lost
        BY <1>2, <2>3 DEF WakeInv
      <3>4. \A e \in budget : e.who = a => e.tok # Slot(j)
        BY <1>3, <1>4, <2>3
      <3> QED
        BY <1>10, <3>2, <3>3, <3>4 DEF Mine
    <2>4. ASSUME NEW j \in Items, Owner(j) = a
          PROVE  wake'[j].st = "none" /\ future'[j] = "none" /\ ~Waked(j)' /\ ~up'[Owner(j)]
      BY <1>4, <1>5, <2>2, <2>4 DEF NoWake
    <2>5. ASSUME NEW j \in Items, Owner(j) # a
          PROVE  /\ wake'[j] = wake[j] /\ future'[j] = future[j] /\ Slot(j)' = Slot(j)
                 /\ Waked(j)' <=> Waked(j)
      BY <1>4, <1>5, <2>5
    <2> QED
      BY <1>1, <1>2, <2>1, <2>3, <2>4, <2>5 DEF WakeInv, Owner
  <1>12. SlotInv'
    <2>2. ASSUME NEW e \in budget', e.st = "reserved"
          PROVE  e.tok \in lost' \/ (Waked(e.tok[1])' /\ e.tok = Slot(e.tok[1])')
      <3>1. e \in budget
        OBVIOUS
      <3>2. CASE Owner(e.tok[1]) = a
        <4>1. e.who = a
          BY <1>3, <3>1, <3>2
        <4> QED
          BY <1>1, <2>2, <4>1
      <3>3. CASE Owner(e.tok[1]) # a
        <4>1. e.tok \in lost \/ (Waked(e.tok[1]) /\ e.tok = Slot(e.tok[1]))
          BY <1>2, <2>2, <3>1 DEF SlotInv
        <4> QED
          BY <1>1, <1>3, <1>5, <3>1, <3>3, <4>1
      <3> QED
        BY <3>2, <3>3
    <2>3. \A o \in lost' : o[2] < taken[o[1]]
      BY <1>2, <1>10 DEF SlotInv
    <2>4. ASSUME NEW c \in confirmed
          PROVE  [tok |-> c.tok, who |-> Owner(c.tok[1]), at |-> c.at, st |-> "sent"] \in budget'
      BY <1>2, <1>6 DEF SlotInv
    <2> QED
      BY <1>1, <1>2, <2>2, <2>3, <2>4 DEF SlotInv, Owner
  <1>13. StartsInv'
    BY <1>1, <1>2 DEF StartsInv
  <1>14. LimitInv'
    BY <1>2, FitsSubset DEF LimitInv
  <1>15. CountInv'
    <2>1. ASSUME NEW o \in lost', o \notin lost PROVE \E j \in Wakes(a) : o = Slot(j)
      <3>1. PICK e \in budget : o = e.tok /\ e.who = a /\ e.st = "reserved"
        BY <1>10, <2>1
      <3>2. Waked(e.tok[1]) /\ e.tok = Slot(e.tok[1])
        BY <1>2, <2>1, <3>1 DEF SlotInv
      <3>3. e.tok[1] \in Wakes(a)
        BY <1>3, <3>1, <3>2 DEF Wakes, Waked
      <3> QED
        BY <3>1, <3>2, <3>3
    <2>2. lost' \subseteq lost \cup {Slot(j) : j \in Wakes(a)}
      BY <2>1
    <2>3. \A b \in Agents : tick'[b].pc = "reserve" => tick[b].pc = "reserve"
      BY <1>1, <1>2 DEF AgendaTypes, NoTick
    <2>4. \A i \in Items : Waked(i)' => Waked(i)
      BY <1>5
    <2> QED
      BY <1>1, <2>2, <2>3, <2>4, GoneCounts
  <1> QED
    BY <1>7, <1>8, <1>9, <1>11, <1>12, <1>13, <1>14, <1>15 DEF AgendaInv

LEMMA StopInv == ASSUME AgendaInv, NEW a \in Agents, Stop(a) PROVE AgendaInv'
  <1> DEFINE waiting == {Slot(i) : i \in {j \in Wakes(a) : wake[j].st = "waiting"}}
  <1>1. PICK missed \in SUBSET waiting : Miss(missed) /\ budget' = Release(waiting \ missed)
    BY DEF Stop
  <1>2. Gone(a, budget') /\ Counted
    BY <1>1, Missed DEF Stop, AgendaInv
  <1>3. budget' \subseteq budget /\ \A e \in budget \ budget' : \E j \in Wakes(a) : e.tok = Slot(j)
    BY <1>1 DEF Release
  <1> QED
    BY <1>2, <1>3, GoneInv

LEMMA CrashInv == ASSUME AgendaInv, NEW a \in Agents, Crash(a) PROVE AgendaInv'
  <1>1. budget' = budget /\ Gone(a, budget') /\ Counted
    BY NoneMissed DEF Crash, Gone, AgendaInv
  <1> QED
    BY <1>1, GoneInv

-----------------------------------------------------------------------------
(* A slot is taken.                                                        *)

\* A pass that had room starts one more wake-up.
LEMMA WakeCounts ==
    ASSUME AgendaInv, Counted, NEW a \in Agents, NEW i \in Items, Owner(i) = a, tick[a].pc = "reserve",
           NEW t, tick' = [tick EXCEPT ![a] = t], t.pc # "reserve",
           \A j \in Items : j # i => (Waked(j)' => Waked(j)), UNCHANGED <<ends, lost>>
    PROVE  CountInv'
  <1>1. ASSUME NEW b \in Agents
        PROVE  /\ IsFiniteSet(Wakes(b)') /\ Cardinality(Wakes(b)') <= MaxWakes
               /\ tick'[b].pc = "reserve" => Cardinality(Wakes(b)') < MaxWakes
    <2>1. /\ IsFiniteSet(Wakes(b)) /\ Cardinality(Wakes(b)) <= MaxWakes
          /\ tick[b].pc = "reserve" => Cardinality(Wakes(b)) < MaxWakes
          /\ tick \in [Agents -> TickRecord]
      BY DEF AgendaInv, AgendaTypes, CountInv
    <2>2. CASE b = a
      <3>1. Wakes(b)' \subseteq Wakes(b) \cup {i}
        BY DEF Wakes, Waked, Owner
      <3>2. /\ IsFiniteSet(Wakes(b) \cup {i})
            /\ Cardinality(Wakes(b) \cup {i}) <= Cardinality(Wakes(b)) + 1
            /\ Cardinality(Wakes(b) \cup {i}) \in Nat /\ Cardinality(Wakes(b)) \in Nat
        <4>1. /\ IsFiniteSet(Wakes(b) \cup {i})
              /\ Cardinality(Wakes(b) \cup {i})
                   = IF i \in Wakes(b) THEN Cardinality(Wakes(b)) ELSE Cardinality(Wakes(b)) + 1
          BY <2>1, FS_AddElement
        <4>2. Cardinality(Wakes(b)) \in Nat
          BY <2>1, FS_CardinalityType
        <4> QED
          BY <4>1, <4>2
      <3>3. /\ IsFiniteSet(Wakes(b)') /\ Cardinality(Wakes(b)') <= Cardinality(Wakes(b) \cup {i})
            /\ Cardinality(Wakes(b)') \in Nat
        BY <3>1, <3>2, FS_Subset, FS_CardinalityType
      <3>4. Cardinality(Wakes(b)) < MaxWakes /\ tick'[b].pc # "reserve"
        BY <2>1, <2>2
      <3> QED
        BY <3>2, <3>3, <3>4, Constants
    <2>3. CASE b # a
      <3>1. Wakes(b)' \subseteq Wakes(b) /\ tick'[b] = tick[b]
        BY <2>1, <2>3 DEF Wakes, Waked, Owner
      <3>2. /\ IsFiniteSet(Wakes(b)') /\ Cardinality(Wakes(b)') <= Cardinality(Wakes(b))
            /\ Cardinality(Wakes(b)') \in Nat /\ Cardinality(Wakes(b)) \in Nat
        BY <2>1, <3>1, FS_Subset, FS_CardinalityType
      <3> QED
        BY <2>1, <3>1, <3>2, Constants
    <2> QED
      BY <2>2, <2>3
  <1>2. IsFiniteSet(lost') /\ Cardinality(lost') <= fails' + MaxWakes * ends'
    <2>1. /\ IsFiniteSet(lost) /\ Cardinality(lost) <= fails + MaxWakes * ends
          /\ Cardinality(lost) \in Nat
      BY FS_CardinalityType DEF AgendaInv, CountInv
    <2>2. fails \in Nat /\ fails' \in Nat /\ fails <= fails' /\ MaxWakes * ends \in Nat
      BY Constants DEF Counted, AgendaInv, AgendaTypes
    <2> QED
      BY <2>1, <2>2
  <1> QED
    BY <1>1, <1>2 DEF CountInv

\* The budget with one more entry, where the file had room for it.
LEMMA SlotFits ==
    ASSUME AgendaInv, NEW a \in Agents, NEW t \in Nat, ~Spent(a, t), NEW e, e.at = t, e.who = a
    PROVE  Fits(Live(t) \cup {e})
  <1>1. Fits(Live(t))
    <2>1. Live(t) \subseteq budget /\ Fits(budget)
      BY DEF Live, AgendaInv, LimitInv
    <2> QED
      BY <2>1, FitsSubset
  <1>2. /\ ~(Cardinality(Today(Live(t), t)) >= GlobalCap)
        /\ ~(Cardinality(ByAgent(Today(Live(t), t), a)) >= DailyCap[level[a]])
    BY DEF Spent
  <1>3. Today(Live(t), t) = OnDay(Live(t), Day(t)) /\ IsFiniteSet(Live(t)) /\ Day(t) \in Nat
    BY <1>1, DayOf DEF Today, OnDay, Fits
  <1>4. /\ Cardinality(Today(Live(t), t)) \in Nat
        /\ Cardinality(ByAgent(Today(Live(t), t), a)) \in Nat
    BY <1>3, OnDays
  <1>5. /\ DailyCap[level[a]] <= TopCap /\ TopCap \in Nat /\ DailyCap[level[a]] \in Nat
    <2>1. level[a] \in Levels
      BY DEF AgendaInv, AgendaTypes
    <2>2. \A l \in Levels : DailyCap[l] \in Nat
      BY AgendaAssumption DEF DailyCap, AllLevels
    <2> QED
      BY <2>1, <2>2, TopCapTyped
  <1>6. /\ Cardinality(Today(Live(t), t)) < GlobalCap
        /\ Cardinality(ByAgent(Today(Live(t), t), a)) < TopCap
    BY <1>2, <1>4, <1>5, Constants
  <1> QED
    BY <1>1, <1>6, FitsAdd

\* No wake-up that runs loses its slot to a pass that drops stale ones: its turn
\* and the review before it together take less time than a slot needs to expire.
LEMMA LiveKeepsMine ==
    ASSUME AgendaInv, NEW t \in Nat, t <= now, NEW j \in Items, Waked(j)
    PROVE  Mine(j) \in Live(t)
  <1>1. Mine(j) \in budget /\ Mine(j).at = wake[j].at
    BY Settling DEF Mine
  <1>2. /\ wake[j].at \in Nat /\ wake[j].until \in Nat /\ now \in Nat
        /\ wake[j].st = "created" \/ wake[j].st = "waiting"
    BY Constants DEF AgendaInv, AgendaTypes, WakeRecord, Waked
  <1>3. now <= wake[j].at + StaleAfter
    <2>1. CASE wake[j].st = "created"
      <3>1. now <= wake[j].at + ReviewTimeout
        BY <2>1 DEF AgendaInv, WakeInv
      <3> QED
        BY <1>2, <3>1, Constants
    <2>2. CASE wake[j].st = "waiting"
      <3>1. now <= wake[j].until /\ wake[j].until <= wake[j].at + ReviewTimeout + TurnTimeout
        BY <2>2 DEF AgendaInv, WakeInv
      <3> QED
        BY <1>2, <3>1, Constants
    <2> QED
      BY <1>2, <2>1, <2>2
  <1>4. t <= wake[j].at + StaleAfter
    BY <1>2, <1>3, Constants
  <1> QED
    BY <1>1, <1>4 DEF Live

LEMMA ReserveInv == ASSUME AgendaInv, NEW a \in Agents, NEW i \in Items, Reserve(a, i) PROVE AgendaInv'
  <1> DEFINE t   == tick[a].at
             n   == taken[i]
             new == [tok |-> <<i, n>>, who |-> a, at |-> t, st |-> "reserved"]
  <1>1. PICK missed \in SUBSET {"budget", "agenda"} :
          /\ Miss(missed)
          /\ tick' = [tick EXCEPT ![a] = IF "agenda" \in missed THEN NoTick ELSE Past(a, i)]
          /\ NoSlot(a, i, missed) \/ (~Spent(a, t) /\ TakeSlot(a, i, missed))
    BY DEF Reserve
  <1>2. /\ tick[a].pc = "reserve" /\ tick[a].run = {i}
        /\ UNCHANGED <<now, conv, ownerAt, goal, level, up, edits, ends, future, lane, busy, confirmed,
                       stranded>>
    BY DEF Reserve
  <1>3. /\ AgendaTypes /\ TickInv /\ LaneInv /\ WakeInv /\ SlotInv /\ StartsInv /\ LimitInv
        /\ item \in [Items -> ItemRecord] /\ wake \in [Items -> WakeRecord] /\ budget \subseteq Entry
        /\ starts \in [Items -> Nat] /\ taken \in [Items -> Nat] /\ lost \subseteq Items \X Nat
        /\ tick[a] \in TickRecord /\ now \in Nat
    BY NowTyped DEF AgendaInv, AgendaTypes
  <1>4. /\ i \in tick[a].todo /\ Owner(i) = a /\ item[i].st = "pending" /\ up[a]
        /\ t \in Nat /\ n \in Nat /\ t <= now /\ now <= t + ReviewTimeout
    BY <1>2, <1>3 DEF TickInv, TickRecord
  <1>5. Counted /\ fails' \in 0..MaxFails /\ (missed # {} => fails' = fails + 1)
    BY <1>1, <1>3, Missed, CountedTyped
  <1> DEFINE p == IF "agenda" \in missed THEN NoTick ELSE Past(a, i)
  <1>6. tick' = [tick EXCEPT ![a] = p] /\ p.pc # "reserve"
    BY <1>1, <1>3, PastReserves DEF NoTick
  <1>7. ASSUME \A j \in Items : j # i => item'[j] = item[j]
        PROVE  TickInv' /\ tick' \in [Agents -> TickRecord]
    <2>1. Sane(a, p)
      <3>1. Sane(a, NoTick)
        BY NoTickSane
      <3>2. Sane(a, Past(a, i))
        BY <1>2, <1>3, <1>4, <1>7, PastSane DEF TickRecord
      <3> QED
        BY <3>1, <3>2
    <2> HIDE DEF p
    <2> QED
      BY <1>2, <1>4, <1>6, <1>7, <2>1, PassMoves
  <1> HIDE DEF p
  <1>8. CASE NoSlot(a, i, missed)
    <2>1. /\ UNCHANGED item \/ item' = [item EXCEPT ![i].due = NextDayStart(t)]
          /\ UNCHANGED <<budget, wake, taken, starts, lost>>
      BY <1>8 DEF NoSlot
    <2>2. NextDayStart(t) \in Nat
      <3>1. Day(t) \in Nat /\ DayTicks \in Nat
        BY <1>4, DayOf, AgendaAssumption
      <3>2. (Day(t) + 1) * DayTicks \in Nat
        BY <3>1
      <3> QED
        BY <3>2, QuietEnds DEF NextDayStart
    <2> HIDE DEF t
    <2>3. item' \in [Items -> ItemRecord] /\ \A j \in Items : Calm(j) /\ (j # i => item'[j] = item[j])
      BY <1>3, <1>4, <2>1, <2>2 DEF Calm, ItemRecord
    <2>4. WakeInv' /\ SlotInv' /\ StartsInv' /\ LimitInv'
      BY <1>2, <2>1, <2>3, CalmItems
    <2>5. TickInv' /\ tick' \in [Agents -> TickRecord]
      BY <1>7, <2>3
    <2>6. AgendaTypes'
      BY <1>2, <1>3, <1>5, <2>1, <2>3, <2>5 DEF AgendaTypes
    <2>7. CountInv'
      BY <1>2, <1>5, <1>6, <2>1, PassCounts
    <2> QED
      BY <1>2, <1>3, <2>4, <2>5, <2>6, <2>7 DEF AgendaInv, LaneInv
  <1>9. CASE ~Spent(a, t) /\ TakeSlot(a, i, missed)
    <2> DEFINE w == [st |-> "created", n |-> n, at |-> t, until |-> 0]
    <2>1. /\ budget' = Live(t) \cup {new} /\ taken' = [taken EXCEPT ![i] = @ + 1]
          /\ \/ /\ "agenda" \in missed /\ lost' = lost \cup {<<i, n>>}
                /\ UNCHANGED <<item, wake, starts>>
             \/ /\ item' = [item EXCEPT ![i].st = "running"] /\ wake' = [wake EXCEPT ![i] = w]
                /\ starts' = [starts EXCEPT ![i] = @ + 1] /\ UNCHANGED lost
      BY <1>9 DEF TakeSlot
    <2>2. w \in WakeRecord /\ w.st = "created" /\ w.n = n /\ w.at = t
      BY <1>4 DEF WakeRecord
    <2>3. /\ new \in Entry /\ new.tok = <<i, n>> /\ new.tok[1] = i /\ new.tok[2] = n
          /\ new.who = a /\ new.at = t /\ new.st = "reserved"
      BY <1>4 DEF Entry
    <2>4. /\ taken' \in [Items -> Nat] /\ n < taken'[i] /\ \A j \in Items : taken[j] <= taken'[j]
      <3>1. taken'[i] = n + 1 /\ \A j \in Items : j # i => taken'[j] = taken[j]
        BY <1>3, <2>1
      <3>2. taken' \in [Items -> Nat]
        BY <1>3, <1>4, <2>1
      <3> QED
        BY <1>3, <1>4, <3>1, <3>2
    <2>5. \A e \in budget : e.tok # <<i, n>>
      <3>1. SUFFICES ASSUME NEW e \in budget, e.tok = <<i, n>> PROVE FALSE
        OBVIOUS
      <3>2. e.tok[2] < taken[e.tok[1]] /\ e.tok[1] = i /\ e.tok[2] = n
        BY <1>3, <3>1 DEF SlotInv
      <3> QED
        BY <1>4, <3>2
    <2>6. <<i, n>> \notin lost
      <3>1. SUFFICES ASSUME <<i, n>> \in lost PROVE FALSE
        OBVIOUS
      <3>2. <<i, n>>[2] < taken[<<i, n>>[1]]
        BY <1>3, <3>1 DEF SlotInv
      <3> QED
        BY <1>4, <3>2
    <2>7. ~Waked(i)
      BY <1>3, <1>4 DEF WakeInv
    <2>8. \A j \in Items : Waked(j) => Mine(j) \in Live(t)
      BY <1>4, LiveKeepsMine
    <2>9. Live(t) \subseteq budget /\ \A e \in budget : e.st # "reserved" => e \in Live(t)
      BY DEF Live
    <2>10. Fits(Live(t) \cup {new})
      <3> HIDE DEF new, t
      <3> QED
        BY <1>4, <1>9, <2>3, SlotFits
    <2> HIDE DEF w, new, t, n
    <2>11. /\ item' \in [Items -> ItemRecord] /\ item'[i].att = item[i].att
           /\ \A j \in Items : j # i => item'[j] = item[j] /\ wake'[j] = wake[j] /\ starts'[j] = starts[j]
           /\ wake' \in [Items -> WakeRecord] /\ starts' \in [Items -> Nat]
      <3>1. starts[i] \in Nat /\ starts[i] + 1 \in Nat
        BY <1>3
      <3>2. wake' \in [Items -> WakeRecord] /\ \A j \in Items : j # i => wake'[j] = wake[j]
        BY <1>3, <2>1, <2>2
      <3>3. starts' \in [Items -> Nat] /\ \A j \in Items : j # i => starts'[j] = starts[j]
        BY <1>3, <2>1, <3>1
      <3>4. item' \in [Items -> ItemRecord] /\ item'[i].att = item[i].att
            /\ \A j \in Items : j # i => item'[j] = item[j]
        BY <1>3, <2>1 DEF ItemRecord, Open
      <3> QED
        BY <3>2, <3>3, <3>4
    <2>12. \/ /\ item'[i] = item[i] /\ ~Waked(i)' /\ wake'[i] = wake[i] /\ starts'[i] = starts[i]
              /\ lost' = lost \cup {<<i, n>>} /\ fails' = fails + 1
           \/ /\ item'[i].st = "running" /\ wake'[i] = w /\ Waked(i)' /\ Slot(i)' = <<i, n>>
              /\ starts'[i] = starts[i] + 1 /\ UNCHANGED lost
      <3>1. CASE "agenda" \in missed /\ lost' = lost \cup {<<i, n>>} /\ UNCHANGED <<item, wake, starts>>
        <4>1. missed # {}
          BY <3>1
        <4>2. fails' = fails + 1
          BY <1>5, <4>1
        <4> QED
          BY <2>7, <3>1, <4>2 DEF Waked
      <3>2. CASE /\ item' = [item EXCEPT ![i].st = "running"] /\ wake' = [wake EXCEPT ![i] = w]
                 /\ starts' = [starts EXCEPT ![i] = @ + 1] /\ UNCHANGED lost
        <4>1. wake'[i] = w
          BY <1>3, <3>2
        <4>2. item'[i].st = "running" /\ starts'[i] = starts[i] + 1
          BY <1>3, <3>2 DEF ItemRecord
        <4>3. Slot(i)' = <<i, n>> /\ Waked(i)'
          BY <2>2, <4>1 DEF Slot, Waked
        <4> QED
          BY <3>2, <4>1, <4>2, <4>3
      <3> QED
        BY <2>1, <3>1, <3>2
    <2>13. \A j \in Items : j # i => Slot(j)' = Slot(j) /\ (Waked(j)' <=> Waked(j)) /\ Slot(j)[1] = j
      BY <2>11 DEF Slot, Waked
    <2>14. TickInv' /\ tick' \in [Agents -> TickRecord]
      BY <1>7, <2>11
    <2>15. AgendaTypes'
      <3>1. budget' \subseteq Entry
        BY <1>3, <2>1, <2>3, <2>9
      <3>2. lost' \subseteq Items \X Nat
        BY <1>3, <1>4, <2>12
      <3> QED
        BY <1>2, <1>3, <1>5, <2>4, <2>11, <2>14, <3>1, <3>2 DEF AgendaTypes
    <2>16. WakeInv'
      <3>1. ASSUME NEW j \in Items, j # i, Waked(j)
            PROVE  /\ [tok |-> Slot(j), who |-> Owner(j), at |-> wake[j].at, st |-> "reserved"] \in budget'
                   /\ Slot(j) \notin lost' /\ wake[j].n < taken'[j]
        <4>1. Mine(j) \in budget'
          BY <2>1, <2>8, <3>1
        <4>2. Slot(j) \notin lost /\ Slot(j) # <<i, n>>
          <5>1. Slot(j) \notin lost
            BY <1>3, <3>1 DEF WakeInv
          <5>2. Slot(j)[1] # i
            BY <2>13, <3>1
          <5>3. Slot(j) = <<i, n>> => Slot(j)[1] = i
            OBVIOUS
          <5> QED
            BY <5>1, <5>2, <5>3
        <4>3. wake[j].n < taken[j] /\ taken[j] <= taken'[j] /\ wake[j].n \in Nat /\ taken[j] \in Nat
          BY <1>3, <2>4, <3>1 DEF WakeInv, WakeRecord
        <4>4. wake[j].n < taken'[j]
          BY <2>4, <4>3
        <4> QED
          BY <2>12, <4>1, <4>2, <4>4 DEF Mine
      <3>2. [tok |-> <<i, n>>, who |-> Owner(i), at |-> t, st |-> "reserved"] \in budget'
        BY <1>4, <2>1 DEF new
      <3>3. future[i] = "none" /\ wake[i].st = "none"
        BY <1>3, <2>7 DEF WakeInv, Waked
      <3>4. ASSUME NEW j \in Items, j # i
            PROVE  /\ Waked(j)' =>
                        /\ up'[Owner(j)] /\ item'[j].st \in {"running", "settled"}
                        /\ wake'[j].at <= now' /\ wake'[j].n < taken'[j]
                        /\ [tok |-> Slot(j)', who |-> Owner(j), at |-> wake'[j].at, st |-> "reserved"] \in budget'
                        /\ Slot(j)' \notin lost'
                   /\ wake'[j].st = "created" => now' <= wake'[j].at + ReviewTimeout
                   /\ wake'[j].st = "waiting" => /\ now' <= wake'[j].until
                                                 /\ wake'[j].until <= wake'[j].at + ReviewTimeout + TurnTimeout
                   /\ wake'[j].st = "waiting" <=> future'[j] # "none"
                   /\ item'[j].st = "running" /\ up'[Owner(j)] => Waked(j)' \/ j \in stranded'
        <4>1. item'[j] = item[j] /\ wake'[j] = wake[j] /\ Slot(j)' = Slot(j) /\ (Waked(j)' <=> Waked(j))
          BY <2>11, <2>13, <3>4
        <4> QED
          BY <1>2, <1>3, <3>1, <3>4, <4>1 DEF WakeInv
      <3>5. /\ Waked(i)' =>
                 /\ up'[Owner(i)] /\ item'[i].st \in {"running", "settled"}
                 /\ wake'[i].at <= now' /\ wake'[i].n < taken'[i]
                 /\ [tok |-> Slot(i)', who |-> Owner(i), at |-> wake'[i].at, st |-> "reserved"] \in budget'
                 /\ Slot(i)' \notin lost'
            /\ wake'[i].st = "created" => now' <= wake'[i].at + ReviewTimeout
            /\ wake'[i].st # "waiting" /\ future'[i] = "none"
            /\ item'[i].st = "running" => Waked(i)'
        BY <1>2, <1>4, <2>2, <2>4, <2>6, <2>12, <3>2, <3>3 DEF Waked
      <3> QED
        BY <3>4, <3>5 DEF WakeInv, Owner
    <2>17. SlotInv'
      <3>1. \A e \in budget' : e \in budget \/ e = new
        BY <2>1, <2>9
      <3>2. \A e \in budget : e.tok[1] \in Items /\ e.tok[2] \in Nat
        BY <1>3 DEF Entry
      <3>3. ASSUME NEW e \in budget'
            PROVE  e.tok[2] < taken'[e.tok[1]] /\ e.who = Owner(e.tok[1]) /\ e.at <= now
        <4>1. CASE e \in budget
          <5>1. /\ e.tok[2] < taken[e.tok[1]] /\ taken[e.tok[1]] <= taken'[e.tok[1]]
                /\ e.tok[2] \in Nat /\ taken[e.tok[1]] \in Nat /\ taken'[e.tok[1]] \in Nat
                /\ e.who = Owner(e.tok[1]) /\ e.at <= now
            BY <1>3, <2>4, <3>2, <4>1 DEF SlotInv
          <5> QED
            BY <5>1
        <4>2. CASE e = new
          BY <1>4, <2>3, <2>4, <4>2
        <4> QED
          BY <3>1, <4>1, <4>2
      <3>4. \A e, f \in budget' : e.tok = f.tok => e = f
        BY <1>3, <2>3, <2>5, <3>1 DEF SlotInv
      <3>5. ASSUME NEW e \in budget', e.st = "reserved"
            PROVE  e.tok \in lost' \/ (Waked(e.tok[1])' /\ e.tok = Slot(e.tok[1])')
        <4>1. CASE e = new
          BY <2>3, <2>12, <4>1
        <4>2. CASE e \in budget
          <5>1. e.tok \in lost \/ (Waked(e.tok[1]) /\ e.tok = Slot(e.tok[1]))
            BY <1>3, <3>5, <4>2 DEF SlotInv
          <5> QED
            BY <2>7, <2>12, <2>13, <3>2, <4>2, <5>1
        <4> QED
          BY <3>1, <4>1, <4>2
      <3>6. ASSUME NEW o \in lost' PROVE o[2] < taken'[o[1]]
        <4>1. CASE o \in lost
          <5>1. /\ o[2] < taken[o[1]] /\ o[1] \in Items /\ o[2] \in Nat
            BY <1>3, <4>1 DEF SlotInv
          <5>2. taken[o[1]] <= taken'[o[1]] /\ taken[o[1]] \in Nat /\ taken'[o[1]] \in Nat
            BY <1>3, <2>4, <5>1
          <5> QED
            BY <5>1, <5>2
        <4>2. CASE o \notin lost
          <5>1. o = <<i, n>>
            BY <2>12, <4>2
          <5> QED
            BY <2>4, <5>1
        <4> QED
          BY <4>1, <4>2
      <3>7. ASSUME NEW c \in confirmed
            PROVE  [tok |-> c.tok, who |-> Owner(c.tok[1]), at |-> c.at, st |-> "sent"] \in budget'
        BY <1>3, <2>1, <2>9 DEF SlotInv
      <3> QED
        BY <1>2, <3>3, <3>4, <3>5, <3>6, <3>7 DEF SlotInv, Owner
    <2>18. StartsInv'
      <3>1. starts[i] <= item[i].att /\ item[i].att < MaxAttempts /\ starts[i] \in Nat /\ item[i].att \in Nat
        BY <1>3, <1>4 DEF StartsInv, ItemRecord
      <3>2. starts'[i] <= MaxAttempts /\ starts'[i] <= item'[i].att + 1
        BY <2>11, <2>12, <3>1, Constants
      <3>3. item'[i].st = "pending" => starts'[i] <= item'[i].att
        BY <2>11, <2>12, <3>1
      <3>4. item'[i].st \in {"pending", "running"}
        BY <1>4, <2>12
      <3> QED
        BY <1>3, <2>11, <3>1, <3>2, <3>3, <3>4 DEF StartsInv
    <2>19. LimitInv' /\ LaneInv'
      BY <1>2, <1>3, <2>1, <2>10 DEF LimitInv, LaneInv
    <2>20. CountInv'
      <3>1. CASE lost' = lost \cup {<<i, n>>} /\ fails' = fails + 1 /\ ~Waked(i)'
        <4>1. \A j \in Items : Waked(j)' => Waked(j)
          BY <2>13, <3>1
        <4>2. \A b \in Agents : tick'[b].pc = "reserve" => Cardinality(Wakes(b)) < MaxWakes
          <5>1. ASSUME NEW b \in Agents, tick'[b].pc = "reserve" PROVE tick[b].pc = "reserve"
            BY <1>2, <1>3, <1>6, <5>1 DEF AgendaTypes
          <5> QED
            BY <5>1 DEF AgendaInv, CountInv
        <4> QED
          BY <1>2, <1>5, <3>1, <4>1, <4>2, CountsKept
      <3>2. CASE UNCHANGED lost
        BY <1>2, <1>4, <1>5, <1>6, <2>13, <3>2, WakeCounts
      <3> QED
        BY <2>12, <3>1, <3>2
    <2> QED
      BY <2>14, <2>15, <2>16, <2>17, <2>18, <2>19, <2>20 DEF AgendaInv
  <1> QED
    BY <1>1, <1>8, <1>9

-----------------------------------------------------------------------------
(* The specification.                                                      *)

LEMMA InitInv == ASSUME AgendaInit PROVE AgendaInv
  <1> USE DEF AgendaInit
  <1>1. PICK planned \in SUBSET Items :
          item = [i \in Items |-> [st |-> IF i \in planned THEN "pending" ELSE "unplanned",
                                   due |-> 0, att |-> 0]]
    OBVIOUS
  <1>2. AgendaTypes
    <2>1. item \in [Items -> ItemRecord]
      BY <1>1, Constants DEF ItemRecord, Open
    <2>2. conv \in [Convs -> ConvRecord] /\ tick \in [Agents -> TickRecord] /\ wake \in [Items -> WakeRecord]
      BY DEF ConvRecord, NoTick, TickRecord, NoWake, WakeRecord
    <2>3. lane \in [Convs -> Seq(Items)]
      <3>1. <<>> \in Seq(Items)
        OBVIOUS
      <3> QED
        BY <3>1
    <2>4. now \in 1..MaxTime /\ ownerAt \in [Agents -> 0..now]
          /\ edits \in 0..MaxEdits /\ ends \in 0..MaxEnds /\ fails \in 0..MaxFails
      BY Constants
    <2> QED
      BY <2>1, <2>2, <2>3, <2>4 DEF AgendaTypes
  <1>3. TickInv /\ LaneInv
    BY DEF TickInv, LaneInv, NoTick
  <1>4. WakeInv
    BY <1>1 DEF WakeInv, Waked, NoWake
  <1>5. SlotInv
    BY DEF SlotInv
  <1>6. StartsInv
    BY <1>1, Constants DEF StartsInv
  <1>7. LimitInv
    <2>1. IsFiniteSet({}) /\ Cardinality({}) = 0
      BY FS_EmptySet
    <2>2. \A d : OnDay({}, d) = {} /\ \A a : ByAgent(OnDay({}, d), a) = {}
      BY DEF OnDay, ByAgent
    <2>3. 0 <= GlobalCap /\ 0 <= TopCap
      BY Constants, TopCapTyped
    <2>4. Fits({})
      BY <2>1, <2>2, <2>3 DEF Fits
    <2> QED
      BY <2>4 DEF LimitInv
  <1>8. CountInv
    <2>1. IsFiniteSet({}) /\ Cardinality({}) = 0
      BY FS_EmptySet
    <2>2. \A a \in Agents : Wakes(a) = {} /\ tick[a].pc = "idle"
      BY DEF Wakes, NoWake, NoTick
    <2>3. 0 <= MaxWakes /\ MaxWakes * 0 = 0
      BY Constants
    <2>4. 0 <= fails + MaxWakes * ends
      BY <2>3
    <2>5. Cardinality(lost) <= fails + MaxWakes * ends /\ IsFiniteSet(lost)
      BY <2>1, <2>4
    <2> QED
      BY <2>1, <2>2, <2>3, <2>5 DEF CountInv
  <1> QED
    BY <1>2, <1>3, <1>4, <1>5, <1>6, <1>7, <1>8 DEF AgendaInv

LEMMA NextInv == ASSUME AgendaInv, [AgendaNext]_agendaVars PROVE AgendaInv'
  <1>1. ASSUME UNCHANGED agendaVars PROVE AgendaInv'
    <2>1. AgendaTypes'
      BY <1>1 DEF agendaVars, procVars, historyVars, AgendaInv, AgendaTypes
    <2>2. ServiceInv'
      BY <1>1, <2>1, NoneMissed, ItemsMove
         DEF agendaVars, procVars, historyVars, Quieter, Calm, AgendaTypes, AgendaInv
    <2> QED
      BY <1>1, <2>1, <2>2 DEF agendaVars, procVars, AgendaInv, ServiceInv, LaneInv
  <1>2. ASSUME NEW a \in Agents, ServiceStep(a) \/ Stop(a) \/ Crash(a) \/ Start(a) PROVE AgendaInv'
    BY <1>2, TickStartInv, TickPassInv, ConsiderInv, ReserveInv, StopInv, CrashInv, StartInv DEF ServiceStep
  <1>3. ASSUME NEW i \in Items, WakeStep(i) PROVE AgendaInv'
    BY <1>3, WakeBeginInv, WakeDiesInv, WakeTimeoutInv, WakeResumesInv DEF WakeStep
  <1>4. ASSUME NEW k \in Convs, NEW how \in Outcome, TurnFinished(k, how) PROVE AgendaInv'
    BY <1>4, TurnFinishedInv
  <1>5. ASSUME OwnerStep PROVE AgendaInv'
    <2>1. ASSUME NEW i \in Items, Plan(i, now + 1) \/ Cancel(i) PROVE AgendaInv'
      BY <2>1, PlanInv, CancelInv
    <2>2. ASSUME NEW a \in Agents,
                 \/ CloseGoal(a) \/ \E i \in CheckIns : ResumeGoal(a, i, now + 1)
                 \/ \E l \in Levels : SetLevel(a, l)
          PROVE  AgendaInv'
      BY <2>2, CloseGoalInv, ResumeGoalInv, SetLevelInv
    <2>3. ASSUME NEW k \in Convs, OwnerWrites(k) \/ OwnerTurnEnds(k) PROVE AgendaInv'
      BY <2>3, OwnerWritesInv, OwnerTurnEndsInv
    <2> QED
      BY <1>5, <2>1, <2>2, <2>3 DEF OwnerStep
  <1>6. ASSUME Advance PROVE AgendaInv'
    BY <1>6, AdvanceInv
  <1> QED
    BY <1>1, <1>2, <1>3, <1>4, <1>5, <1>6 DEF AgendaNext

\* The agenda's files, passes, turns and the budget agree in every state,
\* for any agents, wake-ups, limits and times.
THEOREM AgendaInvariant == AgendaSpec => []AgendaInv
  <1>1. AgendaInit => AgendaInv
    BY InitInv
  <1>2. AgendaInv /\ [AgendaNext]_agendaVars => AgendaInv'
    BY NextInv
  <1> QED
    BY <1>1, <1>2, PTL DEF AgendaSpec

\* Every record of the agenda has its type, no slot is named twice, and only
\* a task of a live process is waited for.
THEOREM AgendaTyped == AgendaSpec => []AgendaTypeOK
  <1>1. AgendaInv => AgendaTypeOK
    <2> SUFFICES ASSUME AgendaInv PROVE AgendaTypeOK
      OBVIOUS
    <2>1. AgendaTypes /\ TickInv /\ WakeInv /\ SlotInv
      BY DEF AgendaInv
    <2>2. item \in [Items -> [st : Open \cup {"unplanned", "settled"}, due : Nat, att : 0..MaxAttempts]]
          /\ conv \in [Convs -> [unanswered : Nat, last : Nat]]
      BY <2>1 DEF AgendaTypes, ItemRecord, ConvRecord
    <2>3. \A e \in budget : /\ e.tok \in Items \X Nat /\ e.who = Owner(e.tok[1])
                            /\ e.at <= now /\ e.st \in {"reserved", "sent"}
      BY <2>1 DEF AgendaTypes, Entry, SlotInv
    <2>4. \A a \in Agents : /\ tick[a].pc \in {"idle", "review", "pass", "reserve"}
                            /\ tick[a].todo \subseteq Items /\ tick[a].run \subseteq tick[a].todo
                            /\ ~up[a] => tick[a].pc = "idle"
      BY <2>1 DEF AgendaTypes, TickRecord, TickInv
    <2>5. \A i \in Items : /\ wake[i].st \in {"none", "created", "waiting"}
                           /\ future[i] \in Outcome \cup {"none", "open"}
                           /\ wake[i].st = "waiting" <=> future[i] # "none"
                           /\ wake[i].st # "none" => up[Owner(i)]
      BY <2>1 DEF AgendaTypes, WakeRecord, WakeInv, Waked
    <2>6. \A e, f \in budget : e.tok = f.tok => e = f
      BY <2>1 DEF SlotInv
    <2> QED
      BY <2>1, <2>2, <2>3, <2>4, <2>5, <2>6 DEF AgendaTypeOK, AgendaTypes
  <1> QED
    BY <1>1, AgendaInvariant, PTL

\* The messages of a day stay within the owner's limits over all agents, and
\* no wake-up starts more often than it may.
THEOREM LimitsKept == AgendaSpec => []WithinLimits
  <1>1. AgendaInv => WithinLimits
    <2> SUFFICES ASSUME AgendaInv PROVE WithinLimits
      OBVIOUS
    <2>1. SlotInv /\ Fits(budget) /\ StartsInv /\ AgendaTypes
      BY DEF AgendaInv, LimitInv
    <2>2. ASSUME NEW S, NEW T, IsFiniteSet(S),
                 \A c \in T : [tok |-> c.tok, who |-> Owner(c.tok[1]), at |-> c.at, st |-> "sent"] \in S,
                 T \subseteq KeptSlot
          PROVE  Cardinality(T) <= Cardinality(S) /\ Cardinality(T) \in Nat /\ Cardinality(S) \in Nat
      <3> DEFINE s(c) == [tok |-> c.tok, who |-> Owner(c.tok[1]), at |-> c.at, st |-> "sent"]
                 f == [c \in T |-> s(c)]
      <3>1. f \in Injection(T, S)
        <4>1. f \in [T -> S]
          BY <2>2
        <4>2. ASSUME NEW c \in T, NEW e \in T, f[c] = f[e] PROVE c = e
          <5>1. c.tok = e.tok /\ c.at = e.at
            <6>1. s(c) = s(e)
              BY <4>2
            <6>2. s(c).tok = c.tok /\ s(e).tok = e.tok /\ s(c).at = c.at /\ s(e).at = e.at
              OBVIOUS
            <6> QED
              BY <6>1, <6>2
          <5> QED
            BY <2>2, <5>1 DEF KeptSlot
        <4> QED
          BY <4>1, <4>2 DEF Injection, IsInjective
      <3>2. Cardinality(T) <= Cardinality(S) /\ IsFiniteSet(T)
        BY <2>2, <3>1, FS_Injection
      <3> QED
        BY <2>2, <3>2, FS_CardinalityType
    <2>3. confirmed \subseteq KeptSlot
      BY <2>1 DEF AgendaTypes
    <2>4. ASSUME NEW d \in 0..Day(MaxTime) PROVE Cardinality(OnDay(confirmed, d)) <= GlobalCap
      <3>1. d \in Nat /\ IsFiniteSet(OnDay(budget, d)) /\ Cardinality(OnDay(budget, d)) <= GlobalCap
        BY <2>1, OnDays DEF Fits
      <3>2. \A c \in OnDay(confirmed, d) :
              [tok |-> c.tok, who |-> Owner(c.tok[1]), at |-> c.at, st |-> "sent"] \in OnDay(budget, d)
        BY <2>1 DEF SlotInv, OnDay
      <3>3. OnDay(confirmed, d) \subseteq KeptSlot
        BY <2>3 DEF OnDay
      <3> DEFINE T == OnDay(confirmed, d)
                 S == OnDay(budget, d)
      <3> HIDE DEF T, S
      <3>4. Cardinality(T) <= Cardinality(S) /\ Cardinality(T) \in Nat /\ Cardinality(S) \in Nat
        BY <2>2, <3>1, <3>2, <3>3 DEF T, S
      <3>5. Cardinality(S) <= GlobalCap
        BY <3>1 DEF S
      <3>6. Cardinality(T) <= GlobalCap
        BY <3>4, <3>5, Constants
      <3> QED
        BY <3>6 DEF T
    <2>5. ASSUME NEW d \in 0..Day(MaxTime), NEW a \in Agents
          PROVE  Cardinality({c \in OnDay(confirmed, d) : Owner(c.tok[1]) = a}) <= TopCap
      <3> DEFINE T == {c \in OnDay(confirmed, d) : Owner(c.tok[1]) = a}
                 S == ByAgent(OnDay(budget, d), a)
      <3>1. d \in Nat /\ IsFiniteSet(S) /\ Cardinality(S) <= TopCap
        BY <2>1, OnDays DEF Fits
      <3>2. \A c \in T : [tok |-> c.tok, who |-> Owner(c.tok[1]), at |-> c.at, st |-> "sent"] \in S
        BY <2>1 DEF SlotInv, OnDay, ByAgent
      <3>3. T \subseteq KeptSlot
        BY <2>3 DEF OnDay
      <3> HIDE DEF T, S
      <3>4. Cardinality(T) <= TopCap
        BY <2>2, <3>1, <3>2, <3>3, TopCapTyped
      <3> QED
        BY <3>4 DEF T
    <2> QED
      BY <2>1, <2>4, <2>5 DEF WithinLimits, StartsInv
  <1> QED
    BY <1>1, AgendaInvariant, PTL

\* The reserved slots are those of the wake-ups that run, and the lost ones: at
\* most one for each step that did not get a lock, and MAX_CONCURRENT_WAKES for
\* each process that ended.
THEOREM SlotsAccounted == AgendaSpec => []SlotsAccountedFor
  <1>1. AgendaInv => SlotsAccountedFor
    <2> SUFFICES ASSUME AgendaInv PROVE SlotsAccountedFor
      OBVIOUS
    <2>1. SlotInv /\ WakeInv /\ budget \subseteq Entry
      BY DEF AgendaInv, AgendaTypes
    <2>2. ASSUME NEW e \in budget, e.st = "reserved", e.tok \notin lost
          PROVE  \E i \in Items : Waked(i) /\ e.tok = Slot(i)
      BY <2>1, <2>2 DEF SlotInv, Entry
    <2>3. ASSUME NEW i \in Items, Waked(i)
          PROVE  Slot(i) \notin lost /\ \E e \in budget : e.st = "reserved" /\ e.tok = Slot(i)
      BY <2>1, <2>3, Settling DEF WakeInv, Mine
    <2>4. Cardinality(lost) <= fails + MaxWakes * ends
      BY DEF AgendaInv, CountInv
    <2> QED
      BY <2>2, <2>3, <2>4 DEF SlotsAccountedFor, Waked
  <1> QED
    BY <1>1, AgendaInvariant, PTL

\* A wake-up marked running in a live process has a task, or its end or its
\* recovery met a lock that was not had.
THEOREM StrandedExplained == AgendaSpec => []StrandedByFailureOnly
  <1>1. AgendaInv => StrandedByFailureOnly
    BY DEF AgendaInv, WakeInv, StrandedByFailureOnly, Waked
  <1> QED
    BY <1>1, AgendaInvariant, PTL
=============================================================================
