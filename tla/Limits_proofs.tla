---------------------------- MODULE Limits_proofs ----------------------------
(***************************************************************************)
(* Proofs about what an operator sets and the bot has to keep, which share *)
(* no state: the loss guards (RiskGuards), for every length of a day and   *)
(* all limits; the mode of a running bot (ChaosMode), for any worlds,      *)
(* candles and requests; the configuration (BotConfiguration), for any     *)
(* pairs, strategies and requests.                                         *)
(***************************************************************************)
EXTENDS RiskGuards, ChaosMode, BotConfiguration, WellFoundedInduction, FiniteSetTheorems,
        SequenceTheorems, TLAPS

\* A day starts at or before each of its ticks, after the first day began,
\* and never later than the start of a later tick's day.
LEMMA DayStartBounds ==
    ASSUME NEW t \in Ticks
    PROVE  DayStart(t) \in Ticks /\ DayStart(t) <= t
<1> USE RiskGuardsAssumption DEF Ticks
<1>1. t \in Int /\ Day \in Nat \ {0} /\ t >= Day OBVIOUS
<1> DEFINE q == t \div Day
<1>2. q \in Int /\ q * Day <= t /\ t < (q + 1) * Day
  BY <1>1, Z3
<1>3. q >= 1
  <2> SUFFICES ASSUME q <= 0 PROVE FALSE
    BY <1>2
  <2>1. (q + 1) * Day <= Day BY <1>1, <1>2, Z3
  <2>2. QED BY <2>1, <1>1, <1>2
<1>4. q * Day >= Day
  BY <1>1, <1>2, <1>3, Z3
<1>5. q * Day \in Int BY <1>1, <1>2
<1> HIDE DEF q
<1>6. q * Day \in Day..LastTick BY <1>1, <1>2, <1>4, <1>5
<1>7. DayStart(t) = q * Day BY DEF DayStart, q
<1>8. QED BY <1>2, <1>6, <1>7

LEMMA TicksArePositive ==
    ASSUME NEW t \in Ticks
    PROVE  t \in Nat /\ t > 0
BY RiskGuardsAssumption DEF Ticks

LEMMA DayStartMonotone ==
    ASSUME NEW t \in Ticks, t + 1 \in Ticks
    PROVE  DayStart(t) <= DayStart(t + 1)
<1> USE RiskGuardsAssumption DEF Ticks
<1>1. t \in Int /\ Day \in Nat \ {0} OBVIOUS
<1> DEFINE q == t \div Day
           r == (t + 1) \div Day
<1>2. q \in Int /\ q * Day <= t /\ r \in Int /\ t + 1 < (r + 1) * Day
  BY <1>1, Z3
<1>3. q <= r
  <2> SUFFICES ASSUME r + 1 <= q PROVE FALSE
    BY <1>2
  <2>1. (r + 1) * Day <= q * Day BY <1>1, <1>2, Z3
  <2>2. QED BY <2>1, <1>1, <1>2
<1>4. q * Day <= r * Day BY <1>1, <1>2, <1>3, Z3
<1>5. QED BY <1>4 DEF DayStart

\* The wallet guard tells the truth about the day it is on: its reference is
\* the highest balance recorded that day, and it is breached exactly when the
\* last one is the limit below it.
GuardOnItsDay ==
    wallet.start # 0 =>
        /\ wallet.start \in Ticks
        /\ wallet.reference = peak[wallet.start]
        /\ wallet.breached <=> wallet.reference - wallet.current >= MaxWalletLoss

\* The guard is never on a day to come, and no balance was recorded on a day
\* after its own.
NothingLater ==
    /\ wallet.start <= DayStart(now)
    /\ \A t \in Ticks : t > wallet.start => peak[t] = 0

\* The inductive invariant: that a guard which lags behind the clock misses no
\* balance of today needs that none was recorded after its day.
WalletInv ==
    /\ TypeOK
    /\ GuardOnItsDay
    /\ NothingLater

LEMMA InitInv == Init => WalletInv
<1> SUFFICES ASSUME Init PROVE WalletInv
  OBVIOUS
<1>0. Day \in Ticks
  BY RiskGuardsAssumption DEF Init, Ticks
<1>1. TypeOK
  <2>1. now \in Ticks /\ DayStart(now) \in Nat
    BY <1>0, DayStartBounds, TicksArePositive DEF Init
  <2>2. 0 \in 0..MaxBalance /\ MaxBalance \in 0..MaxBalance BY RiskGuardsAssumption
  <2>3. daily \in [start : Nat, loss : Nat, breached : BOOLEAN] BY <2>1 DEF Init
  <2>4. wallet \in [start : Nat, reference : 0..MaxBalance, current : 0..MaxBalance,
                    breached : BOOLEAN]
    BY <2>2 DEF Init
  <2>5. /\ trades \in [Ticks -> Nat] /\ ledger \in [Ticks -> Nat]
        /\ peak \in [Ticks -> 0..MaxBalance]
        /\ fetched \in [Fetches -> 0..MaxBalance \cup {NoBalance}]
    BY <2>2 DEF Init
  <2>6. QED BY <2>1, <2>2, <2>3, <2>4, <2>5 DEF Init, TypeOK
<1>2. GuardOnItsDay BY DEF Init, GuardOnItsDay
<1>3. NothingLater
  <2>1. DayStart(now) \in Nat BY <1>0, DayStartBounds, TicksArePositive DEF Init
  <2>2. QED BY <2>1 DEF Init, NothingLater
<1>4. QED BY <1>1, <1>2, <1>3 DEF WalletInv

\* A step that leaves the wallet guard, its history and the clock alone.
LEMMA OtherStepInv ==
    ASSUME WalletInv, TypeOK', UNCHANGED <<now, wallet, peak>>
    PROVE  WalletInv'
<1>1. GuardOnItsDay' BY DEF WalletInv, GuardOnItsDay
<1>2. DayStart(now)' = DayStart(now) BY DEF DayStart
<1>3. NothingLater' BY <1>2 DEF WalletInv, NothingLater
<1>4. QED BY <1>1, <1>3 DEF WalletInv

\* Forgetting old trades keeps the type of the window.
LEMMA PruneType ==
    ASSUME NEW ts \in [Ticks -> Nat]
    PROVE  Prune(ts) \in [Ticks -> Nat]
BY DEF Prune

LEMMA CheckDayResetType ==
    ASSUME TypeOK
    PROVE  CheckDayReset(daily) \in [start : Nat, loss : Nat, breached : BOOLEAN]
<1>1. DayStart(now) \in Nat BY DayStartBounds, TicksArePositive DEF TypeOK
<1>2. QED BY <1>1 DEF TypeOK, CheckDayReset

LEMMA RecordTradeInv ==
    ASSUME WalletInv, NEW loss \in Losses, RecordTrade(loss)
    PROVE  WalletInv'
<1> USE RiskGuardsAssumption DEF RecordTrade
<1>0. now \in Ticks /\ loss \in Nat BY DEF WalletInv, TypeOK
<1>1. trades' \in [Ticks -> Nat]
  <2>1. [trades EXCEPT ![now] = @ + loss] \in [Ticks -> Nat]
    BY <1>0 DEF WalletInv, TypeOK
  <2>2. QED BY <2>1, PruneType
<1>2. ledger' \in [Ticks -> Nat] BY <1>0 DEF WalletInv, TypeOK
<1>3. daily' \in [start : Nat, loss : Nat, breached : BOOLEAN]
  <2> DEFINE today == CheckDayReset(daily)
  <2>1. today \in [start : Nat, loss : Nat, breached : BOOLEAN]
    BY CheckDayResetType DEF WalletInv
  <2> HIDE DEF today
  <2>2. PICK reached \in BOOLEAN :
          daily' = [today EXCEPT !.loss = today.loss + loss,
                                 !.breached = today.breached \/ reached]
    BY DEF DailyAfter, today
  <2>3. today.loss + loss \in Nat /\ (today.breached \/ reached) \in BOOLEAN
    BY <1>0, <2>1
  <2>4. QED BY <2>1, <2>2, <2>3
<1>4. running' \in BOOLEAN OBVIOUS
<1>5. TypeOK' BY <1>1, <1>2, <1>3, <1>4 DEF WalletInv, TypeOK
<1>6. QED BY <1>5, OtherStepInv

LEMMA GateInv ==
    ASSUME WalletInv, AllowEntry \/ BlockEntry
    PROVE  WalletInv'
<1>1. trades' \in [Ticks -> Nat]
  BY PruneType DEF AllowEntry, BlockEntry, AskGate, WalletInv, TypeOK
<1>2. daily' \in [start : Nat, loss : Nat, breached : BOOLEAN]
  BY CheckDayResetType DEF AllowEntry, BlockEntry, AskGate, WalletInv
<1>3. TypeOK' BY <1>1, <1>2 DEF AllowEntry, BlockEntry, WalletInv, TypeOK
<1>4. QED BY <1>3, OtherStepInv DEF AllowEntry, BlockEntry

\* A recorded balance puts the guard on the current day.
LEMMA RecordBalanceInv ==
    ASSUME WalletInv, NEW f \in Fetches, RecordBalance(f)
    PROVE  WalletInv'
<1> DEFINE d == DayStart(now)
           b == fetched[f]
           newDay == wallet.start = 0 \/ d > wallet.start
           top == IF newDay \/ b > wallet.reference THEN b ELSE wallet.reference
<1>1. /\ d \in Ticks /\ d > 0
      /\ b \in 0..MaxBalance
      /\ wallet.start \in Nat /\ wallet.start <= d
      /\ wallet.reference \in 0..MaxBalance
      /\ peak \in [Ticks -> 0..MaxBalance]
      /\ now' = now
  <2>1. now \in Ticks BY DEF WalletInv, TypeOK
  <2>2. d \in Ticks /\ d > 0 BY <2>1, DayStartBounds, TicksArePositive
  <2>3. b \in 0..MaxBalance BY DEF WalletInv, TypeOK, RecordBalance
  <2>4. wallet.start <= d BY DEF WalletInv, NothingLater
  <2>5. wallet.start \in Nat /\ wallet.reference \in 0..MaxBalance
    BY DEF WalletInv, TypeOK
  <2>6. QED BY <2>2, <2>3, <2>4, <2>5 DEF WalletInv, TypeOK, RecordBalance
<1>2. wallet' = [start |-> IF newDay THEN d ELSE wallet.start, reference |-> top,
                 current |-> b, breached |-> top - b >= MaxWalletLoss]
  BY DEF RecordBalance, WalletAfter
<1>3. peak' = [peak EXCEPT ![d] = IF b > @ THEN b ELSE @]
  BY DEF RecordBalance
<1>4. d' = d BY <1>1 DEF DayStart
<1>5. wallet'.start = d BY <1>1, <1>2, RiskGuardsAssumption DEF Ticks
<1>6. peak'[d] = top
  <2>1. CASE newDay
    <3>1. peak[d] = 0 BY <2>1, <1>1 DEF WalletInv, NothingLater
    <3>2. b > 0 BY <1>1 DEF RecordBalance
    <3>3. QED BY <2>1, <3>1, <3>2, <1>1, <1>3
  <2>2. CASE ~newDay
    <3>1. wallet.start = d /\ wallet.reference = peak[d]
      BY <2>2, <1>1, RiskGuardsAssumption DEF WalletInv, GuardOnItsDay, Ticks
    <3>2. QED BY <2>2, <3>1, <1>1, <1>3
  <2>3. QED BY <2>1, <2>2
<1>7. TypeOK'
  <2>1. top \in 0..MaxBalance /\ d \in Nat BY <1>1, RiskGuardsAssumption DEF Ticks
  <2> HIDE DEF top, newDay
  <2>2. wallet' \in [start : Nat, reference : 0..MaxBalance, current : 0..MaxBalance,
                     breached : BOOLEAN]
    BY <1>1, <1>2, <2>1
  <2>3. peak' \in [Ticks -> 0..MaxBalance] BY <1>1, <1>3
  <2>4. armed' \in BOOLEAN /\ running' \in BOOLEAN
    BY <2>2 DEF RecordBalance
  <2>5. fetched' \in [Fetches -> 0..MaxBalance \cup {NoBalance}]
    BY DEF RecordBalance, WalletInv, TypeOK
  <2>6. QED BY <2>2, <2>3, <2>4, <2>5 DEF RecordBalance, WalletInv, TypeOK
<1>8. GuardOnItsDay'
  <2>1. wallet'.reference = top /\ wallet'.current = b
        /\ wallet'.breached = (top - b >= MaxWalletLoss)
    BY <1>2
  <2> HIDE DEF top
  <2>2. QED BY <1>1, <1>5, <1>6, <2>1 DEF GuardOnItsDay
<1>9. NothingLater'
  <2>1. \A t \in Ticks : t > d => peak'[t] = 0
    BY <1>1, <1>3, RiskGuardsAssumption DEF WalletInv, NothingLater, Ticks
  <2>2. d <= d BY <1>1, RiskGuardsAssumption DEF Ticks
  <2>3. QED BY <2>1, <2>2, <1>4, <1>5 DEF NothingLater
<1>10. QED BY <1>7, <1>8, <1>9 DEF WalletInv

\* Time passes: the guard may fall behind, never ahead.
LEMMA TickInv ==
    ASSUME WalletInv, Tick
    PROVE  WalletInv'
<1>1. now \in Ticks /\ now + 1 \in Ticks /\ now' = now + 1
  BY RiskGuardsAssumption DEF WalletInv, TypeOK, Tick, Ticks
<1>2. TypeOK' BY <1>1 DEF WalletInv, TypeOK, Tick, guards
<1>3. GuardOnItsDay' BY DEF WalletInv, GuardOnItsDay, Tick, guards
<1>4. DayStart(now)' = DayStart(now + 1) BY <1>1 DEF DayStart
<1>5. DayStart(now) <= DayStart(now + 1) /\ DayStart(now) \in Int
      /\ DayStart(now + 1) \in Int /\ wallet.start \in Nat
  BY <1>1, DayStartMonotone, DayStartBounds, TicksArePositive DEF WalletInv, TypeOK
<1>6. wallet.start <= DayStart(now + 1)
  BY <1>5 DEF WalletInv, NothingLater
<1>7. NothingLater' BY <1>4, <1>6 DEF WalletInv, NothingLater, Tick, guards
<1>8. QED BY <1>2, <1>3, <1>7 DEF WalletInv

LEMMA NextInv == WalletInv /\ [Next]_vars => WalletInv'
<1> SUFFICES ASSUME WalletInv, [Next]_vars PROVE WalletInv'
  OBVIOUS
<1>1. ASSUME NEW loss \in Losses, RecordTrade(loss) PROVE WalletInv'
  BY <1>1, RecordTradeInv
<1>2. CASE AllowEntry \/ BlockEntry BY <1>2, GateInv
<1>3. CASE BuyEnds \/ Start \/ Stop
  <2>1. TypeOK' BY <1>3 DEF BuyEnds, Start, Stop, guards, WalletInv, TypeOK
  <2>2. QED BY <1>3, <2>1, OtherStepInv DEF BuyEnds, Start, Stop, guards
<1>4. ASSUME NEW f \in Fetches, FetchBalance(f) \/ SkipBalance(f) PROVE WalletInv'
  <2>1. TypeOK' BY <1>4 DEF FetchBalance, SkipBalance, guards, WalletInv, TypeOK
  <2>2. QED BY <1>4, <2>1, OtherStepInv DEF FetchBalance, SkipBalance, guards
<1>5. ASSUME NEW f \in Fetches, RecordBalance(f) PROVE WalletInv'
  BY <1>5, RecordBalanceInv
<1>6. CASE Tick BY <1>6, TickInv
<1>7. ASSUME NEW b \in 0..MaxBalance, SwapMoves(b) PROVE WalletInv'
  <2>1. TypeOK' BY <1>7 DEF SwapMoves, guards, WalletInv, TypeOK
  <2>2. QED BY <1>7, <2>1, OtherStepInv DEF SwapMoves, guards
<1>8. CASE UNCHANGED vars
  <2>1. TypeOK' BY <1>8 DEF vars, WalletInv, TypeOK
  <2>2. QED BY <1>8, <2>1, OtherStepInv DEF vars
<1>9. QED BY <1>1, <1>2, <1>3, <1>4, <1>5, <1>6, <1>7, <1>8 DEF Next

\* WalletInv holds in every reachable state.
THEOREM WalletInvariant == Spec => []WalletInv
<1>1. QED BY InitInv, NextInv, PTL DEF Spec

\* Every variable keeps its type.
THEOREM TypeCorrect == Spec => []TypeOK
<1>1. WalletInv => TypeOK BY DEF WalletInv
<1>2. QED BY <1>1, WalletInvariant, PTL

\* A buy that passes the risk gate after a balance was recorded today meets a
\* wallet less than the limit below the highest balance recorded today, for
\* every length of a day and whatever order the snapshots came back in.
THEOREM GateKeepsWalletLimit == Spec => EntryWithinWalletLimit
<1>1. ASSUME WalletInv, AllowEntry, peak[DayStart(now)] > 0
      PROVE  peak[DayStart(now)] - wallet.current < MaxWalletLoss
  <2>1. /\ DayStart(now) \in Ticks /\ DayStart(now) \in Nat /\ DayStart(now) > 0
        /\ wallet.start \in Nat /\ wallet.start <= DayStart(now)
        /\ peak[DayStart(now)] \in Nat /\ wallet.current \in Nat /\ MaxWalletLoss \in Nat
    <3>1. DayStart(now) \in Ticks /\ DayStart(now) \in Nat /\ DayStart(now) > 0
      BY <1>1, DayStartBounds, TicksArePositive DEF WalletInv, TypeOK
    <3>2. wallet.start <= DayStart(now) BY <1>1 DEF WalletInv, NothingLater
    <3>3. wallet.start \in Nat /\ wallet.current \in Nat
      BY <1>1 DEF WalletInv, TypeOK
    <3>4. peak[DayStart(now)] \in Nat BY <1>1, <3>1 DEF WalletInv, TypeOK
    <3>5. QED BY <3>1, <3>2, <3>3, <3>4, RiskGuardsAssumption
  <2>2. wallet.start = DayStart(now)
    BY <1>1, <2>1 DEF WalletInv, NothingLater
  <2>3. ~wallet.breached BY <1>1 DEF AllowEntry, GateOpen
  <2>4. ~(peak[DayStart(now)] - wallet.current >= MaxWalletLoss)
    BY <1>1, <2>1, <2>2, <2>3 DEF WalletInv, GuardOnItsDay
  <2>5. QED BY <2>1, <2>4
<1>2. QED BY <1>1, WalletInvariant, PTL DEF EntryWithinWalletLimit

-----------------------------------------------------------------------------
(* Sums.  SumFunctionOnSet folds + over a finite set in the order CHOOSE   *)
(* happens to take its elements; what it computes does not depend on it.   *)

\* A set of natural numbers has a least element.
LEMMA LeastNat ==
    ASSUME NEW T \in SUBSET Nat, T # {}
    PROVE  \E n \in T : \A m \in T : n <= m
<1> DEFINE Less == {pair \in Nat \X Nat : pair[1] < pair[2]}
<1>1. IsWellFoundedOn(OpToRel(<, Nat), Nat) BY NatLessThanWellFounded
<1>2. OpToRel(<, Nat) = Less BY DEF OpToRel
<1>3. IsWellFoundedOn(Less, Nat) BY <1>1, <1>2
<1>4. \A m, n \in Nat : m < n => <<m, n>> \in Less OBVIOUS
<1> HIDE DEF Less
<1>5. PICK x \in T : \A y \in T : ~ (<<y, x>> \in Less) BY <1>3, WFMin
<1>6. \A y \in T : ~(y < x) BY <1>4, <1>5
<1>7. QED BY <1>6

\* Induction over the subsets of a finite set: what holds of a set when it holds
\* of its proper subsets holds of all of them.
LEMMA SubsetInduction ==
    ASSUME NEW S, IsFiniteSet(S), NEW G,
           \A s \in SUBSET S : (\A t \in SUBSET s : t # s => t \in G) => s \in G
    PROVE  SUBSET S \subseteq G
<1> SUFFICES ASSUME NEW b \in SUBSET S, b \notin G PROVE FALSE OBVIOUS
<1> DEFINE T == {n \in Nat : \E s \in SUBSET S : s \notin G /\ Cardinality(s) = n}
<1>1. \A s \in SUBSET S : IsFiniteSet(s) /\ Cardinality(s) \in Nat
  BY FS_Subset, FS_CardinalityType
<1>2. T # {} /\ T \in SUBSET Nat BY <1>1
<1>3. PICK n \in T : \A m \in T : n <= m BY <1>2, LeastNat
<1>4. PICK s \in SUBSET S : s \notin G /\ Cardinality(s) = n BY <1>3
<1>5. PICK t \in SUBSET s : t # s /\ t \notin G BY <1>4
<1>6. t \in SUBSET S BY <1>5
<1>7. Cardinality(t) \in T BY <1>1, <1>5, <1>6
<1>8. Cardinality(t) <= Cardinality(s) /\ Cardinality(t) # Cardinality(s)
  BY <1>1, <1>4, <1>5, FS_Subset
<1>9. QED BY <1>1, <1>3, <1>4, <1>6, <1>7, <1>8

\* g is what the fold of f builds on its way: the sum of every subset of S.
First(s) == CHOOSE x \in s : TRUE
IsSum(f, g, S) ==
    g = [s \in SUBSET S |-> IF s = {} THEN 0 ELSE f[First(s)] + g[s \ {First(s)}]]

LEMMA FirstOf == ASSUME NEW s, s # {} PROVE First(s) \in s
BY DEF First

LEMMA SumValue ==
    ASSUME NEW f, NEW g, NEW S, IsSum(f, g, S), NEW s \in SUBSET S
    PROVE  g[s] = IF s = {} THEN 0 ELSE f[First(s)] + g[s \ {First(s)}]
<1> DEFINE h == [t \in SUBSET S |-> IF t = {} THEN 0 ELSE f[First(t)] + g[t \ {First(t)}]]
<1>1. g = h BY DEF IsSum
<1>2. h[s] = IF s = {} THEN 0 ELSE f[First(s)] + g[s \ {First(s)}] OBVIOUS
<1> HIDE DEF h
<1>3. QED BY <1>1, <1>2

LEMMA SumUnique ==
    ASSUME NEW f, NEW S, IsFiniteSet(S), NEW T,
           NEW g, IsSum(f, g, S), NEW h, IsSum(f, h, T)
    PROVE  \A u \in SUBSET (S \cap T) : g[u] = h[u]
<1> DEFINE U == S \cap T
           G == {u \in SUBSET U : g[u] = h[u]}
<1>1. IsFiniteSet(U) BY FS_Subset
<1>2. ASSUME NEW s \in SUBSET U, \A t \in SUBSET s : t # s => t \in G
      PROVE  s \in G
  <2>1. /\ g[s] = IF s = {} THEN 0 ELSE f[First(s)] + g[s \ {First(s)}]
        /\ h[s] = IF s = {} THEN 0 ELSE f[First(s)] + h[s \ {First(s)}]
    <3>1. s \in SUBSET S /\ s \in SUBSET T OBVIOUS
    <3>2. g[s] = IF s = {} THEN 0 ELSE f[First(s)] + g[s \ {First(s)}]
      BY <3>1, SumValue
    <3>3. h[s] = IF s = {} THEN 0 ELSE f[First(s)] + h[s \ {First(s)}]
      BY <3>1, SumValue
    <3>4. QED BY <3>2, <3>3
  <2>2. s # {} => s \ {First(s)} \in SUBSET s /\ s \ {First(s)} # s BY FirstOf
  <2>3. s # {} => g[s \ {First(s)}] = h[s \ {First(s)}] BY <1>2, <2>2
  <2>4. g[s] = h[s] BY <2>1, <2>3
  <2>5. QED BY <2>4
<1> HIDE DEF G, U
<1>3. SUBSET U \subseteq G BY <1>1, <1>2, SubsetInduction
<1>4. QED BY <1>3 DEF G, U

LEMMA SumExists ==
    ASSUME NEW f, NEW S, IsFiniteSet(S)
    PROVE  \E g : IsSum(f, g, S)
<1> DEFINE G == {s \in SUBSET S : \E g : IsSum(f, g, s)}
<1>1. ASSUME NEW s \in SUBSET S, \A t \in SUBSET s : t # s => t \in G
      PROVE  s \in G
  <2> DEFINE fold == [t \in SUBSET s |-> CHOOSE g : IsSum(f, g, t)]
             val == [t \in SUBSET s |-> fold[t][t]]
             sum == [t \in SUBSET s |->
                       IF t = s THEN IF s = {} THEN 0 ELSE f[First(s)] + val[s \ {First(s)}]
                       ELSE val[t]]
  <2>1. ASSUME NEW t \in SUBSET s, t # s PROVE IsSum(f, fold[t], t)
    <3>1. \E g : IsSum(f, g, t) BY <1>1, <2>1
    <3>2. fold[t] = CHOOSE g : IsSum(f, g, t) OBVIOUS
    <3>3. QED BY <3>1, <3>2
  <2> HIDE DEF fold
  <2>2. ASSUME NEW t \in SUBSET s, t # s
        PROVE  val[t] = IF t = {} THEN 0 ELSE f[First(t)] + val[t \ {First(t)}]
    <3>1. fold[t][t] = IF t = {} THEN 0 ELSE f[First(t)] + fold[t][t \ {First(t)}]
      BY <2>1, <2>2, SumValue
    <3>2. CASE t = {} BY <3>1, <3>2
    <3>3. CASE t # {}
      <4> DEFINE u == t \ {First(t)}
      <4>1. u \in SUBSET s /\ u \in SUBSET (t \cap u) /\ u # s BY <2>2, <3>3, FirstOf
      <4>2. IsFiniteSet(t) BY FS_Subset
      <4>3. IsSum(f, fold[t], t) /\ IsSum(f, fold[u], u) BY <2>1, <2>2, <4>1
      <4> HIDE DEF u
      <4>4. fold[t][u] = fold[u][u] BY <4>1, <4>2, <4>3, SumUnique
      <4>5. val[u] = fold[u][u] /\ val[t] = fold[t][t] BY <4>1
      <4>6. QED BY <3>1, <3>3, <4>4, <4>5 DEF u
    <3>4. QED BY <3>2, <3>3
  <2> HIDE DEF val
  <2>3. ASSUME NEW t \in SUBSET s
        PROVE  sum[t] = IF t = {} THEN 0 ELSE f[First(t)] + sum[t \ {First(t)}]
    <3>1. t # {} => /\ First(t) \in t /\ t \ {First(t)} \in SUBSET s
                    /\ t \ {First(t)} # s
      BY FirstOf
    <3>2. t # {} => sum[t \ {First(t)}] = val[t \ {First(t)}] BY <3>1
    <3>3. CASE t = s BY <3>2, <3>3
    <3>4. CASE t # s
      <4>1. sum[t] = val[t] BY <3>4
      <4>2. QED BY <2>2, <3>2, <3>4, <4>1
    <3>5. QED BY <3>3, <3>4
  <2>4. sum = [t \in SUBSET s |-> sum[t]] OBVIOUS
  <2> HIDE DEF sum
  <2>5. IsSum(f, sum, s) BY <2>3, <2>4 DEF IsSum
  <2>6. QED BY <2>5
<1> HIDE DEF G
<1>2. SUBSET S \subseteq G BY <1>1, SubsetInduction
<1>3. QED BY <1>2 DEF G

\* A sum is one of its terms, whichever CHOOSE takes, and the sum of the others.
LEMMA SumFirst ==
    ASSUME NEW f, NEW S, IsFiniteSet(S)
    PROVE  SumFunctionOnSet(f, S) = IF S = {} THEN 0
                                    ELSE f[First(S)] + SumFunctionOnSet(f, S \ {First(S)})
<1> DEFINE Fold(s) == CHOOSE g : IsSum(f, g, s)
<1>1. \A s : SumFunctionOnSet(f, s) = Fold(s)[s]
  BY DEF SumFunctionOnSet, FoldFunctionOnSet, MapThenFoldSet, IsSum, First
<1>2. ASSUME NEW s \in SUBSET S PROVE IsSum(f, Fold(s), s)
  <2>1. IsFiniteSet(s) BY FS_Subset
  <2>2. \E g : IsSum(f, g, s) BY <2>1, SumExists
  <2>3. QED BY <2>2
<1> HIDE DEF Fold
<1> DEFINE T == S \ {First(S)}
<1>3. Fold(S)[S] = IF S = {} THEN 0 ELSE f[First(S)] + Fold(S)[T]
  <2>1. IsSum(f, Fold(S), S) BY <1>2
  <2>2. QED BY <2>1, SumValue
<1>4. Fold(S)[T] = Fold(T)[T]
  <2>1. T \in SUBSET (S \cap T) /\ IsSum(f, Fold(S), S) /\ IsSum(f, Fold(T), T) BY <1>2
  <2> HIDE DEF T
  <2>2. QED BY <2>1, SumUnique
<1>5. QED BY <1>1, <1>3, <1>4
-----------------------------------------------------------------------------
(* The sums of natural numbers.                                            *)

LEMMA SumIsNat ==
    ASSUME NEW S, IsFiniteSet(S), NEW f, \A x \in S : f[x] \in Nat
    PROVE  SumFunctionOnSet(f, S) \in Nat
<1> DEFINE G == {s \in SUBSET S : SumFunctionOnSet(f, s) \in Nat}
<1>1. ASSUME NEW s \in SUBSET S, \A t \in SUBSET s : t # s => t \in G
      PROVE  s \in G
  <2>1. IsFiniteSet(s) BY FS_Subset
  <2>2. SumFunctionOnSet(f, s) = IF s = {} THEN 0
                                 ELSE f[First(s)] + SumFunctionOnSet(f, s \ {First(s)})
    BY <2>1, SumFirst
  <2>3. s # {} => /\ f[First(s)] \in Nat
                  /\ SumFunctionOnSet(f, s \ {First(s)}) \in Nat
    BY <1>1, FirstOf
  <2>4. SumFunctionOnSet(f, s) \in Nat BY <2>2, <2>3
  <2>5. QED BY <2>4
<1> HIDE DEF G
<1>2. SUBSET S \subseteq G BY <1>1, SubsetInduction
<1>3. QED BY <1>2 DEF G

LEMMA SumOfZeros ==
    ASSUME NEW S, IsFiniteSet(S), NEW f, \A x \in S : f[x] = 0
    PROVE  SumFunctionOnSet(f, S) = 0
<1> DEFINE G == {s \in SUBSET S : SumFunctionOnSet(f, s) = 0}
<1>1. ASSUME NEW s \in SUBSET S, \A t \in SUBSET s : t # s => t \in G
      PROVE  s \in G
  <2>1. IsFiniteSet(s) BY FS_Subset
  <2>2. SumFunctionOnSet(f, s) = IF s = {} THEN 0
                                 ELSE f[First(s)] + SumFunctionOnSet(f, s \ {First(s)})
    BY <2>1, SumFirst
  <2>3. s # {} => /\ f[First(s)] = 0
                  /\ SumFunctionOnSet(f, s \ {First(s)}) = 0
    BY <1>1, FirstOf
  <2>4. SumFunctionOnSet(f, s) = 0 BY <2>2, <2>3
  <2>5. QED BY <2>4
<1> HIDE DEF G
<1>2. SUBSET S \subseteq G BY <1>1, SubsetInduction
<1>3. QED BY <1>2 DEF G

\* Any element may be taken first.
LEMMA SumTakes ==
    ASSUME NEW S, IsFiniteSet(S), NEW f, \A x \in S : f[x] \in Nat
    PROVE  \A x \in S : SumFunctionOnSet(f, S) = f[x] + SumFunctionOnSet(f, S \ {x})
<1> DEFINE Sum(s) == SumFunctionOnSet(f, s)
           G == {s \in SUBSET S : \A x \in s : Sum(s) = f[x] + Sum(s \ {x})}
<1>1. ASSUME NEW s \in SUBSET S PROVE IsFiniteSet(s) /\ Sum(s) \in Nat
  <2>1. IsFiniteSet(s) BY FS_Subset
  <2>2. QED BY <2>1, SumIsNat
<1>2. ASSUME NEW s \in SUBSET S, s # {} PROVE Sum(s) = f[First(s)] + Sum(s \ {First(s)})
  BY <1>1, <1>2, SumFirst
<1> HIDE DEF Sum
<1>3. ASSUME NEW s \in SUBSET S, \A t \in SUBSET s : t # s => t \in G, NEW x \in s
      PROVE  Sum(s) = f[x] + Sum(s \ {x})
  <2> DEFINE y == First(s)
  <2>1. y \in s /\ Sum(s) = f[y] + Sum(s \ {y}) BY <1>2, FirstOf
  <2> HIDE DEF y
  <2>2. CASE y = x BY <2>1, <2>2
  <2>3. CASE y # x
    <3> DEFINE v == (s \ {x}) \ {y}
    <3>1. /\ s \ {y} \in SUBSET s /\ s \ {y} # s /\ x \in s \ {y} /\ (s \ {y}) \ {x} = v
          /\ s \ {x} \in SUBSET s /\ s \ {x} # s /\ y \in s \ {x} /\ (s \ {x}) \ {y} = v
      BY <2>1, <2>3
    <3>2. Sum(s \ {y}) = f[x] + Sum(v) BY <1>3, <3>1
    <3>3. Sum(s \ {x}) = f[y] + Sum(v) BY <1>3, <3>1
    <3>4. f[x] \in Nat /\ f[y] \in Nat /\ Sum(v) \in Nat BY <1>1, <2>1
    <3>5. QED BY <2>1, <3>2, <3>3, <3>4
  <2>4. QED BY <2>2, <2>3
<1>4. ASSUME NEW s \in SUBSET S, \A t \in SUBSET s : t # s => t \in G PROVE s \in G
  BY <1>3, <1>4
<1> HIDE DEF G
<1>5. SUBSET S \subseteq G BY <1>4, SubsetInduction
<1>6. QED BY <1>5 DEF G, Sum

\* A sum over a part of a set is at most the sum of terms that are no smaller
\* over the whole.
LEMMA SumWithin ==
    ASSUME NEW B, IsFiniteSet(B), NEW A, A \subseteq B, NEW f, NEW g,
           \A x \in B : f[x] \in Nat /\ g[x] \in Nat, \A x \in A : f[x] <= g[x]
    PROVE  SumFunctionOnSet(f, A) <= SumFunctionOnSet(g, B)
<1> DEFINE SumF(s) == SumFunctionOnSet(f, s)
           SumG(s) == SumFunctionOnSet(g, s)
           G == {s \in SUBSET B : SumF(s \cap A) <= SumG(s)}
<1>1. ASSUME NEW s \in SUBSET B
      PROVE  /\ IsFiniteSet(s) /\ SumF(s) \in Nat /\ SumG(s) \in Nat
             /\ \A x \in s : /\ SumF(s) = f[x] + SumF(s \ {x})
                             /\ SumG(s) = g[x] + SumG(s \ {x})
             /\ s = {} => SumF(s) = 0 /\ SumG(s) = 0
  <2>1. IsFiniteSet(s) /\ \A x \in s : f[x] \in Nat /\ g[x] \in Nat BY FS_Subset
  <2>2. SumF(s) \in Nat /\ SumG(s) \in Nat BY <2>1, SumIsNat
  <2>3. /\ \A x \in s : SumF(s) = f[x] + SumF(s \ {x})
        /\ \A x \in s : SumG(s) = g[x] + SumG(s \ {x})
    BY <2>1, SumTakes
  <2>4. s = {} => SumF(s) = 0 /\ SumG(s) = 0 BY <2>1, SumFirst
  <2>5. QED BY <2>1, <2>2, <2>3, <2>4
<1> HIDE DEF SumF, SumG
<1>2. ASSUME NEW s \in SUBSET B, \A t \in SUBSET s : t # s => t \in G PROVE s \in G
  <2>1. CASE s = {}
    <3>1. s \cap A = {} /\ {} \in SUBSET B BY <2>1
    <3>2. SumF(s \cap A) = 0 /\ SumG(s) = 0 BY <1>1, <2>1, <3>1
    <3>3. QED BY <3>2
  <2>2. CASE s # {}
    <3>1. PICK x \in s : TRUE BY <2>2
    <3> DEFINE t == s \ {x}
    <3>2. t \in SUBSET s /\ t # s /\ t \in SUBSET B /\ t \cap A \in SUBSET B /\ s \cap A \in SUBSET B
      BY <3>1
    <3>3. SumF(t \cap A) <= SumG(t) BY <1>2, <3>2
    <3>4. SumG(s) = g[x] + SumG(t) BY <1>1, <3>1
    <3>5. /\ f[x] \in Nat /\ g[x] \in Nat /\ SumG(t) \in Nat /\ SumF(t \cap A) \in Nat
      BY <1>1, <3>1, <3>2
    <3>6. SumF(s \cap A) <= SumG(s)
      <4>1. CASE x \in A
        <5>1. x \in s \cap A /\ (s \cap A) \ {x} = t \cap A BY <3>1, <4>1
        <5>2. SumF(s \cap A) = f[x] + SumF(t \cap A) BY <1>1, <3>2, <5>1
        <5>3. f[x] <= g[x] BY <4>1
        <5> HIDE DEF t
        <5>4. QED BY <3>3, <3>4, <3>5, <5>2, <5>3
      <4>2. CASE x \notin A
        <5>1. s \cap A = t \cap A BY <4>2
        <5>2. SumF(s \cap A) = SumF(t \cap A) BY <5>1
        <5> HIDE DEF t
        <5>3. QED BY <3>3, <3>4, <3>5, <5>2
      <4>3. QED BY <4>1, <4>2
    <3>7. QED BY <3>6
  <2>3. QED BY <2>1, <2>2
<1> HIDE DEF G
<1>3. SUBSET B \subseteq G BY <1>2, SubsetInduction
<1>4. B \cap A = A OBVIOUS
<1>5. QED BY <1>3, <1>4 DEF G, SumF, SumG

\* Equal terms have equal sums.
LEMMA SumAgrees ==
    ASSUME NEW S, IsFiniteSet(S), NEW f, NEW g,
           \A x \in S : f[x] \in Nat /\ g[x] = f[x]
    PROVE  SumFunctionOnSet(f, S) = SumFunctionOnSet(g, S)
<1>1. SumFunctionOnSet(f, S) \in Nat /\ SumFunctionOnSet(g, S) \in Nat BY SumIsNat
<1>2. \A x \in S : f[x] \in Nat /\ g[x] \in Nat /\ f[x] <= g[x] /\ g[x] <= f[x] OBVIOUS
<1>3. SumFunctionOnSet(f, S) <= SumFunctionOnSet(g, S) BY <1>2, SumWithin
<1>4. SumFunctionOnSet(g, S) <= SumFunctionOnSet(f, S) BY <1>2, SumWithin
<1>5. QED BY <1>1, <1>3, <1>4

\* What is added to a term is added to the sum.
LEMMA SumAdds ==
    ASSUME NEW S, IsFiniteSet(S), NEW f, \A y \in S : f[y] \in Nat, NEW x \in S,
           NEW d \in Nat, NEW g, g[x] = f[x] + d, \A y \in S \ {x} : g[y] = f[y]
    PROVE  SumFunctionOnSet(g, S) = SumFunctionOnSet(f, S) + d
<1> DEFINE T == S \ {x}
<1>1. IsFiniteSet(T) /\ \A y \in S : g[y] \in Nat BY FS_Subset
<1>2. SumFunctionOnSet(f, S) = f[x] + SumFunctionOnSet(f, T) BY SumTakes
<1>3. SumFunctionOnSet(g, S) = g[x] + SumFunctionOnSet(g, T) BY <1>1, SumTakes
<1>4. SumFunctionOnSet(f, T) = SumFunctionOnSet(g, T) BY <1>1, SumAgrees
<1>5. SumFunctionOnSet(f, T) \in Nat /\ f[x] \in Nat BY <1>1, SumIsNat
<1>6. QED BY <1>2, <1>3, <1>4, <1>5

-----------------------------------------------------------------------------
(* The loss guards.                                                        *)

\* A day ends within Day ticks, and the day of a tick after its start is no
\* earlier one.
LEMMA DayStartOrder ==
    ASSUME NEW u \in Ticks
    PROVE  /\ DayStart(u) > u - Day
           /\ \A t \in Ticks : t >= DayStart(u) => DayStart(t) >= DayStart(u)
<1> USE RiskGuardsAssumption DEF Ticks
<1> DEFINE q == u \div Day
<1>1. u \in Int /\ Day \in Nat \ {0} /\ u >= Day OBVIOUS
<1>2. q \in Int /\ q * Day <= u /\ u < (q + 1) * Day BY <1>1, Z3
<1>3. q * Day \in Int /\ (q + 1) * Day = q * Day + Day BY <1>1, <1>2, Z3
<1>4. DayStart(u) = q * Day BY DEF DayStart
<1> HIDE DEF q
<1>5. DayStart(u) > u - Day BY <1>1, <1>2, <1>3, <1>4
<1>6. ASSUME NEW t \in Ticks, t >= DayStart(u) PROVE DayStart(t) >= DayStart(u)
  <2> DEFINE r == t \div Day
  <2>1. t \in Int /\ r \in Int /\ t < (r + 1) * Day /\ DayStart(t) = r * Day
    BY <1>1, Z3 DEF DayStart
  <2> HIDE DEF r
  <2>2. q <= r
    <3> SUFFICES ASSUME r + 1 <= q PROVE FALSE BY <1>2, <2>1
    <3>1. (r + 1) * Day <= q * Day BY <1>1, <1>2, <2>1, Z3
    <3>2. QED BY <1>3, <1>4, <1>6, <2>1, <3>1
  <2>3. q * Day <= r * Day BY <1>1, <1>2, <2>1, <2>2, Z3
  <2>4. QED BY <1>4, <2>1, <2>3
<1>7. QED BY <1>5, <1>6

LEMMA TicksAreFinite == IsFiniteSet(Ticks)
BY FS_Interval, RiskGuardsAssumption DEF Ticks

\* What the loss guards know of the ledger: nothing is lost in the future; the
\* window keeps every loss of the last 24 hours; the daily loss is what was lost
\* since the start of the day it counts, and nothing was lost on a later day; a
\* day at its limit is breached.  The edge memory of the wallet guard is its
\* breach.
LossInv ==
    /\ \A t \in Ticks : t > now => ledger[t] = 0
    /\ \A t \in Ticks : t > now - Day => trades[t] = ledger[t]
    /\ daily.start \in Ticks /\ daily.start <= DayStart(now)
    /\ daily.loss = LostSince(daily.start)
    /\ \A t \in Ticks : DayStart(t) > daily.start => ledger[t] = 0
    /\ MaxDailyLoss > 0 /\ daily.loss >= MaxDailyLoss => daily.breached
    /\ armed <=> wallet.breached

LEMMA LossInit == Init => LossInv
<1> SUFFICES ASSUME Init PROVE LossInv OBVIOUS
<1>1. now \in Ticks /\ Day \in Ticks BY RiskGuardsAssumption DEF Init, Ticks
<1>2. DayStart(now) \in Ticks /\ DayStart(now) \in Nat
  BY <1>1, DayStartBounds, TicksArePositive
<1>3. /\ \A t \in Ticks : ledger[t] = 0 /\ trades[t] = 0
      /\ daily.start = DayStart(now) /\ daily.loss = 0 /\ daily.breached = FALSE
      /\ armed = FALSE /\ wallet.breached = FALSE
  BY DEF Init
<1>4. LostSince(daily.start) = 0
  <2> DEFINE A == {u \in Ticks : u >= daily.start}
  <2>1. IsFiniteSet(A) BY TicksAreFinite, FS_Subset
  <2>2. \A u \in A : ledger[u] = 0 BY <1>3
  <2> HIDE DEF A
  <2>3. SumFunctionOnSet(ledger, A) = 0 BY <2>1, <2>2, SumOfZeros
  <2>4. QED BY <2>3 DEF LostSince, A
<1>5. DayStart(now) <= DayStart(now) BY <1>2
<1>6. MaxDailyLoss > 0 => ~(0 >= MaxDailyLoss) BY RiskGuardsAssumption
<1>7. QED BY <1>2, <1>3, <1>4, <1>5, <1>6 DEF LossInv

\* The day that checkDayReset() answers is today, with what was lost since its
\* start, whether a new day begins or the day goes on.
LEMMA TodayIsKnown ==
    ASSUME TypeOK, LossInv, NEW today, today = CheckDayReset(daily)
    PROVE  /\ today \in [start : Nat, loss : Nat, breached : BOOLEAN]
           /\ today.start = DayStart(now) /\ DayStart(now) \in Ticks
           /\ today.loss = LostSince(DayStart(now))
           /\ MaxDailyLoss > 0 /\ today.loss >= MaxDailyLoss => today.breached
           /\ \A t \in Ticks : DayStart(t) > DayStart(now) => ledger[t] = 0
           /\ today.breached => daily.breached
<1>1. now \in Ticks /\ daily.start \in Nat BY DEF TypeOK
<1>2. DayStart(now) \in Ticks /\ DayStart(now) \in Nat
  BY <1>1, DayStartBounds, TicksArePositive
<1>3. \A t \in Ticks : DayStart(t) \in Nat BY DayStartBounds, TicksArePositive
<1>4. daily.start <= DayStart(now) BY DEF LossInv
<1>5. today \in [start : Nat, loss : Nat, breached : BOOLEAN] BY CheckDayResetType
<1>6. \A t \in Ticks : DayStart(t) > DayStart(now) => ledger[t] = 0
  BY <1>1, <1>2, <1>3, <1>4 DEF LossInv
<1>7. CASE DayStart(now) > daily.start
  <2>1. today = [start |-> DayStart(now), loss |-> 0, breached |-> FALSE]
    BY <1>7 DEF CheckDayReset
  <2>2. LostSince(DayStart(now)) = 0
    <3> DEFINE A == {u \in Ticks : u >= DayStart(now)}
    <3>1. IsFiniteSet(A) BY TicksAreFinite, FS_Subset
    <3>2. \A u \in A : ledger[u] = 0
      <4> SUFFICES ASSUME NEW u \in Ticks, u >= DayStart(now) PROVE ledger[u] = 0 OBVIOUS
      <4>1. DayStart(u) >= DayStart(now) BY <1>1, DayStartOrder
      <4>2. DayStart(u) > daily.start BY <1>1, <1>2, <1>3, <1>7, <4>1
      <4>3. QED BY <4>2 DEF LossInv
    <3> HIDE DEF A
    <3>3. SumFunctionOnSet(ledger, A) = 0 BY <3>1, <3>2, SumOfZeros
    <3>4. QED BY <3>3 DEF LostSince, A
  <2>3. MaxDailyLoss > 0 => ~(0 >= MaxDailyLoss) BY RiskGuardsAssumption
  <2>4. QED BY <1>2, <1>5, <1>6, <2>1, <2>2, <2>3
<1>8. CASE ~(DayStart(now) > daily.start)
  <2>1. today = daily /\ daily.start = DayStart(now)
    BY <1>1, <1>2, <1>4, <1>8 DEF CheckDayReset
  <2>2. QED BY <1>2, <1>5, <1>6, <2>1 DEF LossInv
<1>9. QED BY <1>7, <1>8

\* The window forgets nothing of the last 24 hours.
LEMMA PruneKeeps ==
    ASSUME NEW ts, NEW t \in Ticks, t > now - Day
    PROVE  Prune(ts)[t] = ts[t]
BY DEF Prune

LEMMA RecordTradeLoss ==
    ASSUME TypeOK, LossInv, NEW loss \in Losses, RecordTrade(loss)
    PROVE  LossInv'
<1> DEFINE today == CheckDayReset(daily)
           total == today.loss + loss
           A == {u \in Ticks : u >= DayStart(now)}
<1>1. /\ now \in Ticks /\ now \in Nat /\ loss \in Nat /\ Day \in Nat \ {0} /\ now' = now
      /\ ledger \in [Ticks -> Nat] /\ trades \in [Ticks -> Nat]
  BY RiskGuardsAssumption, TicksArePositive DEF TypeOK, RecordTrade
<1>2. /\ today \in [start : Nat, loss : Nat, breached : BOOLEAN]
      /\ today.start = DayStart(now) /\ DayStart(now) \in Ticks
      /\ today.loss = LostSince(DayStart(now))
      /\ MaxDailyLoss > 0 /\ today.loss >= MaxDailyLoss => today.breached
      /\ \A t \in Ticks : DayStart(t) > DayStart(now) => ledger[t] = 0
  BY TodayIsKnown
<1>3. /\ ledger' = [ledger EXCEPT ![now] = @ + loss]
      /\ trades' = Prune([trades EXCEPT ![now] = @ + loss])
  BY DEF RecordTrade
<1>4. DayStart(now)' = DayStart(now) BY <1>1 DEF DayStart
<1>5. /\ daily'.start = DayStart(now) /\ daily'.loss = total
      /\ MaxDailyLoss > 0 /\ total >= MaxDailyLoss => daily'.breached
  <2>1. daily' = [today EXCEPT !.loss = total,
                               !.breached = @ \/ (loss > 0 /\ MaxDailyLoss > 0
                                                   /\ total >= MaxDailyLoss)]
    BY DEF RecordTrade, DailyAfter
  <2>2. loss = 0 => total = today.loss BY <1>2
  <2> HIDE DEF today, total
  <2>3. /\ daily'.start = today.start /\ daily'.loss = total
        /\ daily'.breached = (today.breached \/ (loss > 0 /\ MaxDailyLoss > 0
                                                  /\ total >= MaxDailyLoss))
    BY <1>2, <2>1
  <2>4. loss > 0 \/ loss = 0 BY <1>1
  <2>5. QED BY <1>2, <2>2, <2>3, <2>4
<1>6. \A t \in Ticks : t > now' => ledger'[t] = 0
  BY <1>1, <1>3 DEF LossInv
<1>7. \A t \in Ticks : t > now' - Day => trades'[t] = ledger'[t]
  <2> SUFFICES ASSUME NEW t \in Ticks, t > now - Day PROVE trades'[t] = ledger'[t] BY <1>1
  <2>1. trades'[t] = [trades EXCEPT ![now] = @ + loss][t] BY <1>3, PruneKeeps
  <2>2. trades[t] = ledger[t] BY DEF LossInv
  <2>3. QED BY <1>1, <1>3, <2>1, <2>2
<1>8. SumFunctionOnSet(ledger', A) = total
  <2>1. IsFiniteSet(A) BY TicksAreFinite, FS_Subset
  <2>2. now \in A BY <1>1, DayStartBounds, TicksArePositive
  <2>3. /\ \A y \in A : ledger[y] \in Nat
        /\ ledger'[now] = ledger[now] + loss
        /\ \A y \in A \ {now} : ledger'[y] = ledger[y]
    BY <1>1, <1>3
  <2>4. today.loss = SumFunctionOnSet(ledger, A) BY <1>2 DEF LostSince
  <2> HIDE DEF A
  <2>5. SumFunctionOnSet(ledger', A) = SumFunctionOnSet(ledger, A) + loss
    <3>1. PICK f, g, x : f = ledger /\ g = ledger' /\ x = now OBVIOUS
    <3>2. /\ \A y \in A : f[y] \in Nat
          /\ x \in A /\ g[x] = f[x] + loss
          /\ \A y \in A \ {x} : g[y] = f[y]
      BY <2>2, <2>3, <3>1
    <3>3. SumFunctionOnSet(g, A) = SumFunctionOnSet(f, A) + loss
      BY <1>1, <2>1, <3>2, SumAdds
    <3>4. QED BY <3>1, <3>3
  <2>6. QED BY <2>4, <2>5
<1>9. daily'.loss = LostSince(daily.start)' BY <1>5, <1>8 DEF LostSince
<1>10. ASSUME NEW t \in Ticks, DayStart(t) > DayStart(now) PROVE ledger'[t] = 0
  <2>1. DayStart(now) \in Nat BY <1>1, DayStartBounds, TicksArePositive
  <2>2. t # now
    <3>1. t = now => DayStart(now) > DayStart(now) BY <1>10
    <3>2. QED BY <2>1, <3>1
  <2>3. QED BY <1>2, <1>3, <1>10, <2>2, <1>1
<1>11. \A t \in Ticks : DayStart(t)' = DayStart(t) BY DEF DayStart
<1>12. DayStart(now) <= DayStart(now)
  <2>1. DayStart(now) \in Nat BY <1>1, DayStartBounds, TicksArePositive
  <2>2. QED BY <2>1
<1>13. armed' <=> wallet'.breached BY DEF RecordTrade, LossInv
<1> HIDE DEF total, A, today
<1>14. QED
  BY <1>2, <1>4, <1>5, <1>6, <1>7, <1>9, <1>10, <1>11, <1>12, <1>13 DEF LossInv

\* The gate is asked: the window is pruned, the day is today's.
LEMMA GateLoss ==
    ASSUME TypeOK, LossInv, AllowEntry \/ BlockEntry
    PROVE  LossInv'
<1>1. /\ now' = now /\ ledger' = ledger /\ wallet' = wallet /\ armed' = armed
      /\ trades' = (IF MaxDailyLoss > 0 THEN Prune(trades) ELSE trades)
      /\ daily' = CheckDayReset(daily)
  BY DEF AllowEntry, BlockEntry, AskGate
<1>2. \A t \in Ticks : t > now - Day => trades'[t] = ledger[t]
  <2> SUFFICES ASSUME NEW t \in Ticks, t > now - Day PROVE trades'[t] = ledger[t] OBVIOUS
  <2>1. trades[t] = ledger[t] BY DEF LossInv
  <2>2. Prune(trades)[t] = trades[t] BY PruneKeeps
  <2>3. QED BY <1>1, <2>1, <2>2
<1>3. PICK today : today = CheckDayReset(daily) OBVIOUS
<1>4. /\ today.start = DayStart(now) /\ DayStart(now) \in Ticks
      /\ today.loss = LostSince(DayStart(now))
      /\ MaxDailyLoss > 0 /\ today.loss >= MaxDailyLoss => today.breached
      /\ \A t \in Ticks : DayStart(t) > DayStart(now) => ledger[t] = 0
  BY <1>3, TodayIsKnown
<1>5. daily'.loss = LostSince(daily.start)' BY <1>1, <1>3, <1>4 DEF LostSince
<1>6. DayStart(now) <= DayStart(now)
  <2>1. DayStart(now) \in Nat BY <1>4, TicksArePositive
  <2>2. QED BY <2>1
<1>7. DayStart(now)' = DayStart(now) /\ \A t \in Ticks : DayStart(t)' = DayStart(t)
  BY <1>1 DEF DayStart
<1>8. \A t \in Ticks : t > now => ledger[t] = 0 BY DEF LossInv
<1>9. armed <=> wallet.breached BY DEF LossInv
<1>10. daily' = today BY <1>1, <1>3
<1>11. QED BY <1>1, <1>2, <1>4, <1>5, <1>6, <1>7, <1>8, <1>9, <1>10 DEF LossInv

\* The clock: the window and the day only fall behind.
LEMMA TickLoss ==
    ASSUME TypeOK, LossInv, Tick
    PROVE  LossInv'
<1>1. /\ now \in Ticks /\ now + 1 \in Ticks /\ now' = now + 1 /\ now \in Nat
      /\ Day \in Nat /\ trades' = trades /\ ledger' = ledger /\ daily' = daily
      /\ wallet' = wallet /\ armed' = armed
  BY RiskGuardsAssumption DEF TypeOK, Tick, Ticks, guards
<1>2. \A t \in Ticks : t \in Nat BY TicksArePositive
<1>3. \A t \in Ticks : t > now' => ledger'[t] = 0 BY <1>1, <1>2 DEF LossInv
<1>4. \A t \in Ticks : t > now' - Day => trades'[t] = ledger'[t] BY <1>1, <1>2 DEF LossInv
<1>5. daily'.start \in Ticks /\ daily'.start <= DayStart(now)'
  <2>1. DayStart(now) <= DayStart(now + 1) BY <1>1, DayStartMonotone
  <2>2. daily.start \in Ticks /\ daily.start <= DayStart(now) BY DEF LossInv
  <2>3. daily.start \in Nat /\ DayStart(now) \in Nat /\ DayStart(now + 1) \in Nat
    BY <1>1, <2>2, DayStartBounds, TicksArePositive
  <2>4. DayStart(now)' = DayStart(now + 1) BY <1>1 DEF DayStart
  <2>5. QED BY <1>1, <2>1, <2>2, <2>3, <2>4
<1>6. daily'.loss = LostSince(daily.start)' BY <1>1 DEF LossInv, LostSince
<1>7. \A t \in Ticks : DayStart(t)' = DayStart(t) BY DEF DayStart
<1>8. \A t \in Ticks : DayStart(t) > daily.start => ledger[t] = 0 BY DEF LossInv
<1>9. MaxDailyLoss > 0 /\ daily.loss >= MaxDailyLoss => daily.breached BY DEF LossInv
<1>10. armed <=> wallet.breached BY DEF LossInv
<1>11. QED BY <1>1, <1>3, <1>4, <1>5, <1>6, <1>7, <1>8, <1>9, <1>10 DEF LossInv

\* A step that no trade and no clock is part of.
LEMMA OtherStepLoss ==
    ASSUME LossInv, UNCHANGED <<now, trades, daily, ledger>>, armed' <=> wallet'.breached
    PROVE  LossInv'
<1>1. daily'.loss = LostSince(daily.start)' BY DEF LossInv, LostSince
<1>2. DayStart(now)' = DayStart(now) /\ \A t \in Ticks : DayStart(t)' = DayStart(t)
  BY DEF DayStart
<1>3. QED BY <1>1, <1>2 DEF LossInv

LEMMA NextLoss == TypeOK /\ LossInv /\ [Next]_vars => LossInv'
<1> SUFFICES ASSUME TypeOK, LossInv, [Next]_vars PROVE LossInv' OBVIOUS
<1>1. ASSUME NEW loss \in Losses, RecordTrade(loss) PROVE LossInv' BY <1>1, RecordTradeLoss
<1>2. CASE AllowEntry \/ BlockEntry BY <1>2, GateLoss
<1>3. CASE BuyEnds \/ Start \/ Stop \/ UNCHANGED vars
  <2>1. UNCHANGED <<now, trades, daily, ledger, armed, wallet>>
    BY <1>3 DEF BuyEnds, Start, Stop, guards, vars
  <2>2. QED BY <2>1, OtherStepLoss DEF LossInv
<1>4. ASSUME NEW f \in Fetches, FetchBalance(f) \/ SkipBalance(f) PROVE LossInv'
  <2>1. UNCHANGED <<now, trades, daily, ledger, armed, wallet>>
    BY <1>4 DEF FetchBalance, SkipBalance, guards
  <2>2. QED BY <2>1, OtherStepLoss DEF LossInv
<1>5. ASSUME NEW f \in Fetches, RecordBalance(f) PROVE LossInv'
  <2>1. UNCHANGED <<now, trades, daily, ledger>> /\ armed' = wallet'.breached
    BY <1>5 DEF RecordBalance
  <2>2. QED BY <2>1, OtherStepLoss
<1>6. CASE Tick BY <1>6, TickLoss
<1>7. ASSUME NEW b \in 0..MaxBalance, SwapMoves(b) PROVE LossInv'
  <2>1. UNCHANGED <<now, trades, daily, ledger, armed, wallet>> BY <1>7 DEF SwapMoves, guards
  <2>2. QED BY <2>1, OtherStepLoss DEF LossInv
<1>8. QED BY <1>1, <1>2, <1>3, <1>4, <1>5, <1>6, <1>7 DEF Next

\* WalletInv and LossInv hold in every reachable state.
LEMMA GuardsInvariant == Spec => [](TypeOK /\ LossInv)
<1>1. WalletInv => TypeOK BY DEF WalletInv
<1>2. QED BY <1>1, WalletInvariant, LossInit, NextLoss, PTL DEF Spec

\* What was lost from a tick of the last 24 hours on is within the sum of the
\* pruned window.
LEMMA WindowCovers ==
    ASSUME TypeOK, LossInv, NEW t \in Nat, t > now - Day
    PROVE  /\ LostSince(t) \in Nat /\ SumFunction(Prune(trades)) \in Nat
           /\ LostSince(t) <= SumFunction(Prune(trades))
<1> DEFINE A == {u \in Ticks : u >= t}
           window == Prune(trades)
<1>1. /\ now \in Nat /\ Day \in Nat /\ trades \in [Ticks -> Nat] /\ ledger \in [Ticks -> Nat]
      /\ \A u \in Ticks : u \in Nat
  BY TicksArePositive, RiskGuardsAssumption DEF TypeOK
<1>2. IsFiniteSet(Ticks) /\ IsFiniteSet(A) /\ A \subseteq Ticks BY TicksAreFinite, FS_Subset
<1>3. \A u \in A : ledger[u] <= window[u]
  <2> SUFFICES ASSUME NEW u \in Ticks, u >= t PROVE ledger[u] <= Prune(trades)[u] OBVIOUS
  <2>1. u > now - Day BY <1>1
  <2>2. Prune(trades)[u] = trades[u] BY <2>1, PruneKeeps
  <2>3. trades[u] = ledger[u] BY <2>1 DEF LossInv
  <2>4. QED BY <1>1, <2>2, <2>3
<1>4. window \in [Ticks -> Nat] BY <1>1, PruneType
<1>5. SumFunction(window) = SumFunctionOnSet(window, Ticks) BY <1>4 DEF SumFunction
<1> HIDE DEF A, window
<1>6. SumFunctionOnSet(ledger, A) <= SumFunctionOnSet(window, Ticks)
  <2>1. PICK f, g : f = ledger /\ g = window OBVIOUS
  <2>2. /\ \A u \in Ticks : f[u] \in Nat /\ g[u] \in Nat
        /\ \A u \in A : f[u] <= g[u]
    BY <1>1, <1>3, <1>4, <2>1
  <2>3. SumFunctionOnSet(f, A) <= SumFunctionOnSet(g, Ticks) BY <1>2, <2>2, SumWithin
  <2>4. QED BY <2>1, <2>3
<1>7. SumFunctionOnSet(ledger, A) \in Nat
  <2>1. \A u \in A : ledger[u] \in Nat BY <1>1, <1>2
  <2>2. QED BY <1>2, <2>1, SumIsNat
<1>8. SumFunctionOnSet(window, Ticks) \in Nat
  <2>1. \A u \in Ticks : window[u] \in Nat BY <1>4
  <2>2. QED BY <1>2, <2>1, SumIsNat
<1>9. QED BY <1>5, <1>6, <1>7, <1>8 DEF LostSince, A, window

\* The rolling window is never the weaker guard: it counts at least what the daily
\* stop loss counts for the current day (rolling-loss-guard.ts,
\* daily-stop-loss.ts).
THEOREM WindowIsNoWeaker == Spec => []RollingCoversTheDay
<1>1. TypeOK /\ LossInv => RollingCoversTheDay
  <2> SUFFICES ASSUME TypeOK, LossInv, daily.start = DayStart(now)
               PROVE  daily.loss <= SumFunction(Prune(trades))
    BY DEF RollingCoversTheDay
  <2>1. now \in Ticks BY DEF TypeOK
  <2>2. DayStart(now) \in Nat /\ DayStart(now) > now - Day
    BY <2>1, DayStartBounds, DayStartOrder, TicksArePositive
  <2>3. LostSince(DayStart(now)) <= SumFunction(Prune(trades)) BY <2>2, WindowCovers
  <2>4. QED BY <2>3 DEF LossInv
<1>2. QED BY <1>1, GuardsInvariant, PTL

\* "The risk gate actually prevents new entries": a buy that passes it meets a
\* ledger below the limit over the last 24 hours and over the calendar day, for
\* every length of a day, every limit and every sequence of losses, however the
\* window was pruned and the days were reset on the way.
THEOREM GateKeepsLossLimit == Spec => EntryWithinLossLimit
<1>1. ASSUME TypeOK, LossInv, AllowEntry, MaxDailyLoss > 0
      PROVE  /\ LostSince(now - Day + 1) < MaxDailyLoss
             /\ LostSince(DayStart(now)) < MaxDailyLoss
  <2>1. /\ now \in Nat /\ now >= Day /\ Day \in Nat /\ MaxDailyLoss \in Nat
    BY <1>1, RiskGuardsAssumption DEF TypeOK, Ticks
  <2>2. ~RollingBreached(trades) /\ ~CheckDayReset(daily).breached
    BY <1>1 DEF AllowEntry, GateOpen
  <2>3. now - Day + 1 \in Nat /\ now - Day + 1 > now - Day BY <2>1
  <2>4. /\ LostSince(now - Day + 1) \in Nat /\ SumFunction(Prune(trades)) \in Nat
        /\ LostSince(now - Day + 1) <= SumFunction(Prune(trades))
    BY <1>1, <2>3, WindowCovers
  <2>5. ~(SumFunction(Prune(trades)) >= MaxDailyLoss) BY <1>1, <2>2 DEF RollingBreached
  <2>6. PICK today : today = CheckDayReset(daily) OBVIOUS
  <2>7. today.loss \in Nat /\ today.loss = LostSince(DayStart(now)) /\ ~(today.loss >= MaxDailyLoss)
    BY <1>1, <2>2, <2>6, TodayIsKnown
  <2>8. QED BY <2>1, <2>4, <2>5, <2>7
<1>2. ASSUME TypeOK, LossInv, [Next]_vars
      PROVE  [AllowEntry /\ MaxDailyLoss > 0 =>
                 /\ LostSince(now - Day + 1) < MaxDailyLoss
                 /\ LostSince(DayStart(now)) < MaxDailyLoss]_vars
  BY <1>1, <1>2
<1>3. QED BY <1>2, GuardsInvariant, PTL DEF Spec, EntryWithinLossLimit

\* The window of a later instant holds no more.
LEMMA WindowShrinks ==
    ASSUME TypeOK, Tick
    PROVE  RollingBreached(trades)' => RollingBreached(trades)
<1>1. /\ now \in Nat /\ now' = now + 1 /\ trades' = trades /\ trades \in [Ticks -> Nat]
      /\ Day \in Nat /\ MaxDailyLoss \in Nat /\ \A u \in Ticks : u \in Nat
  BY RiskGuardsAssumption, TicksArePositive DEF TypeOK, Tick, guards
<1> DEFINE later == [t \in Ticks |-> IF t > now + 1 - Day THEN trades[t] ELSE 0]
           window == Prune(trades)
<1>2. /\ window \in [Ticks -> Nat] /\ later \in [Ticks -> Nat]
      /\ \A t \in Ticks : later[t] <= window[t]
  <2>1. window \in [Ticks -> Nat] BY <1>1, PruneType
  <2>2. later \in [Ticks -> Nat] BY <1>1
  <2>3. ASSUME NEW t \in Ticks PROVE later[t] <= window[t]
    <3>1. window[t] = (IF t > now - Day THEN trades[t] ELSE 0) BY DEF Prune
    <3>2. later[t] = (IF t > now + 1 - Day THEN trades[t] ELSE 0) OBVIOUS
    <3>3. t \in Nat /\ trades[t] \in Nat BY <1>1
    <3> HIDE DEF later, window
    <3>4. QED BY <1>1, <3>1, <3>2, <3>3
  <2>4. QED BY <2>1, <2>2, <2>3
<1>3. RollingBreached(trades)' => MaxDailyLoss > 0 /\ SumFunction(later) >= MaxDailyLoss
  BY <1>1 DEF RollingBreached, Prune
<1> HIDE DEF later, window
<1>4. /\ SumFunction(window) = SumFunctionOnSet(window, Ticks)
      /\ SumFunction(later) = SumFunctionOnSet(later, Ticks)
  BY <1>2 DEF SumFunction
<1>5. /\ SumFunctionOnSet(later, Ticks) <= SumFunctionOnSet(window, Ticks)
      /\ SumFunctionOnSet(later, Ticks) \in Nat /\ SumFunctionOnSet(window, Ticks) \in Nat
  <2>1. PICK f, g : f = later /\ g = window OBVIOUS
  <2>2. /\ \A u \in Ticks : f[u] \in Nat /\ g[u] \in Nat
        /\ \A u \in Ticks : f[u] <= g[u]
    BY <1>2, <2>1
  <2>3. Ticks \subseteq Ticks /\ IsFiniteSet(Ticks) BY TicksAreFinite
  <2>4. SumFunctionOnSet(f, Ticks) <= SumFunctionOnSet(g, Ticks) BY <2>2, <2>3, SumWithin
  <2>5. SumFunctionOnSet(f, Ticks) \in Nat BY <2>2, <2>3, SumIsNat
  <2>6. SumFunctionOnSet(g, Ticks) \in Nat BY <2>2, <2>3, SumIsNat
  <2>7. QED BY <2>1, <2>4, <2>5, <2>6
<1>6. QED BY <1>1, <1>3, <1>4, <1>5 DEF RollingBreached, window

\* No breach goes unnoticed: the step that breaches a guard leaves the engine
\* stopped, also after an earlier breach came and went (bot-engine.ts, the
\* breach handlers of the three guards).
THEOREM BreachesStop == Spec => BreachStopsTheBot
<1> DEFINE Noticed ==
       /\ wallet'.breached /\ ~wallet.breached => ~running'
       /\ daily'.breached /\ ~daily.breached => ~running'
       /\ RollingBreached(trades)' /\ ~RollingBreached(trades) => ~running'
<1>1. ASSUME TypeOK, LossInv, Next PROVE Noticed
  <2>1. ASSUME NEW loss \in Losses, RecordTrade(loss) PROVE Noticed
    <3>1. /\ wallet' = wallet /\ now' = now
          /\ running' => ~RollingBreached(trades') /\ ~daily'.breached
      BY <2>1 DEF RecordTrade
    <3>2. RollingBreached(trades)' => RollingBreached(trades')
      BY <3>1 DEF RollingBreached, Prune
    <3>3. QED BY <3>1, <3>2
  <2>2. CASE AllowEntry \/ BlockEntry
    <3>1. /\ wallet' = wallet /\ now' = now /\ daily' = CheckDayReset(daily)
          /\ trades' = (IF MaxDailyLoss > 0 THEN Prune(trades) ELSE trades)
      BY <2>2 DEF AllowEntry, BlockEntry, AskGate
    <3>2. PICK today : today = CheckDayReset(daily) OBVIOUS
    <3>3. today.breached => daily.breached BY <1>1, <3>2, TodayIsKnown
    <3>4. Prune(Prune(trades)) = Prune(trades) BY DEF Prune
    <3>5. RollingBreached(trades)' => RollingBreached(trades)
      <4>1. RollingBreached(trades)' => RollingBreached(trades')
        BY <3>1 DEF RollingBreached, Prune
      <4>2. RollingBreached(trades') => RollingBreached(trades)
        BY <3>1, <3>4 DEF RollingBreached
      <4>3. QED BY <4>1, <4>2
    <3>6. QED BY <3>1, <3>2, <3>3, <3>5
  <2>3. ASSUME NEW f \in Fetches, RecordBalance(f) PROVE Noticed
    <3>1. /\ daily' = daily /\ trades' = trades /\ now' = now
          /\ running' => ~(wallet'.breached /\ ~armed)
      BY <2>3 DEF RecordBalance
    <3>2. RollingBreached(trades)' => RollingBreached(trades)
      BY <3>1 DEF RollingBreached, Prune
    <3>3. armed => wallet.breached BY <1>1 DEF LossInv
    <3>4. QED BY <3>1, <3>2, <3>3
  <2>4. CASE Tick
    <3>1. wallet' = wallet /\ daily' = daily BY <2>4 DEF Tick, guards
    <3>2. RollingBreached(trades)' => RollingBreached(trades) BY <1>1, <2>4, WindowShrinks
    <3>3. QED BY <3>1, <3>2
  <2>5. ASSUME UNCHANGED <<now, guards>> PROVE Noticed
    <3>1. RollingBreached(trades)' => RollingBreached(trades)
      BY <2>5 DEF RollingBreached, Prune, guards
    <3>2. QED BY <2>5, <3>1 DEF guards
  <2>6. CASE BuyEnds \/ Start \/ Stop
    <3>1. UNCHANGED <<now, guards>> BY <2>6 DEF BuyEnds, Start, Stop
    <3>2. QED BY <2>5, <3>1
  <2>7. ASSUME NEW f \in Fetches, FetchBalance(f) \/ SkipBalance(f) PROVE Noticed
    <3>1. UNCHANGED <<now, guards>> BY <2>7 DEF FetchBalance, SkipBalance
    <3>2. QED BY <2>5, <3>1
  <2>8. ASSUME NEW b \in 0..MaxBalance, SwapMoves(b) PROVE Noticed
    <3>1. UNCHANGED <<now, guards>> BY <2>8 DEF SwapMoves
    <3>2. QED BY <2>5, <3>1
  <2> HIDE DEF Noticed
  <2>9. QED BY <1>1, <2>1, <2>2, <2>3, <2>4, <2>6, <2>7, <2>8 DEF Next
<1>2. ASSUME TypeOK, LossInv, [Next]_vars PROVE [Noticed]_vars
  BY <1>1, <1>2
<1>3. QED BY <1>2, GuardsInvariant, PTL DEF Spec, BreachStopsTheBot

-----------------------------------------------------------------------------
(* The mode of a running bot                                               *)

WorldStates == [Worlds -> State]
Candle == [phase : {"expected", "waiting", "queued", "done"}, world : Worlds,
           object : Generations, signal : {"none", "buy", "sell"}]
Queued(w) == \E c \in Candles : candles[c].world = w /\ candles[c].phase = "queued"

\* Before it runs the bot has no books, no orders and no request half way.
AsleepIsEmpty ==
    ~Ready => /\ current = 0 /\ confirmed = {} /\ queue = <<>> /\ ~overtaken
              /\ \A t \in Toggles : ~Seeding(t)
              /\ \A c \in Candles : candles[c].phase = "expected"

\* A bot that runs has books.
AwakeHasBooks == Ready => current # 0

\* A candle that waits works on an object that there is.
ObjectsExist == \A c \in Candles : candles[c].phase = "waiting" => candles[c].object \in DOMAIN states

\* What the tail of an enable may save counts as asked for.
TailSavesLast == (\E t \in Toggles : Seeding(t)) => mode \in last

\* The confirmed fills are the tokens in the wallet, but for the excused ones,
\* and a confirmed world with no order under way is long in the books.
FillsAreHeld == \A w \in Worlds : w \in excused \/ (w \in confirmed <=> held[w])
FillsAreLong ==
    Ready => \A w \in Worlds :
        w \in confirmed /\ ~Queued(w) => states[current][w].position = "long"

ModeInv ==
    /\ ModeTypeOK /\ AsleepIsEmpty /\ AwakeHasBooks /\ ObjectsExist
    /\ ModeIsWhole /\ DiskHoldsLastToggle /\ TailSavesLast
    /\ FillsAreHeld /\ FillsAreLong

\* A function over the places of a sequence is a sequence.
LEMMA SameLength ==
    ASSUME NEW S, NEW T, NEW q \in Seq(S), NEW f \in [DOMAIN q -> T]
    PROVE  f \in Seq(T) /\ Len(f) = Len(q) /\ DOMAIN f = DOMAIN q
<1>1. DOMAIN q = 1..Len(q) /\ Len(q) \in Nat BY LenProperties
<1>2. f \in Seq(T) BY <1>1, SeqDef
<1>3. DOMAIN f = 1..Len(f) /\ Len(f) \in Nat BY <1>2, LenProperties
<1>4. 1..Len(f) = 1..Len(q) BY <1>1, <1>3
<1>5. Len(f) = Len(q) BY <1>1, <1>3, <1>4
<1>6. QED BY <1>2, <1>5, <1>1, <1>3

LEMMA ModePlaces ==
    ASSUME ModeTypeOK
    PROVE  /\ current \in Nat /\ DOMAIN states = 1..current
           /\ \A i \in DOMAIN states : states[i] \in WorldStates
           /\ states \in [DOMAIN states -> WorldStates]
<1>1. states \in Seq(WorldStates) /\ current = Len(states) BY DEF ModeTypeOK, WorldStates
<1>2. Len(states) \in Nat /\ DOMAIN states = 1..Len(states) BY <1>1, LenProperties
<1>3. \A i \in 1..Len(states) : states[i] \in WorldStates BY <1>1, ElementOfSeq
<1>4. states \in [1..Len(states) -> WorldStates] BY <1>1, LenProperties
<1>5. QED BY <1>1, <1>2, <1>3, <1>4

LEMMA AwakeHasStates ==
    ASSUME ModeInv, NEW t \in Toggles, Seeding(t)
    PROVE  Ready
BY DEF ModeInv, AsleepIsEmpty

\* A step on one object: what it changes of the states.
LEMMA ObjectChanges ==
    ASSUME ModeTypeOK, NEW o, NEW new \in WorldStates, states' = [states EXCEPT ![o] = new]
    PROVE  /\ states' \in Seq(WorldStates) /\ Len(states') = current
           /\ \A i \in DOMAIN states : states'[i] = IF i = o THEN new ELSE states[i]
<1>1. states \in [DOMAIN states -> WorldStates] BY ModePlaces
<1>2. states \in Seq(WorldStates) /\ current = Len(states) BY DEF ModeTypeOK, WorldStates
<1>3. PICK q : q = states' OBVIOUS
<1>4. q \in [DOMAIN states -> WorldStates]
      /\ \A i \in DOMAIN states : q[i] = IF i = o THEN new ELSE states[i]
  BY <1>1, <1>3
<1>5. q \in Seq(WorldStates) /\ Len(q) = Len(states) BY <1>2, <1>4, SameLength
<1>6. QED BY <1>2, <1>3, <1>4, <1>5

\* A request touches neither the books nor the orders.
LEMMA RequestKeeps ==
    ASSUME ModeInv, ModeTypeOK', UNCHANGED <<trader, source, book, work>>,
           ModeIsWhole', DiskHoldsLastToggle', TailSavesLast',
           ~Ready => ~overtaken' /\ \A t \in Toggles : ~Seeding(t)'
    PROVE  ModeInv'
<1>1. AsleepIsEmpty' /\ AwakeHasBooks'
  BY DEF ModeInv, AsleepIsEmpty, AwakeHasBooks, Ready, book, work
<1>2. FillsAreHeld' /\ ObjectsExist' BY DEF ModeInv, FillsAreHeld, ObjectsExist, book, work
<1>3. FillsAreLong' BY DEF ModeInv, FillsAreLong, Ready, Queued, book, work
<1>4. QED BY <1>1, <1>2, <1>3 DEF ModeInv

LEMMA FreshIsTyped ==
    ASSUME NEW kind \in {"script", "chaos", "none"}
    PROVE  /\ Fresh(kind) \in WorldStates
           /\ \A w \in Worlds : Fresh(kind)[w].kind = kind
BY DEF Fresh, WorldStates, State

LEMMA ModeInvInit == ModeInit => ModeInv
<1> SUFFICES ASSUME ModeInit PROVE ModeInv OBVIOUS
<1>1. /\ states = <<>> /\ current = 0 /\ queue = <<>> /\ trader = "idle"
      /\ confirmed = {} /\ excused = {} /\ held = [w \in Worlds |-> FALSE] /\ overtaken = FALSE
      /\ toggles = [t \in Toggles |-> "expected"] /\ patches = 0
      /\ generator = FALSE /\ mode \in BOOLEAN /\ savedMode = mode /\ last = {mode}
      /\ source \in {"good", "broken", "none"}
  BY DEF ModeInit, None
<1>2. states \in Seq(WorldStates) /\ Len(states) = 0 /\ queue \in Seq(Candles)
  BY <1>1, EmptySeq
<1>3. candles \in [Candles -> [phase : {"expected", "waiting", "queued", "done"},
                               world : Worlds, object : Generations,
                               signal : {"none", "buy", "sell"}]]
      /\ \A c \in Candles : candles[c].phase = "expected"
  BY DEF ModeInit, None, Generations
<1>4. ModeTypeOK
  <2>1. patches \in 0..MaxPatches BY <1>1, ModeAssumption
  <2>2. toggles \in [Toggles -> {"expected", "seeding", "over"}]
        /\ held \in [Worlds -> BOOLEAN] /\ current = Len(states)
    BY <1>1, <1>2
  <2>3. QED BY <1>1, <1>2, <1>3, <2>1, <2>2 DEF ModeTypeOK, WorldStates
<1>5. ~Ready /\ \A t \in Toggles : ~Seeding(t) BY <1>1 DEF Ready, Seeding
<1>6. AsleepIsEmpty /\ AwakeHasBooks BY <1>1, <1>3, <1>5 DEF AsleepIsEmpty, AwakeHasBooks
<1>7. ModeIsWhole /\ DiskHoldsLastToggle /\ TailSavesLast
  BY <1>1, <1>5 DEF ModeIsWhole, DiskHoldsLastToggle, TailSavesLast
<1>8. FillsAreHeld /\ FillsAreLong /\ ObjectsExist
  BY <1>1, <1>3, <1>5 DEF FillsAreHeld, FillsAreLong, ObjectsExist
<1>9. QED BY <1>4, <1>6, <1>7, <1>8 DEF ModeInv

LEMMA BeginStartKeeps == ASSUME ModeInv, BeginStart PROVE ModeInv'
<1>1. /\ trader = "idle" /\ trader' = "starting" /\ generator' = mode
      /\ UNCHANGED <<source, mode, savedMode, states, current, confirmed, held, excused, candles,
                     queue, toggles, patches, overtaken, last>>
  BY DEF BeginStart, book, work, requests
<1>2. ModeTypeOK' BY <1>1 DEF ModeInv, ModeTypeOK
<1>3. AsleepIsEmpty' /\ AwakeHasBooks'
  BY <1>1 DEF ModeInv, AsleepIsEmpty, AwakeHasBooks, Ready, Seeding
<1>4. ModeIsWhole' /\ FillsAreLong' BY <1>1 DEF ModeIsWhole, FillsAreLong, Ready
<1>5. DiskHoldsLastToggle' /\ TailSavesLast' /\ FillsAreHeld' /\ ObjectsExist'
  BY <1>1 DEF ModeInv, DiskHoldsLastToggle, TailSavesLast, FillsAreHeld, ObjectsExist, Seeding
<1>6. QED BY <1>2, <1>3, <1>4, <1>5 DEF ModeInv

LEMMA EndStartKeeps == ASSUME ModeInv, EndStart PROVE ModeInv'
<1>1. /\ trader = "starting"
      /\ UNCHANGED <<source, mode, savedMode, confirmed, held, excused, candles,
                     queue, toggles, patches, overtaken, last>>
  BY DEF EndStart, work, requests
<1>2. /\ current = 0 /\ confirmed = {} /\ queue = <<>> /\ ~overtaken
      /\ \A t \in Toggles : ~Seeding(t)
      /\ \A c \in Candles : candles[c].phase = "expected"
  BY <1>1 DEF ModeInv, AsleepIsEmpty, Ready
<1>3. DiskHoldsLastToggle' /\ TailSavesLast' /\ FillsAreHeld' /\ ObjectsExist'
  BY <1>1, <1>2 DEF ModeInv, DiskHoldsLastToggle, TailSavesLast, FillsAreHeld, ObjectsExist, Seeding
<1>4. CASE generator \/ source = "good"
  <2>1. PICK kind \in {"script", "chaos"} : kind = IF generator THEN "chaos" ELSE "script"
    OBVIOUS
  <2>2. PICK new \in WorldStates : new = Fresh(kind) /\ \A w \in Worlds : new[w].kind = kind
    BY FreshIsTyped
  <2>3. trader' = "running" /\ states' = <<new>> /\ current' = 1 /\ generator' = generator
    BY <1>4, <2>1, <2>2 DEF EndStart
  <2>4. states' \in Seq(WorldStates) /\ Len(states') = 1 /\ states'[1] = new BY <2>3
  <2>5. ModeTypeOK' BY <1>1, <2>3, <2>4 DEF ModeInv, ModeTypeOK, WorldStates
  <2>6. ModeIsWhole' BY <1>1, <1>2, <1>4, <2>1, <2>2, <2>3, <2>4 DEF ModeIsWhole
  <2>7. FillsAreLong' /\ AsleepIsEmpty' /\ AwakeHasBooks'
    BY <1>1, <1>2, <2>3 DEF FillsAreLong, AsleepIsEmpty, AwakeHasBooks, Ready
  <2>8. QED BY <1>3, <2>5, <2>6, <2>7 DEF ModeInv
<1>5. CASE ~(generator \/ source = "good")
  <2>1. trader' = "idle" /\ generator' = FALSE /\ UNCHANGED <<states, current>>
    BY <1>5 DEF EndStart
  <2>2. ModeTypeOK' BY <1>1, <2>1 DEF ModeInv, ModeTypeOK
  <2>3. AsleepIsEmpty' /\ AwakeHasBooks'
    BY <1>1, <1>2, <2>1 DEF AsleepIsEmpty, AwakeHasBooks, Ready, Seeding
  <2>4. ModeIsWhole' /\ FillsAreLong' BY <2>1 DEF ModeIsWhole, FillsAreLong, Ready
  <2>5. QED BY <1>3, <2>2, <2>3, <2>4 DEF ModeInv
<1>6. QED BY <1>4, <1>5

LEMMA ToggleConfigKeeps ==
    ASSUME ModeInv, NEW t \in Toggles, NEW enabled \in BOOLEAN, ToggleConfig(t, enabled)
    PROVE  ModeInv'
<1>1. /\ ~Ready /\ mode' = enabled /\ savedMode' = enabled /\ last' = {enabled}
      /\ toggles' = [toggles EXCEPT ![t] = "over"]
      /\ UNCHANGED <<trader, source, generator, book, work, patches, overtaken>>
  BY DEF ToggleConfig
<1>2. ModeTypeOK' BY <1>1 DEF ModeInv, ModeTypeOK, book, work
<1>3. ~overtaken' /\ \A s \in Toggles : ~Seeding(s)'
  BY <1>1 DEF ModeInv, AsleepIsEmpty, Seeding, ModeTypeOK
<1>4. ModeIsWhole' BY <1>1 DEF ModeIsWhole, Ready
<1>5. DiskHoldsLastToggle' /\ TailSavesLast' BY <1>1 DEF DiskHoldsLastToggle, TailSavesLast
<1>6. QED BY <1>1, <1>2, <1>3, <1>4, <1>5, RequestKeeps

LEMMA BeginEnableKeeps == ASSUME ModeInv, NEW t \in Toggles, BeginEnable(t) PROVE ModeInv'
<1>1. /\ Ready /\ mode' = TRUE /\ savedMode' = TRUE /\ last' = {TRUE}
      /\ generator' = TRUE /\ overtaken' = FALSE
      /\ toggles' = [toggles EXCEPT ![t] = "seeding"]
      /\ UNCHANGED <<trader, source, book, work, patches>>
  BY DEF BeginEnable
<1>2. ModeTypeOK' BY <1>1 DEF ModeInv, ModeTypeOK, book, work
<1>3. Seeding(t)' BY <1>1 DEF ModeInv, Seeding, ModeTypeOK
<1>4. ModeIsWhole' BY <1>3 DEF ModeIsWhole
<1>5. DiskHoldsLastToggle' /\ TailSavesLast' BY <1>1 DEF DiskHoldsLastToggle, TailSavesLast
<1>6. QED BY <1>1, <1>2, <1>4, <1>5, RequestKeeps

LEMMA PatchKeeps == ASSUME ModeInv, NEW enabled \in BOOLEAN, Patch(enabled) PROVE ModeInv'
<1>1. /\ patches < MaxPatches /\ patches' = patches + 1 /\ savedMode' = enabled
      /\ last' = IF \E t \in Toggles : Seeding(t) THEN last \union {enabled} ELSE {enabled}
      /\ UNCHANGED <<trader, source, mode, generator, book, work, toggles, overtaken>>
  BY DEF Patch
<1>2. patches' \in 0..MaxPatches BY <1>1, ModeAssumption DEF ModeInv, ModeTypeOK
<1>3. ModeTypeOK' BY <1>1, <1>2 DEF ModeInv, ModeTypeOK, book, work
<1>4. ModeIsWhole' BY <1>1 DEF ModeInv, ModeIsWhole, Ready, Seeding, book
<1>5. DiskHoldsLastToggle' /\ TailSavesLast'
  BY <1>1 DEF ModeInv, DiskHoldsLastToggle, TailSavesLast, Seeding
<1>6. ~Ready => ~overtaken' /\ \A t \in Toggles : ~Seeding(t)'
  BY <1>1 DEF ModeInv, AsleepIsEmpty, Seeding
<1>7. QED BY <1>1, <1>3, <1>4, <1>5, <1>6, RequestKeeps

LEMMA EndEnableKeeps == ASSUME ModeInv, NEW t \in Toggles, EndEnable(t) PROVE ModeInv'
<1>1. /\ Seeding(t) /\ overtaken' = ~generator /\ savedMode' \in {savedMode, mode}
      /\ states' = [states EXCEPT ![current] = [w \in Worlds |->
                      [@[w] EXCEPT !.kind = "chaos", !.engine = "flat"]]]
      /\ toggles' = [toggles EXCEPT ![t] = "over"]
      /\ UNCHANGED <<trader, source, mode, generator, current, confirmed, held, excused, candles,
                     queue, patches, last>>
  BY DEF EndEnable, work
<1>2. Ready /\ ModeTypeOK BY <1>1, AwakeHasStates DEF ModeInv
<1>3. PICK new : new = [w \in Worlds |->
                          [states[current][w] EXCEPT !.kind = "chaos", !.engine = "flat"]]
  OBVIOUS
<1>4. states' = [states EXCEPT ![current] = new] BY <1>1, <1>3
<1>5. current = 0 \/ current \in DOMAIN states BY <1>2, ModePlaces
<1>6. current \in DOMAIN states /\ states[current] \in WorldStates
  BY <1>2, <1>5, ModePlaces DEF ModeInv, AwakeHasBooks
<1>7. /\ new \in WorldStates
      /\ \A w \in Worlds : new[w].kind = "chaos" /\ new[w].position = states[current][w].position
  BY <1>3, <1>6 DEF WorldStates, State
<1>8. states' \in Seq(WorldStates) /\ Len(states') = current /\ states'[current] = new
  BY <1>2, <1>4, <1>6, <1>7, ObjectChanges
<1>9. ModeTypeOK' BY <1>1, <1>2, <1>8 DEF ModeTypeOK, WorldStates
<1>10. ModeIsWhole' BY <1>1, <1>2, <1>7, <1>8 DEF ModeIsWhole, ModeTypeOK
<1>11. AsleepIsEmpty' /\ AwakeHasBooks' BY <1>1, <1>2 DEF AsleepIsEmpty, AwakeHasBooks, Ready, ModeInv
<1>12. DiskHoldsLastToggle' BY <1>1 DEF ModeInv, DiskHoldsLastToggle, TailSavesLast
<1>13. TailSavesLast' BY <1>1 DEF ModeInv, TailSavesLast
<1>14. FillsAreHeld' BY <1>1 DEF ModeInv, FillsAreHeld
<1>15. FillsAreLong' BY <1>1, <1>7, <1>8 DEF ModeInv, FillsAreLong, Queued, Ready
<1>16. ObjectsExist'
  <2>1. DOMAIN states' = DOMAIN states BY <1>1, <1>4
  <2>2. QED BY <1>1, <2>1 DEF ModeInv, ObjectsExist
<1>17. QED BY <1>9, <1>10, <1>16, <1>11, <1>12, <1>13, <1>14, <1>15 DEF ModeInv

LEMMA DisableKeeps == ASSUME ModeInv, NEW t \in Toggles, Disable(t) PROVE ModeInv'
<1>1. /\ Ready /\ mode' = FALSE /\ savedMode' = FALSE /\ last' = {FALSE}
      /\ toggles' = [toggles EXCEPT ![t] = "over"]
      /\ UNCHANGED <<trader, source, candles, queue, patches>>
  BY DEF Disable, work
<1>2. ModeTypeOK BY DEF ModeInv
<1>3. DiskHoldsLastToggle' /\ TailSavesLast' BY <1>1 DEF DiskHoldsLastToggle, TailSavesLast
<1>4. CASE source = "broken"
  <2>1. UNCHANGED <<generator, overtaken, book>> BY <1>4 DEF Disable
  <2>2. ModeTypeOK' BY <1>1, <1>2, <2>1 DEF ModeTypeOK, book
  <2>3. toggles[t] = "expected" BY DEF Disable
  <2>4. \A s \in Toggles : Seeding(s)' <=> Seeding(s) BY <1>1, <1>2, <2>3 DEF Seeding, ModeTypeOK
  <2>5. ModeIsWhole' BY <1>1, <2>1, <2>4 DEF ModeInv, ModeIsWhole, Ready, book
  <2>6. QED BY <1>1, <1>3, <2>1, <2>2, <2>5, RequestKeeps DEF work
<1>5. CASE source # "broken"
  <2>1. PICK kind \in {"none", "script"} : kind = IF source = "none" THEN "none" ELSE "script"
    OBVIOUS
  <2>2. PICK new \in WorldStates : /\ new = Fresh(kind)
                                   /\ \A w \in Worlds : new[w].kind = kind
    BY FreshIsTyped
  <2>3. /\ generator' = FALSE /\ overtaken' = FALSE /\ states' = Append(states, new)
        /\ current' = current + 1 /\ confirmed' = {} /\ held' = held
        /\ excused' = excused \union { w \in Worlds : held[w] }
    BY <1>5, <2>1, <2>2 DEF Disable
  <2>4. states \in Seq(WorldStates) /\ current = Len(states) /\ current \in Nat
    BY <1>2, ModePlaces DEF ModeTypeOK, WorldStates
  <2>5. /\ states' \in Seq(WorldStates) /\ Len(states') = current + 1
        /\ states'[current + 1] = new
    BY <2>3, <2>4, AppendProperties
  <2>6. ModeTypeOK' BY <1>1, <1>2, <2>3, <2>5 DEF ModeTypeOK, WorldStates
  <2>7. AsleepIsEmpty' /\ AwakeHasBooks'
    BY <1>1, <2>3, <2>4 DEF AsleepIsEmpty, AwakeHasBooks, Ready
  <2>8. ModeIsWhole'
    BY <1>1, <2>1, <2>2, <2>3, <2>5 DEF ModeIsWhole
  <2>9. FillsAreHeld' BY <1>2, <2>3 DEF FillsAreHeld, ModeTypeOK
  <2>10. FillsAreLong' BY <2>3 DEF FillsAreLong
  <2>11. ObjectsExist'
    <3>1. DOMAIN states = 1..current BY <1>2, ModePlaces
    <3>2. DOMAIN states' = 1..(current + 1) BY <2>5, LenProperties
    <3>3. QED BY <1>1, <2>4, <3>1, <3>2 DEF ModeInv, ObjectsExist
  <2>12. QED BY <1>3, <2>6, <2>7, <2>11, <2>8, <2>9, <2>10 DEF ModeInv
<1>6. QED BY <1>4, <1>5

-----------------------------------------------------------------------------
(* The candles of the mode                                                 *)

\* A candle that becomes nothing, or waits for the balance.
LEMMA CandleKeeps ==
    ASSUME ModeInv, Ready, NEW c \in Candles, candles[c].phase # "queued",
           NEW phase \in {"waiting", "done"}, NEW o \in Nat,
           phase = "waiting" => o \in DOMAIN states,
           candles' = [candles EXCEPT ![c].phase = phase, ![c].object = o],
           UNCHANGED <<states, queue, setup, current, confirmed, held, excused, requests>>
    PROVE  ModeInv'
<1>1. /\ candles' \in [Candles -> Candle]
      /\ candles'[c].phase = phase /\ candles'[c].world = candles[c].world
      /\ candles'[c].object = o
      /\ \A d \in Candles \ {c} : candles'[d] = candles[d]
  <2>1. candles \in [Candles -> Candle] BY DEF ModeInv, ModeTypeOK, Candle
  <2>2. PICK old \in Candle : old = candles[c] BY <2>1
  <2>3. PICK next : next = [old EXCEPT !.phase = phase, !.object = o] OBVIOUS
  <2>4. next \in Candle /\ next.phase = phase /\ next.world = old.world /\ next.object = o
    BY <2>2, <2>3 DEF Candle, Generations
  <2>5. candles' = [candles EXCEPT ![c] = next] BY <2>1, <2>2, <2>3 DEF Candle
  <2>6. QED BY <2>1, <2>2, <2>4, <2>5
<1>2. \A w \in Worlds : Queued(w)' <=> Queued(w) BY <1>1 DEF Queued
<1>3. ModeTypeOK' BY <1>1 DEF ModeInv, ModeTypeOK, Candle, setup, requests
<1>4. AsleepIsEmpty' /\ AwakeHasBooks'
  BY DEF ModeInv, AsleepIsEmpty, AwakeHasBooks, Ready, setup
<1>5. ModeIsWhole' BY DEF ModeInv, ModeIsWhole, Ready, Seeding, setup, requests
<1>6. DiskHoldsLastToggle' /\ TailSavesLast'
  BY DEF ModeInv, DiskHoldsLastToggle, TailSavesLast, Seeding, setup, requests
<1>7. FillsAreHeld' /\ ObjectsExist' BY <1>1 DEF ModeInv, FillsAreHeld, ObjectsExist
<1>8. FillsAreLong' BY <1>2 DEF ModeInv, FillsAreLong, Ready, setup
<1>9. QED BY <1>3, <1>4, <1>5, <1>6, <1>7, <1>8 DEF ModeInv

\* The engine of an object of the books decides on a candle.
LEMMA RunBarKeeps ==
    ASSUME ModeInv, Ready, NEW c \in Candles, candles[c].phase # "queued",
           NEW o \in DOMAIN states, RunBar(c, o),
           UNCHANGED <<setup, current, confirmed, held, excused, requests>>
    PROVE  ModeInv'
<1>1. PICK w : w = candles[c].world OBVIOUS
<1>2. w \in Worlds BY <1>1 DEF ModeInv, ModeTypeOK
<1>3. PICK signal \in Signals(states[o][w]) :
        IF signal = "none"
        THEN /\ candles' = [candles EXCEPT ![c].phase = "done", ![c].object = o]
             /\ UNCHANGED <<states, queue>>
        ELSE /\ states' = [states EXCEPT
                   ![o][w].engine = IF signal = "buy" THEN "long" ELSE "flat",
                   ![o][w].position = IF signal = "buy" THEN "long" ELSE "flat"]
             /\ candles' = [candles EXCEPT ![c].phase = "queued", ![c].object = o,
                                           ![c].signal = signal]
             /\ queue' = Append(queue, c)
  BY <1>1 DEF RunBar
<1>4. o \in Nat /\ current \in Nat /\ DOMAIN states = 1..current /\ states[o] \in WorldStates
      /\ states \in [DOMAIN states -> WorldStates]
  BY ModePlaces DEF ModeInv
<1>5. CASE signal = "none" BY <1>3, <1>4, <1>5, CandleKeeps
<1>6. CASE signal # "none"
  <2>1. signal \in {"buy", "sell"} BY <1>3, <1>6 DEF Signals
  <2>2. PICK stance \in {"long", "flat"} : stance = IF signal = "buy" THEN "long" ELSE "flat"
    OBVIOUS
  <2>3. /\ states' = [states EXCEPT ![o][w].engine = stance, ![o][w].position = stance]
        /\ candles' = [candles EXCEPT ![c].phase = "queued", ![c].object = o,
                                      ![c].signal = signal]
        /\ queue' = Append(queue, c)
    BY <1>3, <1>6, <2>2
  <2>4. PICK new : new = [states[o] EXCEPT ![w].engine = stance, ![w].position = stance] OBVIOUS
  <2>5. /\ new \in WorldStates /\ \A v \in Worlds : new[v].kind = states[o][v].kind
        /\ \A v \in Worlds \ {w} : new[v] = states[o][v]
    BY <1>2, <1>4, <2>4 DEF WorldStates, State
  <2>6. states' = [states EXCEPT ![o] = new]
    <3>1. states[o] \in [Worlds -> State] BY <1>4 DEF WorldStates
    <3>2. QED BY <1>2, <1>4, <2>3, <2>4, <3>1 DEF State
  <2>7. /\ states' \in Seq(WorldStates) /\ Len(states') = current
        /\ \A i \in DOMAIN states : states'[i] = IF i = o THEN new ELSE states[i]
    BY <2>5, <2>6, ObjectChanges DEF ModeInv
  <2>8. current \in DOMAIN states BY <1>4 DEF ModeInv, AwakeHasBooks
  <2>9. /\ \A v \in Worlds : states'[current][v].kind = states[current][v].kind
        /\ \A v \in Worlds \ {w} : states'[current][v] = states[current][v]
    BY <2>5, <2>7, <2>8
  <2>10. queue' \in Seq(Candles) BY <2>3, AppendProperties DEF ModeInv, ModeTypeOK
  <2>11. /\ candles' \in [Candles -> Candle]
         /\ candles'[c].phase = "queued" /\ candles'[c].world = w
         /\ \A d \in Candles \ {c} : candles'[d] = candles[d]
    <3>1. candles \in [Candles -> Candle] BY DEF ModeInv, ModeTypeOK, Candle
    <3>2. PICK old \in Candle : old = candles[c] /\ old.world = w BY <1>1, <3>1
    <3>3. PICK next : next = [old EXCEPT !.phase = "queued", !.object = o, !.signal = signal]
      OBVIOUS
    <3>4. next \in Candle /\ next.phase = "queued" /\ next.world = w
      BY <1>4, <2>1, <3>2, <3>3 DEF Candle, Generations
    <3>5. candles' = [candles EXCEPT ![c] = next]
      BY <2>3, <3>1, <3>2, <3>3 DEF Candle
    <3>6. QED BY <3>1, <3>4, <3>5
  <2>12. ModeTypeOK'
    BY <2>7, <2>10, <2>11 DEF ModeInv, ModeTypeOK, WorldStates, Candle, setup, requests
  <2>13. Queued(w)' /\ \A v \in Worlds : Queued(v) => Queued(v)'
    <3>1. Queued(w)' BY <2>11 DEF Queued
    <3>2. ASSUME NEW v \in Worlds, Queued(v) PROVE Queued(v)'
      <4>1. PICK d \in Candles : candles[d].world = v /\ candles[d].phase = "queued"
        BY <3>2 DEF Queued
      <4>2. candles'[d].world = v /\ candles'[d].phase = "queued" BY <2>11, <4>1
      <4>3. QED BY <4>2 DEF Queued
    <3>3. QED BY <3>1, <3>2
  <2>14. AsleepIsEmpty' /\ AwakeHasBooks'
    BY DEF ModeInv, AsleepIsEmpty, AwakeHasBooks, Ready, setup
  <2>15. ModeIsWhole' BY <2>9 DEF ModeInv, ModeIsWhole, Ready, Seeding, setup, requests
  <2>16. DiskHoldsLastToggle' /\ TailSavesLast'
    BY DEF ModeInv, DiskHoldsLastToggle, TailSavesLast, Seeding, setup, requests
  <2>17. FillsAreHeld' BY DEF ModeInv, FillsAreHeld
  <2>18. FillsAreLong' BY <2>9, <2>13 DEF ModeInv, FillsAreLong, Ready, setup
  <2>19. ObjectsExist'
    <3>1. DOMAIN states' = DOMAIN states BY <2>6
    <3>2. QED BY <2>11, <3>1 DEF ModeInv, ObjectsExist
  <2>20. QED BY <2>12, <2>14, <2>19, <2>15, <2>16, <2>17, <2>18 DEF ModeInv
<1>7. QED BY <1>5, <1>6

LEMMA CandleArrivesKeeps == ASSUME ModeInv, NEW c \in Candles, CandleArrives(c) PROVE ModeInv'
<1>1. /\ Ready /\ candles[c].phase = "expected"
      /\ UNCHANGED <<setup, current, confirmed, held, excused, requests>>
  BY DEF CandleArrives
<1>2. current \in Nat /\ current \in DOMAIN states
  BY <1>1, ModePlaces DEF ModeInv, AwakeHasBooks
<1>3. \/ RunBar(c, current)
      \/ /\ candles' = [candles EXCEPT ![c].phase = "waiting", ![c].object = current]
         /\ UNCHANGED <<states, queue>>
      \/ /\ candles' = [candles EXCEPT ![c].phase = "done"]
         /\ UNCHANGED <<states, queue>>
  BY DEF CandleArrives
<1>4. CASE RunBar(c, current) BY <1>1, <1>2, <1>4, RunBarKeeps
<1>5. CASE /\ candles' = [candles EXCEPT ![c].phase = "waiting", ![c].object = current]
           /\ UNCHANGED <<states, queue>>
  BY <1>1, <1>2, <1>5, CandleKeeps
<1>6. CASE /\ candles' = [candles EXCEPT ![c].phase = "done"] /\ UNCHANGED <<states, queue>>
  <2>1. candles[c].object \in Nat BY DEF ModeInv, ModeTypeOK, Generations
  <2>2. candles' = [candles EXCEPT ![c].phase = "done", ![c].object = candles[c].object]
    BY <1>6 DEF ModeInv, ModeTypeOK
  <2>3. QED BY <1>1, <1>6, <2>1, <2>2, CandleKeeps
<1>7. QED BY <1>3, <1>4, <1>5, <1>6

LEMMA EvaluateKeeps == ASSUME ModeInv, NEW c \in Candles, Evaluate(c) PROVE ModeInv'
<1>1. /\ candles[c].phase = "waiting"
      /\ UNCHANGED <<setup, current, confirmed, held, excused, requests>>
  BY DEF Evaluate
<1>2. PICK o \in DOMAIN states : o = candles[c].object BY <1>1 DEF ModeInv, ObjectsExist
<1>3. Ready /\ o \in Nat BY <1>1, <1>2 DEF ModeInv, AsleepIsEmpty, ModeTypeOK, Generations
<1>4. \/ RunBar(c, o)
      \/ candles' = [candles EXCEPT ![c].phase = "done"] /\ UNCHANGED <<states, queue>>
  BY <1>2 DEF Evaluate
<1>5. CASE RunBar(c, o) BY <1>1, <1>3, <1>5, RunBarKeeps
<1>6. CASE candles' = [candles EXCEPT ![c].phase = "done"] /\ UNCHANGED <<states, queue>>
  <2>1. candles' = [candles EXCEPT ![c].phase = "done", ![c].object = o]
    BY <1>2, <1>6 DEF ModeInv, ModeTypeOK
  <2>2. QED BY <1>1, <1>3, <1>6, <2>1, CandleKeeps
<1>7. QED BY <1>4, <1>5, <1>6

\* An order comes back: after the last one of its world, the fill, the wallet
\* and the books agree.
LEMMA OrderReturnsKeeps == ASSUME ModeInv, OrderReturns PROVE ModeInv'
<1>1. /\ queue # <<>> /\ queue' = Tail(queue) /\ UNCHANGED <<setup, current, requests>>
  BY DEF OrderReturns
<1>2. Head(queue) \in Candles /\ queue' \in Seq(Candles)
  BY <1>1, HeadTailProperties DEF ModeInv, ModeTypeOK
<1>3. PICK c \in Candles : c = Head(queue) BY <1>2
<1>4. PICK w \in Worlds : w = candles[c].world BY DEF ModeInv, ModeTypeOK
<1>5. PICK signal : signal = candles[c].signal OBVIOUS
<1>6. PICK success \in BOOLEAN :
        /\ success => signal = "buy" \/ held[w]
        /\ UpdatePositionState(w, signal, success)
        /\ held' = IF success THEN [held EXCEPT ![w] = signal = "buy"] ELSE held
        /\ excused' = IF signal = "buy" /\ held[w] THEN excused \union {w} ELSE excused
        /\ candles' = [candles EXCEPT ![c].phase = "done"]
  BY <1>3, <1>4, <1>5 DEF OrderReturns
<1>7. PICK holds \in BOOLEAN :
        holds <=> IF signal = "buy" THEN success ELSE ~success /\ w \in confirmed
  OBVIOUS
<1>8. PICK stance \in {"long", "flat"} : stance = IF holds THEN "long" ELSE "flat" OBVIOUS
<1>9. /\ states' = [states EXCEPT ![current][w].position = stance]
      /\ confirmed' = IF holds THEN confirmed \union {w} ELSE confirmed \ {w}
  <2>1. CASE signal = "buy" BY <1>6, <1>7, <1>8, <2>1 DEF UpdatePositionState
  <2>2. CASE signal # "buy" BY <1>6, <1>7, <1>8, <2>2 DEF UpdatePositionState
  <2>3. QED BY <2>1, <2>2
<1>10. Ready /\ current \in DOMAIN states /\ states[current] \in WorldStates
  <2>1. Ready BY <1>1 DEF ModeInv, AsleepIsEmpty
  <2>2. QED BY <2>1, ModePlaces DEF ModeInv, AwakeHasBooks
<1>11. PICK new : new = [states[current] EXCEPT ![w].position = stance] OBVIOUS
<1>12. /\ new \in WorldStates /\ new[w].position = stance
       /\ \A v \in Worlds : new[v].kind = states[current][v].kind
       /\ \A v \in Worlds \ {w} : new[v] = states[current][v]
  BY <1>8, <1>10, <1>11 DEF WorldStates, State
<1>13. states' = [states EXCEPT ![current] = new] BY <1>9, <1>11
<1>14. states' \in Seq(WorldStates) /\ Len(states') = current /\ states'[current] = new
       /\ DOMAIN states' = DOMAIN states
  BY <1>10, <1>12, <1>13, ObjectChanges DEF ModeInv
<1>15. /\ candles' \in [Candles -> Candle]
       /\ candles'[c].phase = "done" /\ \A d \in Candles \ {c} : candles'[d] = candles[d]
  BY <1>6 DEF ModeInv, ModeTypeOK, Candle
<1>16. held' \in [Worlds -> BOOLEAN] /\ held'[w] = (IF success THEN signal = "buy" ELSE held[w])
       /\ \A v \in Worlds \ {w} : held'[v] = held[v]
  BY <1>6 DEF ModeInv, ModeTypeOK
<1>17. confirmed' \subseteq Worlds /\ excused' \subseteq Worlds /\ excused \subseteq excused'
       /\ \A v \in Worlds \ {w} : v \in confirmed' <=> v \in confirmed
  BY <1>6, <1>9 DEF ModeInv, ModeTypeOK
<1>18. ModeTypeOK'
  BY <1>1, <1>2, <1>14, <1>15, <1>16, <1>17 DEF ModeInv, ModeTypeOK, WorldStates, Candle, setup, requests
<1>19. AsleepIsEmpty' /\ AwakeHasBooks'
  BY <1>1, <1>10 DEF ModeInv, AsleepIsEmpty, AwakeHasBooks, Ready, setup
<1>20. ObjectsExist' BY <1>14, <1>15 DEF ModeInv, ObjectsExist
<1>21. ModeIsWhole'
  BY <1>1, <1>12, <1>14 DEF ModeInv, ModeIsWhole, Ready, Seeding, setup, requests
<1>22. DiskHoldsLastToggle' /\ TailSavesLast'
  BY <1>1 DEF ModeInv, DiskHoldsLastToggle, TailSavesLast, Seeding, setup, requests
<1>23. FillsAreHeld'
  <2>1. w \in excused' \/ (w \in confirmed' <=> held'[w])
    <3>1. w \in excused \/ (w \in confirmed <=> held[w]) BY DEF ModeInv, FillsAreHeld
    <3>2. CASE signal = "buy" /\ held[w] BY <1>6, <3>2
    <3>3. CASE signal = "buy" /\ ~held[w]
      <4>1. w \in confirmed' <=> success BY <1>7, <1>9, <3>3
      <4>2. held'[w] <=> success BY <1>16, <3>3
      <4>3. QED BY <4>1, <4>2
    <3>4. CASE signal # "buy" /\ success
      <4>1. w \notin confirmed' BY <1>7, <1>9, <3>4
      <4>2. ~held'[w] BY <1>16, <3>4
      <4>3. QED BY <4>1, <4>2
    <3>5. CASE signal # "buy" /\ ~success
      <4>1. w \in confirmed' <=> w \in confirmed BY <1>7, <1>9, <3>5
      <4>2. held'[w] = held[w] BY <1>16, <3>5
      <4>3. QED BY <1>17, <3>1, <4>1, <4>2
    <3>6. QED BY <3>2, <3>3, <3>4, <3>5
  <2>2. ASSUME NEW v \in Worlds \ {w} PROVE v \in excused' \/ (v \in confirmed' <=> held'[v])
    BY <1>16, <1>17 DEF ModeInv, FillsAreHeld
  <2>3. QED BY <2>1, <2>2 DEF FillsAreHeld
<1>24. FillsAreLong'
  <2>1. w \in confirmed' => states'[current][w].position = "long" BY <1>8, <1>9, <1>12, <1>14
  <2>2. ASSUME NEW v \in Worlds \ {w}, v \in confirmed', ~Queued(v)'
        PROVE  states'[current][v].position = "long"
    <3>1. ~Queued(v)
      <4>1. SUFFICES ASSUME NEW d \in Candles, candles[d].world = v, candles[d].phase = "queued"
                     PROVE  FALSE
        BY DEF Queued
      <4>2. candles'[d] = candles[d] BY <1>4, <1>15, <4>1
      <4>3. QED BY <2>2, <4>1, <4>2 DEF Queued
    <3>2. states[current][v].position = "long" BY <1>10, <1>17, <2>2, <3>1 DEF ModeInv, FillsAreLong
    <3>3. QED BY <1>12, <1>14, <3>2
  <2>3. QED BY <1>1, <2>1, <2>2 DEF FillsAreLong
<1>25. QED BY <1>18, <1>19, <1>20, <1>21, <1>22, <1>23, <1>24 DEF ModeInv

LEMMA ModeInvNext == ModeInv /\ [ModeNext]_modeVars => ModeInv'
<1> SUFFICES ASSUME ModeInv, [ModeNext]_modeVars PROVE ModeInv' OBVIOUS
<1>1. CASE BeginStart BY <1>1, BeginStartKeeps
<1>2. CASE EndStart BY <1>2, EndStartKeeps
<1>3. CASE OrderReturns BY <1>3, OrderReturnsKeeps
<1>4. CASE \E t \in Toggles : BeginEnable(t) \/ EndEnable(t) \/ Disable(t)
  BY <1>4, BeginEnableKeeps, EndEnableKeeps, DisableKeeps
<1>5. CASE \E enabled \in BOOLEAN : Patch(enabled) \/ \E t \in Toggles : ToggleConfig(t, enabled)
  BY <1>5, PatchKeeps, ToggleConfigKeeps
<1>6. CASE \E c \in Candles : CandleArrives(c) \/ Evaluate(c)
  BY <1>6, CandleArrivesKeeps, EvaluateKeeps
<1>7. CASE UNCHANGED modeVars
  BY <1>7 DEF ModeInv, ModeTypeOK, AsleepIsEmpty, AwakeHasBooks, ObjectsExist, ModeIsWhole,
              DiskHoldsLastToggle, TailSavesLast, FillsAreHeld, FillsAreLong, Queued, Ready,
              Seeding, modeVars, setup, book, work, requests
<1>8. QED BY <1>1, <1>2, <1>3, <1>4, <1>5, <1>6, <1>7 DEF ModeNext

THEOREM ModeInvariant == ModeSpec => []ModeInv
BY ModeInvInit, ModeInvNext, PTL DEF ModeSpec

\* Between two swaps the executor is of one mode and the disk holds the one
\* that was asked for last (toggleChaosMode(), setChaosGenerator() and
\* clearChaosGenerator(), with any number of toggles and candles under way).
THEOREM ModeSettles == ModeSpec => []ModeIsSettled
<1>1. ModeInv => ModeIsSettled BY DEF ModeInv, ModeIsSettled
<1>2. QED BY <1>1, ModeInvariant, PTL

\* No swap loses a position or an order on its way (what a conversion keeps,
\* and updatePositionState() of an order that meets new objects).
THEOREM SwapsKeepBooks == ModeSpec => []BooksSurviveSwap
<1>1. ModeInv => BooksSurviveSwap
  <2> SUFFICES ASSUME ModeInv, NEW w \in Worlds, Ready,
                      \A c \in Candles : candles[c].world = w => candles[c].phase # "queued",
                      w \notin excused
               PROVE  states[current][w].position = "long" /\ w \in confirmed <=> held[w]
    BY DEF BooksSurviveSwap
  <2>1. w \in confirmed <=> held[w] BY DEF ModeInv, FillsAreHeld
  <2>2. ~Queued(w) BY DEF Queued
  <2>3. w \in confirmed => states[current][w].position = "long"
    BY <2>2 DEF ModeInv, FillsAreLong
  <2>4. QED BY <2>1, <2>3
<1>2. QED BY <1>1, ModeInvariant, PTL

-----------------------------------------------------------------------------
(* The configuration                                                       *)

\* A configuration made from now on has an id that no other has; a selection
\* under way for the configuration of the engine would bring back its strategy.
IdsAreOld ==
    /\ config.id <= events
    /\ \A test \in tests : test.id <= events
    /\ \A test \in tests : test.id = config.id => test.is.strategy = config.is.strategy

\* A restart finds the strategy that was chosen, if it finds anything.
FileHasChoice == "overtaken" \notin flaws => disk = NoFile \/ disk.strategy = chosen

ConfigInv ==
    /\ ConfigTypeOK /\ IdsAreOld /\ FileHasChoice
    /\ FileFollowsEngine /\ ChoiceSurvives

LEMMA ListFacts ==
    /\ <<>> \in Lists /\ NoFile \in Content /\ NoConfig \in Configs
    /\ \A l \in Lists : l # <<>> => <<Head(l)>> \in Lists
<1>1. <<>> \in Lists
  <2>1. <<>> \in Seq(Pairs) /\ Len(<<>>) = 0 BY EmptySeq
  <2>2. <<>> \in [1..0 -> Pairs] /\ DOMAIN <<>> = 1..0 BY <2>1, LenProperties
  <2>3. IsInjective(<<>>) BY <2>2 DEF IsInjective
  <2>4. 0 \in 0..2 OBVIOUS
  <2>5. QED BY <2>2, <2>3, <2>4 DEF Lists
<1>2. ASSUME NEW l \in Lists, l # <<>> PROVE <<Head(l)>> \in Lists
  <2>1. PICK n \in 0..2 : l \in [1..n -> Pairs] BY DEF Lists
  <2>2. l \in Seq(Pairs) BY <2>1, SeqDef
  <2>3. PICK p \in Pairs : p = Head(l) BY <1>2, <2>2, HeadTailProperties
  <2>4. PICK one : one = <<p>> OBVIOUS
  <2>5. one \in [1..1 -> Pairs] /\ DOMAIN one = 1..1 BY <2>4
  <2>6. IsInjective(one) BY <2>5 DEF IsInjective
  <2>7. 1 \in 0..2 OBVIOUS
  <2>8. QED BY <2>3, <2>4, <2>5, <2>6, <2>7 DEF Lists
<1>3. NoFile \in Content BY <1>1 DEF NoFile, NoConfig, Content
<1>4. NoConfig \in Configs BY <1>1, ConfigAssumption DEF NoConfig, Content, Configs
<1>5. QED BY <1>1, <1>2, <1>3, <1>4

\* The migration keeps strategy and selection, and once is enough.
LEMMA MigratedOnce ==
    ASSUME NEW content \in Content
    PROVE  /\ Migrated(content) \in Content
           /\ Migrated(content).strategy = content.strategy /\ Migrated(content).auto = content.auto
           /\ Migrated(Migrated(content)) = Migrated(content)
<1>1. CASE content.worlds = <<>> /\ content.pairs # <<>>
  <2>1. PICK one \in Lists : one = <<Head(content.pairs)>> BY <1>1, ListFacts DEF Content
  <2>2. one # <<>> BY <2>1
  <2>3. PICK new : new = [content EXCEPT !.worlds = one] OBVIOUS
  <2>4. /\ new \in Content /\ new.strategy = content.strategy /\ new.auto = content.auto
        /\ new.worlds # <<>>
    BY <2>2, <2>3 DEF Content
  <2>5. Migrated(content) = new BY <1>1, <2>1, <2>3 DEF Migrated
  <2>6. Migrated(new) = new BY <2>4 DEF Migrated
  <2>7. QED BY <2>4, <2>5, <2>6
<1>2. CASE ~(content.worlds = <<>> /\ content.pairs # <<>>) BY <1>2 DEF Migrated
<1>3. QED BY <1>1, <1>2

LEMMA ConfigInvInit == ConfigInit => ConfigInv
<1> SUFFICES ASSUME ConfigInit PROVE ConfigInv OBVIOUS
<1>1. /\ config = NoConfig /\ disk = NoFile /\ bot = "down" /\ tests = {} /\ starts = {}
      /\ wired = [feed |-> <<>>, worlds |-> <<>>] /\ chosen = NoStrategy /\ flaws = {}
      /\ events = 0
  BY DEF ConfigInit
<1>2. NoConfig.id = 0 /\ NoConfig.is = NoFile /\ NoFile.strategy = NoStrategy
  BY DEF NoConfig, NoFile
<1>3. ConfigTypeOK
  <2>1. wired \in [feed : Lists, worlds : Lists] BY <1>1, ListFacts
  <2>2. events \in 0..MaxEvents BY <1>1, ConfigAssumption
  <2>3. QED BY <1>1, <2>1, <2>2, ListFacts DEF ConfigTypeOK
<1>4. QED BY <1>1, <1>2, <1>3 DEF ConfigInv, IdsAreOld, FileHasChoice, FileFollowsEngine, ChoiceSurvives

LEMMA NewIdIsNew ==
    ASSUME ConfigInv, Occurs
    PROVE  /\ events \in Nat /\ events' = events + 1 /\ events' \in 0..MaxEvents
           /\ config.id # events + 1 /\ \A test \in tests : test.id # events + 1
<1>1. events \in 0..MaxEvents /\ config.id \in 0..MaxEvents BY DEF ConfigInv, ConfigTypeOK, Configs
<1>2. \A test \in tests : test.id \in 0..MaxEvents BY DEF ConfigInv, ConfigTypeOK, Configs
<1>3. QED BY <1>1, <1>2, ConfigAssumption DEF Occurs, ConfigInv, IdsAreOld

LEMMA ConfigureKeeps == ASSUME ConfigInv, Configure PROVE ConfigInv'
<1>1. PICK request \in [strategy : Strategies \cup {NoStrategy}, auto : BOOLEAN, pairs : Lists] :
        /\ bot = "down" /\ disk' = Merged(request)
        /\ config' = [id |-> events + 1, is |-> disk']
        /\ chosen' = IF request.strategy = NoStrategy THEN chosen ELSE request.strategy
        /\ flaws' = {f \in flaws : f = "overtaken" /\ request.strategy = NoStrategy}
  BY DEF Configure, Accepts, Configured
<1>2. Occurs /\ UNCHANGED <<bot, tests, starts, wired>> BY DEF Configure
<1>3. PICK old \in Content : old = config.is BY DEF ConfigInv, ConfigTypeOK, Configs
<1>4. PICK strategy \in Strategies \cup {NoStrategy} :
        strategy = IF request.strategy = NoStrategy THEN old.strategy ELSE request.strategy
  BY <1>3 DEF Content
<1>5. PICK pairs \in Lists : pairs = IF request.pairs = <<>> THEN old.pairs ELSE request.pairs
  BY <1>3 DEF Content
<1>6. PICK auto \in BOOLEAN : auto = request.auto OBVIOUS
<1>7. PICK new : new = [old EXCEPT !.strategy = strategy, !.auto = auto, !.pairs = pairs] OBVIOUS
<1>8. new \in Content /\ new.strategy = strategy BY <1>4, <1>5, <1>6, <1>7 DEF Content
<1>9. disk' = new BY <1>1, <1>3, <1>4, <1>5, <1>6, <1>7 DEF Merged
<1>10. /\ config'.id = events + 1 /\ config'.is = new /\ config' = [id |-> events + 1, is |-> new]
  BY <1>1, <1>9
<1>11. /\ events \in Nat /\ events' = events + 1 /\ events' \in 0..MaxEvents
       /\ \A test \in tests : test.id # events + 1
  BY <1>2, NewIdIsNew
<1>12. config' \in Configs BY <1>8, <1>10, <1>11, ConfigAssumption DEF Configs
<1>13. ConfigTypeOK' BY <1>1, <1>2, <1>8, <1>9, <1>11, <1>12 DEF ConfigInv, ConfigTypeOK
<1>14. IdsAreOld'
  <2>1. \A test \in tests : test.id \in Nat /\ test.id <= events
    BY DEF ConfigInv, ConfigTypeOK, Configs, IdsAreOld
  <2>2. QED BY <1>2, <1>10, <1>11, <2>1 DEF IdsAreOld
<1>15. FileFollowsEngine' BY <1>9, <1>10 DEF FileFollowsEngine
<1>16. "overtaken" \notin flaws' => new.strategy = chosen'
  <2>1. CASE request.strategy = NoStrategy
    BY <1>1, <1>3, <1>4, <1>8, <2>1 DEF ConfigInv, ChoiceSurvives
  <2>2. CASE request.strategy # NoStrategy BY <1>1, <1>4, <1>8, <2>2
  <2>3. QED BY <2>1, <2>2
<1>17. FileHasChoice' /\ ChoiceSurvives' BY <1>9, <1>10, <1>16 DEF FileHasChoice, ChoiceSurvives
<1>18. QED BY <1>13, <1>14, <1>15, <1>17 DEF ConfigInv

LEMMA BacktestEndsKeeps ==
    ASSUME ConfigInv, NEW test \in tests, BacktestEnds(test)
    PROVE  ConfigInv'
<1>1. PICK ranking \in Rankings, saved \in BOOLEAN :
        LET content == [test.is EXCEPT !.auto = FALSE, !.pairs = ranking, !.worlds = ranking]
        IN  /\ Configured(content)
            /\ disk' = IF saved THEN content ELSE disk
            /\ flaws' = (IF saved THEN flaws \cap {"overtaken"} ELSE flaws \cup {"split"})
                          \cup (IF config.id # test.id THEN {"overtaken"} ELSE {})
  BY DEF BacktestEnds
<1>2. Occurs /\ tests' = tests \ {test} /\ UNCHANGED <<bot, starts, wired, chosen>>
  BY DEF BacktestEnds
<1>3. PICK old \in Content : old = test.is BY DEF ConfigInv, ConfigTypeOK, Configs
<1>4. PICK new : new = [old EXCEPT !.auto = FALSE, !.pairs = ranking, !.worlds = ranking] OBVIOUS
<1>5. ranking \in Lists BY DEF Rankings
<1>6. new \in Content /\ new.strategy = old.strategy BY <1>4, <1>5 DEF Content
<1>7. /\ config' = [id |-> events + 1, is |-> new]
      /\ disk' = (IF saved THEN new ELSE disk)
      /\ flaws' = (IF saved THEN flaws \cap {"overtaken"} ELSE flaws \cup {"split"})
                    \cup (IF config.id # test.id THEN {"overtaken"} ELSE {})
  BY <1>1, <1>3, <1>4 DEF Configured
<1>8. config'.id = events + 1 /\ config'.is = new BY <1>7
<1>9. /\ events \in Nat /\ events' = events + 1 /\ events' \in 0..MaxEvents
      /\ \A other \in tests : other.id # events + 1
  BY <1>2, NewIdIsNew
<1>10. config' \in Configs BY <1>6, <1>7, <1>9, ConfigAssumption DEF Configs
<1>11. disk' \in Content BY <1>6, <1>7 DEF ConfigInv, ConfigTypeOK
<1>12. flaws' \subseteq {"overtaken", "split", "deleted", "selected"}
  BY <1>7 DEF ConfigInv, ConfigTypeOK
<1>13. ConfigTypeOK' BY <1>2, <1>9, <1>10, <1>11, <1>12 DEF ConfigInv, ConfigTypeOK
<1>14. IdsAreOld'
  <2>1. \A other \in tests : other.id \in Nat /\ other.id <= events
    BY DEF ConfigInv, ConfigTypeOK, Configs, IdsAreOld
  <2>2. QED BY <1>2, <1>8, <1>9, <2>1 DEF IdsAreOld
<1>15. FileFollowsEngine'
  <2>1. CASE saved BY <1>7, <1>8, <2>1 DEF FileFollowsEngine
  <2>2. CASE ~saved
    <3>1. "split" \in flaws' BY <1>7, <2>2
    <3>2. QED BY <3>1 DEF FileFollowsEngine
  <2>3. QED BY <2>1, <2>2
<1>16. "overtaken" \notin flaws' =>
          /\ "overtaken" \notin flaws /\ new.strategy = config.is.strategy
  <2>1. SUFFICES ASSUME "overtaken" \notin flaws'
                 PROVE  "overtaken" \notin flaws /\ new.strategy = config.is.strategy
    OBVIOUS
  <2>2. config.id = test.id /\ "overtaken" \notin flaws BY <1>7, <2>1
  <2>3. QED BY <1>3, <1>6, <2>2 DEF ConfigInv, IdsAreOld
<1>17. ChoiceSurvives' BY <1>2, <1>8, <1>16 DEF ConfigInv, ChoiceSurvives
<1>18. FileHasChoice' BY <1>2, <1>7, <1>16 DEF ConfigInv, ChoiceSurvives, FileHasChoice
<1>19. QED BY <1>13, <1>14, <1>15, <1>17, <1>18 DEF ConfigInv

\* A request that leaves the engine alone: to the file, or to a selection.
LEMMA FileChanges ==
    ASSUME ConfigInv, disk' \in Content, tests' \subseteq tests \cup {config},
           starts' \subseteq 0..MaxEvents, events <= events', events' \in 0..MaxEvents,
           bot' \in {"down", "starting", "up"},
           flaws' \subseteq {"overtaken", "split", "deleted", "selected"},
           UNCHANGED <<config, wired, chosen>>,
           "overtaken" \in flaws => "overtaken" \in flaws',
           FileFollowsEngine', FileHasChoice'
    PROVE  ConfigInv'
<1>1. ConfigTypeOK' BY DEF ConfigInv, ConfigTypeOK
<1>2. IdsAreOld'
  <2>1. events \in Nat /\ config.id \in Nat /\ \A test \in tests : test.id \in Nat
    BY DEF ConfigInv, ConfigTypeOK, Configs
  <2>2. events' \in Nat BY ConfigAssumption
  <2>3. QED BY <2>1, <2>2 DEF ConfigInv, IdsAreOld
<1>3. ChoiceSurvives' BY DEF ConfigInv, ChoiceSurvives
<1>4. QED BY <1>1, <1>2, <1>3 DEF ConfigInv

\* Nothing changes but the selections under way and whether the bot is down.
LEMMA EngineRests ==
    ASSUME ConfigInv, tests' \subseteq tests \cup {config}, starts' \subseteq 0..MaxEvents,
           events <= events', events' \in 0..MaxEvents,
           bot' \in {"down", "starting", "up"}, UNCHANGED <<config, disk, wired, chosen, flaws>>
    PROVE  ConfigInv'
<1>1. FileFollowsEngine' /\ FileHasChoice'
  BY DEF ConfigInv, FileFollowsEngine, FileHasChoice
<1>2. QED BY <1>1, FileChanges DEF ConfigInv, ConfigTypeOK

LEMMA StageModeKeeps == ASSUME ConfigInv, StageMode PROVE ConfigInv'
<1>1. /\ disk # NoFile /\ disk' = Migrated(disk)
      /\ UNCHANGED <<config, bot, tests, starts, wired, chosen, flaws, events>>
  BY DEF StageMode
<1>2. disk \in Content BY DEF ConfigInv, ConfigTypeOK
<1>3. /\ disk' \in Content /\ disk'.strategy = disk.strategy /\ disk'.auto = disk.auto
      /\ Migrated(disk') = Migrated(disk)
  BY <1>1, <1>2, MigratedOnce
<1>4. FileFollowsEngine' BY <1>1, <1>3 DEF ConfigInv, FileFollowsEngine
<1>5. FileHasChoice' BY <1>1, <1>3 DEF ConfigInv, FileHasChoice
<1>6. QED BY <1>1, <1>3, <1>4, <1>5, FileChanges DEF ConfigInv, ConfigTypeOK

LEMMA ToggleModeKeeps == ASSUME ConfigInv, ToggleMode PROVE ConfigInv'
<1>1. /\ disk' = config.is /\ flaws' = flaws \cap {"overtaken"}
      /\ UNCHANGED <<config, bot, tests, starts, wired, chosen, events>>
  BY DEF ToggleMode
<1>2. config.is \in Content BY DEF ConfigInv, ConfigTypeOK, Configs
<1>3. FileFollowsEngine' BY <1>1 DEF FileFollowsEngine
<1>4. FileHasChoice' BY <1>1 DEF ConfigInv, ChoiceSurvives, FileHasChoice
<1>5. QED BY <1>1, <1>2, <1>3, <1>4, FileChanges DEF ConfigInv, ConfigTypeOK

LEMMA DeleteKeeps == ASSUME ConfigInv, Delete PROVE ConfigInv'
<1>1. /\ disk' = NoFile /\ flaws' = flaws \cup {"deleted"}
      /\ UNCHANGED <<config, bot, tests, starts, wired, chosen, events>>
  BY DEF Delete
<1>2. disk' \in Content BY <1>1, ListFacts
<1>3. FileFollowsEngine' /\ FileHasChoice' BY <1>1 DEF FileFollowsEngine, FileHasChoice, NoFile
<1>4. QED BY <1>1, <1>2, <1>3, FileChanges DEF ConfigInv, ConfigTypeOK

\* A selection or initialize() fills in pairs and worlds of the engine's object.
LEMMA PairsAreFilledIn ==
    ASSUME ConfigInv, NEW pairs \in Lists, NEW worlds \in Lists,
           config' = [config EXCEPT !.is = [@ EXCEPT !.pairs = pairs, !.worlds = worlds]],
           flaws' = flaws \cup {"selected"} \/ (config' = config /\ flaws' = flaws),
           bot' \in {"down", "starting", "up"}, starts' \subseteq starts,
           wired' \in [feed : Lists, worlds : Lists],
           UNCHANGED <<disk, tests, chosen, events>>
    PROVE  ConfigInv'
<1>1. PICK id \in 0..MaxEvents, old \in Content : config = [id |-> id, is |-> old]
  BY DEF ConfigInv, ConfigTypeOK, Configs
<1>2. PICK new : new = [old EXCEPT !.pairs = pairs, !.worlds = worlds] OBVIOUS
<1>3. new \in Content /\ new.strategy = old.strategy /\ new.auto = old.auto
  BY <1>2 DEF Content
<1>4. config' = [id |-> id, is |-> new] BY <1>1, <1>2 DEF Content
<1>5. config' \in Configs /\ config'.id = config.id /\ config'.is.strategy = config.is.strategy
      /\ config'.is.auto = config.is.auto
  <2>1. config'.id = id /\ config'.is = new BY <1>4
  <2>2. config.id = id /\ config.is = old BY <1>1
  <2>3. PICK next : next = [id |-> id, is |-> new] OBVIOUS
  <2>4. next \in Configs /\ config' = next BY <1>3, <1>4, <2>3, Zenon DEF Configs
  <2>5. QED BY <1>3, <2>1, <2>2, <2>4
<1>6. /\ flaws \subseteq flaws' /\ flaws' \subseteq flaws \cup {"selected"}
      /\ (config' = config \/ "selected" \in flaws')
  <2>1. CASE flaws' = flaws \cup {"selected"} BY <2>1
  <2>2. CASE config' = config /\ flaws' = flaws BY <2>2
  <2>3. QED BY <2>1, <2>2
<1>7. ConfigTypeOK' BY <1>5, <1>6 DEF ConfigInv, ConfigTypeOK
<1>8. IdsAreOld' BY <1>5 DEF ConfigInv, IdsAreOld
<1>9. FileFollowsEngine'
  <2>1. SUFFICES ASSUME flaws' \cap {"split", "deleted"} = {}
                 PROVE  /\ disk.strategy = config'.is.strategy /\ disk.auto = config'.is.auto
                        /\ "selected" \in flaws' \/ Migrated(disk) = Migrated(config'.is)
    BY DEF FileFollowsEngine
  <2>2. flaws \cap {"split", "deleted"} = {} BY <1>6, <2>1
  <2>3. /\ disk.strategy = config.is.strategy /\ disk.auto = config.is.auto
        /\ "selected" \in flaws \/ Migrated(disk) = Migrated(config.is)
    BY <2>2 DEF ConfigInv, FileFollowsEngine
  <2>4. QED BY <1>5, <1>6, <2>3
<1>10. FileHasChoice' /\ ChoiceSurvives'
  BY <1>5, <1>6 DEF ConfigInv, FileHasChoice, ChoiceSurvives
<1>11. QED BY <1>7, <1>8, <1>9, <1>10 DEF ConfigInv

LEMMA SelectedKeeps == ASSUME ConfigInv, NEW id \in starts, Selected(id) PROVE ConfigInv'
<1>1. PICK ranking \in Rankings :
        config' = [config EXCEPT !.is.pairs = ranking,
                                 !.is.worlds = IF id = config.id THEN ranking ELSE @]
  BY DEF Selected
<1>2. /\ starts' = starts \ {id} /\ flaws' = flaws \cup {"selected"}
      /\ bot' = (IF CanBegin(config'.is) THEN "starting" ELSE bot)
      /\ UNCHANGED <<disk, tests, wired, chosen, events>>
  BY DEF Selected
<1>3. ranking \in Lists BY DEF Rankings
<1>4. config.is.worlds \in Lists BY DEF ConfigInv, ConfigTypeOK, Configs, Content
<1>5. PICK worlds \in Lists : worlds = IF id = config.id THEN ranking ELSE config.is.worlds
  BY <1>3, <1>4
<1>6. config' = [config EXCEPT !.is = [@ EXCEPT !.pairs = ranking, !.worlds = worlds]]
  BY <1>1, <1>5 DEF ConfigInv, ConfigTypeOK, Configs, Content
<1>7. bot' \in {"down", "starting", "up"} /\ wired' \in [feed : Lists, worlds : Lists]
  BY <1>2 DEF ConfigInv, ConfigTypeOK
<1>8. QED BY <1>2, <1>3, <1>6, <1>7, PairsAreFilledIn

LEMMA InitializeKeeps == ASSUME ConfigInv, Initialize PROVE ConfigInv'
<1>1. /\ bot' = "up" /\ wired' = [feed |-> FeedOf(config.is), worlds |-> WorldsOf(config.is)]
      /\ config' = [config EXCEPT !.is.pairs = FeedOf(config.is)]
      /\ flaws' = (IF config' = config THEN flaws ELSE flaws \cup {"selected"})
      /\ UNCHANGED <<disk, tests, starts, chosen, events>>
  BY DEF Initialize
<1>2. config.is.pairs \in Lists /\ config.is.worlds \in Lists
  BY DEF ConfigInv, ConfigTypeOK, Configs, Content
<1>3. FeedOf(config.is) \in Lists /\ WorldsOf(config.is) \in Lists BY <1>2 DEF FeedOf, WorldsOf
<1>4. PICK pairs \in Lists : pairs = FeedOf(config.is) BY <1>3
<1>5. PICK worlds \in Lists : worlds = config.is.worlds BY <1>2
<1>6. config' = [config EXCEPT !.is = [@ EXCEPT !.pairs = pairs, !.worlds = worlds]]
  <2>1. config' = [config EXCEPT !.is.pairs = pairs] BY <1>1, <1>4
  <2>2. QED BY <1>5, <2>1 DEF ConfigInv, ConfigTypeOK, Configs, Content
<1>7. flaws' = flaws \cup {"selected"} \/ (config' = config /\ flaws' = flaws) BY <1>1
<1>8. bot' \in {"down", "starting", "up"} /\ wired' \in [feed : Lists, worlds : Lists]
  BY <1>1, <1>3
<1>9. QED BY <1>1, <1>6, <1>7, <1>8, PairsAreFilledIn

\* The server ends: what is left is the file.
LEMMA RestartKeeps == ASSUME ConfigInv, Restart PROVE ConfigInv'
<1>1. /\ Occurs /\ disk' \in {disk, NoFile}
      /\ IF disk' = NoFile THEN config' = NoConfig
         ELSE config' = [id |-> events + 1, is |-> Migrated(disk')]
      /\ chosen' = (IF disk' = NoFile THEN NoStrategy ELSE chosen)
      /\ flaws' = flaws \cap {"overtaken"}
      /\ bot' = "down" /\ tests' = {} /\ starts' = {} /\ wired' = [feed |-> <<>>, worlds |-> <<>>]
  BY DEF Restart, Configured
<1>2. disk' \in Content BY <1>1, ListFacts DEF ConfigInv, ConfigTypeOK
<1>3. events \in Nat /\ events' = events + 1 /\ events' \in 0..MaxEvents BY <1>1, NewIdIsNew
<1>4. wired' \in [feed : Lists, worlds : Lists] BY <1>1, ListFacts
<1>5. flaws' \subseteq {"overtaken", "split", "deleted", "selected"} /\ flaws' \subseteq flaws
      /\ ("overtaken" \in flaws => "overtaken" \in flaws') /\ flaws' \cap {"split", "deleted"} = {}
  BY <1>1 DEF ConfigInv, ConfigTypeOK
<1>6. CASE disk' = NoFile
  <2>1. config' = NoConfig /\ chosen' = NoStrategy BY <1>1, <1>6
  <2>2. NoConfig.id = 0 /\ NoConfig.is = NoFile /\ NoFile.strategy = NoStrategy
    BY DEF NoConfig, NoFile
  <2>3. ConfigTypeOK' BY <1>1, <1>2, <1>3, <1>4, <1>5, <2>1, ListFacts DEF ConfigTypeOK
  <2>4. QED BY <1>1, <1>3, <1>6, <2>1, <2>2, <2>3
            DEF ConfigInv, IdsAreOld, FileHasChoice, FileFollowsEngine, ChoiceSurvives
<1>7. CASE disk' # NoFile
  <2>1. PICK new : new = Migrated(disk') OBVIOUS
  <2>2. /\ config' = [id |-> events + 1, is |-> new] /\ chosen' = chosen /\ disk' = disk
    BY <1>1, <1>7, <2>1
  <2>3. /\ new \in Content /\ new.strategy = disk'.strategy /\ new.auto = disk'.auto
        /\ Migrated(new) = new
    BY <1>2, <2>1, MigratedOnce
  <2>4. config' \in Configs /\ config'.id = events + 1 /\ config'.is = new
    BY <1>3, <2>2, <2>3 DEF Configs
  <2>5. ConfigTypeOK'
    BY <1>1, <1>2, <1>3, <1>4, <1>5, <2>2, <2>4 DEF ConfigInv, ConfigTypeOK
  <2>6. IdsAreOld' BY <1>1, <1>3, <2>4 DEF IdsAreOld
  <2>7. FileFollowsEngine' BY <2>1, <2>3, <2>4 DEF FileFollowsEngine
  <2>8. FileHasChoice' BY <1>5, <2>2 DEF ConfigInv, FileHasChoice
  <2>9. ChoiceSurvives'
    BY <1>5, <1>7, <2>2, <2>3, <2>4 DEF ConfigInv, FileHasChoice, ChoiceSurvives
  <2>10. QED BY <2>5, <2>6, <2>7, <2>8, <2>9 DEF ConfigInv
<1>8. QED BY <1>6, <1>7

LEMMA ConfigInvNext == ConfigInv /\ [ConfigNext]_configVars => ConfigInv'
<1> SUFFICES ASSUME ConfigInv, [ConfigNext]_configVars PROVE ConfigInv' OBVIOUS
<1>1. /\ events \in Nat /\ events \in 0..MaxEvents /\ starts \subseteq 0..MaxEvents
      /\ bot \in {"down", "starting", "up"} /\ config.id \in 0..MaxEvents
  BY DEF ConfigInv, ConfigTypeOK, Configs
<1>2. CASE Configure BY <1>2, ConfigureKeeps
<1>3. CASE BeginBacktest
  <2>1. Occurs /\ tests' = tests \cup {config} /\ UNCHANGED <<config, disk, bot, starts, wired, chosen, flaws>>
    BY <1>3 DEF BeginBacktest
  <2>2. events' = events + 1 /\ events' \in 0..MaxEvents BY <2>1, NewIdIsNew
  <2>3. QED BY <1>1, <2>1, <2>2, EngineRests
<1>4. CASE StageMode BY <1>4, StageModeKeeps
<1>5. CASE ToggleMode BY <1>5, ToggleModeKeeps
<1>6. CASE Delete BY <1>6, DeleteKeeps
<1>7. ASSUME NEW test \in tests, BacktestEnds(test) PROVE ConfigInv' BY <1>7, BacktestEndsKeeps
<1>8. ASSUME NEW test \in tests, BacktestFails(test) PROVE ConfigInv'
  BY <1>1, <1>8, EngineRests DEF BacktestFails
<1>9. CASE StartBot
  <2>1. Occurs /\ UNCHANGED <<config, disk, tests, wired, chosen, flaws>> BY <1>9 DEF StartBot
  <2>2. events' = events + 1 /\ events' \in 0..MaxEvents BY <2>1, NewIdIsNew
  <2>3. starts' \subseteq 0..MaxEvents /\ bot' \in {"down", "starting", "up"}
    BY <1>1, <1>9 DEF StartBot
  <2>4. QED BY <1>1, <2>1, <2>2, <2>3, EngineRests
<1>10. CASE Initialize BY <1>10, InitializeKeeps
<1>11. CASE Stops BY <1>1, <1>11, EngineRests DEF Stops
<1>12. CASE Restart BY <1>12, RestartKeeps
<1>13. ASSUME NEW id \in starts, Selected(id) PROVE ConfigInv' BY <1>13, SelectedKeeps
<1>14. ASSUME NEW id \in starts, SelectionFails(id) PROVE ConfigInv'
  BY <1>1, <1>14, EngineRests DEF SelectionFails
<1>15. CASE UNCHANGED configVars BY <1>1, <1>15, EngineRests DEF configVars
<1>16. QED
  BY <1>2, <1>3, <1>4, <1>5, <1>6, <1>7, <1>8, <1>9, <1>10, <1>11, <1>12, <1>13, <1>14, <1>15
     DEF ConfigNext

\* The file brings back what the engine has, and the strategy that was chosen
\* last survives every request, selection, start and restart (the routes, and
\* load() and save() of the store), with the exceptions the flaws name.
THEOREM ConfigurationSurvives == ConfigSpec => []ConfigurationIsKept
<1>1. ConfigInv => ConfigurationIsKept BY DEF ConfigInv, ConfigurationIsKept
<1>2. QED BY <1>1, ConfigInvInit, ConfigInvNext, PTL DEF ConfigSpec
==============================================================================
