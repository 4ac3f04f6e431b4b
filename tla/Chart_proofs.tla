--------------------------- MODULE Chart_proofs ---------------------------
(***************************************************************************)
(* Proofs about what a chart shows: the session that runs a script on the  *)
(* bars of a topic, for every script, window, number of bars and of alerts,*)
(* the indicators, for every set of ids and number of events, and the bars *)
(* under them, for every set of topics, length of loads and of chunks.     *)
(***************************************************************************)
EXTENDS FormingCandle, IndicatorDisplay, ChartBars, FiniteSetTheorems, SequenceTheorems, TLAPS

-----------------------------------------------------------------------------
(* The session of a script: sequences and runs                             *)

LEMMA CutAppended ==
    ASSUME NEW s \in Seq(Nat), NEW x \in Nat
    PROVE  Truncated(Append(s, x), Len(s)) = s /\ Truncated(s, Len(s)) = s
<1> DEFINE a == Append(s, x)
           c == SubSeq(a, 1, Len(s))
<1>1. Len(s) \in Nat BY LenProperties
<1>2. /\ a \in Seq(Nat) /\ Len(a) = Len(s) + 1
      /\ \A i \in 1..Len(s) : a[i] = s[i]
  BY AppendProperties
<1>3. \A i \in 1..Len(s) : a[i] \in Nat BY <1>1, <1>2, ElementOfSeq
<1> HIDE DEF a
<1>4. /\ c \in Seq(Nat) /\ Len(c) = IF 1 <= Len(s) THEN Len(s) - 1 + 1 ELSE 0
      /\ \A i \in 1..(Len(s) - 1 + 1) : c[i] = a[1 + i - 1]
  BY <1>1, <1>3, SubSeqProperties
<1>5. Len(c) = Len(s) BY <1>1, <1>4
<1>6. \A i \in 1..Len(s) : c[i] = s[i]
  <2> SUFFICES ASSUME NEW i \in 1..Len(s) PROVE c[i] = s[i] OBVIOUS
  <2>1. i \in 1..(Len(s) - 1 + 1) /\ 1 + i - 1 = i BY <1>1
  <2>2. c[i] = a[i] BY <1>4, <2>1
  <2>3. QED BY <2>2, <1>2
<1> HIDE DEF c
<1>7. c = s BY <1>4, <1>5, <1>6, SeqEqual
<1>8. Truncated(a, Len(s)) = s
  <2>1. Len(a) > Len(s) BY <1>1, <1>2
  <2>2. QED BY <2>1, <1>7 DEF Truncated, c
<1>9. Truncated(s, Len(s)) = s
  <2>1. ~(Len(s) > Len(s)) BY <1>1
  <2>2. QED BY <2>1 DEF Truncated
<1>10. QED BY <1>8, <1>9 DEF a

LEMMA LastIs ==
    ASSUME NEW s \in Seq(Nat), s # <<>>
    PROVE  Len(s) \in Nat \ {0} /\ Len(s) \in 1..Len(s) /\ Last(s) \in Nat /\ Last(s) = s[Len(s)]
<1>1. Len(s) \in Nat \ {0} BY EmptySeq
<1>2. Len(s) \in 1..Len(s) BY <1>1
<1>3. s[Len(s)] \in Nat BY <1>2, ElementOfSeq
<1>4. QED BY <1>1, <1>2, <1>3 DEF Last

\* A run of a bar leaves a run for the next one, and takes back to the one it started
\* from.
LEMMA ExecuteIs ==
    ASSUME NEW r \in Script!Runs, NEW bar \in Script!Bars
    PROVE  /\ Script!Execute(r, bar) \in Script!Runs
           /\ Restored(r, Script!Execute(r, bar)) = r
           /\ Len(Script!Execute(r, bar).hist) = IF Fails(bar) THEN Len(r.hist) ELSE Len(r.hist) + 1
           /\ Script!Execute(r, bar).strategy.markers \in Nat
<1>1. PICK p \in Nat, d \in SUBSET {"order", "alert", "line", "trim", "fail"} :
         bar.price = p /\ bar.does = d
  BY SessionAssumption DEF Script!Bars
<1>2. /\ r.hist \in Seq(Nat) /\ r.total \in Seq(Nat) /\ r.window \in Seq(Nat)
      /\ r.strategy \in [pending : Nat, position : Nat, markers : Nat]
      /\ r = [hist |-> r.hist, total |-> r.total, window |-> r.window, strategy |-> r.strategy]
  BY DEF Script!Runs
<1>3. PICK x : x = Script!Execute(r, bar) OBVIOUS
<1>4. /\ x.hist = IF "fail" \in d THEN r.hist ELSE Append(r.hist, p)
      /\ x.total = IF "fail" \in d THEN r.total ELSE Script!Accumulated(r.total, p)
      /\ x.window = Script!Pushed(r.window, p)
      /\ x.strategy = Script!Traded(r.strategy, "order" \in d)
      /\ x = [hist |-> x.hist, total |-> x.total, window |-> x.window, strategy |-> x.strategy]
  BY <1>1, <1>3 DEF Script!Execute
<1>5. /\ x.hist \in Seq(Nat)
      /\ Len(x.hist) = IF "fail" \in d THEN Len(r.hist) ELSE Len(r.hist) + 1
      /\ Truncated(x.hist, Len(r.hist)) = r.hist
  <2>1. CASE "fail" \in d BY <2>1, <1>2, <1>4, CutAppended
  <2>2. CASE "fail" \notin d
    <3>1. x.hist = Append(r.hist, p) BY <2>2, <1>4
    <3>2. Append(r.hist, p) \in Seq(Nat) /\ Len(Append(r.hist, p)) = Len(r.hist) + 1
      BY <1>2, AppendProperties
    <3>3. Truncated(Append(r.hist, p), Len(r.hist)) = r.hist BY <1>2, CutAppended
    <3>4. QED BY <3>1, <3>2, <3>3, <2>2
  <2>3. QED BY <2>1, <2>2
<1>6. x.total \in Seq(Nat) /\ Truncated(x.total, Len(r.total)) = r.total
  <2>1. CASE "fail" \in d BY <2>1, <1>2, <1>4, CutAppended
  <2>2. CASE "fail" \notin d
    <3>1. PICK v : v = IF r.total = <<>> THEN p ELSE r.total[Len(r.total)] + p OBVIOUS
    <3>2. x.total = Append(r.total, v) BY <2>2, <3>1, <1>4 DEF Script!Accumulated
    <3>3. v \in Nat
      <4>1. CASE r.total = <<>> BY <4>1, <3>1
      <4>2. CASE r.total # <<>>
        <5>1. r.total[Len(r.total)] \in Nat BY <4>2, <1>2, LastIs
        <5>2. QED BY <4>2, <5>1, <3>1
      <4>3. QED BY <4>1, <4>2
    <3>4. Append(r.total, v) \in Seq(Nat) BY <1>2, <3>3, AppendProperties
    <3>5. Truncated(Append(r.total, v), Len(r.total)) = r.total BY <1>2, <3>3, CutAppended
    <3>6. QED BY <3>2, <3>4, <3>5
  <2>3. QED BY <2>1, <2>2
<1>7. x.window \in Seq(Nat)
  <2>1. PICK w : w = IF Len(r.window) < Window THEN r.window ELSE Tail(r.window) OBVIOUS
  <2>2. w \in Seq(Nat)
    <3>1. CASE Len(r.window) < Window BY <3>1, <2>1, <1>2
    <3>2. CASE ~(Len(r.window) < Window)
      <4>1. r.window # <<>> BY <3>2, SessionAssumption, EmptySeq
      <4>2. Tail(r.window) \in Seq(Nat) BY <4>1, <1>2, HeadTailProperties
      <4>3. QED BY <3>2, <4>2, <2>1
    <3>3. QED BY <3>1, <3>2
  <2>3. x.window = Append(w, p) BY <2>1, <1>4 DEF Script!Pushed
  <2>4. QED BY <2>2, <2>3, AppendProperties
<1>8. x.strategy \in [pending : Nat, position : Nat, markers : Nat]
  <2>1. PICK s \in [pending : Nat, position : Nat, markers : Nat] : s = r.strategy BY <1>2
  <2>2. s.pending \in Nat /\ s.position \in Nat /\ s.markers \in Nat BY <2>1
  <2>3. x.strategy = [pending |-> IF "order" \in d THEN 1 ELSE 0,
                      position |-> s.position + s.pending,
                      markers |-> IF "order" \in d THEN s.markers + 1 ELSE s.markers]
    BY <2>1, <1>4 DEF Script!Traded
  <2>4. CASE "order" \in d BY <2>2, <2>3, <2>4
  <2>5. CASE "order" \notin d BY <2>2, <2>3, <2>5
  <2>6. QED BY <2>4, <2>5
<1>9. x \in Script!Runs BY <1>4, <1>5, <1>6, <1>7, <1>8 DEF Script!Runs
<1>10. Restored(r, x) = r BY <1>2, <1>5, <1>6 DEF Restored
<1>11. x.strategy.markers \in Nat BY <1>8
<1>12. Fails(bar) <=> "fail" \in d BY <1>1 DEF Fails
<1>13. QED BY <1>3, <1>5, <1>9, <1>10, <1>11, <1>12

\* The lines of a run are numbered below the counter.
LEMMA DrawnIs ==
    ASSUME lines \in SUBSET Nat, nextLine \in Nat, \A l \in lines : l < nextLine, NEW bar,
           NEW next, next = IF Draws(bar) THEN nextLine + 1 ELSE nextLine,
           NEW set \in SUBSET Drawn(bar)
    PROVE  set \in SUBSET Nat /\ next \in Nat /\ \A l \in set : l < next
<1>1. ASSUME NEW l \in set PROVE l \in Nat /\ l < next
  <2>1. l \in lines \/ (Draws(bar) /\ l = nextLine) BY DEF Drawn, Trimmed
  <2>2. CASE l \in lines BY <2>2
  <2>3. CASE Draws(bar) /\ l = nextLine BY <2>3
  <2>4. QED BY <2>1, <2>2, <2>3
<1>2. QED BY <1>1

\* The alerts of a run are those there were and at most one more.
LEMMA AlertedIs ==
    ASSUME alerts \in Seq(Nat), Len(alerts) <= MaxAlerts, NEW bar, NEW t \in Nat
    PROVE  LET a == Alerted(bar, t) IN
           /\ a \in Seq(Nat) /\ Len(a) <= MaxAlerts /\ Len(alerts) <= Len(a)
           /\ Len(alerts) < MaxAlerts => a = alerts \/ a = Append(alerts, t)
           /\ CutBack(a) \in Seq(Nat) /\ Len(CutBack(a)) = Len(alerts)
           /\ Len(alerts) < MaxAlerts => CutBack(a) = alerts
<1>1. Len(alerts) \in Nat /\ MaxAlerts \in Nat \ {0} BY LenProperties, SessionAssumption
<1>2. PICK a : a = Alerted(bar, t) OBVIOUS
<1>3. PICK more : more = Append(alerts, t) OBVIOUS
<1>4. more \in Seq(Nat) /\ Len(more) = Len(alerts) + 1 /\ more # <<>> BY <1>3, AppendProperties
<1>5. /\ a \in Seq(Nat) /\ Len(a) <= MaxAlerts /\ Len(alerts) <= Len(a)
      /\ Len(alerts) < MaxAlerts => a = alerts \/ a = more
      /\ a = alerts \/ a = more \/ Len(a) = Len(alerts)
  <2>1. CASE a = alerts BY <2>1, <1>1
  <2>2. CASE a # alerts
    <3>1. a = Capped(more) BY <2>2, <1>2, <1>3 DEF Alerted
    <3>2. CASE Len(more) > MaxAlerts
      <4>1. a = Tail(more) BY <3>1, <3>2 DEF Capped
      <4>2. Tail(more) \in Seq(Nat) /\ Len(Tail(more)) = Len(more) - 1 BY <1>4, HeadTailProperties
      <4>3. QED BY <4>1, <4>2, <3>2, <1>1, <1>4
    <3>3. CASE ~(Len(more) > MaxAlerts)
      <4>1. a = more BY <3>1, <3>3 DEF Capped
      <4>2. QED BY <4>1, <3>3, <1>1, <1>4
    <3>4. QED BY <3>2, <3>3
  <2>3. QED BY <2>1, <2>2
<1>6. CutBack(alerts) = alerts /\ CutBack(more) = alerts BY <1>3, CutAppended DEF CutBack
<1>7. Len(a) = Len(alerts) => CutBack(a) = a BY <1>1, <1>5 DEF CutBack, Truncated
<1>8. CutBack(a) \in Seq(Nat) /\ Len(CutBack(a)) = Len(alerts) BY <1>5, <1>6, <1>7
<1>9. Len(alerts) < MaxAlerts => CutBack(a) = alerts BY <1>5, <1>6
<1>10. QED BY <1>2, <1>3, <1>5, <1>8, <1>9

\* All alerts are counted, and until one is dropped they are of confirmed bars.
CountedInv ==
    /\ counted = Len(alerts)
    /\ Len(alerts) < MaxAlerts => \A i \in 1..Len(alerts) : alerts[i] <= confirmed

SessionInv == SessionIsSound /\ CountedInv

\* A run on a bar that forms takes back what it did, but for the counters and the
\* alerts it pushed out.
LEMMA ComputeIs ==
    ASSUME SessionInv, NEW bar \in Script!Bars, NEW t \in Nat, ComputeFormingCandle(bar, t),
           confirmed' = confirmed, counted' = counted
    PROVE  /\ run' = run
           /\ lines' \in SUBSET Nat /\ nextLine' \in Nat /\ \A l \in lines' : l < nextLine'
           /\ alerts' \in Seq(Nat) /\ Len(alerts') <= MaxAlerts /\ told' \in Nat
           /\ CountedInv'
<1> USE DEF SessionInv, SessionIsSound
<1>1. run' = run /\ told' \in Nat
  BY ExecuteIs DEF ComputeFormingCandle, SessionTypeOK
<1>2. lines' \in SUBSET Nat /\ nextLine' \in Nat /\ \A l \in lines' : l < nextLine'
  <2>1. lines' \in SUBSET Drawn(bar) BY DEF ComputeFormingCandle, Erased
  <2>2. nextLine' = IF Draws(bar) THEN nextLine + 1 ELSE nextLine BY DEF ComputeFormingCandle
  <2>3. lines \in SUBSET Nat /\ nextLine \in Nat /\ \A l \in lines : l < nextLine
    BY DEF SessionTypeOK
  <2>4. QED BY <2>1, <2>2, <2>3, DrawnIs
<1>3. alerts' = CutBack(Alerted(bar, t)) BY DEF ComputeFormingCandle
<1>4. alerts \in Seq(Nat) /\ Len(alerts) <= MaxAlerts BY DEF SessionTypeOK
<1>5. /\ alerts' \in Seq(Nat) /\ Len(alerts') = Len(alerts)
      /\ Len(alerts) < MaxAlerts => alerts' = alerts
  BY <1>3, <1>4, AlertedIs
<1>6. CountedInv' BY <1>5 DEF CountedInv
<1>7. QED BY <1>1, <1>2, <1>4, <1>5, <1>6

LEMMA ConfirmIs ==
    ASSUME SessionInv, NEW bar \in Script!Bars, NEW t \in 1..MaxBars, Confirm(bar, t)
    PROVE  /\ SessionInv'
           /\ run' = Script!Execute(run, bar)
           /\ Len(alerts) < MaxAlerts =>
                 /\ news' \in {<<>>, <<confirmed'>>}
                 /\ (\E i \in DOMAIN alerts' : alerts'[i] = confirmed') => news' # <<>>
<1> USE DEF SessionInv, SessionIsSound
<1>1. /\ t > confirmed /\ t \in {Last(times), Last(times) + 1} /\ confirmed' = t
      /\ times' = [times EXCEPT ![Len(times)] = t]
      /\ run' = Script!Execute(run, bar)
      /\ lines' = Drawn(bar)
      /\ nextLine' = IF Draws(bar) THEN nextLine + 1 ELSE nextLine
      /\ alerts' = Alerted(bar, t)
      /\ told' = run'.strategy.markers
      /\ news' = SubSeq(alerts', counted + 1, Len(alerts'))
      /\ counted' = Len(alerts')
      /\ gap' = (gap \/ Fails(bar) \/ t # Last(times))
  BY DEF Confirm
<1>2. t \in Nat /\ MaxBars \in Nat BY SessionAssumption
<1>3. /\ run \in Script!Runs /\ lines \in SUBSET Nat /\ nextLine \in Nat
      /\ \A l \in lines : l < nextLine
      /\ alerts \in Seq(Nat) /\ Len(alerts) <= MaxAlerts
      /\ times \in Seq(Nat) /\ times # <<>> /\ confirmed \in Nat
  BY DEF SessionTypeOK
<1>4. /\ run' \in Script!Runs /\ told' \in Nat
      /\ Len(run'.hist) = IF Fails(bar) THEN Len(run.hist) ELSE Len(run.hist) + 1
  BY <1>1, <1>3, ExecuteIs
<1>5. lines' \in SUBSET Nat /\ nextLine' \in Nat /\ \A l \in lines' : l < nextLine'
  BY <1>1, <1>3, DrawnIs
<1>6. /\ Len(times) \in Nat \ {0} /\ Len(times) \in 1..Len(times)
      /\ Last(times) \in Nat /\ Last(times) = times[Len(times)]
  BY <1>3, LastIs
<1>7. /\ times' \in Seq(Nat) /\ Len(times') = Len(times) /\ times' # <<>> /\ Last(times') = t
  <2>1. /\ times' \in Seq(Nat) /\ Len(times') = Len(times)
        /\ times'[Len(times)] = t
    BY <1>1, <1>2, <1>3, <1>6, ExceptSeq
  <2>2. times' # <<>> BY <2>1, <1>6, EmptySeq
  <2>3. QED BY <2>1, <2>2 DEF Last
<1>8. PICK a : a = Alerted(bar, t) OBVIOUS
<1>9. /\ a \in Seq(Nat) /\ Len(a) <= MaxAlerts /\ Len(alerts) <= Len(a)
      /\ Len(alerts) < MaxAlerts => a = alerts \/ a = Append(alerts, t)
  BY <1>2, <1>3, <1>8, AlertedIs
<1>10. Len(a) \in Nat /\ Len(alerts) \in Nat /\ MaxAlerts \in Nat /\ counted = Len(alerts)
  BY <1>3, <1>9, LenProperties, SessionAssumption DEF CountedInv
<1>11. news' \in Seq(Nat)
  <2>1. \A i \in (counted + 1)..Len(a) : a[i] \in Nat BY <1>9, <1>10, ElementOfSeq
  <2>2. SubSeq(a, counted + 1, Len(a)) \in Seq(Nat) BY <2>1, <1>10, SubSeqProperties
  <2>3. QED BY <2>2, <1>1, <1>8
<1>12. SessionTypeOK'
  <2>1. counted' \in 0..MaxAlerts BY <1>1, <1>8, <1>9, <1>10
  <2>2. gap' \in BOOLEAN BY <1>1
  <2>3. confirmed' <= Last(times') BY <1>1, <1>2, <1>7
  <2>4. QED BY <2>1, <2>2, <2>3, <1>1, <1>2, <1>4, <1>5, <1>7, <1>8, <1>9, <1>11
           DEF SessionTypeOK
<1>13. IndexFits'
  <2> SUFFICES ASSUME ~gap' PROVE Len(times') = Len(run'.hist) + (IF Last(times') > confirmed' THEN 1 ELSE 0)
    BY DEF IndexFits
  <2>1. ~gap /\ ~Fails(bar) /\ t = Last(times) BY <1>1
  <2>2. Len(times) = Len(run.hist) + 1 BY <2>1, <1>1 DEF IndexFits
  <2>3. ~(Last(times') > confirmed') BY <1>1, <1>2, <1>7
  <2>4. Len(run.hist) \in Nat BY <1>3, LenProperties DEF Script!Runs
  <2>5. QED BY <2>1, <2>2, <2>3, <2>4, <1>4, <1>7
<1>14. CASE Len(alerts) < MaxAlerts /\ a = alerts
  <2>1. ~(Len(a) > counted) BY <1>14, <1>10
  <2>2. news' = <<>>
    <3>1. SubSeq(a, counted + 1, Len(a)) = <<>> BY <1>10, <1>14, SubSeqEmpty
    <3>2. QED BY <3>1, <1>1, <1>8
  <2>3. \A i \in 1..Len(a) : a[i] <= confirmed /\ a[i] \in Nat
    BY <1>14, <1>3, ElementOfSeq DEF CountedInv
  <2>4. DOMAIN alerts' = 1..Len(a) BY <1>1, <1>8, <1>9, LenProperties
  <2>5. ~\E i \in DOMAIN alerts' : alerts'[i] = confirmed'
    BY <2>3, <2>4, <1>1, <1>2, <1>3, <1>8
  <2>6. CountedInv'
    <3>1. \A i \in 1..Len(a) : a[i] <= t BY <2>3, <1>1, <1>2, <1>3
    <3>2. QED BY <3>1, <1>1, <1>8 DEF CountedInv
  <2>7. QED BY <2>2, <2>5, <2>6, <1>1, <1>12, <1>13
<1>15. CASE Len(alerts) < MaxAlerts /\ a = Append(alerts, t)
  <2>1. /\ Len(a) = Len(alerts) + 1 /\ a[Len(alerts) + 1] = t
        /\ \A i \in 1..Len(alerts) : a[i] = alerts[i]
    BY <1>2, <1>3, <1>15, AppendProperties
  <2>2. PICK n : n = SubSeq(a, counted + 1, Len(a)) OBVIOUS
  <2>3. a[counted + 1] \in Nat BY <2>1, <1>2, <1>10
  <2>4. \A i \in (counted + 1)..Len(a) : a[i] \in Nat BY <2>1, <2>3, <1>10
  <2>5. /\ n \in Seq(Nat) /\ Len(n) = IF counted + 1 <= Len(a) THEN Len(a) - (counted + 1) + 1 ELSE 0
        /\ \A i \in 1..(Len(a) - (counted + 1) + 1) : n[i] = a[counted + 1 + i - 1]
    BY <2>2, <2>4, <1>10, SubSeqProperties
  <2>6. Len(n) = 1 /\ n[1] = t
    <3>1. Len(n) = 1 BY <2>1, <2>5, <1>10
    <3>2. n[1] = a[counted + 1 + 1 - 1] BY <2>1, <2>5, <1>10
    <3>3. counted + 1 + 1 - 1 = Len(alerts) + 1 BY <1>10
    <3>4. QED BY <3>1, <3>2, <3>3, <2>1
  <2>7. n = <<t>>
    <3>1. <<t>> \in Seq(Nat) /\ Len(<<t>>) = 1 /\ <<t>>[1] = t BY <1>2
    <3>2. \A i \in 1..Len(n) : n[i] = <<t>>[i] BY <2>6, <3>1
    <3>3. QED BY <3>1, <3>2, <2>5, <2>6, SeqEqual
  <2>8. news' = <<confirmed'>> /\ news' # <<>>
    <3>1. news' = n BY <2>2, <1>1, <1>8
    <3>2. n # <<>> BY <2>6, EmptySeq
    <3>3. QED BY <3>1, <3>2, <2>7, <1>1
  <2>9. CountedInv'
    <3>1. ASSUME NEW i \in 1..Len(a) PROVE a[i] <= t
      <4>1. CASE i \in 1..Len(alerts)
        <5>1. alerts[i] <= confirmed /\ alerts[i] \in Nat
          BY <4>1, <1>3, <1>15, ElementOfSeq DEF CountedInv
        <5>2. QED BY <4>1, <5>1, <2>1, <1>1, <1>2, <1>3
      <4>2. CASE i \notin 1..Len(alerts)
        <5>1. i = Len(alerts) + 1 BY <4>2, <2>1, <1>10
        <5>2. QED BY <5>1, <2>1, <1>2
      <4>3. QED BY <4>1, <4>2
    <3>2. QED BY <3>1, <1>1, <1>8 DEF CountedInv
  <2>10. QED BY <2>8, <2>9, <1>1, <1>12, <1>13
<1>16. CASE ~(Len(alerts) < MaxAlerts)
  <2>1. CountedInv' BY <1>1, <1>8, <1>9, <1>10, <1>16 DEF CountedInv
  <2>2. QED BY <2>1, <1>1, <1>12, <1>13, <1>16
<1>17. QED BY <1>9, <1>14, <1>15, <1>16

-----------------------------------------------------------------------------
(* The session of a script: the theorems                                   *)

LEMMA SessionStarts == SessionInit => SessionInv /\ Script!Init
<1> SUFFICES ASSUME SessionInit PROVE SessionInv /\ Script!Init OBVIOUS
<1>1. PICK bar \in Script!Bars :
         /\ "fail" \notin bar.does
         /\ run = Script!Execute(Script!Nothing, bar)
         /\ lines = IF "line" \in bar.does THEN {0} ELSE {}
         /\ nextLine = Cardinality(lines)
         /\ alerts = IF "alert" \in bar.does THEN <<1>> ELSE <<>>
  BY DEF SessionInit
<1>2. Script!Init BY <1>1 DEF Script!Init
<1>3. /\ told = run.strategy.markers /\ times = <<1>> /\ confirmed = 1
      /\ counted = Len(alerts) /\ news = <<>> /\ gap = FALSE
  BY DEF SessionInit
<1>4. Script!Nothing \in Script!Runs /\ Len(Script!Nothing.hist) = 0
  BY DEF Script!Nothing, Script!Runs
<1>5. run \in Script!Runs /\ Len(run.hist) = 1 /\ told \in Nat
  <2>1. run = Script!Execute(Script!Nothing, bar) /\ ~Fails(bar) BY <1>1 DEF Fails
  <2>2. /\ run \in Script!Runs /\ run.strategy.markers \in Nat
        /\ Len(run.hist) = IF Fails(bar) THEN Len(Script!Nothing.hist)
                                        ELSE Len(Script!Nothing.hist) + 1
    BY <2>1, <1>4, ExecuteIs
  <2>3. QED BY <2>1, <2>2, <1>3, <1>4
<1>6. lines \in SUBSET Nat /\ nextLine \in Nat /\ \A l \in lines : l < nextLine
  <2>1. CASE lines = {} BY <2>1, <1>1, FS_EmptySet
  <2>2. CASE lines = {0}
    <3>1. Cardinality({0}) = 1 BY FS_Singleton
    <3>2. nextLine = 1 BY <3>1, <2>2, <1>1
    <3>3. QED BY <3>2, <2>2
  <2>3. QED BY <2>1, <2>2, <1>1
<1>7. alerts = <<>> \/ alerts = <<1>> BY <1>1
<1>8. /\ alerts \in Seq(Nat) /\ Len(alerts) <= MaxAlerts /\ counted \in 0..MaxAlerts
      /\ \A i \in 1..Len(alerts) : alerts[i] <= 1
  <2>1. MaxAlerts \in Nat \ {0} BY SessionAssumption
  <2>2. CASE alerts = <<>> BY <2>1, <2>2, <1>3
  <2>3. CASE alerts = <<1>> BY <2>1, <2>3, <1>3
  <2>4. QED BY <2>2, <2>3, <1>7
<1>9. times \in Seq(Nat) /\ times # <<>> /\ Len(times) = 1 /\ Last(times) = 1
  BY <1>3 DEF Last
<1>10. news \in Seq(Nat) /\ gap \in BOOLEAN
  <2>1. <<>> \in Seq(Nat) OBVIOUS
  <2>2. QED BY <2>1, <1>3
<1>11. SessionTypeOK BY <1>3, <1>5, <1>6, <1>8, <1>9, <1>10 DEF SessionTypeOK
<1>12. IndexFits BY <1>3, <1>5, <1>9 DEF IndexFits
<1>13. CountedInv BY <1>3, <1>8 DEF CountedInv
<1>14. QED BY <1>2, <1>11, <1>12, <1>13 DEF SessionInv, SessionIsSound

LEMMA TickIs ==
    ASSUME SessionInv, NEW bar \in Script!Bars, NEW t \in 1..MaxBars, Tick(bar, t)
    PROVE  SessionInv' /\ run' = run
<1> USE DEF SessionInv, SessionIsSound
<1>1. /\ t \in {Last(times), Last(times) + 1} /\ t >= confirmed
      /\ ComputeFormingCandle(bar, t) /\ times' = WithTick(t)
      /\ gap' = (gap \/ (Last(times) > confirmed /\ t > Last(times)))
      /\ confirmed' = confirmed /\ counted' = counted /\ news' = news
  BY DEF Tick
<1>2. t \in Nat /\ MaxBars \in Nat BY SessionAssumption
<1>3. /\ run' = run
      /\ lines' \in SUBSET Nat /\ nextLine' \in Nat /\ \A l \in lines' : l < nextLine'
      /\ alerts' \in Seq(Nat) /\ Len(alerts') <= MaxAlerts /\ told' \in Nat
      /\ CountedInv'
  BY <1>1, <1>2, ComputeIs
<1>4. /\ times \in Seq(Nat) /\ times # <<>> /\ confirmed \in Nat /\ confirmed <= Last(times)
      /\ run \in Script!Runs
  BY DEF SessionTypeOK
<1>5. Len(times) \in Nat \ {0} /\ Last(times) \in Nat BY <1>4, LastIs
<1>6. /\ times' \in Seq(Nat) /\ times' # <<>> /\ Last(times') = t
      /\ Len(times') = IF Last(times) = t THEN Len(times) ELSE Len(times) + 1
  <2>1. CASE Last(times) = t
    <3>1. times' = times BY <2>1, <1>1 DEF WithTick
    <3>2. QED BY <3>1, <2>1, <1>4
  <2>2. CASE Last(times) # t
    <3>1. times' = Append(times, t) BY <2>2, <1>1 DEF WithTick
    <3>2. /\ times' \in Seq(Nat) /\ Len(times') = Len(times) + 1
          /\ times'[Len(times) + 1] = t
      BY <3>1, <1>2, <1>4, AppendProperties
    <3>3. times' # <<>> BY <3>2, <1>5, EmptySeq
    <3>4. QED BY <3>2, <3>3, <2>2 DEF Last
  <2>3. QED BY <2>1, <2>2
<1>7. SessionTypeOK'
  <2>1. confirmed' <= Last(times') /\ gap' \in BOOLEAN BY <1>1, <1>2, <1>4, <1>6
  <2>2. confirmed \in Nat /\ counted \in 0..MaxAlerts /\ news \in Seq(Nat) BY DEF SessionTypeOK
  <2>3. QED BY <2>1, <2>2, <1>1, <1>3, <1>4, <1>6 DEF SessionTypeOK
<1>8. IndexFits'
  <2> SUFFICES ASSUME ~gap' PROVE Len(times') = Len(run'.hist) + (IF Last(times') > confirmed' THEN 1 ELSE 0)
    BY DEF IndexFits
  <2>1. ~gap /\ ~(Last(times) > confirmed /\ t > Last(times)) BY <1>1
  <2>2. Len(times) = Len(run.hist) + (IF Last(times) > confirmed THEN 1 ELSE 0)
    BY <2>1 DEF IndexFits
  <2>3. run'.hist = run.hist /\ confirmed' = confirmed BY <1>1, <1>3
  <2>4. Len(run.hist) \in Nat BY <1>4, LenProperties DEF Script!Runs
  <2>5. CASE Last(times) = t BY <2>2, <2>3, <2>5, <1>6
  <2>6. CASE Last(times) # t
    <3>1. t > Last(times) /\ t = Last(times) + 1 BY <2>6, <1>1, <1>5
    <3>2. ~(Last(times) > confirmed) BY <3>1, <2>1
    <3>3. Len(times) = Len(run.hist) BY <3>2, <2>2, <2>4
    <3>4. Last(times') > confirmed' BY <3>1, <1>1, <1>2, <1>4, <1>5, <1>6
    <3>5. QED BY <3>3, <3>4, <2>3, <2>4, <2>6, <1>6
  <2>7. QED BY <2>5, <2>6
<1>9. QED BY <1>3, <1>7, <1>8

\* What a step of the session does: the run of a confirmed bar, or nothing to the run.
LEMMA SessionSteps ==
    SessionInv /\ [SessionNext]_sessionVars =>
        /\ SessionInv'
        /\ run' # run => Script!Next
        /\ confirmed' > confirmed /\ Len(alerts) < MaxAlerts =>
              /\ news' \in {<<>>, <<confirmed'>>}
              /\ (\E i \in DOMAIN alerts' : alerts'[i] = confirmed') => news' # <<>>
<1> DEFINE Told == confirmed' > confirmed /\ Len(alerts) < MaxAlerts =>
              /\ news' \in {<<>>, <<confirmed'>>}
              /\ (\E i \in DOMAIN alerts' : alerts'[i] = confirmed') => news' # <<>>
<1> SUFFICES ASSUME SessionInv, [SessionNext]_sessionVars
             PROVE  SessionInv' /\ (run' # run => Script!Next) /\ Told
  OBVIOUS
<1>1. confirmed \in Nat BY DEF SessionInv, SessionIsSound, SessionTypeOK
<1>2. confirmed' = confirmed => Told BY <1>1
<1>3. ASSUME NEW bar \in Script!Bars, NEW t \in 1..MaxBars, Tick(bar, t)
      PROVE  SessionInv' /\ (run' # run => Script!Next) /\ Told
  BY <1>2, <1>3, TickIs DEF Tick
<1>4. ASSUME NEW bar \in Script!Bars, NEW t \in 1..MaxBars, Confirm(bar, t)
      PROVE  SessionInv' /\ (run' # run => Script!Next) /\ Told
  <2>1. SessionInv' /\ run' = Script!Execute(run, bar) /\ Told BY <1>4, ConfirmIs
  <2>2. Script!Next BY <2>1 DEF Script!Next, Script!Confirm
  <2>3. QED BY <2>1, <2>2
<1>5. ASSUME NEW bar \in Script!Bars, ConfirmAgain(bar)
      PROVE  SessionInv' /\ (run' # run => Script!Next) /\ Told
  <2>1. /\ ComputeFormingCandle(bar, confirmed) /\ times' = times /\ confirmed' = confirmed
        /\ counted' = counted /\ news' = news /\ gap' = gap
    BY <1>5 DEF ConfirmAgain
  <2>2. /\ run' = run
        /\ lines' \in SUBSET Nat /\ nextLine' \in Nat /\ \A l \in lines' : l < nextLine'
        /\ alerts' \in Seq(Nat) /\ Len(alerts') <= MaxAlerts /\ told' \in Nat
        /\ CountedInv'
    BY <1>1, <2>1, ComputeIs
  <2>3. SessionTypeOK' BY <2>1, <2>2 DEF SessionInv, SessionIsSound, SessionTypeOK
  <2>4. IndexFits' BY <2>1, <2>2 DEF SessionInv, SessionIsSound, IndexFits
  <2>5. QED BY <2>1, <2>2, <2>3, <2>4, <1>2 DEF SessionInv, SessionIsSound
<1>6. ASSUME run' = run, lines' = lines, nextLine' = nextLine, alerts' = alerts, told' = told,
             times' = times, confirmed' = confirmed, counted' = counted, gap' = gap,
             news' \in Seq(Nat)
      PROVE  SessionInv' /\ (run' # run => Script!Next) /\ Told
  BY <1>2, <1>6 DEF SessionInv, SessionIsSound, SessionTypeOK, IndexFits, CountedInv
<1>7. CASE GetPendingNewAlertTriggers
  <2>1. news' \in Seq(Nat) BY <1>7 DEF GetPendingNewAlertTriggers
  <2>2. QED BY <1>7, <2>1, <1>6 DEF GetPendingNewAlertTriggers, drawings
<1>8. CASE UNCHANGED sessionVars
  <2>1. news' \in Seq(Nat) BY <1>8 DEF sessionVars, SessionInv, SessionIsSound, SessionTypeOK
  <2>2. QED BY <1>8, <2>1, <1>6 DEF sessionVars, drawings
<1>9. QED BY <1>3, <1>4, <1>5, <1>7, <1>8 DEF SessionNext

THEOREM SessionInvariant == SessionSpec => []SessionInv
<1>1. SessionInit => SessionInv BY SessionStarts
<1>2. SessionInv /\ [SessionNext]_sessionVars => SessionInv' BY SessionSteps
<1>3. QED BY <1>1, <1>2, PTL DEF SessionSpec

\* The bars of the manager and the history of the engine stay in step: until a bar
\* fails or is lost, the index a bar is handed over with is its place in the history.
THEOREM SessionsAreSound == SessionSpec => []SessionIsSound
<1>1. SessionInv => SessionIsSound BY DEF SessionInv
<1>2. QED BY <1>1, SessionInvariant, PTL

\* Ticks are taken back: however many there are and whatever the script does on
\* them, the session runs the script on its confirmed bars only (ScriptRun).
THEOREM TicksAreTakenBack == SessionSpec => TicksLeaveNoTrace
<1>1. SessionInit => Script!Init BY SessionStarts
<1>2. SessionInv /\ [SessionNext]_sessionVars => [run' # run => Script!Next]_run
  BY SessionSteps
<1>3. QED BY <1>1, <1>2, SessionInvariant, PTL DEF SessionSpec, TicksLeaveNoTrace

\* The same as a refinement: a session implements the script's own specification.
THEOREM SessionRunsTheScript == SessionSpec => Script!Spec
<1>1. SessionInit => Script!Init BY SessionStarts
<1>2. SessionInv /\ [SessionNext]_sessionVars => [Script!Next]_run BY SessionSteps
<1>3. QED BY <1>1, <1>2, SessionInvariant, PTL DEF SessionSpec, Script!Spec

\* The news of a confirmed bar are its own alert, once, however many alerts the ticks
\* before it raised, as long as no trigger was dropped.
THEOREM AlertsAreTold == SessionSpec => AlertsAreNews
<1>1. SessionInv /\ [SessionNext]_sessionVars =>
        [confirmed' > confirmed /\ Len(alerts) < MaxAlerts =>
              /\ news' \in {<<>>, <<confirmed'>>}
              /\ (\E i \in DOMAIN alerts' : alerts'[i] = confirmed') => news' # <<>>]_sessionVars
  BY SessionSteps
<1>2. QED BY <1>1, SessionInvariant, PTL DEF SessionSpec, AlertsAreNews

-----------------------------------------------------------------------------
(* The indicators: what is on its way to each                              *)

\* A run that will be taken, or a request that brings one.
Coming(i) ==
    \/ \E r \in runs : r.id = i /\ ~Stale(r)
    \/ \E q \in requests : q.kind = "load" \/ (q.kind = "list" /\ i \in q.ids)

\* The same, or the scroll-back that is under way runs it or has run it.
Due(i) == Coming(i) \/ i \in older.todo \/ older.done[i] = data

\* What App and the hook know are ids the server handed out.
KnownInv ==
    /\ server \subseteq history.known /\ labels \subseteq history.known
    /\ sources \subseteq history.known
    /\ \A i \in Ids : deleting[i] # "no" => i \in history.known
    /\ \A q \in requests : q.kind = "list" => q.ids \subseteq history.known
    /\ \A i \in Ids \ history.known : older.done[i] = Nothing

\* Datasets are numbered by the events, and those that were computed are whole.
DataInv ==
    /\ data.epoch <= history.events /\ data.chunks <= history.events /\ data.whole
    /\ \A i \in Ids : /\ session[i] # Nothing => session[i].whole
                      /\ mail[i] # Nothing => mail[i].whole
    /\ \A r \in runs : r.data.whole
    /\ ~older.busy => older = Idle

\* Only what a list or the computing ids brought back is active when it is gone.
GoneIsInactive ==
    \A i \in Ids \ history.relisted : i \notin server \/ deleting[i] # "no" => i \notin active

\* A run that will be taken is of a script the hook has; generations only grow.
RunsHaveSources ==
    \A r \in runs : r.gen <= gen[r.id] /\ (~Stale(r) /\ r.id \in server => r.id \in sources)

\* Until something slips: runs in flight compute over the bars of the chart, ...
RunsAreCurrent == \A r \in runs : r.data = data

\* ... a script has its result over them, or one is due; ...
ResultsAreDue ==
    \A i \in sources \cap server :
        /\ Due(i) \/ results[i] = data
        /\ Coming(i) \/ session[i].epoch = data.epoch

\* ... the results of a chunk are whole; ...
ChunksAreWhole ==
    /\ \A i \in server : older.done[i] \in {Nothing, data}
    /\ \A i \in older.todo \cap sources \cap server :
          (\E r \in runs : r.id = i /\ ~Stale(r)) \/ (results[i] # Nothing /\ results[i].whole)

\* ... and an active indicator is drawn, or due.
DrawnIsDue ==
    \A i \in (active \ history.late) \cap server : i \in sources /\ (Due(i) \/ shown[i] = data)

UnlessSlipped == RunsAreCurrent /\ ResultsAreDue /\ ChunksAreWhole /\ DrawnIsDue

IndicatorInv ==
    /\ TypeOK /\ KnownInv /\ DataInv
    /\ GoneIsInactive /\ RemovedStaysGone
    /\ RunsHaveSources
    /\ ~history.slipped => UnlessSlipped

LEMMA DataIs ==
    ASSUME TypeOK, DataInv
    PROVE  /\ data # Nothing /\ Nothing \in Datasets /\ Idle.done \in [Ids -> Datasets]
           /\ data.epoch \in Nat /\ data.chunks \in Nat /\ data.whole = TRUE
           /\ data = [epoch |-> data.epoch, chunks |-> data.chunks, whole |-> TRUE]
           /\ data.epoch <= history.events /\ data.chunks <= history.events
           /\ history.events \in 0..MaxEvents /\ MaxEvents \in Nat
<1>1. data \in Datasets /\ data.whole /\ history.events \in 0..MaxEvents
  BY DEF TypeOK, DataInv
<1>2. data.whole = TRUE BY <1>1 DEF Datasets
<1>3. Nothing \in Datasets /\ Nothing.whole = FALSE BY DisplayAssumption DEF Datasets, Nothing
<1>4. Idle.done \in [Ids -> Datasets] BY <1>3 DEF Idle
<1>5. data.epoch \in Nat /\ data.chunks \in Nat BY <1>1, DisplayAssumption DEF Datasets
<1>6. data = [epoch |-> data.epoch, chunks |-> data.chunks, whole |-> TRUE]
  BY <1>1, <1>2 DEF Datasets
<1>7. data.epoch <= history.events /\ data.chunks <= history.events BY DEF DataInv
<1>8. QED BY <1>1, <1>2, <1>3, <1>4, <1>5, <1>6, <1>7, DisplayAssumption

\* The fields that a step writes of the history.
LEMMA HistoryIs ==
    ASSUME TypeOK, NEW k \in SUBSET Ids, NEW r \in SUBSET Ids, NEW l \in SUBSET Ids,
           NEW s \in BOOLEAN, NEW e \in 0..MaxEvents,
           history' = [known |-> k, relisted |-> r, late |-> l, slipped |-> s, events |-> e]
    PROVE  history' \in [known : SUBSET Ids, relisted : SUBSET Ids, late : SUBSET Ids,
                         slipped : BOOLEAN, events : 0..MaxEvents]
OBVIOUS

LEMMA SwitchTypes == IndicatorInv /\ Switch => TypeOK'
<1> SUFFICES ASSUME TypeOK, DataInv, Switch PROVE TypeOK' BY DEF IndicatorInv
<1>1. history.events < MaxEvents BY DEF Switch
<1>2. data.epoch + 1 \in 0..MaxEvents BY <1>1, DataIs
<1>3. data' \in Datasets BY <1>2, DisplayAssumption DEF Switch, Datasets
<1>4. requests' \subseteq [kind : {"load"}, epoch : 0..MaxEvents] \cup [kind : {"list"}, ids : SUBSET Ids]
  <2>1. [kind |-> "load", epoch |-> data.epoch + 1] \in [kind : {"load"}, epoch : 0..MaxEvents] BY <1>2
  <2>2. requests \subseteq [kind : {"load"}, epoch : 0..MaxEvents] \cup [kind : {"list"}, ids : SUBSET Ids] BY DEF TypeOK
  <2>3. requests' = requests \cup {[kind |-> "load", epoch |-> data.epoch + 1]} BY DEF Switch
  <2>4. QED BY <2>1, <2>2, <2>3, Zenon
<1>5. results' \in [Ids -> Datasets] /\ shown' \in [Ids -> Datasets] BY DataIs DEF Switch
<1>6. history' \in [known : SUBSET Ids, relisted : SUBSET Ids, late : SUBSET Ids, slipped : BOOLEAN, events : 0..MaxEvents]
  <2>1. (history.slipped \/ InFlight) \in BOOLEAN OBVIOUS
  <2>2. history' = [history EXCEPT !.slipped = @ \/ InFlight, !.events = @ + 1] BY DEF Switch
  <2>3. history.events + 1 \in 0..MaxEvents BY <1>1, DataIs
  <2>4. QED BY <2>1, <2>2, <2>3 DEF TypeOK
<1>7. computing' \subseteq Ids BY DEF Switch, TypeOK
<1>8. QED BY <1>3, <1>4, <1>5, <1>6, <1>7 DEF Switch, TypeOK, user, marks

-----------------------------------------------------------------------------
(* The indicators: what the parts of a step do                             *)

LEMMA OnlyIs ==
    ASSUME TypeOK, DataInv, NEW i \in Ids, NEW d \in Datasets
    PROVE  /\ Only(i, d) \in [Ids -> Datasets]
           /\ Only(i, d)[i] = d
           /\ \A j \in Ids \ {i} : Only(i, d)[j] = Nothing
<1>1. Idle.done = [j \in Ids |-> Nothing] BY DEF Idle
<1>2. Nothing \in Datasets BY DataIs
<1>3. QED BY <1>1, <1>2 DEF Only

LEMMA DeliverIs ==
    ASSUME TypeOK, NEW result \in [Ids -> Datasets], Deliver(result)
    PROVE  /\ shown' \in [Ids -> Datasets] /\ computing' \subseteq Ids
           /\ \A i \in Ids : shown'[i] = IF result[i] # Nothing /\ i \in active THEN result[i] ELSE shown[i]
BY DEF Deliver, TypeOK

\* The result of one script reaches what is shown if it is active.
LEMMA DeliverOne ==
    ASSUME TypeOK, DataInv, NEW i \in Ids, NEW d \in Datasets, Deliver(Only(i, d))
    PROVE  /\ shown' \in [Ids -> Datasets] /\ computing' \subseteq Ids
           /\ \A j \in Ids \ {i} : shown'[j] = shown[j]
           /\ d # Nothing /\ i \in active => shown'[i] = d
           /\ i \notin active => shown'[i] = shown[i]
<1>1. PICK o : o = Only(i, d) OBVIOUS
<1>2. o \in [Ids -> Datasets] /\ o[i] = d /\ \A j \in Ids \ {i} : o[j] = Nothing
  BY <1>1, OnlyIs
<1>3. /\ shown' \in [Ids -> Datasets] /\ computing' \subseteq Ids
      /\ \A j \in Ids : shown'[j] = IF o[j] # Nothing /\ j \in active THEN o[j] ELSE shown[j]
  BY <1>1, <1>2, DeliverIs
<1>4. QED BY <1>2, <1>3

LEMMA StartedIs ==
    ASSUME TypeOK, NEW ids \in SUBSET Ids, Started(ids)
    PROVE  /\ sources' = sources \cup ids /\ sources' \subseteq Ids
           /\ older' \in [busy : BOOLEAN, todo : SUBSET Ids, done : [Ids -> Datasets]]
           /\ older'.busy = older.busy /\ older'.done = older.done
           /\ older.todo \subseteq older'.todo /\ older'.todo \subseteq older.todo \cup (ids \ sources)
           /\ ~older.busy => older' = older
           /\ runs' \subseteq [id : Ids, gen : Nat, data : Datasets]
           /\ runs \subseteq runs'
           /\ \A i \in ids : [id |-> i, gen |-> gen[i], data |-> data] \in runs'
           /\ \A r \in runs' : r \in runs \/ (r.id \in ids /\ r.gen = gen[r.id] /\ r.data = data)
<1>1. /\ sources \subseteq Ids /\ gen \in [Ids -> Nat] /\ data \in Datasets
      /\ runs \subseteq [id : Ids, gen : Nat, data : Datasets]
      /\ older \in [busy : BOOLEAN, todo : SUBSET Ids, done : [Ids -> Datasets]]
  BY DEF TypeOK
<1>2. sources' = sources \cup ids /\ sources' \subseteq Ids BY <1>1 DEF Started
<1>3. /\ older' \in [busy : BOOLEAN, todo : SUBSET Ids, done : [Ids -> Datasets]]
      /\ older'.busy = older.busy /\ older'.done = older.done
      /\ older.todo \subseteq older'.todo /\ older'.todo \subseteq older.todo \cup (ids \ sources)
      /\ ~older.busy => older' = older
  <2>1. older' = IF older.busy THEN [older EXCEPT !.todo = @ \cup (ids \ sources)] ELSE older
    BY DEF Started
  <2>2. CASE older.busy
    <3>1. older.todo \cup (ids \ sources) \subseteq Ids BY <1>1
    <3>2. QED BY <2>1, <2>2, <3>1, <1>1
  <2>3. CASE ~older.busy BY <2>1, <2>3, <1>1
  <2>4. QED BY <2>2, <2>3
<1>4. runs' = runs \cup {[id |-> i, gen |-> gen[i], data |-> data] : i \in ids} BY DEF Started
<1>5. runs \subseteq runs' /\ \A i \in ids : [id |-> i, gen |-> gen[i], data |-> data] \in runs'
  BY <1>4
<1>6. \A r \in runs' : r \in runs \/ (r.id \in ids /\ r.gen = gen[r.id] /\ r.data = data)
  BY <1>4
<1>7. runs' \subseteq [id : Ids, gen : Nat, data : Datasets]
  <2>1. ASSUME NEW i \in ids
        PROVE  [id |-> i, gen |-> gen[i], data |-> data] \in [id : Ids, gen : Nat, data : Datasets]
    <3>1. i \in Ids /\ gen[i] \in Nat BY <1>1
    <3>2. QED BY <3>1, <1>1
  <2>2. QED BY <2>1, <1>1, <1>4
<1>8. QED BY <1>2, <1>3, <1>5, <1>6, <1>7

-----------------------------------------------------------------------------
(* The indicators: each step keeps the invariant                           *)

LEMMA SwitchKeeps == IndicatorInv /\ Switch => IndicatorInv'
<1> SUFFICES ASSUME IndicatorInv, Switch PROVE IndicatorInv' OBVIOUS
<1>1. TypeOK /\ KnownInv /\ DataInv BY DEF IndicatorInv
<1>2. TypeOK' BY SwitchTypes
<1>3. /\ data' = [epoch |-> data.epoch + 1, chunks |-> 0, whole |-> TRUE]
      /\ requests' = requests \cup {[kind |-> "load", epoch |-> data.epoch + 1]}
      /\ server' = server /\ labels' = labels /\ deleting' = deleting /\ active' = active
      /\ sources' = sources /\ gen' = gen /\ runs' = runs /\ older' = older
      /\ session' = session /\ mail' = mail
      /\ shown' = [i \in Ids |-> Nothing]
  BY DEF Switch, user
<1>4. /\ history'.known = history.known /\ history'.relisted = history.relisted
      /\ history'.late = history.late /\ history'.events = history.events + 1
      /\ ~history'.slipped => ~history.slipped /\ ~InFlight
  BY <1>1 DEF Switch, TypeOK
<1>5. KnownInv' BY <1>1, <1>3, <1>4 DEF KnownInv
<1>6. DataInv'
  <2>1. data'.epoch <= history'.events /\ data'.chunks <= history'.events /\ data'.whole
    BY <1>1, <1>3, <1>4, DataIs
  <2>2. QED BY <2>1, <1>1, <1>3 DEF DataInv
<1>7. GoneIsInactive' /\ RemovedStaysGone'
  BY <1>3, <1>4 DEF IndicatorInv, GoneIsInactive, RemovedStaysGone
<1>8. RunsHaveSources' BY <1>3 DEF IndicatorInv, RunsHaveSources, Stale
<1>9. ASSUME ~history'.slipped PROVE UnlessSlipped'
  <2>1. UnlessSlipped /\ runs = {} /\ ~older.busy /\ older = Idle
    BY <1>1, <1>4, <1>9 DEF IndicatorInv, InFlight, DataInv
  <2>2. \A i \in Ids : Coming(i)'
    <3>1. PICK q \in requests' : q = [kind |-> "load", epoch |-> data.epoch + 1] BY <1>3
    <3>2. q.kind = "load" BY <3>1
    <3>3. QED BY <3>2 DEF Coming
  <2>3. \A i \in Ids : Due(i)' BY <2>2 DEF Due
  <2>4. server \subseteq Ids /\ active \subseteq Ids /\ sources \subseteq Ids BY <1>1 DEF TypeOK
  <2>5. RunsAreCurrent' BY <2>1, <1>3 DEF RunsAreCurrent
  <2>6. ResultsAreDue' BY <2>2, <2>3, <2>4, <1>3 DEF ResultsAreDue
  <2>7. ChunksAreWhole'
    <3>1. \A i \in server : older.done[i] = Nothing BY <2>1, <2>4 DEF Idle
    <3>2. older.todo = {} BY <2>1 DEF Idle
    <3>3. QED BY <3>1, <3>2, <1>3 DEF ChunksAreWhole
  <2>8. DrawnIsDue' BY <2>1, <2>3, <2>4, <1>3, <1>4 DEF DrawnIsDue, UnlessSlipped
  <2>9. QED BY <2>5, <2>6, <2>7, <2>8 DEF UnlessSlipped
<1>10. QED BY <1>2, <1>5, <1>6, <1>7, <1>8, <1>9 DEF IndicatorInv

LEMMA BarsLoadedKeeps == IndicatorInv /\ BarsLoaded => IndicatorInv'
<1> SUFFICES ASSUME IndicatorInv, BarsLoaded PROVE IndicatorInv' OBVIOUS
<1>1. TypeOK /\ KnownInv /\ DataInv BY DEF IndicatorInv
<1>2. PICK load \in requests :
         /\ load.kind = "load"
         /\ requests' = (requests \ {load}) \cup {[kind |-> "list", ids |-> server]}
         /\ UNCHANGED <<data, user, marks, books, runs, older, session, mail, history>>
  BY DEF BarsLoaded
<1>3. /\ data' = data /\ server' = server /\ labels' = labels /\ deleting' = deleting
      /\ active' = active /\ computing' = computing /\ sources' = sources /\ gen' = gen
      /\ results' = results /\ shown' = shown /\ runs' = runs /\ older' = older
      /\ session' = session /\ mail' = mail /\ history' = history
  BY <1>2 DEF user, marks, books
<1>4. server \subseteq Ids BY <1>1 DEF TypeOK
<1>5. requests' \subseteq [kind : {"load"}, epoch : 0..MaxEvents] \cup [kind : {"list"}, ids : SUBSET Ids]
  <2>1. [kind |-> "list", ids |-> server] \in [kind : {"list"}, ids : SUBSET Ids] BY <1>4
  <2>2. requests \subseteq [kind : {"load"}, epoch : 0..MaxEvents] \cup [kind : {"list"}, ids : SUBSET Ids]
    BY <1>1 DEF TypeOK
  <2>3. QED BY <2>1, <2>2, <1>2, Zenon
<1>6. TypeOK' BY <1>1, <1>3, <1>5 DEF TypeOK
<1>7. KnownInv' BY <1>1, <1>2, <1>3 DEF KnownInv
<1>8. DataInv' BY <1>1, <1>3 DEF DataInv
<1>9. GoneIsInactive' /\ RemovedStaysGone'
  BY <1>3 DEF IndicatorInv, GoneIsInactive, RemovedStaysGone
<1>10. RunsHaveSources' BY <1>3 DEF IndicatorInv, RunsHaveSources, Stale
<1>11. \A i \in server : (Coming(i) => Coming(i)') /\ (Due(i) => Due(i)')
  <2>1. ASSUME NEW i \in server, Coming(i) PROVE Coming(i)'
    <3>1. CASE \E r \in runs : r.id = i /\ ~Stale(r) BY <3>1, <1>3 DEF Coming, Stale
    <3>2. CASE \E q \in requests : q.kind = "load" \/ (q.kind = "list" /\ i \in q.ids)
      <4>1. PICK q \in requests : q.kind = "load" \/ (q.kind = "list" /\ i \in q.ids) BY <3>2
      <4>2. CASE q = load
        <5>1. PICK p \in requests' : p = [kind |-> "list", ids |-> server] BY <1>2
        <5>2. p.kind = "list" /\ i \in p.ids BY <5>1
        <5>3. QED BY <5>2 DEF Coming
      <4>3. CASE q # load
        <5>1. q \in requests' BY <4>3, <1>2
        <5>2. QED BY <5>1, <4>1 DEF Coming
      <4>4. QED BY <4>2, <4>3
    <3>3. QED BY <2>1, <3>1, <3>2 DEF Coming
  <2>2. QED BY <2>1, <1>3 DEF Due
<1>12. ASSUME ~history'.slipped PROVE UnlessSlipped'
  <2>1. UnlessSlipped BY <1>3, <1>12 DEF IndicatorInv
  <2>2. RunsAreCurrent' BY <2>1, <1>3 DEF UnlessSlipped, RunsAreCurrent
  <2>3. ResultsAreDue' BY <2>1, <1>3, <1>11 DEF UnlessSlipped, ResultsAreDue
  <2>4. ChunksAreWhole' BY <2>1, <1>3 DEF UnlessSlipped, ChunksAreWhole, Stale
  <2>5. DrawnIsDue' BY <2>1, <1>3, <1>11 DEF UnlessSlipped, DrawnIsDue
  <2>6. QED BY <2>2, <2>3, <2>4, <2>5 DEF UnlessSlipped
<1>13. QED BY <1>6, <1>7, <1>8, <1>9, <1>10, <1>12 DEF IndicatorInv

LEMMA ListArrivesKeeps == IndicatorInv /\ ListArrives => IndicatorInv'
<1> SUFFICES ASSUME IndicatorInv, ListArrives PROVE IndicatorInv' OBVIOUS
<1>1. TypeOK /\ KnownInv /\ DataInv BY DEF IndicatorInv
<1>2. PICK list \in requests :
         /\ list.kind = "list"
         /\ requests' = requests \ {list}
         /\ labels' = list.ids /\ active' = list.ids /\ computing' = list.ids
         /\ Started(list.ids)
         /\ history' = [history EXCEPT !.late = {},
              !.relisted = @ \cup {i \in list.ids : i \notin server \/ deleting[i] # "no"}]
         /\ UNCHANGED <<data, server, deleting, gen, results, shown, session, mail>>
  BY DEF ListArrives
<1>3. /\ data' = data /\ server' = server /\ deleting' = deleting /\ gen' = gen
      /\ results' = results /\ shown' = shown /\ session' = session /\ mail' = mail
  BY <1>2
<1>4. PICK ids \in SUBSET Ids : ids = list.ids /\ ids \subseteq history.known
  <2>1. list \in [kind : {"load"}, epoch : 0..MaxEvents] \cup [kind : {"list"}, ids : SUBSET Ids]
    BY <1>1 DEF TypeOK
  <2>2. list \notin [kind : {"load"}, epoch : 0..MaxEvents] BY <1>2
  <2>3. list.ids \in SUBSET Ids BY <2>1, <2>2
  <2>4. QED BY <2>3, <1>1, <1>2 DEF KnownInv
<1>5. /\ history'.known = history.known /\ history'.slipped = history.slipped
      /\ history'.events = history.events /\ history'.late = {}
      /\ history'.relisted = history.relisted \cup {i \in ids : i \notin server \/ deleting[i] # "no"}
      /\ history' \in [known : SUBSET Ids, relisted : SUBSET Ids, late : SUBSET Ids,
                       slipped : BOOLEAN, events : 0..MaxEvents]
  BY <1>1, <1>2, <1>4 DEF TypeOK
<1>6. /\ sources' = sources \cup ids /\ sources' \subseteq Ids
      /\ older' \in [busy : BOOLEAN, todo : SUBSET Ids, done : [Ids -> Datasets]]
      /\ older'.busy = older.busy /\ older'.done = older.done
      /\ older.todo \subseteq older'.todo /\ older'.todo \subseteq older.todo \cup (ids \ sources)
      /\ ~older.busy => older' = older
      /\ runs' \subseteq [id : Ids, gen : Nat, data : Datasets]
      /\ runs \subseteq runs'
      /\ \A i \in ids : [id |-> i, gen |-> gen[i], data |-> data] \in runs'
      /\ \A r \in runs' : r \in runs \/ (r.id \in ids /\ r.gen = gen[r.id] /\ r.data = data)
  BY <1>1, <1>2, <1>4, StartedIs
<1>7. TypeOK' BY <1>1, <1>2, <1>3, <1>4, <1>5, <1>6 DEF TypeOK
<1>8. KnownInv' BY <1>1, <1>2, <1>3, <1>4, <1>5, <1>6 DEF KnownInv
<1>9. DataInv' BY <1>1, <1>3, <1>5, <1>6 DEF DataInv
<1>10. GoneIsInactive' /\ RemovedStaysGone'
  BY <1>2, <1>3, <1>4, <1>5 DEF IndicatorInv, GoneIsInactive, RemovedStaysGone
<1>11. RunsHaveSources' BY <1>3, <1>6 DEF IndicatorInv, RunsHaveSources, Stale
<1>12. \A i \in ids : \E r \in runs' : r.id = i /\ r.gen = gen[i]
  <2> SUFFICES ASSUME NEW i \in ids PROVE \E r \in runs' : r.id = i /\ r.gen = gen[i] OBVIOUS
  <2>1. PICK r \in runs' : r = [id |-> i, gen |-> gen[i], data |-> data] BY <1>6
  <2>2. QED BY <2>1
<1>13. \A i \in ids : Coming(i)' BY <1>3, <1>12 DEF Coming, Stale
<1>14. \A i \in Ids : (Coming(i) => Coming(i)') /\ (Due(i) => Due(i)')
  <2> SUFFICES ASSUME NEW i \in Ids, i \notin ids PROVE (Coming(i) => Coming(i)') /\ (Due(i) => Due(i)')
    BY <1>13 DEF Due
  <2>1. ASSUME Coming(i) PROVE Coming(i)'
    <3>1. CASE \E r \in runs : r.id = i /\ ~Stale(r) BY <3>1, <1>3, <1>6 DEF Coming, Stale
    <3>2. CASE \E q \in requests : q.kind = "load" \/ (q.kind = "list" /\ i \in q.ids)
      <4>1. PICK q \in requests : q.kind = "load" \/ (q.kind = "list" /\ i \in q.ids) BY <3>2
      <4>2. q # list BY <4>1, <1>2, <1>4
      <4>3. q \in requests' BY <4>2, <1>2
      <4>4. QED BY <4>1, <4>3 DEF Coming
    <3>3. QED BY <2>1, <3>1, <3>2 DEF Coming
  <2>2. QED BY <2>1, <1>3, <1>6 DEF Due
<1>15. ASSUME ~history'.slipped PROVE UnlessSlipped'
  <2>1. UnlessSlipped BY <1>5, <1>15 DEF IndicatorInv
  <2>2. server \subseteq Ids /\ sources \subseteq Ids BY <1>1 DEF TypeOK
  <2>3. RunsAreCurrent' BY <2>1, <1>3, <1>6 DEF UnlessSlipped, RunsAreCurrent
  <2>4. ResultsAreDue'
    BY <2>1, <2>2, <1>3, <1>6, <1>13, <1>14 DEF UnlessSlipped, ResultsAreDue, Due
  <2>5. ChunksAreWhole'
    BY <2>1, <1>3, <1>6, <1>12 DEF UnlessSlipped, ChunksAreWhole, Stale
  <2>6. DrawnIsDue' BY <1>2, <1>4, <1>6, <1>13 DEF DrawnIsDue, Due
  <2>7. QED BY <2>3, <2>4, <2>5, <2>6 DEF UnlessSlipped
<1>16. QED BY <1>7, <1>8, <1>9, <1>10, <1>11, <1>15 DEF IndicatorInv

LEMMA RunEndsKeeps == ASSUME IndicatorInv, NEW r \in runs, RunEnds(r) PROVE IndicatorInv'
<1>1. TypeOK /\ KnownInv /\ DataInv BY DEF IndicatorInv
<1>2. PICK i \in Ids, d \in Datasets : i = r.id /\ d = r.data BY <1>1 DEF TypeOK
<1>3. /\ runs' = runs \ {r} /\ data' = data /\ requests' = requests
      /\ server' = server /\ labels' = labels /\ deleting' = deleting /\ active' = active
      /\ sources' = sources /\ gen' = gen /\ older' = older /\ mail' = mail /\ history' = history
      /\ IF Stale(r) THEN UNCHANGED <<results, shown, computing, session>>
         ELSE /\ results' = [results EXCEPT ![i] = d] /\ Deliver(Only(i, d))
              /\ session' = [session EXCEPT ![i] = d]
  BY <1>2 DEF RunEnds, user
<1>4. /\ results' \in [Ids -> Datasets] /\ shown' \in [Ids -> Datasets]
      /\ session' \in [Ids -> Datasets] /\ computing' \subseteq Ids
      /\ \A j \in Ids \ {i} : results'[j] = results[j] /\ shown'[j] = shown[j] /\ session'[j] = session[j]
      /\ Stale(r) => results' = results /\ shown' = shown /\ session' = session
      /\ ~Stale(r) => /\ results'[i] = d /\ session'[i] = d
                      /\ d # Nothing /\ i \in active => shown'[i] = d
      /\ i \notin active => shown'[i] = shown[i]
  <2>1. CASE Stale(r) BY <2>1, <1>1, <1>3 DEF TypeOK
  <2>2. CASE ~Stale(r)
    <3>1. Deliver(Only(i, d)) BY <2>2, <1>3
    <3>2. /\ shown' \in [Ids -> Datasets] /\ computing' \subseteq Ids
          /\ \A j \in Ids \ {i} : shown'[j] = shown[j]
          /\ d # Nothing /\ i \in active => shown'[i] = d
          /\ i \notin active => shown'[i] = shown[i]
      BY <1>1, <1>2, <3>1, DeliverOne
    <3>3. /\ results' \in [Ids -> Datasets] /\ results'[i] = d
          /\ \A j \in Ids \ {i} : results'[j] = results[j]
      BY <2>2, <1>1, <1>3 DEF TypeOK
    <3>4. /\ session' \in [Ids -> Datasets] /\ session'[i] = d
          /\ \A j \in Ids \ {i} : session'[j] = session[j]
      BY <2>2, <1>1, <1>3 DEF TypeOK
    <3>5. QED BY <2>2, <3>2, <3>3, <3>4
  <2>3. QED BY <2>1, <2>2
<1>5. TypeOK' BY <1>1, <1>3, <1>4 DEF TypeOK
<1>6. KnownInv' BY <1>1, <1>3 DEF KnownInv
<1>7. DataInv' BY <1>1, <1>2, <1>3, <1>4 DEF DataInv, TypeOK
<1>8. GoneIsInactive' /\ RemovedStaysGone'
  <2>1. GoneIsInactive' BY <1>3 DEF IndicatorInv, GoneIsInactive
  <2>2. RemovedStaysGone'
    <3> SUFFICES ASSUME NEW j \in Ids \ history.relisted, j \notin server \/ deleting[j] # "no"
                 PROVE  shown'[j] = Nothing
      BY <1>3 DEF RemovedStaysGone
    <3>1. j \notin active /\ shown[j] = Nothing
      BY DEF IndicatorInv, GoneIsInactive, RemovedStaysGone
    <3>2. QED BY <3>1, <1>2, <1>4
  <2>3. QED BY <2>1, <2>2
<1>9. RunsHaveSources' BY <1>3 DEF IndicatorInv, RunsHaveSources, Stale
<1>10. \A j \in Ids : Coming(j) => Coming(j)' \/ (j = i /\ ~Stale(r))
  BY <1>2, <1>3 DEF Coming, Stale
<1>11. ASSUME ~history'.slipped PROVE UnlessSlipped'
  <2>1. UnlessSlipped BY <1>3, <1>11 DEF IndicatorInv
  <2>2. d = data /\ data # Nothing /\ data.whole
    BY <2>1, <1>1, <1>2, DataIs DEF UnlessSlipped, RunsAreCurrent
  <2>3. server \subseteq Ids /\ sources \subseteq Ids /\ active \subseteq Ids BY <1>1 DEF TypeOK
  <2>4. RunsAreCurrent' BY <2>1, <1>3 DEF UnlessSlipped, RunsAreCurrent
  <2>5. \A j \in Ids : Due(j) => Due(j)' \/ (j = i /\ ~Stale(r))
    BY <1>3, <1>10 DEF Due
  <2>6. ResultsAreDue'
    <3> SUFFICES ASSUME NEW j \in sources \cap server
                 PROVE  /\ Due(j)' \/ results'[j] = data
                        /\ Coming(j)' \/ session'[j].epoch = data.epoch
      BY <1>3 DEF ResultsAreDue
    <3>1. Due(j) \/ results[j] = data BY <2>1 DEF UnlessSlipped, ResultsAreDue
    <3>2. Coming(j) \/ session[j].epoch = data.epoch BY <2>1 DEF UnlessSlipped, ResultsAreDue
    <3>3. CASE j = i /\ ~Stale(r) BY <3>3, <2>2, <1>4
    <3>4. CASE ~(j = i /\ ~Stale(r))
      <4>1. results'[j] = results[j] /\ session'[j] = session[j] BY <3>4, <2>3, <1>4
      <4>2. QED BY <3>1, <3>2, <3>4, <4>1, <2>3, <2>5, <1>10
    <3>5. QED BY <3>3, <3>4
  <2>7. ChunksAreWhole'
    <3> SUFFICES ASSUME NEW j \in older.todo \cap sources \cap server
                 PROVE  (\E q \in runs' : q.id = j /\ ~Stale(q)) \/ (results'[j] # Nothing /\ results'[j].whole)
      BY <2>1, <1>3 DEF UnlessSlipped, ChunksAreWhole, Stale
    <3>1. (\E q \in runs : q.id = j /\ ~Stale(q)) \/ (results[j] # Nothing /\ results[j].whole)
      BY <2>1 DEF UnlessSlipped, ChunksAreWhole
    <3>2. CASE j = i /\ ~Stale(r) BY <3>2, <2>2, <1>4
    <3>3. CASE ~(j = i /\ ~Stale(r))
      <4>1. results'[j] = results[j] BY <3>3, <2>3, <1>4
      <4>2. ASSUME NEW q \in runs, q.id = j, ~Stale(q) PROVE q \in runs'
        BY <4>2, <3>3, <1>2, <1>3
      <4>3. QED BY <3>1, <4>1, <4>2
    <3>4. QED BY <3>2, <3>3
  <2>8. DrawnIsDue'
    <3> SUFFICES ASSUME NEW j \in (active \ history.late) \cap server
                 PROVE  j \in sources /\ (Due(j)' \/ shown'[j] = data)
      BY <1>3 DEF DrawnIsDue
    <3>1. j \in sources /\ (Due(j) \/ shown[j] = data) BY <2>1 DEF UnlessSlipped, DrawnIsDue
    <3>2. CASE j = i /\ ~Stale(r) BY <3>1, <3>2, <2>2, <1>4
    <3>3. CASE ~(j = i /\ ~Stale(r)) BY <3>1, <3>3, <2>3, <2>5, <1>4
    <3>4. QED BY <3>2, <3>3
  <2>9. QED BY <2>4, <2>6, <2>7, <2>8 DEF UnlessSlipped
<1>12. QED BY <1>5, <1>6, <1>7, <1>8, <1>9, <1>11 DEF IndicatorInv

LEMMA RunFailsKeeps == ASSUME IndicatorInv, NEW r \in runs, RunFails(r) PROVE IndicatorInv'
<1>1. TypeOK /\ KnownInv /\ DataInv BY DEF IndicatorInv
<1>2. /\ runs' = runs \ {r} /\ data' = data /\ requests' = requests
      /\ server' = server /\ labels' = labels /\ deleting' = deleting /\ active' = active
      /\ computing' = computing /\ sources' = sources /\ gen' = gen /\ results' = results
      /\ shown' = shown /\ older' = older /\ session' = session /\ mail' = mail
      /\ history' = [history EXCEPT !.slipped = TRUE]
  BY DEF RunFails, user, marks, books
<1>3. TypeOK' BY <1>1, <1>2 DEF TypeOK
<1>4. /\ history'.known = history.known /\ history'.relisted = history.relisted
      /\ history'.events = history.events /\ history'.slipped
  BY <1>1, <1>2 DEF TypeOK
<1>5. KnownInv' BY <1>1, <1>2, <1>4 DEF KnownInv
<1>6. DataInv' BY <1>1, <1>2, <1>4 DEF DataInv
<1>7. GoneIsInactive' /\ RemovedStaysGone'
  BY <1>2, <1>4 DEF IndicatorInv, GoneIsInactive, RemovedStaysGone
<1>8. RunsHaveSources' BY <1>2 DEF IndicatorInv, RunsHaveSources, Stale
<1>9. QED BY <1>3, <1>4, <1>5, <1>6, <1>7, <1>8 DEF IndicatorInv

LEMMA SessionRunsKeeps == ASSUME IndicatorInv, NEW i \in Ids, SessionRuns(i) PROVE IndicatorInv'
<1>1. TypeOK /\ KnownInv /\ DataInv BY DEF IndicatorInv
<1>2. /\ session[i] # Nothing /\ mail' = [mail EXCEPT ![i] = session[i]]
      /\ data' = data /\ requests' = requests
      /\ server' = server /\ labels' = labels /\ deleting' = deleting /\ active' = active
      /\ computing' = computing /\ sources' = sources /\ gen' = gen /\ results' = results
      /\ shown' = shown /\ runs' = runs /\ older' = older /\ session' = session /\ history' = history
  BY DEF SessionRuns, user, marks, books
<1>3. mail' \in [Ids -> Datasets] BY <1>1, <1>2 DEF TypeOK
<1>4. TypeOK' BY <1>1, <1>2, <1>3 DEF TypeOK
<1>5. KnownInv' BY <1>1, <1>2 DEF KnownInv
<1>6. DataInv'
  <2>1. \A j \in Ids : mail'[j] = mail[j] \/ mail'[j] = session[j] BY <1>1, <1>2 DEF TypeOK
  <2>2. QED BY <2>1, <1>1, <1>2 DEF DataInv
<1>7. GoneIsInactive' /\ RemovedStaysGone' /\ RunsHaveSources'
  BY <1>2 DEF IndicatorInv, GoneIsInactive, RemovedStaysGone, RunsHaveSources, Stale
<1>8. UnlessSlipped => UnlessSlipped'
  BY <1>2 DEF UnlessSlipped, RunsAreCurrent, ResultsAreDue, ChunksAreWhole, DrawnIsDue,
              Due, Coming, Stale
<1>9. QED BY <1>2, <1>4, <1>5, <1>6, <1>7, <1>8 DEF IndicatorInv

LEMMA MailArrivesKeeps == ASSUME IndicatorInv, NEW i \in Ids, MailArrives(i) PROVE IndicatorInv'
<1>1. TypeOK /\ KnownInv /\ DataInv BY DEF IndicatorInv
<1>2. PICK m \in Datasets : m = mail[i] BY <1>1 DEF TypeOK
<1>3. /\ m # Nothing /\ m.whole = TRUE /\ m.epoch \in 0..MaxEvents /\ m.chunks \in 0..MaxEvents
      /\ mail' = [mail EXCEPT ![i] = Nothing]
      /\ data' = data /\ requests' = requests
      /\ server' = server /\ labels' = labels /\ deleting' = deleting /\ active' = active
      /\ sources' = sources /\ gen' = gen /\ runs' = runs /\ older' = older /\ session' = session
      /\ history' = [history EXCEPT !.slipped = @ \/ m.epoch # session[i].epoch]
  <2>1. m # Nothing BY <1>2 DEF MailArrives
  <2>2. m.whole = TRUE /\ m.epoch \in 0..MaxEvents /\ m.chunks \in 0..MaxEvents
    BY <2>1, <1>1, <1>2 DEF DataInv, Datasets
  <2>3. QED BY <2>1, <2>2, <1>2 DEF MailArrives, user
<1>4. PICK d : d = [m EXCEPT !.chunks = Min({@, data.chunks})] OBVIOUS
<1>5. /\ d \in Datasets /\ d.whole = TRUE /\ d # Nothing /\ d.epoch = m.epoch
      /\ Covers(m) => d.chunks = data.chunks
  <2>1. m.chunks \in Nat /\ data.chunks \in Nat BY <1>1, <1>3, DataIs
  <2>2. PICK c : c = Min({m.chunks, data.chunks}) OBVIOUS
  <2>3. /\ c \in {m.chunks, data.chunks}
        /\ m.chunks >= data.chunks => c = data.chunks
    <3>1. \E x \in {m.chunks, data.chunks} : \A y \in {m.chunks, data.chunks} : x <= y
      BY <2>1
    <3>2. c \in {m.chunks, data.chunks} /\ \A y \in {m.chunks, data.chunks} : c <= y
      BY <3>1, <2>2 DEF Min
    <3>3. QED BY <3>2, <2>1
  <2>4. c \in 0..MaxEvents BY <2>3, <1>1, <1>3 DEF TypeOK, Datasets
  <2>5. d = [m EXCEPT !.chunks = c] BY <2>2, <1>4
  <2>6. d \in Datasets /\ d.whole = TRUE /\ d.epoch = m.epoch /\ d.chunks = c
    BY <2>4, <2>5, <1>3 DEF Datasets
  <2>7. d # Nothing BY <2>6 DEF Nothing
  <2>8. QED BY <2>3, <2>6, <2>7 DEF Covers
<1>6. PICK x \in Datasets :
         /\ x \in {d, results[i]}
         /\ \/ /\ i \in sources /\ x # Nothing /\ Deliver(Only(i, x))
               /\ results' = [results EXCEPT ![i] = x]
               /\ x = d => Covers(m) \/ d = results[i]
            \/ results' = results /\ shown' = shown /\ computing' = computing
  <2>1. results \in [Ids -> Datasets] BY <1>1 DEF TypeOK
  <2>2. CASE /\ i \in sources /\ Covers(m) /\ results' = [results EXCEPT ![i] = d]
             /\ Deliver(Only(i, results'[i]))
    <3>1. results'[i] = d BY <2>1, <2>2
    <3>2. QED BY <2>2, <3>1, <1>5
  <2>3. CASE i \in sources /\ results[i] # Nothing /\ Deliver(Only(i, results[i])) /\ results' = results
    <3>1. results[i] \in Datasets /\ results' = [results EXCEPT ![i] = results[i]] BY <2>1, <2>3
    <3>2. QED BY <2>3, <3>1
  <2>4. CASE results' = results /\ shown' = shown /\ computing' = computing
    BY <2>1, <2>4
  <2>5. QED BY <2>2, <2>3, <2>4, <1>2, <1>4 DEF MailArrives
<1>7. /\ results' \in [Ids -> Datasets] /\ shown' \in [Ids -> Datasets] /\ computing' \subseteq Ids
      /\ \A j \in Ids \ {i} : results'[j] = results[j] /\ shown'[j] = shown[j]
      /\ results'[i] = results[i] \/ (results'[i] = d /\ Covers(m))
      /\ shown'[i] = shown[i] \/ (i \in active /\ i \in sources /\ shown'[i] = results'[i])
  <2>1. results \in [Ids -> Datasets] /\ shown \in [Ids -> Datasets] /\ computing \subseteq Ids
    BY <1>1 DEF TypeOK
  <2>2. CASE /\ i \in sources /\ x # Nothing /\ Deliver(Only(i, x))
             /\ results' = [results EXCEPT ![i] = x]
             /\ x = d => Covers(m) \/ d = results[i]
    <3>1. /\ shown' \in [Ids -> Datasets] /\ computing' \subseteq Ids
          /\ \A j \in Ids \ {i} : shown'[j] = shown[j]
          /\ x # Nothing /\ i \in active => shown'[i] = x
          /\ i \notin active => shown'[i] = shown[i]
      BY <1>1, <2>2, DeliverOne
    <3>2. /\ results' \in [Ids -> Datasets] /\ results'[i] = x
          /\ \A j \in Ids \ {i} : results'[j] = results[j]
      BY <2>1, <2>2
    <3>3. QED BY <3>1, <3>2, <2>2, <1>6
  <2>3. CASE results' = results /\ shown' = shown /\ computing' = computing
    BY <2>1, <2>3
  <2>4. QED BY <2>2, <2>3, <1>6
<1>8. /\ history'.known = history.known /\ history'.relisted = history.relisted
      /\ history'.late = history.late /\ history'.events = history.events
      /\ ~history'.slipped => ~history.slipped /\ m.epoch = session[i].epoch
      /\ history' \in [known : SUBSET Ids, relisted : SUBSET Ids, late : SUBSET Ids,
                       slipped : BOOLEAN, events : 0..MaxEvents]
  <2>1. (history.slipped \/ m.epoch # session[i].epoch) \in BOOLEAN OBVIOUS
  <2>2. QED BY <2>1, <1>1, <1>3 DEF TypeOK
<1>9. mail' \in [Ids -> Datasets] /\ \A j \in Ids : mail'[j] = mail[j] \/ mail'[j] = Nothing
  BY <1>1, <1>3, DataIs DEF TypeOK
<1>10. TypeOK' BY <1>1, <1>3, <1>7, <1>8, <1>9 DEF TypeOK
<1>11. KnownInv' BY <1>1, <1>3, <1>8 DEF KnownInv
<1>12. DataInv' BY <1>1, <1>3, <1>8, <1>9 DEF DataInv
<1>13. GoneIsInactive' BY <1>3, <1>8 DEF IndicatorInv, GoneIsInactive
<1>14. RemovedStaysGone'
  <2> SUFFICES ASSUME NEW j \in Ids \ history.relisted, j \notin server \/ deleting[j] # "no"
               PROVE  shown'[j] = Nothing
    BY <1>3, <1>8 DEF RemovedStaysGone
  <2>1. j \notin active /\ shown[j] = Nothing
    BY DEF IndicatorInv, GoneIsInactive, RemovedStaysGone
  <2>2. QED BY <2>1, <1>7
<1>15. RunsHaveSources' BY <1>3 DEF IndicatorInv, RunsHaveSources, Stale
<1>16. ASSUME ~history'.slipped PROVE UnlessSlipped'
  <2>1. UnlessSlipped /\ m.epoch = session[i].epoch BY <1>8, <1>16 DEF IndicatorInv
  <2>2. \A j : (Coming(j)' <=> Coming(j)) /\ (Due(j)' <=> Due(j)) BY <1>3 DEF Due, Coming, Stale
  <2>3. server \subseteq Ids /\ sources \subseteq Ids /\ active \subseteq Ids BY <1>1 DEF TypeOK
  <2>4. RunsAreCurrent' BY <2>1, <1>3 DEF UnlessSlipped, RunsAreCurrent
  <2>5. Covers(m) /\ i \in sources \cap server /\ ~Coming(i) => d = data
    <3> SUFFICES ASSUME Covers(m), i \in sources \cap server, ~Coming(i) PROVE d = data
      OBVIOUS
    <3>1. session[i].epoch = data.epoch BY <2>1 DEF UnlessSlipped, ResultsAreDue
    <3>2. d.epoch = data.epoch /\ d.chunks = data.chunks /\ d.whole = data.whole
      BY <3>1, <2>1, <1>1, <1>5, DataIs
    <3>3. d = [epoch |-> d.epoch, chunks |-> d.chunks, whole |-> d.whole]
      BY <1>5 DEF Datasets
    <3>4. data = [epoch |-> data.epoch, chunks |-> data.chunks, whole |-> data.whole]
      BY <1>1 DEF TypeOK, Datasets
    <3>5. QED BY <3>2, <3>3, <3>4, Zenon
  <2>6. ResultsAreDue'
    <3> SUFFICES ASSUME NEW j \in sources \cap server
                 PROVE  /\ Due(j) \/ results'[j] = data
                        /\ Coming(j) \/ session[j].epoch = data.epoch
      BY <1>3, <2>2 DEF ResultsAreDue
    <3>1. /\ Due(j) \/ results[j] = data
          /\ Coming(j) \/ session[j].epoch = data.epoch
      BY <2>1 DEF UnlessSlipped, ResultsAreDue
    <3>2. CASE j = i BY <3>1, <3>2, <2>5, <1>7 DEF Due
    <3>3. CASE j # i BY <3>1, <3>3, <2>3, <1>7
    <3>4. QED BY <3>2, <3>3
  <2>7. ChunksAreWhole'
    <3> SUFFICES ASSUME NEW j \in older.todo \cap sources \cap server
                 PROVE  (\E q \in runs : q.id = j /\ ~Stale(q)) \/ (results'[j] # Nothing /\ results'[j].whole)
      BY <2>1, <1>3 DEF UnlessSlipped, ChunksAreWhole, Stale
    <3>1. (\E q \in runs : q.id = j /\ ~Stale(q)) \/ (results[j] # Nothing /\ results[j].whole)
      BY <2>1 DEF UnlessSlipped, ChunksAreWhole
    <3>2. results'[j] = results[j] \/ results'[j] = d BY <2>3, <1>7
    <3>3. QED BY <3>1, <3>2, <1>5
  <2>8. DrawnIsDue'
    <3> SUFFICES ASSUME NEW j \in (active \ history.late) \cap server
                 PROVE  j \in sources /\ (Due(j) \/ shown'[j] = data)
      BY <1>3, <1>8, <2>2 DEF DrawnIsDue
    <3>1. j \in sources /\ (Due(j) \/ shown[j] = data) BY <2>1 DEF UnlessSlipped, DrawnIsDue
    <3>2. Due(j) \/ results'[j] = data BY <3>1, <2>2, <2>6, <1>3 DEF ResultsAreDue
    <3>3. shown'[j] = shown[j] \/ shown'[j] = results'[j] BY <2>3, <1>7
    <3>4. QED BY <3>1, <3>2, <3>3
  <2>9. QED BY <2>4, <2>6, <2>7, <2>8 DEF UnlessSlipped
<1>17. QED BY <1>10, <1>11, <1>12, <1>13, <1>14, <1>15, <1>16 DEF IndicatorInv

LEMMA ChunkArrivesKeeps == IndicatorInv /\ ChunkArrives => IndicatorInv'
<1> SUFFICES ASSUME IndicatorInv, ChunkArrives PROVE IndicatorInv' OBVIOUS
<1>1. TypeOK /\ KnownInv /\ DataInv BY DEF IndicatorInv
<1>2. /\ ~older.busy /\ history.events < MaxEvents
      /\ data' = [data EXCEPT !.chunks = @ + 1]
      /\ older' = [Idle EXCEPT !.busy = TRUE, !.todo = sources]
      /\ history' = [history EXCEPT !.slipped = @ \/ runs # {} \/ requests # {}, !.events = @ + 1]
      /\ requests' = requests
      /\ server' = server /\ labels' = labels /\ deleting' = deleting /\ active' = active
      /\ computing' = computing /\ sources' = sources /\ gen' = gen /\ results' = results
      /\ shown' = shown /\ runs' = runs /\ session' = session /\ mail' = mail
  BY DEF ChunkArrives, user, marks, books
<1>3. /\ data'.epoch = data.epoch /\ data'.chunks = data.chunks + 1 /\ data'.whole = TRUE
      /\ data' \in Datasets
  <2>1. data.chunks + 1 \in 0..MaxEvents BY <1>1, <1>2, DataIs
  <2>2. data.whole = TRUE BY <1>1, DataIs
  <2>3. QED BY <2>1, <2>2, <1>1, <1>2 DEF TypeOK, Datasets
<1>4. /\ older'.busy /\ older'.todo = sources /\ older'.done = Idle.done
      /\ \A i \in Ids : older'.done[i] = Nothing
      /\ older' \in [busy : BOOLEAN, todo : SUBSET Ids, done : [Ids -> Datasets]]
  <2>1. older' = [busy |-> TRUE, todo |-> sources, done |-> Idle.done] BY <1>2 DEF Idle
  <2>2. Idle.done \in [Ids -> Datasets] BY <1>1, DataIs
  <2>3. \A i \in Ids : Idle.done[i] = Nothing BY DEF Idle
  <2>4. sources \subseteq Ids BY <1>1 DEF TypeOK
  <2>5. QED BY <2>1, <2>2, <2>3, <2>4
<1>5. /\ history'.known = history.known /\ history'.relisted = history.relisted
      /\ history'.late = history.late /\ history'.events = history.events + 1
      /\ ~history'.slipped => ~history.slipped /\ runs = {} /\ requests = {}
      /\ history' \in [known : SUBSET Ids, relisted : SUBSET Ids, late : SUBSET Ids,
                       slipped : BOOLEAN, events : 0..MaxEvents]
  <2>1. (history.slipped \/ runs # {} \/ requests # {}) \in BOOLEAN OBVIOUS
  <2>2. history.events + 1 \in 0..MaxEvents BY <1>1, <1>2, DataIs
  <2>3. QED BY <2>1, <2>2, <1>1, <1>2 DEF TypeOK
<1>6. TypeOK' BY <1>1, <1>2, <1>3, <1>4, <1>5 DEF TypeOK
<1>7. KnownInv' BY <1>1, <1>2, <1>4, <1>5 DEF KnownInv
<1>8. DataInv'
  <2>1. data'.epoch <= history'.events /\ data'.chunks <= history'.events
    BY <1>1, <1>3, <1>5, DataIs
  <2>2. QED BY <2>1, <1>1, <1>2, <1>3, <1>4 DEF DataInv
<1>9. GoneIsInactive' /\ RemovedStaysGone' /\ RunsHaveSources'
  BY <1>2, <1>5 DEF IndicatorInv, GoneIsInactive, RemovedStaysGone, RunsHaveSources, Stale
<1>10. ASSUME ~history'.slipped PROVE UnlessSlipped'
  <2>1. UnlessSlipped /\ runs = {} /\ requests = {} /\ older = Idle
    BY <1>1, <1>2, <1>5, <1>10 DEF IndicatorInv, DataInv
  <2>2. server \subseteq Ids /\ sources \subseteq Ids BY <1>1 DEF TypeOK
  <2>3. \A i : ~Coming(i) BY <2>1 DEF Coming
  <2>4. \A i \in Ids : ~Due(i)
    <3>1. data # Nothing BY <1>1, DataIs
    <3>2. QED BY <3>1, <2>1, <2>3 DEF Due, Idle
  <2>5. \A i \in sources : Due(i)' BY <1>4 DEF Due
  <2>6. RunsAreCurrent' BY <2>1, <1>2 DEF RunsAreCurrent
  <2>7. ResultsAreDue'
    BY <2>1, <2>3, <2>5, <1>2, <1>3 DEF UnlessSlipped, ResultsAreDue
  <2>8. ChunksAreWhole'
    <3>1. \A i \in sources \cap server : results[i] = data
      BY <2>1, <2>2, <2>4 DEF UnlessSlipped, ResultsAreDue
    <3>2. data # Nothing /\ data.whole BY <1>1, DataIs
    <3>3. QED BY <3>1, <3>2, <2>2, <1>2, <1>4 DEF ChunksAreWhole
  <2>9. DrawnIsDue' BY <2>1, <2>5, <1>2, <1>5 DEF UnlessSlipped, DrawnIsDue
  <2>10. QED BY <2>6, <2>7, <2>8, <2>9 DEF UnlessSlipped
<1>11. QED BY <1>6, <1>7, <1>8, <1>9, <1>10 DEF IndicatorInv

LEMMA ChunkRunsKeeps == ASSUME IndicatorInv, NEW i \in Ids, ChunkRuns(i) PROVE IndicatorInv'
<1>1. TypeOK /\ KnownInv /\ DataInv BY DEF IndicatorInv
<1>2. PICK d : d = [data EXCEPT !.whole = results[i] # Nothing /\ results[i].whole] OBVIOUS
<1>3. /\ i \in older.todo /\ i \in sources
      /\ older' = [older EXCEPT !.todo = @ \ {i}, !.done[i] = d]
      /\ session' = [session EXCEPT ![i] = data]
      /\ history' = [history EXCEPT !.slipped = @ \/ \E r \in runs : r.id = i]
      /\ data' = data /\ requests' = requests
      /\ server' = server /\ labels' = labels /\ deleting' = deleting /\ active' = active
      /\ computing' = computing /\ sources' = sources /\ gen' = gen /\ results' = results
      /\ shown' = shown /\ runs' = runs /\ mail' = mail
  BY <1>2 DEF ChunkRuns, user, marks, books
<1>4. d \in Datasets /\ (results[i] # Nothing /\ results[i].whole => d = data)
  <2>1. (results[i] # Nothing /\ results[i].whole) \in BOOLEAN OBVIOUS
  <2>2. d \in Datasets BY <2>1, <1>1, <1>2 DEF TypeOK, Datasets
  <2>3. ASSUME results[i] # Nothing /\ results[i].whole PROVE d = data
    <3>1. data = [epoch |-> data.epoch, chunks |-> data.chunks, whole |-> TRUE] BY <1>1, DataIs
    <3>2. d = [data EXCEPT !.whole = TRUE] BY <2>3, <1>2
    <3>3. QED BY <3>1, <3>2
  <2>4. QED BY <2>2, <2>3
<1>5. /\ older' \in [busy : BOOLEAN, todo : SUBSET Ids, done : [Ids -> Datasets]]
      /\ older'.busy = older.busy /\ older'.todo = older.todo \ {i}
      /\ older'.done[i] = d /\ \A j \in Ids \ {i} : older'.done[j] = older.done[j]
  BY <1>1, <1>3, <1>4 DEF TypeOK
<1>6. /\ session' \in [Ids -> Datasets] /\ session'[i] = data
      /\ \A j \in Ids \ {i} : session'[j] = session[j]
  BY <1>1, <1>3 DEF TypeOK
<1>7. /\ history'.known = history.known /\ history'.relisted = history.relisted
      /\ history'.late = history.late /\ history'.events = history.events
      /\ ~history'.slipped => ~history.slipped /\ \A r \in runs : r.id # i
      /\ history' \in [known : SUBSET Ids, relisted : SUBSET Ids, late : SUBSET Ids,
                       slipped : BOOLEAN, events : 0..MaxEvents]
  <2>1. (history.slipped \/ \E r \in runs : r.id = i) \in BOOLEAN OBVIOUS
  <2>2. QED BY <2>1, <1>1, <1>3 DEF TypeOK
<1>8. TypeOK' BY <1>1, <1>3, <1>5, <1>6, <1>7 DEF TypeOK
<1>9. KnownInv'
  <2>1. i \in history.known BY <1>1, <1>3 DEF KnownInv
  <2>2. QED BY <2>1, <1>1, <1>3, <1>5, <1>7 DEF KnownInv
<1>10. DataInv'
  <2>1. older.busy
    <3>1. Idle.todo = {} BY DEF Idle
    <3>2. QED BY <3>1, <1>1, <1>3 DEF DataInv
  <2>2. data.whole BY <1>1 DEF DataInv
  <2>3. QED BY <2>1, <2>2, <1>1, <1>3, <1>5, <1>6, <1>7 DEF DataInv
<1>11. GoneIsInactive' /\ RemovedStaysGone' /\ RunsHaveSources'
  BY <1>3, <1>7 DEF IndicatorInv, GoneIsInactive, RemovedStaysGone, RunsHaveSources, Stale
<1>12. ASSUME ~history'.slipped PROVE UnlessSlipped'
  <2>1. UnlessSlipped /\ \A r \in runs : r.id # i BY <1>7, <1>12 DEF IndicatorInv
  <2>2. server \subseteq Ids /\ sources \subseteq Ids /\ active \subseteq Ids BY <1>1 DEF TypeOK
  <2>3. \A j : Coming(j)' <=> Coming(j) BY <1>3 DEF Coming, Stale
  <2>4. i \in server => d = data
    BY <2>1, <1>3, <1>4 DEF UnlessSlipped, ChunksAreWhole
  <2>5. \A j \in server : Due(j) => Due(j)' BY <2>2, <2>3, <2>4, <1>3, <1>5 DEF Due
  <2>6. RunsAreCurrent' BY <2>1, <1>3 DEF UnlessSlipped, RunsAreCurrent
  <2>7. ResultsAreDue'
    BY <2>1, <2>2, <2>3, <2>5, <1>3, <1>6 DEF UnlessSlipped, ResultsAreDue
  <2>8. ChunksAreWhole'
    BY <2>1, <2>2, <2>4, <1>3, <1>5 DEF UnlessSlipped, ChunksAreWhole, Stale
  <2>9. DrawnIsDue' BY <2>1, <2>5, <1>3, <1>7 DEF UnlessSlipped, DrawnIsDue
  <2>10. QED BY <2>6, <2>7, <2>8, <2>9 DEF UnlessSlipped
<1>13. QED BY <1>8, <1>9, <1>10, <1>11, <1>12 DEF IndicatorInv

LEMMA ChunkSkipsKeeps == ASSUME IndicatorInv, NEW i \in Ids, ChunkSkips(i) PROVE IndicatorInv'
<1>1. TypeOK /\ KnownInv /\ DataInv BY DEF IndicatorInv
<1>2. /\ i \in older.todo
      /\ older' = [older EXCEPT !.todo = @ \ {i}]
      /\ history' = [history EXCEPT !.slipped = @ \/ i \in sources]
      /\ data' = data /\ requests' = requests
      /\ server' = server /\ labels' = labels /\ deleting' = deleting /\ active' = active
      /\ computing' = computing /\ sources' = sources /\ gen' = gen /\ results' = results
      /\ shown' = shown /\ runs' = runs /\ session' = session /\ mail' = mail
  BY DEF ChunkSkips, user, marks, books
<1>3. /\ older' \in [busy : BOOLEAN, todo : SUBSET Ids, done : [Ids -> Datasets]]
      /\ older'.busy = older.busy /\ older'.todo = older.todo \ {i} /\ older'.done = older.done
  BY <1>1, <1>2 DEF TypeOK
<1>4. /\ history'.known = history.known /\ history'.relisted = history.relisted
      /\ history'.late = history.late /\ history'.events = history.events
      /\ ~history'.slipped => ~history.slipped /\ i \notin sources
      /\ history' \in [known : SUBSET Ids, relisted : SUBSET Ids, late : SUBSET Ids,
                       slipped : BOOLEAN, events : 0..MaxEvents]
  <2>1. (history.slipped \/ i \in sources) \in BOOLEAN OBVIOUS
  <2>2. QED BY <2>1, <1>1, <1>2 DEF TypeOK
<1>5. TypeOK' BY <1>1, <1>2, <1>3, <1>4 DEF TypeOK
<1>6. KnownInv' BY <1>1, <1>2, <1>3, <1>4 DEF KnownInv
<1>7. DataInv'
  <2>1. older.busy
    <3>1. Idle.todo = {} BY DEF Idle
    <3>2. QED BY <3>1, <1>1, <1>2 DEF DataInv
  <2>2. QED BY <2>1, <1>1, <1>2, <1>3, <1>4 DEF DataInv
<1>8. GoneIsInactive' /\ RemovedStaysGone' /\ RunsHaveSources'
  BY <1>2, <1>4 DEF IndicatorInv, GoneIsInactive, RemovedStaysGone, RunsHaveSources, Stale
<1>9. ASSUME ~history'.slipped PROVE UnlessSlipped'
  <2>1. UnlessSlipped /\ i \notin sources BY <1>4, <1>9 DEF IndicatorInv
  <2>2. \A j : Coming(j)' <=> Coming(j) BY <1>2 DEF Coming, Stale
  <2>3. \A j \in sources : Due(j) => Due(j)' BY <2>1, <2>2, <1>2, <1>3 DEF Due
  <2>4. RunsAreCurrent' BY <2>1, <1>2 DEF UnlessSlipped, RunsAreCurrent
  <2>5. ResultsAreDue' BY <2>1, <2>2, <2>3, <1>2 DEF UnlessSlipped, ResultsAreDue
  <2>6. ChunksAreWhole' BY <2>1, <1>2, <1>3 DEF UnlessSlipped, ChunksAreWhole, Stale
  <2>7. DrawnIsDue' BY <2>1, <2>3, <1>2, <1>4 DEF UnlessSlipped, DrawnIsDue
  <2>8. QED BY <2>4, <2>5, <2>6, <2>7 DEF UnlessSlipped
<1>10. QED BY <1>5, <1>6, <1>7, <1>8, <1>9 DEF IndicatorInv

LEMMA ChunkDrawnKeeps == IndicatorInv /\ ChunkDrawn => IndicatorInv'
<1> SUFFICES ASSUME IndicatorInv, ChunkDrawn PROVE IndicatorInv' OBVIOUS
<1>1. TypeOK /\ KnownInv /\ DataInv BY DEF IndicatorInv
<1>2. /\ older.busy /\ older.todo = {}
      /\ results' = [i \in Ids |-> IF older.done[i] # Nothing THEN older.done[i] ELSE results[i]]
      /\ Deliver(older.done) /\ older' = Idle
      /\ data' = data /\ requests' = requests
      /\ server' = server /\ labels' = labels /\ deleting' = deleting /\ active' = active
      /\ sources' = sources /\ gen' = gen /\ runs' = runs /\ session' = session /\ mail' = mail
      /\ history' = history
  BY DEF ChunkDrawn, user
<1>3. older.done \in [Ids -> Datasets] /\ results \in [Ids -> Datasets] BY <1>1 DEF TypeOK
<1>4. /\ shown' \in [Ids -> Datasets] /\ computing' \subseteq Ids
      /\ \A i \in Ids : shown'[i] = IF older.done[i] # Nothing /\ i \in active THEN older.done[i] ELSE shown[i]
  BY <1>1, <1>2, <1>3, DeliverIs
<1>5. results' \in [Ids -> Datasets] BY <1>2, <1>3
<1>6. /\ Idle \in [busy : BOOLEAN, todo : SUBSET Ids, done : [Ids -> Datasets]]
      /\ Idle.todo = {} /\ \A i \in Ids : Idle.done[i] = Nothing
  <2>1. Nothing \in Datasets BY <1>1, DataIs
  <2>2. QED BY <2>1 DEF Idle
<1>7. TypeOK' BY <1>1, <1>2, <1>4, <1>5, <1>6 DEF TypeOK
<1>8. KnownInv' BY <1>1, <1>2, <1>6 DEF KnownInv
<1>9. DataInv' BY <1>1, <1>2 DEF DataInv
<1>10. GoneIsInactive' BY <1>2 DEF IndicatorInv, GoneIsInactive
<1>11. RemovedStaysGone'
  <2> SUFFICES ASSUME NEW j \in Ids \ history.relisted, j \notin server \/ deleting[j] # "no"
               PROVE  shown'[j] = Nothing
    BY <1>2 DEF RemovedStaysGone
  <2>1. j \notin active /\ shown[j] = Nothing
    BY DEF IndicatorInv, GoneIsInactive, RemovedStaysGone
  <2>2. QED BY <2>1, <1>4
<1>12. RunsHaveSources' BY <1>2 DEF IndicatorInv, RunsHaveSources, Stale
<1>13. ASSUME ~history'.slipped PROVE UnlessSlipped'
  <2>1. UnlessSlipped BY <1>2, <1>13 DEF IndicatorInv
  <2>2. server \subseteq Ids /\ sources \subseteq Ids /\ active \subseteq Ids BY <1>1 DEF TypeOK
  <2>3. \A j : Coming(j)' <=> Coming(j) BY <1>2 DEF Coming, Stale
  <2>4. data # Nothing BY <1>1, DataIs
  <2>5. \A j \in server : older.done[j] \in {Nothing, data}
    BY <2>1 DEF UnlessSlipped, ChunksAreWhole
  <2>6. RunsAreCurrent' BY <2>1, <1>2 DEF UnlessSlipped, RunsAreCurrent
  <2>7. ResultsAreDue'
    <3> SUFFICES ASSUME NEW j \in sources \cap server
                 PROVE  /\ Due(j)' \/ results'[j] = data
                        /\ Coming(j)' \/ session[j].epoch = data.epoch
      BY <1>2 DEF ResultsAreDue
    <3>1. /\ Due(j) \/ results[j] = data
          /\ Coming(j) \/ session[j].epoch = data.epoch
      BY <2>1 DEF UnlessSlipped, ResultsAreDue
    <3>2. CASE older.done[j] = data BY <3>1, <3>2, <2>2, <2>3, <2>4, <1>2
    <3>3. CASE older.done[j] = Nothing
      <4>1. results'[j] = results[j] BY <3>3, <2>2, <1>2
      <4>2. Due(j) => Coming(j) BY <3>3, <2>4, <1>2 DEF Due
      <4>3. QED BY <3>1, <4>1, <4>2, <2>3 DEF Due
    <3>4. QED BY <3>2, <3>3, <2>5
  <2>8. ChunksAreWhole' BY <2>2, <1>2, <1>6 DEF ChunksAreWhole
  <2>9. DrawnIsDue'
    <3> SUFFICES ASSUME NEW j \in (active \ history.late) \cap server
                 PROVE  j \in sources /\ (Due(j)' \/ shown'[j] = data)
      BY <1>2 DEF DrawnIsDue
    <3>1. j \in sources /\ (Due(j) \/ shown[j] = data) BY <2>1 DEF UnlessSlipped, DrawnIsDue
    <3>2. CASE older.done[j] = data BY <3>1, <3>2, <2>2, <2>4, <1>4
    <3>3. CASE older.done[j] = Nothing
      <4>1. shown'[j] = shown[j] BY <3>3, <2>2, <1>4
      <4>2. Due(j) => Coming(j) BY <3>3, <2>4, <1>2 DEF Due
      <4>3. QED BY <3>1, <4>1, <4>2, <2>3 DEF Due
    <3>4. QED BY <3>2, <3>3, <2>5
  <2>10. QED BY <2>6, <2>7, <2>8, <2>9 DEF UnlessSlipped
<1>14. QED BY <1>7, <1>8, <1>9, <1>10, <1>11, <1>12, <1>13 DEF IndicatorInv

\* Scripts that begin beside what there is: every one of them has a run, and what
\* was on its way to the others is so still.
LEMMA BeginsKeep ==
    ASSUME TypeOK, NEW ids \in SUBSET Ids, Started(ids),
           requests' = requests, gen' = gen, data' = data
    PROVE  /\ \A i \in ids : (\E r \in runs' : r.id = i /\ ~Stale(r)') /\ Coming(i)' /\ Due(i)'
           /\ \A i \in Ids : (Coming(i) => Coming(i)') /\ (Due(i) => Due(i)')
<1>1. /\ older'.done = older.done /\ older.todo \subseteq older'.todo /\ runs \subseteq runs'
      /\ \A i \in ids : [id |-> i, gen |-> gen[i], data |-> data] \in runs'
  BY StartedIs
<1>2. ASSUME NEW i \in ids
      PROVE  (\E r \in runs' : r.id = i /\ ~Stale(r)') /\ Coming(i)' /\ Due(i)'
  <2>1. PICK r \in runs' : r = [id |-> i, gen |-> gen[i], data |-> data] BY <1>1
  <2>2. r.id = i /\ ~Stale(r)' BY <2>1 DEF Stale
  <2>3. QED BY <2>2 DEF Coming, Due
<1>3. ASSUME NEW i \in Ids PROVE (Coming(i) => Coming(i)') /\ (Due(i) => Due(i)')
  <2>1. Coming(i) => Coming(i)' BY <1>1 DEF Coming, Stale
  <2>2. QED BY <2>1, <1>1 DEF Due
<1>4. QED BY <1>2, <1>3

\* The part of Add and of the end of a replacement that is about scripts: the new
\* ids were never known, and some old ones may leave the server.
LEMMA NewScripts ==
    ASSUME IndicatorInv, NEW new \in SUBSET (Ids \ history.known), Started(new),
           NEW old \in SUBSET server, server' = old \cup new,
           requests' = requests, gen' = gen, data' = data, results' = results,
           shown' = shown, session' = session, mail' = mail,
           history'.late = history.late,
           active' \in {active, active \cup new}
    PROVE  RunsHaveSources' /\ (UnlessSlipped => UnlessSlipped')
<1>1. TypeOK /\ KnownInv BY DEF IndicatorInv
<1>2. /\ sources' = sources \cup new
      /\ older'.done = older.done
      /\ older.todo \subseteq older'.todo /\ older'.todo \subseteq older.todo \cup (new \ sources)
      /\ runs \subseteq runs'
      /\ \A r \in runs' : r \in runs \/ (r.id \in new /\ r.gen = gen[r.id] /\ r.data = data)
  BY <1>1, StartedIs
<1>3. /\ \A i \in new : (\E r \in runs' : r.id = i /\ ~Stale(r)') /\ Coming(i)' /\ Due(i)'
      /\ \A i \in Ids : (Coming(i) => Coming(i)') /\ (Due(i) => Due(i)')
  BY <1>1, BeginsKeep
<1>4. server \subseteq Ids /\ sources \subseteq Ids /\ active \subseteq Ids BY <1>1 DEF TypeOK
<1>5. RunsHaveSources'
  <2>1. gen \in [Ids -> Nat] BY <1>1 DEF TypeOK
  <2>2. QED BY <2>1, <1>2 DEF IndicatorInv, RunsHaveSources, Stale
<1>6. ASSUME UnlessSlipped PROVE UnlessSlipped'
  <2>1. RunsAreCurrent' BY <1>2, <1>6 DEF UnlessSlipped, RunsAreCurrent
  <2>2. ResultsAreDue' BY <1>2, <1>3, <1>4, <1>6 DEF UnlessSlipped, ResultsAreDue
  <2>3. ChunksAreWhole'
    <3>1. \A i \in new : older.done[i] = Nothing BY <1>1 DEF KnownInv
    <3>2. \A i \in server' : older'.done[i] \in {Nothing, data}
      BY <3>1, <1>2, <1>6 DEF UnlessSlipped, ChunksAreWhole
    <3>3. ASSUME NEW i \in older'.todo \cap sources' \cap server', i \notin new
          PROVE  (\E r \in runs' : r.id = i /\ ~Stale(r)') \/ (results'[i] # Nothing /\ results'[i].whole)
      <4>1. i \in older.todo \cap sources \cap server BY <3>3, <1>2
      <4>2. (\E r \in runs : r.id = i /\ ~Stale(r)) \/ (results[i] # Nothing /\ results[i].whole)
        BY <4>1, <1>6 DEF UnlessSlipped, ChunksAreWhole
      <4>3. QED BY <4>2, <1>2 DEF Stale
    <3>4. QED BY <3>2, <3>3, <1>3 DEF ChunksAreWhole
  <2>4. DrawnIsDue' BY <1>2, <1>3, <1>4, <1>6 DEF UnlessSlipped, DrawnIsDue
  <2>5. QED BY <2>1, <2>2, <2>3, <2>4 DEF UnlessSlipped
<1>7. QED BY <1>5, <1>6

LEMMA AddKeeps == ASSUME IndicatorInv, NEW i \in Ids, Add(i) PROVE IndicatorInv'
<1>1. TypeOK /\ KnownInv /\ DataInv BY DEF IndicatorInv
<1>2. /\ i \notin history.known
      /\ server' = server \cup {i} /\ labels' = labels \cup {i}
      /\ active' = active \cup {i} /\ computing' = computing \cup {i}
      /\ Started({i})
      /\ history' = [history EXCEPT !.known = @ \cup {i}]
      /\ data' = data /\ requests' = requests /\ deleting' = deleting /\ gen' = gen
      /\ results' = results /\ shown' = shown /\ session' = session /\ mail' = mail
  BY DEF Add
<1>3. /\ history'.known = history.known \cup {i} /\ history'.relisted = history.relisted
      /\ history'.late = history.late /\ history'.events = history.events
      /\ history'.slipped = history.slipped
      /\ history' \in [known : SUBSET Ids, relisted : SUBSET Ids, late : SUBSET Ids,
                       slipped : BOOLEAN, events : 0..MaxEvents]
  BY <1>1, <1>2 DEF TypeOK
<1>4. {i} \in SUBSET Ids /\ {i} \in SUBSET (Ids \ history.known) BY <1>2
<1>5. /\ sources' = sources \cup {i} /\ sources' \subseteq Ids
      /\ older' \in [busy : BOOLEAN, todo : SUBSET Ids, done : [Ids -> Datasets]]
      /\ older'.busy = older.busy /\ older'.done = older.done
      /\ ~older.busy => older' = older
      /\ runs' \subseteq [id : Ids, gen : Nat, data : Datasets]
      /\ \A r \in runs' : r \in runs \/ (r.id \in {i} /\ r.gen = gen[r.id] /\ r.data = data)
  BY <1>1, <1>2, <1>4, StartedIs
<1>6. TypeOK' BY <1>1, <1>2, <1>3, <1>5 DEF TypeOK
<1>7. KnownInv' BY <1>1, <1>2, <1>3, <1>5 DEF KnownInv
<1>8. DataInv' BY <1>1, <1>2, <1>3, <1>5 DEF DataInv
<1>9. deleting[i] = "no" BY <1>1, <1>2 DEF KnownInv, TypeOK
<1>10. GoneIsInactive' /\ RemovedStaysGone'
  BY <1>2, <1>3, <1>9 DEF IndicatorInv, GoneIsInactive, RemovedStaysGone
<1>11. RunsHaveSources' /\ (UnlessSlipped => UnlessSlipped')
  BY <1>2, <1>3, <1>4, NewScripts
<1>12. QED BY <1>3, <1>6, <1>7, <1>8, <1>10, <1>11 DEF IndicatorInv

LEMMA DeleteEndsKeeps == ASSUME IndicatorInv, NEW i \in Ids, DeleteEnds(i) PROVE IndicatorInv'
<1>1. TypeOK /\ KnownInv /\ DataInv BY DEF IndicatorInv
<1>2. PICK success \in BOOLEAN, new \in SUBSET (Ids \ history.known) :
         /\ server' = (IF success THEN server \ {i} ELSE server) \cup new
         /\ labels' = (IF success THEN labels \ {i} ELSE labels) \cup new
         /\ active' = IF success THEN active ELSE active \cup {i}
         /\ computing' = computing \cup new
         /\ Started(new)
         /\ history' = [history EXCEPT
              !.known = @ \cup new, !.slipped = @ \/ ~success,
              !.relisted = @ \cup {j \in {i} : ~success /\ j \notin server}]
  BY DEF DeleteEnds
<1>3. /\ deleting[i] # "no" /\ deleting' = [deleting EXCEPT ![i] = "no"]
      /\ data' = data /\ requests' = requests /\ gen' = gen
      /\ results' = results /\ shown' = shown /\ session' = session /\ mail' = mail
  BY DEF DeleteEnds
<1>4. /\ history'.known = history.known \cup new /\ history'.late = history.late
      /\ history'.events = history.events
      /\ history'.relisted = history.relisted \cup {j \in {i} : ~success /\ j \notin server}
      /\ ~history'.slipped => ~history.slipped /\ success
      /\ history' \in [known : SUBSET Ids, relisted : SUBSET Ids, late : SUBSET Ids,
                       slipped : BOOLEAN, events : 0..MaxEvents]
  <2>1. (history.slipped \/ ~success) \in BOOLEAN OBVIOUS
  <2>2. {j \in {i} : ~success /\ j \notin server} \subseteq Ids /\ new \subseteq Ids OBVIOUS
  <2>3. QED BY <2>1, <2>2, <1>1, <1>2 DEF TypeOK
<1>5. i \in history.known /\ i \notin new BY <1>1, <1>2, <1>3 DEF KnownInv
<1>6. new \in SUBSET Ids OBVIOUS
<1>7. /\ sources' = sources \cup new /\ sources' \subseteq Ids
      /\ older' \in [busy : BOOLEAN, todo : SUBSET Ids, done : [Ids -> Datasets]]
      /\ older'.busy = older.busy /\ older'.done = older.done
      /\ ~older.busy => older' = older
      /\ runs' \subseteq [id : Ids, gen : Nat, data : Datasets]
      /\ \A r \in runs' : r \in runs \/ (r.id \in new /\ r.gen = gen[r.id] /\ r.data = data)
  BY <1>1, <1>2, <1>6, StartedIs
<1>8. /\ deleting' \in [Ids -> {"no", "remove", "replace"}] /\ deleting'[i] = "no"
      /\ \A j \in Ids \ {i} : deleting'[j] = deleting[j]
  BY <1>1, <1>3 DEF TypeOK
<1>9. server' \subseteq Ids /\ labels' \subseteq Ids /\ active' \subseteq Ids /\ computing' \subseteq Ids
  BY <1>1, <1>2 DEF TypeOK
<1>10. TypeOK' BY <1>1, <1>3, <1>4, <1>7, <1>8, <1>9 DEF TypeOK
<1>11. KnownInv'
  <2>1. server' \subseteq history'.known /\ labels' \subseteq history'.known
    BY <1>1, <1>2, <1>4 DEF KnownInv
  <2>2. QED BY <2>1, <1>1, <1>3, <1>4, <1>5, <1>7, <1>8 DEF KnownInv
<1>12. DataInv' BY <1>1, <1>3, <1>4, <1>7 DEF DataInv
<1>13. ASSUME NEW j \in Ids \ history'.relisted, j \notin server' \/ deleting'[j] # "no"
       PROVE  j \notin active' /\ shown[j] = Nothing
  <2>1. j \notin history.relisted BY <1>4, <1>13
  <2>2. CASE j = i
    <3>1. success BY <2>2, <1>2, <1>4, <1>8, <1>13
    <3>2. j \notin active /\ shown[j] = Nothing
      BY <2>1, <2>2, <1>3 DEF IndicatorInv, GoneIsInactive, RemovedStaysGone
    <3>3. QED BY <3>1, <3>2, <1>2
  <2>3. CASE j # i
    <3>1. j \notin server \/ deleting[j] # "no" BY <2>3, <1>2, <1>8, <1>13
    <3>2. j \notin active /\ shown[j] = Nothing
      BY <2>1, <3>1 DEF IndicatorInv, GoneIsInactive, RemovedStaysGone
    <3>3. QED BY <2>3, <3>2, <1>2
  <2>4. QED BY <2>2, <2>3
<1>14. GoneIsInactive' /\ RemovedStaysGone'
  BY <1>3, <1>13 DEF GoneIsInactive, RemovedStaysGone
<1>15. RunsHaveSources' BY <1>2, <1>3, <1>7 DEF IndicatorInv, RunsHaveSources, Stale
<1>16. ASSUME ~history'.slipped PROVE UnlessSlipped'
  <2>1. UnlessSlipped /\ success BY <1>4, <1>16 DEF IndicatorInv
  <2>2. server' = (server \ {i}) \cup new /\ active' = active BY <2>1, <1>2
  <2>3. QED BY <2>1, <2>2, <1>2, <1>3, <1>4, NewScripts
<1>17. QED BY <1>10, <1>11, <1>12, <1>14, <1>15, <1>16 DEF IndicatorInv

LEMMA RemoveKeeps == ASSUME IndicatorInv, NEW i \in Ids, RemoveIndicator(i) PROVE IndicatorInv'
<1>1. TypeOK /\ KnownInv /\ DataInv BY DEF IndicatorInv
<1>2. /\ i \in labels /\ history.events < MaxEvents
      /\ session' = [session EXCEPT ![i] = Nothing]
      /\ gen' = [gen EXCEPT ![i] = @ + 1]
      /\ results' = [results EXCEPT ![i] = Nothing]
      /\ shown' = [shown EXCEPT ![i] = Nothing]
      /\ sources' = sources \ {i}
      /\ computing' = computing \ {i} /\ active' = computing'
      /\ history' = [history EXCEPT !.events = @ + 1,
           !.relisted = @ \cup {j \in active' : j \notin server \/ deleting[j] # "no"},
           !.late = @ \cup {j \in active' \ active : \A r \in runs : r.id = j => Stale(r)}]
      /\ data' = data /\ requests' = requests /\ server' = server /\ labels' = labels
      /\ runs' = runs /\ older' = older /\ mail' = mail
  BY DEF RemoveIndicator
<1>3. PICK why \in {"remove", "replace"} : deleting' = [deleting EXCEPT ![i] = why]
  BY DEF RemoveIndicator
<1>4. active' \subseteq Ids /\ i \notin active' BY <1>1, <1>2 DEF TypeOK
<1>5. /\ history'.known = history.known /\ history'.slipped = history.slipped
      /\ history'.events = history.events + 1
      /\ history'.relisted = history.relisted \cup {j \in active' : j \notin server \/ deleting[j] # "no"}
      /\ history'.late = history.late \cup {j \in active' \ active : \A r \in runs : r.id = j => Stale(r)}
      /\ history' \in [known : SUBSET Ids, relisted : SUBSET Ids, late : SUBSET Ids,
                       slipped : BOOLEAN, events : 0..MaxEvents]
  <2>1. PICK a \in SUBSET Ids : a = {j \in active' : j \notin server \/ deleting[j] # "no"}
    BY <1>4
  <2>2. PICK b \in SUBSET Ids : b = {j \in active' \ active : \A r \in runs : r.id = j => Stale(r)}
    BY <1>4
  <2>3. history.events + 1 \in 0..MaxEvents BY <1>1, <1>2, DataIs
  <2>4. history' = [history EXCEPT !.events = @ + 1, !.relisted = @ \cup a, !.late = @ \cup b]
    BY <1>2, <2>1, <2>2
  <2>5. QED BY <2>1, <2>2, <2>3, <2>4, <1>1 DEF TypeOK
<1>6. /\ session' \in [Ids -> Datasets] /\ results' \in [Ids -> Datasets] /\ shown' \in [Ids -> Datasets]
      /\ shown'[i] = Nothing /\ session'[i] = Nothing
      /\ \A j \in Ids \ {i} : /\ session'[j] = session[j] /\ results'[j] = results[j]
                              /\ shown'[j] = shown[j]
  BY <1>1, <1>2, DataIs DEF TypeOK
<1>7. gen' \in [Ids -> Nat] /\ \A j \in Ids \ {i} : gen'[j] = gen[j]
  BY <1>1, <1>2 DEF TypeOK
<1>8. deleting' \in [Ids -> {"no", "remove", "replace"}] /\ \A j \in Ids \ {i} : deleting'[j] = deleting[j]
  BY <1>1, <1>3 DEF TypeOK
<1>9. TypeOK' BY <1>1, <1>2, <1>4, <1>5, <1>6, <1>7, <1>8 DEF TypeOK
<1>10. KnownInv'
  <2>1. i \in history.known BY <1>1, <1>2 DEF KnownInv
  <2>2. \A j \in Ids : deleting'[j] # "no" => j \in history.known
    BY <2>1, <1>1, <1>8 DEF KnownInv
  <2>3. QED BY <2>2, <1>1, <1>2, <1>5 DEF KnownInv
<1>11. DataInv'
  <2>1. data.epoch <= history'.events /\ data.chunks <= history'.events
    BY <1>1, <1>5, DataIs
  <2>2. QED BY <2>1, <1>1, <1>2, <1>6 DEF DataInv
<1>12. GoneIsInactive' BY <1>2, <1>4, <1>5, <1>8 DEF GoneIsInactive
<1>13. RemovedStaysGone'
  <2> SUFFICES ASSUME NEW j \in Ids \ history'.relisted, j \notin server \/ deleting'[j] # "no"
               PROVE  shown'[j] = Nothing
    BY <1>2 DEF RemovedStaysGone
  <2>1. CASE j = i BY <2>1, <1>6
  <2>2. CASE j # i BY <2>2, <1>5, <1>6, <1>8 DEF IndicatorInv, RemovedStaysGone
  <2>3. QED BY <2>1, <2>2
<1>14. \A r \in runs : r.id \in Ids /\ r.gen \in Nat BY <1>1 DEF TypeOK
<1>15. \A r \in runs : r.id # i => (Stale(r)' <=> Stale(r)) BY <1>7, <1>14 DEF Stale
<1>16. RunsHaveSources'
  <2> SUFFICES ASSUME NEW r \in runs
               PROVE  r.gen <= gen'[r.id] /\ (~Stale(r)' /\ r.id \in server => r.id \in sources')
    BY <1>2 DEF RunsHaveSources
  <2>1. r.gen <= gen[r.id] /\ (~Stale(r) /\ r.id \in server => r.id \in sources)
    BY DEF IndicatorInv, RunsHaveSources
  <2>2. CASE r.id = i
    <3>1. gen'[i] = gen[i] + 1 /\ gen[i] \in Nat /\ r.gen \in Nat BY <1>1, <1>2, <1>14 DEF TypeOK
    <3>2. r.gen <= gen'[r.id] /\ Stale(r)' BY <2>1, <2>2, <3>1 DEF Stale
    <3>3. QED BY <3>2
  <2>3. CASE r.id # i BY <2>1, <2>3, <1>2, <1>7, <1>14, <1>15
  <2>4. QED BY <2>2, <2>3
<1>17. \A j \in Ids \ {i} : (Coming(j) => Coming(j)') /\ (Due(j) => Due(j)')
  <2> SUFFICES ASSUME NEW j \in Ids \ {i} PROVE (Coming(j) => Coming(j)') /\ (Due(j) => Due(j)')
    OBVIOUS
  <2>1. Coming(j) => Coming(j)' BY <1>2, <1>15 DEF Coming
  <2>2. QED BY <2>1, <1>2 DEF Due
<1>18. ASSUME ~history'.slipped PROVE UnlessSlipped'
  <2>1. UnlessSlipped BY <1>5, <1>18 DEF IndicatorInv
  <2>2. server \subseteq Ids /\ sources \subseteq Ids /\ active \subseteq Ids BY <1>1 DEF TypeOK
  <2>3. RunsAreCurrent' BY <2>1, <1>2 DEF UnlessSlipped, RunsAreCurrent
  <2>4. ResultsAreDue'
    <3> SUFFICES ASSUME NEW j \in sources \cap server, j # i
                 PROVE  /\ Due(j)' \/ results'[j] = data
                        /\ Coming(j)' \/ session'[j].epoch = data.epoch
      BY <1>2 DEF ResultsAreDue
    <3>1. /\ Due(j) \/ results[j] = data
          /\ Coming(j) \/ session[j].epoch = data.epoch
      BY <2>1 DEF UnlessSlipped, ResultsAreDue
    <3>2. QED BY <3>1, <2>2, <1>6, <1>17
  <2>5. ChunksAreWhole'
    <3> SUFFICES ASSUME NEW j \in older.todo \cap sources \cap server, j # i
                 PROVE  (\E r \in runs : r.id = j /\ ~Stale(r)') \/ (results'[j] # Nothing /\ results'[j].whole)
      BY <2>1, <1>2 DEF UnlessSlipped, ChunksAreWhole
    <3>1. (\E r \in runs : r.id = j /\ ~Stale(r)) \/ (results[j] # Nothing /\ results[j].whole)
      BY <2>1 DEF UnlessSlipped, ChunksAreWhole
    <3>2. QED BY <3>1, <2>2, <1>6, <1>15
  <2>6. DrawnIsDue'
    <3> SUFFICES ASSUME NEW j \in (active' \ history'.late) \cap server
                 PROVE  j \in sources' /\ (Due(j)' \/ shown'[j] = data)
      BY <1>2 DEF DrawnIsDue
    <3>1. j # i /\ j \in Ids \ {i} /\ j \notin history.late BY <2>2, <1>4, <1>5
    <3>2. CASE j \in active
      <4>1. j \in sources /\ (Due(j) \/ shown[j] = data)
        BY <2>1, <3>1, <3>2 DEF UnlessSlipped, DrawnIsDue
      <4>2. QED BY <4>1, <3>1, <1>2, <1>6, <1>17
    <3>3. CASE j \notin active
      <4>1. PICK r \in runs : r.id = j /\ ~Stale(r) BY <3>3, <1>5
      <4>2. j \in sources BY <4>1 DEF IndicatorInv, RunsHaveSources
      <4>3. Coming(j) BY <4>1 DEF Coming
      <4>4. QED BY <4>2, <4>3, <3>1, <1>2, <1>17 DEF Due
    <3>4. QED BY <3>2, <3>3
  <2>7. QED BY <2>3, <2>4, <2>5, <2>6 DEF UnlessSlipped
<1>19. QED BY <1>9, <1>10, <1>11, <1>12, <1>13, <1>16, <1>18 DEF IndicatorInv

LEMMA RemovedElsewhereKeeps ==
    ASSUME IndicatorInv, NEW i \in Ids, RemovedElsewhere(i) PROVE IndicatorInv'
<1>1. TypeOK /\ KnownInv /\ DataInv BY DEF IndicatorInv
<1>2. /\ history.events < MaxEvents
      /\ server' = server \ {i} /\ labels' = labels \ {i} /\ active' = active \ {i}
      /\ sources' = sources \ {i}
      /\ results' = [results EXCEPT ![i] = Nothing] /\ shown' = [shown EXCEPT ![i] = Nothing]
      /\ session' = [session EXCEPT ![i] = Nothing]
      /\ history' = [history EXCEPT !.events = @ + 1]
      /\ data' = data /\ requests' = requests /\ deleting' = deleting /\ computing' = computing
      /\ gen' = gen /\ runs' = runs /\ older' = older /\ mail' = mail
  BY DEF RemovedElsewhere
<1>3. /\ history'.known = history.known /\ history'.relisted = history.relisted
      /\ history'.late = history.late /\ history'.events = history.events + 1
      /\ history'.slipped = history.slipped
      /\ history' \in [known : SUBSET Ids, relisted : SUBSET Ids, late : SUBSET Ids,
                       slipped : BOOLEAN, events : 0..MaxEvents]
  <2>1. history.events + 1 \in 0..MaxEvents BY <1>1, <1>2, DataIs
  <2>2. QED BY <2>1, <1>1, <1>2 DEF TypeOK
<1>4. /\ session' \in [Ids -> Datasets] /\ results' \in [Ids -> Datasets] /\ shown' \in [Ids -> Datasets]
      /\ shown'[i] = Nothing /\ session'[i] = Nothing
      /\ \A j \in Ids \ {i} : /\ session'[j] = session[j] /\ results'[j] = results[j]
                              /\ shown'[j] = shown[j]
  BY <1>1, <1>2, DataIs DEF TypeOK
<1>5. server \subseteq Ids /\ sources \subseteq Ids /\ active \subseteq Ids BY <1>1 DEF TypeOK
<1>6. TypeOK' BY <1>1, <1>2, <1>3, <1>4 DEF TypeOK
<1>7. KnownInv' BY <1>1, <1>2, <1>3 DEF KnownInv
<1>8. DataInv'
  <2>1. data.epoch <= history'.events /\ data.chunks <= history'.events
    BY <1>1, <1>3, DataIs
  <2>2. QED BY <2>1, <1>1, <1>2, <1>4 DEF DataInv
<1>9. GoneIsInactive' BY <1>2, <1>3 DEF IndicatorInv, GoneIsInactive
<1>10. RemovedStaysGone'
  <2> SUFFICES ASSUME NEW j \in Ids \ history.relisted, j \notin server' \/ deleting[j] # "no"
               PROVE  shown'[j] = Nothing
    BY <1>2, <1>3 DEF RemovedStaysGone
  <2>1. CASE j = i BY <2>1, <1>4
  <2>2. CASE j # i BY <2>2, <1>2, <1>4 DEF IndicatorInv, RemovedStaysGone
  <2>3. QED BY <2>1, <2>2
<1>11. RunsHaveSources' BY <1>2 DEF IndicatorInv, RunsHaveSources, Stale
<1>12. \A j : (Coming(j)' <=> Coming(j)) /\ (Due(j)' <=> Due(j)) BY <1>2 DEF Due, Coming, Stale
<1>13. ASSUME UnlessSlipped PROVE UnlessSlipped'
  <2>1. RunsAreCurrent' BY <1>2, <1>13 DEF UnlessSlipped, RunsAreCurrent
  <2>2. ResultsAreDue' BY <1>2, <1>4, <1>5, <1>12, <1>13 DEF UnlessSlipped, ResultsAreDue
  <2>3. ChunksAreWhole' BY <1>2, <1>4, <1>5, <1>13 DEF UnlessSlipped, ChunksAreWhole, Stale
  <2>4. DrawnIsDue' BY <1>2, <1>3, <1>4, <1>5, <1>12, <1>13 DEF UnlessSlipped, DrawnIsDue
  <2>5. QED BY <2>1, <2>2, <2>3, <2>4 DEF UnlessSlipped
<1>14. QED BY <1>3, <1>6, <1>7, <1>8, <1>9, <1>10, <1>11, <1>13 DEF IndicatorInv

-----------------------------------------------------------------------------
(* The indicators: the theorem                                             *)

LEMMA IndicatorsStart == Init => IndicatorInv
<1> SUFFICES ASSUME Init PROVE IndicatorInv OBVIOUS
<1>1. /\ data = [epoch |-> 0, chunks |-> 0, whole |-> TRUE]
      /\ server \in SUBSET Ids /\ requests = {[kind |-> "list", ids |-> server]}
      /\ labels = server /\ active = {} /\ computing = {} /\ sources = {}
      /\ deleting = [i \in Ids |-> "no"] /\ gen = [i \in Ids |-> 0]
      /\ runs = {} /\ older = Idle
      /\ results = [i \in Ids |-> Nothing] /\ shown = results /\ session = results /\ mail = results
      /\ history = [known |-> server, relisted |-> {}, late |-> {}, slipped |-> FALSE, events |-> 0]
  BY DEF Init
<1>2. /\ Nothing \in Datasets /\ data \in Datasets BY <1>1, DisplayAssumption DEF Nothing, Datasets
<1>3. /\ Idle \in [busy : BOOLEAN, todo : SUBSET Ids, done : [Ids -> Datasets]]
      /\ Idle.todo = {} /\ ~Idle.busy /\ \A i \in Ids : Idle.done[i] = Nothing
  BY <1>2 DEF Idle
<1>4. requests \subseteq [kind : {"load"}, epoch : 0..MaxEvents] \cup [kind : {"list"}, ids : SUBSET Ids]
  BY <1>1
<1>5. TypeOK BY <1>1, <1>2, <1>3, <1>4, DisplayAssumption DEF TypeOK
<1>6. KnownInv BY <1>1, <1>3 DEF KnownInv
<1>7. DataInv BY <1>1, <1>3 DEF DataInv
<1>8. GoneIsInactive /\ RemovedStaysGone /\ RunsHaveSources
  BY <1>1 DEF GoneIsInactive, RemovedStaysGone, RunsHaveSources
<1>9. UnlessSlipped
  BY <1>1, <1>3 DEF UnlessSlipped, RunsAreCurrent, ResultsAreDue, ChunksAreWhole, DrawnIsDue
<1>10. QED BY <1>5, <1>6, <1>7, <1>8, <1>9 DEF IndicatorInv

LEMMA IndicatorsStep == IndicatorInv /\ [Next]_vars => IndicatorInv'
<1> SUFFICES ASSUME IndicatorInv, [Next]_vars PROVE IndicatorInv' OBVIOUS
<1>1. CASE Switch BY <1>1, SwitchKeeps
<1>2. CASE BarsLoaded BY <1>2, BarsLoadedKeeps
<1>3. CASE ListArrives BY <1>3, ListArrivesKeeps
<1>4. CASE ChunkArrives BY <1>4, ChunkArrivesKeeps
<1>5. CASE ChunkDrawn BY <1>5, ChunkDrawnKeeps
<1>6. ASSUME NEW r \in runs, RunEnds(r) \/ RunFails(r) PROVE IndicatorInv'
  BY <1>6, RunEndsKeeps, RunFailsKeeps
<1>7. ASSUME NEW i \in Ids, \/ SessionRuns(i) \/ MailArrives(i) \/ ChunkRuns(i) \/ ChunkSkips(i)
                            \/ Add(i) \/ RemoveIndicator(i) \/ DeleteEnds(i) \/ RemovedElsewhere(i)
      PROVE  IndicatorInv'
  BY <1>7, SessionRunsKeeps, MailArrivesKeeps, ChunkRunsKeeps, ChunkSkipsKeeps,
     AddKeeps, RemoveKeeps, DeleteEndsKeeps, RemovedElsewhereKeeps
<1>8. CASE UNCHANGED vars
  <2>1. /\ data' = data /\ requests' = requests
        /\ server' = server /\ labels' = labels /\ deleting' = deleting /\ active' = active
        /\ computing' = computing /\ sources' = sources /\ gen' = gen /\ results' = results
        /\ shown' = shown /\ runs' = runs /\ older' = older /\ session' = session
        /\ mail' = mail /\ history' = history
    BY <1>8 DEF vars, user, marks, books
  <2>2. TypeOK' /\ KnownInv' /\ DataInv' BY <2>1 DEF IndicatorInv, TypeOK, KnownInv, DataInv
  <2>3. GoneIsInactive' /\ RemovedStaysGone' /\ RunsHaveSources'
    BY <2>1 DEF IndicatorInv, GoneIsInactive, RemovedStaysGone, RunsHaveSources, Stale
  <2>4. UnlessSlipped => UnlessSlipped'
    BY <2>1 DEF UnlessSlipped, RunsAreCurrent, ResultsAreDue, ChunksAreWhole, DrawnIsDue,
                Due, Coming, Stale
  <2>5. QED BY <2>1, <2>2, <2>3, <2>4 DEF IndicatorInv
<1>9. QED BY <1>1, <1>2, <1>3, <1>4, <1>5, <1>6, <1>7, <1>8 DEF Next

\* Once nothing is under way, what is due has been drawn.
LEMMA DueIsDrawn == IndicatorInv => IndicatorsAreTrue
<1> SUFFICES ASSUME IndicatorInv PROVE IndicatorsAreTrue OBVIOUS
<1>1. ASSUME ~InFlight, ~history.slipped, NEW i \in active \ history.late, i \in server
      PROVE  shown[i] = data
  <2>1. UnlessSlipped /\ TypeOK /\ DataInv BY <1>1 DEF IndicatorInv
  <2>2. runs = {} /\ requests = {} /\ older = Idle BY <1>1, <2>1 DEF InFlight, DataInv
  <2>3. i \in Ids /\ data # Nothing BY <2>1, DataIs DEF TypeOK
  <2>4. ~Due(i) BY <2>2, <2>3 DEF Due, Coming, Idle
  <2>5. QED BY <1>1, <2>1, <2>4 DEF UnlessSlipped, DrawnIsDue
<1>2. QED BY <1>1 DEF IndicatorInv, IndicatorsAreTrue, DrawnOverAllBars

\* What was removed stays off the chart, and once everything has arrived what is
\* active is drawn over all bars, however runs, sessions, scroll-backs, lists and
\* removals overlap.
THEOREM IndicatorsStayTrue == Spec => []IndicatorsAreTrue
<1>1. IndicatorInv /\ [Next]_vars => IndicatorInv' BY IndicatorsStep
<1>2. QED BY <1>1, IndicatorsStart, DueIsDrawn, PTL DEF Spec

-----------------------------------------------------------------------------
(* The bars: what the requests and the socket keep                          *)

\* Bars are counted from one, up to the open one; the socket is on the topic.
BarTimes ==
    /\ now \in 1..LastNow /\ epoch \in 0..MaxSwitch
    /\ wire.topic = topic /\ wire.time \in 1..now /\ watermark <= wire.time
    /\ \A load \in loads : load.at \in 1..now
    /\ scroll.end <= now
    /\ \A i \in DOMAIN rows : rows[i].time \in 1..now

\* A scroll-back and a load are not under way together, and a scroll-back has
\* bars to go in front of.
RequestsApart ==
    /\ loads # {} => borders = <<>> /\ scroll = NoScroll
    /\ scroll.phase # "idle" => rows # <<>>

\* While the load is under way, nothing came.
UntilLoaded ==
    /\ rows = <<>> /\ pending = NoBar /\ scroll.phase = "idle"
    /\ \A load \in loads : load.topic = topic /\ load.at = wire.time /\ ~wire.final
    /\ \A k, l \in loads : k = l

\* Bars of the topic without a gap, each once, closed but for the last.
Unbroken(bars) ==
    \A i \in DOMAIN bars : /\ bars[i].topic = topic
                           /\ bars[i].time = bars[1].time + i - 1
                           /\ i < Len(bars) => bars[i].final

\* The last bar is as new as the socket's, and closed if that was.
UpToDate ==
    /\ Last(rows).time >= wire.time
    /\ wire.final => watermark = wire.time
    /\ wire.final /\ Last(rows).time = wire.time => Last(rows).final

\* What is drawn is what the scripts read, but for the older bars they run on;
\* the older bars that were asked for fit in front.
CandlesFollow ==
    /\ scroll.phase # "execute" => candles = rows
    /\ candles # <<>> /\ Last(candles) = Last(rows)
    /\ scroll.phase = "fetch" => scroll.topic = topic /\ scroll.end = rows[1].time - 1

OnceLoaded == loads = {} /\ rows # <<>> /\ Unbroken(rows) /\ UpToDate /\ CandlesFollow

BordersInRows ==
    \A i \in DOMAIN borders :
        borders[i].index + 1 \in DOMAIN rows /\ rows[borders[i].index + 1].time = borders[i].time

BarsInv ==
    /\ BarsTypeOK /\ BarTimes
    /\ scroll.phase = "idle" => scroll = NoScroll
    /\ "overlap" \notin odd => RequestsApart /\ BordersInRows
    /\ odd = {} /\ ~loaded => UntilLoaded
    /\ odd = {} /\ loaded => OnceLoaded

-----------------------------------------------------------------------------
(* The bars: sequences of bars                                              *)

LEMMA ListIs ==
    ASSUME NEW S, NEW n \in Nat, NEW f \in [1..n -> S]
    PROVE  f \in Seq(S) /\ Len(f) = n /\ DOMAIN f = 1..n
OBVIOUS

LEMMA NoBarIs == NoBar \in Bars /\ NoBar.time = 0 /\ NoBar.topic \in Topics
<1> DEFINE t == CHOOSE t \in Topics : TRUE
<1>1. t \in Topics BY ChartAssumption
<1>2. NoBar = [topic |-> t, time |-> 0, final |-> FALSE] BY DEF NoBar
<1> HIDE DEF t
<1>3. 0 \in Times /\ FALSE \in BOOLEAN BY ChartAssumption DEF Times
<1>4. QED BY <1>1, <1>2, <1>3 DEF Bars

LEMMA BarIs ==
    ASSUME NEW t \in Topics, NEW n \in Times, NEW f \in BOOLEAN
    PROVE  /\ Bar(t, n, f) \in Bars
           /\ Bar(t, n, f).topic = t /\ Bar(t, n, f).time = n /\ Bar(t, n, f).final = f
BY DEF Bar, Bars

\* An answer holds bars without a gap, of which the last alone is not final.
LEMMA AnswerIs ==
    ASSUME NEW t \in Topics, NEW first \in 1..LastNow, NEW last \in first..LastNow
    PROVE  LET bars == Answer(t, first, last)
           IN  /\ bars \in Seq(Bars) /\ Len(bars) = last - first + 1
               /\ \A i \in 1..(last - first + 1) :
                     /\ bars[i].topic = t /\ bars[i].time = first + i - 1
                     /\ bars[i].final = (i < last - first + 1)
<1> DEFINE n == last - first + 1
           bars == Answer(t, first, last)
<1>1. LastNow \in Nat /\ n \in Nat \ {0} BY ChartAssumption
<1>2. ASSUME NEW i \in 1..n
      PROVE  first + i - 1 \in Times /\ (i < n) \in BOOLEAN
  BY <1>1, <1>2 DEF Times
<1>3. bars = [i \in 1..n |-> Bar(t, first + i - 1, i < n)] BY DEF Answer
<1> HIDE DEF n, bars
<1>4. \A i \in 1..n : /\ Bar(t, first + i - 1, i < n) \in Bars
                      /\ bars[i].topic = t /\ bars[i].time = first + i - 1
                      /\ bars[i].final = (i < n)
  BY <1>2, <1>3, BarIs
<1>5. bars \in [1..n -> Bars] BY <1>3, <1>4
<1>6. bars \in Seq(Bars) /\ Len(bars) = n BY <1>1, <1>5, ListIs
<1>7. QED BY <1>4, <1>6 DEF n, bars

\* Older bars end where they were asked to.
LEMMA OlderIs ==
    ASSUME NEW t \in Topics, NEW end \in Times
    PROVE  LET bars == Older(t, end)
           IN  /\ bars \in Seq(Bars) /\ Len(bars) <= end
               /\ \A i \in 1..Len(bars) :
                     /\ bars[i].topic = t /\ bars[i].time = end - Len(bars) + i
                     /\ bars[i].final
<1> DEFINE first == IF end > Chunk THEN end - Chunk + 1 ELSE 1
           n == end - first + 1
           bars == Older(t, end)
<1>1. /\ LastNow \in Nat /\ Chunk \in Nat \ {0} /\ end \in Nat /\ end <= LastNow
      /\ first \in Nat \ {0} /\ n \in Nat /\ n <= end /\ first = end - n + 1
  BY ChartAssumption DEF Times
<1>2. bars = [i \in 1..n |-> Bar(t, first + i - 1, TRUE)] BY DEF Older
<1> HIDE DEF n, bars, first
<1>3. ASSUME NEW i \in 1..n
      PROVE  /\ Bar(t, first + i - 1, TRUE) \in Bars
             /\ bars[i].topic = t /\ bars[i].time = end - n + i /\ bars[i].final
  <2>1. first + i - 1 \in Times /\ TRUE \in BOOLEAN /\ first + i - 1 = end - n + i
    BY <1>1, <1>3 DEF Times
  <2>2. bars[i] = Bar(t, first + i - 1, TRUE) BY <1>2, <1>3
  <2>3. LET bar == Bar(t, first + i - 1, TRUE)
        IN  bar \in Bars /\ bar.topic = t /\ bar.time = first + i - 1 /\ bar.final = TRUE
    BY <2>1, BarIs
  <2>4. QED BY <2>1, <2>2, <2>3
<1>4. bars \in [1..n -> Bars] BY <1>2, <1>3
<1>5. bars \in Seq(Bars) /\ Len(bars) = n BY <1>1, <1>4, ListIs
<1>6. QED BY <1>1, <1>3, <1>5 DEF n, bars

\* A bar is placed at the end: over the last one, or behind it.
LEMMA PlacedIs ==
    ASSUME NEW bars \in Seq(Bars), NEW bar \in Bars
    PROVE  LET new == Placed(bars, bar)
           IN  /\ new \in Seq(Bars) /\ new # <<>> /\ Last(new) = bar
               /\ Len(bars) \in Nat /\ Len(new) \in Nat \ {0}
               /\ IF bars # <<>> /\ Last(bars).time = bar.time
                  THEN Len(new) = Len(bars) ELSE Len(new) = Len(bars) + 1
               /\ \A i \in 1..Len(new) : new[i] = IF i = Len(new) THEN bar ELSE bars[i]
               /\ \A i \in 1..Len(bars) : i \in 1..Len(new) /\ new[i].time = bars[i].time
<1> DEFINE new == Placed(bars, bar)
           n == Len(bars)
<1>1. n \in Nat BY LenProperties
<1>2. CASE bars # <<>> /\ Last(bars).time = bar.time
  <2>1. new = [bars EXCEPT ![n] = bar] BY <1>2 DEF Placed
  <2>2. n \in 1..n BY <1>1, <1>2, EmptySeq
  <2> HIDE DEF new
  <2>3. /\ new \in Seq(Bars) /\ Len(new) = n
        /\ \A j \in 1..n : new[j] = IF j = n THEN bar ELSE bars[j]
    BY <2>1, <2>2, ExceptSeq
  <2>4. new # <<>> /\ new[n] = bar /\ Last(new) = bar
    <3>1. new[n] = bar BY <2>2, <2>3
    <3>2. new # <<>> BY <2>2, <2>3, EmptySeq
    <3>3. QED BY <3>1, <3>2, <2>3 DEF Last
  <2>5. bars[n].time = bar.time BY <1>2 DEF Last
  <2>6. QED BY <1>1, <1>2, <2>2, <2>3, <2>4, <2>5 DEF new
<1>3. CASE ~(bars # <<>> /\ Last(bars).time = bar.time)
  <2>1. new = Append(bars, bar) BY <1>3 DEF Placed
  <2> HIDE DEF new
  <2>2. /\ new \in Seq(Bars) /\ new # <<>> /\ Len(new) = n + 1
        /\ \A i \in 1..n : new[i] = bars[i]
        /\ new[n + 1] = bar
    BY <2>1, AppendProperties
  <2>3. Last(new) = bar BY <2>2 DEF Last
  <2>4. QED BY <1>1, <1>3, <2>2, <2>3 DEF new
<1>4. QED BY <1>2, <1>3

\* The order of bars: each place is taken by one of them.
LEMMA PlaceIs ==
    ASSUME NEW bars \in Seq(Bars), NEW i \in 1..Len(bars)
    PROVE  Place(bars, i) \in 1..Len(bars)
<1> DEFINE n == Len(bars)
           upto == {j \in 1..n : \/ bars[j].time < bars[i].time
                                 \/ bars[j].time = bars[i].time /\ j <= i}
<1>1. n \in Nat /\ DOMAIN bars = 1..n BY LenProperties
<1>2. Place(bars, i) = Cardinality(upto) BY <1>1 DEF Place
<1>3. IsFiniteSet(1..n) /\ Cardinality(1..n) = n BY <1>1, FS_Interval
<1>4. upto \in SUBSET (1..n) /\ i \in upto BY <1>1
<1> HIDE DEF upto
<1>5. IsFiniteSet(upto) /\ Cardinality(upto) <= n BY <1>3, <1>4, FS_Subset
<1>6. Cardinality(upto) \in Nat /\ Cardinality(upto) # 0
  BY <1>4, <1>5, FS_CardinalityType, FS_EmptySet
<1>7. QED BY <1>1, <1>2, <1>5, <1>6

LEMMA PlacesDiffer ==
    ASSUME NEW bars \in Seq(Bars), NEW i \in 1..Len(bars), NEW k \in 1..Len(bars), i # k
    PROVE  Place(bars, i) # Place(bars, k)
<1> DEFINE n == Len(bars)
           Upto(m) == {j \in 1..n : \/ bars[j].time < bars[m].time
                                    \/ bars[j].time = bars[m].time /\ j <= m}
<1>1. n \in Nat /\ DOMAIN bars = 1..n BY LenProperties
<1>2. \A j \in 1..n : bars[j].time \in Nat
  <2> SUFFICES ASSUME NEW j \in 1..n PROVE bars[j].time \in Nat OBVIOUS
  <2>1. bars[j] \in Bars BY ElementOfSeq
  <2>2. QED BY <2>1, ChartAssumption DEF Bars, Times
<1>3. Place(bars, i) = Cardinality(Upto(i)) /\ Place(bars, k) = Cardinality(Upto(k))
  BY <1>1 DEF Place
<1>4. IsFiniteSet(1..n) /\ Cardinality(1..n) = n
  <2>1. 1 \in Int /\ n \in Int BY <1>1
  <2>2. Cardinality(1..n) = IF 1 > n THEN 0 ELSE n - 1 + 1 BY <2>1, FS_Interval
  <2>3. IsFiniteSet(1..n) BY <2>1, FS_Interval
  <2>4. QED BY <1>1, <2>2, <2>3
<1>5. /\ Upto(i) \in SUBSET (1..n) /\ Upto(k) \in SUBSET (1..n)
      /\ i \in Upto(i) /\ k \in Upto(k)
      /\ \/ Upto(i) \subseteq Upto(k) /\ k \notin Upto(i)
         \/ Upto(k) \subseteq Upto(i) /\ i \notin Upto(k)
  BY <1>1, <1>2
<1> HIDE DEF Upto
<1>6. IsFiniteSet(Upto(i)) /\ IsFiniteSet(Upto(k))
  BY <1>4, <1>5, FS_Subset
<1>7. Cardinality(Upto(i)) # Cardinality(Upto(k))
  <2>1. CASE Upto(i) \subseteq Upto(k) /\ k \notin Upto(i)
    BY <2>1, <1>5, <1>6, FS_Subset
  <2>2. CASE Upto(k) \subseteq Upto(i) /\ i \notin Upto(k)
    BY <2>2, <1>5, <1>6, FS_Subset
  <2>3. QED BY <1>5, <2>1, <2>2
<1>8. QED BY <1>3, <1>7

LEMMA PlacesAreTaken ==
    ASSUME NEW bars \in Seq(Bars), NEW k \in 1..Len(bars)
    PROVE  \E i \in 1..Len(bars) : Place(bars, i) = k
<1> SUFFICES ASSUME \A i \in 1..Len(bars) : Place(bars, i) # k PROVE FALSE OBVIOUS
<1> DEFINE n == Len(bars)
           rest == (1..n) \ {k}
           place == [i \in 1..n |-> Place(bars, i)]
<1>1. n \in Nat BY LenProperties
<1>2. IsFiniteSet(1..n) /\ Cardinality(1..n) = n BY <1>1, FS_Interval
<1>3. IsFiniteSet(rest) /\ Cardinality(rest) = n - 1 BY <1>2, FS_RemoveElement
<1>4. place \in [1..n -> rest] BY PlaceIs
<1> HIDE DEF place, rest
<1>5. \E x, y \in 1..n : x # y /\ place[x] = place[y]
  BY <1>1, <1>2, <1>3, <1>4, FS_PigeonHole
<1>6. QED BY <1>5, PlacesDiffer DEF place

\* Bars are put in order one by one; bars in order stay where they are.
LEMMA InOrderIs ==
    ASSUME NEW bars \in Seq(Bars)
    PROVE  /\ InOrder(bars) \in Seq(Bars) /\ Len(InOrder(bars)) = Len(bars)
           /\ (\A i, j \in 1..Len(bars) : i < j => bars[i].time < bars[j].time)
                => InOrder(bars) = bars
<1> DEFINE n == Len(bars)
           At(k) == CHOOSE i \in 1..n : Place(bars, i) = k
           new == InOrder(bars)
<1>1. n \in Nat /\ DOMAIN bars = 1..n BY LenProperties
<1>2. new = [k \in 1..n |-> bars[At(k)]] BY <1>1 DEF InOrder
<1>3. \A k \in 1..n : At(k) \in 1..n /\ Place(bars, At(k)) = k BY PlacesAreTaken
<1> HIDE DEF At, new
<1>4. \A k \in 1..n : bars[At(k)] \in Bars BY <1>3, ElementOfSeq
<1>5. new \in [1..n -> Bars] BY <1>2, <1>4
<1>6. new \in Seq(Bars) /\ Len(new) = n BY <1>1, <1>5, ListIs
<1>7. ASSUME \A i, j \in 1..n : i < j => bars[i].time < bars[j].time PROVE new = bars
  <2>1. \A i \in 1..n : Place(bars, i) = i
    <3> SUFFICES ASSUME NEW i \in 1..n PROVE Place(bars, i) = i OBVIOUS
    <3> DEFINE upto == {j \in 1..n : \/ bars[j].time < bars[i].time
                                     \/ bars[j].time = bars[i].time /\ j <= i}
    <3>1. \A j \in 1..n : bars[j].time \in Nat
      <4> SUFFICES ASSUME NEW j \in 1..n PROVE bars[j].time \in Nat OBVIOUS
      <4>1. bars[j] \in Bars BY ElementOfSeq
      <4>2. QED BY <4>1, ChartAssumption DEF Bars, Times
    <3>2. \A j \in 1..n : j \in upto <=> j <= i BY <1>1, <1>7, <3>1
    <3>3. Place(bars, i) = Cardinality(upto) BY <1>1 DEF Place
    <3>4. upto \subseteq 1..n OBVIOUS
    <3> HIDE DEF upto
    <3>5. upto = 1..i
      <4>1. \A j \in 1..n : j <= i <=> j \in 1..i BY <1>1
      <4>2. 1..i \subseteq 1..n BY <1>1
      <4>3. QED BY <3>2, <3>4, <4>1, <4>2, Zenon
    <3>6. Cardinality(1..i) = IF 1 > i THEN 0 ELSE i - 1 + 1
      <4>1. 1 \in Int /\ i \in Int BY <1>1
      <4>2. QED BY <4>1, FS_Interval
    <3>7. Cardinality(1..i) = i BY <3>6, <1>1
    <3>8. QED BY <3>3, <3>5, <3>7
  <2>2. \A k \in 1..n : At(k) = k BY <2>1, <1>3
  <2>3. \A k \in 1..n : new[k] = bars[k] BY <2>2, <1>2
  <2>4. QED BY <2>3, <1>6, SeqEqual
<1>8. QED BY <1>6, <1>7 DEF new

-----------------------------------------------------------------------------
(* The bars: what every step keeps                                          *)

LEMMA EndsAre ==
    ASSUME NEW bars \in Seq(Bars), bars # <<>>
    PROVE  /\ Len(bars) \in Nat \ {0} /\ DOMAIN bars = 1..Len(bars)
           /\ Last(bars) = bars[Len(bars)] /\ Head(bars) = bars[1]
           /\ Last(bars) \in Bars /\ bars[1] \in Bars
           /\ Last(bars).time \in Nat /\ bars[1].time \in Nat
<1>1. Len(bars) \in Nat \ {0} BY EmptySeq
<1>2. DOMAIN bars = 1..Len(bars) BY LenProperties
<1>3. bars[Len(bars)] \in Bars /\ bars[1] \in Bars BY <1>1, ElementOfSeq
<1>4. \A bar \in Bars : bar.time \in Nat BY ChartAssumption DEF Bars, Times
<1>5. QED BY <1>1, <1>2, <1>3, <1>4 DEF Last

\* Bars without a gap are in order.
LEMMA UnbrokenIsOrdered ==
    ASSUME BarsTypeOK, rows # <<>>, Unbroken(rows)
    PROVE  \A i, j \in 1..Len(rows) : i < j => rows[i].time < rows[j].time
<1>1. rows \in Seq(Bars) BY DEF BarsTypeOK
<1>2. Len(rows) \in Nat /\ DOMAIN rows = 1..Len(rows) /\ rows[1].time \in Nat
  BY <1>1, EndsAre
<1>3. \A i \in 1..Len(rows) : rows[i].time = rows[1].time + i - 1
  BY <1>2 DEF Unbroken
<1>4. QED BY <1>2, <1>3

\* What each part of the state is, for the steps.
LEMMA PartsAre ==
    ASSUME BarsInv
    PROVE  /\ now \in Nat /\ LastNow \in Nat /\ now <= LastNow /\ now >= 1
           /\ wire.time \in Nat /\ watermark \in Nat
           /\ wire = [topic |-> topic, time |-> wire.time, final |-> wire.final]
           /\ wire.final \in BOOLEAN
           /\ \A n \in 1..now : n \in Times
           /\ 0 \in Times
           /\ scroll.end \in Nat /\ scroll.end <= now
<1>1. /\ now \in 1..LastNow /\ wire.time \in 1..now /\ wire.topic = topic
      /\ watermark \in Times /\ watermark <= wire.time
  BY DEF BarsInv, BarsTypeOK, BarTimes
<1>2. LastNow \in Nat BY ChartAssumption
<1>3. watermark \in Nat BY <1>1, <1>2 DEF Times
<1>4. wire \in [topic : Topics, time : Times, final : BOOLEAN] BY DEF BarsInv, BarsTypeOK, Bars
<1>5. /\ wire = [topic |-> wire.topic, time |-> wire.time, final |-> wire.final]
      /\ wire.final \in BOOLEAN
  BY <1>4
<1>6. (\A n \in 1..now : n \in Times) /\ 0 \in Times BY <1>1, <1>2 DEF Times
<1>7. scroll.end \in Nat /\ scroll.end <= now
  <2>1. scroll.end \in Times /\ scroll.end <= now BY DEF BarsInv, BarsTypeOK, BarTimes
  <2>2. QED BY <1>2, <2>1 DEF Times
<1>8. QED BY <1>1, <1>2, <1>3, <1>5, <1>6, <1>7

\* No scroll-back is under way.
LEMMA NoScrollIs ==
    ASSUME 0 \in Times
    PROVE  /\ NoScroll \in [phase : {"idle", "fetch", "execute"}, topic : Topics, end : Times]
           /\ NoScroll.phase = "idle" /\ NoScroll.end = 0
BY NoBarIs DEF NoScroll

LEMMA BarsStart == BarsInit => BarsInv
<1> SUFFICES ASSUME BarsInit PROVE BarsInv OBVIOUS
<1>1. /\ now = FirstNow /\ topic \in Topics /\ epoch = 0
      /\ wire = Bar(topic, now, FALSE)
      /\ loads = {[topic |-> topic, at |-> now, nr |-> 0]}
      /\ scroll = NoScroll /\ rows = <<>> /\ candles = <<>> /\ borders = <<>>
      /\ loaded = FALSE /\ pending = NoBar /\ watermark = 0 /\ guard = 0 /\ odd = {}
  BY DEF BarsInit
<1>2. now \in 1..LastNow /\ now \in Times /\ 0 \in Times /\ 0 \in 0..MaxSwitch
  BY <1>1, ChartAssumption DEF Times
<1>3. wire \in Bars /\ wire.topic = topic /\ wire.time = now /\ wire.final = FALSE
  BY <1>1, <1>2, BarIs
<1>4. NoScroll \in [phase : {"idle", "fetch", "execute"}, topic : Topics, end : Times]
      /\ NoScroll.phase = "idle" /\ NoScroll.end = 0
  BY <1>2, NoScrollIs
<1>5. rows \in Seq(Bars) /\ candles \in Seq(Bars) /\ borders \in Seq([index : Nat, time : Times])
  BY <1>1, EmptySeq
<1>6. DOMAIN rows = {} /\ DOMAIN borders = {} BY <1>1
<1> DEFINE first == [topic |-> topic, at |-> now, nr |-> 0]
<1>7. /\ first \in [topic : Topics, at : Times, nr : 0..MaxSwitch]
      /\ first.topic = topic /\ first.at = now
  BY <1>1, <1>2
<1>8. loads = {first} BY <1>1
<1> HIDE DEF first
<1>9. BarsTypeOK
  <2>1. loads \subseteq [topic : Topics, at : Times, nr : 0..MaxSwitch] BY <1>7, <1>8, Zenon
  <2>2. loaded \in BOOLEAN /\ pending \in Bars /\ watermark \in Times /\ guard \in Times
        /\ odd \subseteq {"overlap", "early", "behind", "lost"}
    BY <1>1, <1>2, NoBarIs
  <2>3. now \in Times /\ topic \in Topics /\ wire \in Bars
        /\ scroll \in [phase : {"idle", "fetch", "execute"}, topic : Topics, end : Times]
    BY <1>1, <1>2, <1>3, <1>4, Zenon
  <2>4. QED BY <1>5, <2>1, <2>2, <2>3 DEF BarsTypeOK
<1>10. BarTimes
  <2>1. now \in Nat /\ now >= 1 BY <1>2, ChartAssumption
  <2>2. watermark = 0 /\ epoch = 0 BY <1>1
  <2>3. wire.time \in 1..now /\ now \in 1..now /\ watermark <= wire.time
    BY <1>3, <2>1, <2>2
  <2>4. scroll.end <= now BY <1>1, <1>4, <2>1
  <2>5. QED BY <2>2, <1>2, <1>3, <1>6, <1>7, <1>8, <2>3, <2>4 DEF BarTimes
<1>11. RequestsApart /\ BordersInRows BY <1>1, <1>4, <1>6 DEF RequestsApart, BordersInRows
<1>12. UntilLoaded BY <1>1, <1>3, <1>4, <1>7, <1>8 DEF UntilLoaded
<1>13. QED BY <1>1, <1>9, <1>10, <1>11, <1>12 DEF BarsInv

LEMMA MarketMovesKeeps == BarsInv /\ MarketMoves => BarsInv'
<1> SUFFICES ASSUME BarsInv, MarketMoves PROVE BarsInv' OBVIOUS
<1>1. /\ now < LastNow /\ now' = now + 1
      /\ topic' = topic /\ epoch' = epoch /\ wire' = wire /\ loads' = loads /\ scroll' = scroll
      /\ rows' = rows /\ candles' = candles /\ loaded' = loaded /\ pending' = pending
      /\ watermark' = watermark /\ guard' = guard /\ borders' = borders /\ odd' = odd
  BY DEF MarketMoves, choice, refs
<1>2. now' \in 1..LastNow /\ now' \in Times /\ \A n \in 1..now : n \in 1..now'
  BY <1>1, PartsAre DEF Times
<1>3. BarsTypeOK' BY <1>1, <1>2 DEF BarsInv, BarsTypeOK
<1>4. BarTimes'
  <2>1. scroll.end <= now' BY <1>1, PartsAre
  <2>2. QED BY <1>1, <1>2, <2>1 DEF BarsInv, BarTimes
<1>5. (RequestsApart => RequestsApart') /\ (BordersInRows => BordersInRows')
  BY <1>1 DEF RequestsApart, BordersInRows
<1>6. (UntilLoaded => UntilLoaded') /\ (OnceLoaded => OnceLoaded')
  BY <1>1 DEF UntilLoaded, OnceLoaded, Unbroken, UpToDate, CandlesFollow
<1>7. QED BY <1>1, <1>3, <1>4, <1>5, <1>6 DEF BarsInv

LEMMA ReconnectKeeps == BarsInv /\ Reconnect => BarsInv'
<1> SUFFICES ASSUME BarsInv, Reconnect PROVE BarsInv' OBVIOUS
<1>1. /\ wire.time < now /\ wire' = Bar(topic, now, FALSE) /\ odd' = odd \cup {"lost"}
      /\ now' = now /\ topic' = topic /\ epoch' = epoch /\ loads' = loads /\ scroll' = scroll
      /\ rows' = rows /\ candles' = candles /\ loaded' = loaded /\ pending' = pending
      /\ watermark' = watermark /\ guard' = guard /\ borders' = borders
  BY DEF Reconnect, choice, refs
<1>2. now \in Times /\ now \in 1..now /\ topic \in Topics
  BY PartsAre DEF BarsInv, BarsTypeOK
<1>3. wire' \in Bars /\ wire'.topic = topic /\ wire'.time = now BY <1>1, <1>2, BarIs
<1>4. BarsTypeOK'
  <2>1. odd' \subseteq {"overlap", "early", "behind", "lost"} BY <1>1 DEF BarsInv, BarsTypeOK
  <2>2. QED BY <1>1, <1>3, <2>1 DEF BarsInv, BarsTypeOK
<1>5. BarTimes'
  <2>1. watermark <= now
    <3>1. watermark <= wire.time BY DEF BarsInv, BarTimes
    <3>2. wire.time < now /\ wire.time \in Nat /\ watermark \in Nat /\ now \in Nat BY <1>1, PartsAre
    <3>3. QED BY <3>1, <3>2
  <2>2. QED BY <1>1, <1>2, <1>3, <2>1 DEF BarsInv, BarTimes
<1>6. (RequestsApart => RequestsApart') /\ (BordersInRows => BordersInRows')
  BY <1>1 DEF RequestsApart, BordersInRows
<1>7. odd' # {} /\ ("overlap" \notin odd' => "overlap" \notin odd) BY <1>1
<1>8. QED BY <1>1, <1>4, <1>5, <1>6, <1>7 DEF BarsInv

LEMMA LoadFailsKeeps == ASSUME BarsInv, NEW load \in loads, LoadFails(load) PROVE BarsInv'
<1>1. /\ loads' = loads \ {load}
      /\ now' = now /\ topic' = topic /\ epoch' = epoch /\ wire' = wire /\ scroll' = scroll
      /\ rows' = rows /\ candles' = candles /\ loaded' = loaded /\ pending' = pending
      /\ watermark' = watermark /\ guard' = guard /\ borders' = borders /\ odd' = odd
  BY DEF LoadFails, choice, refs
<1>2. loads' \subseteq loads /\ (loads = {} => loads' = {}) BY <1>1
<1>3. BarsTypeOK' BY <1>1, <1>2 DEF BarsInv, BarsTypeOK
<1>4. BarTimes' BY <1>1, <1>2 DEF BarsInv, BarTimes
<1>5. (RequestsApart => RequestsApart') /\ (BordersInRows => BordersInRows')
  BY <1>1, <1>2 DEF RequestsApart, BordersInRows
<1>6. (UntilLoaded => UntilLoaded') /\ (OnceLoaded => OnceLoaded')
  BY <1>1, <1>2 DEF UntilLoaded, OnceLoaded, Unbroken, UpToDate, CandlesFollow
<1>7. QED BY <1>1, <1>3, <1>4, <1>5, <1>6 DEF BarsInv

\* A request that the old topic left is an overlap; otherwise the load of the
\* new one is alone.
LEMMA SwitchTopicKeeps == BarsInv /\ SwitchTopic => BarsInv'
<1> SUFFICES ASSUME BarsInv, SwitchTopic PROVE BarsInv' OBVIOUS
<1>1. PICK t \in Topics \ {topic} : StartLoad(t, epoch + 1) BY DEF SwitchTopic
<1> DEFINE load == [topic |-> t, at |-> now, nr |-> epoch + 1]
<1>2. /\ epoch < MaxSwitch /\ topic' = t /\ epoch' = epoch + 1
      /\ wire' = Bar(t, now, FALSE) /\ loads' = loads \cup {load}
      /\ rows' = <<>> /\ candles' = <<>> /\ borders' = <<>>
      /\ loaded' = FALSE /\ pending' = NoBar /\ watermark' = 0 /\ guard' = 0
      /\ odd' = (IF loads # {} \/ scroll # NoScroll THEN {"overlap"} ELSE {})
      /\ now' = now /\ scroll' = scroll
  BY <1>1 DEF SwitchTopic, StartLoad
<1>3. /\ now \in Times /\ now \in 1..now /\ 0 \in Times /\ now \in 1..LastNow /\ now \in Nat
      /\ epoch' \in 0..MaxSwitch
  BY <1>2, PartsAre, ChartAssumption DEF BarsInv, BarTimes
<1>4. wire' \in Bars /\ wire'.topic = t /\ wire'.time = now /\ wire'.final = FALSE
  BY <1>2, <1>3, BarIs
<1>5. /\ load \in [topic : Topics, at : Times, nr : 0..MaxSwitch]
      /\ load.topic = t /\ load.at = now
  BY <1>2, <1>3
<1> HIDE DEF load
<1>6. DOMAIN rows' = {} /\ DOMAIN borders' = {} BY <1>2
<1>7. BarsTypeOK'
  <2>1. loads' \subseteq [topic : Topics, at : Times, nr : 0..MaxSwitch]
    BY <1>2, <1>5, Zenon DEF BarsInv, BarsTypeOK
  <2>2. rows' \in Seq(Bars) /\ candles' \in Seq(Bars) /\ borders' \in Seq([index : Nat, time : Times])
    BY <1>2, EmptySeq
  <2>3. loaded' \in BOOLEAN /\ pending' \in Bars /\ watermark' \in Times /\ guard' \in Times
        /\ odd' \subseteq {"overlap", "early", "behind", "lost"} /\ topic' \in Topics
    BY <1>2, <1>3, NoBarIs
  <2>4. now' \in Times /\ wire' \in Bars
        /\ scroll' \in [phase : {"idle", "fetch", "execute"}, topic : Topics, end : Times]
    BY <1>2, <1>3, <1>4, Zenon DEF BarsInv, BarsTypeOK
  <2>5. QED BY <2>1, <2>2, <2>3, <2>4 DEF BarsTypeOK
<1>8. BarTimes'
  <2>1. watermark' = 0 /\ 0 <= now /\ now' = now BY <1>2, <1>3
  <2>2. wire'.topic = topic' BY <1>2, <1>4
  <2>3. \A l \in loads' : l.at \in 1..now'
    <3>1. \A l \in loads : l.at \in 1..now BY DEF BarsInv, BarTimes
    <3>2. QED BY <3>1, <2>1, <1>2, <1>3, <1>5, Zenon
  <2>4. scroll'.end <= now' BY <1>2, PartsAre
  <2>5. QED BY <1>3, <1>4, <1>6, <2>1, <2>2, <2>3, <2>4 DEF BarTimes
<1>9. CASE loads # {} \/ scroll # NoScroll
  <2>1. odd' = {"overlap"} BY <1>2, <1>9
  <2>2. QED BY <1>2, <1>7, <1>8, <2>1 DEF BarsInv
<1>10. CASE loads = {} /\ scroll = NoScroll
  <2>1. loads' = {load} /\ odd' = {} BY <1>2, <1>10
  <2>2. scroll'.phase = "idle" /\ scroll' = NoScroll BY <1>2, <1>10 DEF NoScroll
  <2>3. RequestsApart' /\ BordersInRows' BY <1>2, <1>6, <2>2 DEF RequestsApart, BordersInRows
  <2>4. UntilLoaded' BY <1>2, <1>4, <1>5, <2>1, <2>2 DEF UntilLoaded
  <2>5. QED BY <1>2, <1>7, <1>8, <2>1, <2>2, <2>3, <2>4 DEF BarsInv
<1>11. QED BY <1>9, <1>10

\* Whatever the load is of, it brings bars of one topic without a gap; when
\* nothing is odd it is the one load there is, and nothing came before it.
LEMMA LoadEndsKeeps == ASSUME BarsInv, NEW load \in loads, LoadEnds(load) PROVE BarsInv'
<1>1. PICK last \in load.at..now :
          rows' = Answer(load.topic, IF last > Batch THEN last - Batch + 1 ELSE 1, last)
  BY DEF LoadEnds
<1>2. /\ loads' = loads \ {load} /\ loaded' = TRUE /\ pending' = NoBar
      /\ candles' = (IF pending = NoBar \/ pending.time < Last(rows').time THEN rows'
                     ELSE Placed(rows', pending))
      /\ now' = now /\ topic' = topic /\ epoch' = epoch /\ wire' = wire /\ scroll' = scroll
      /\ watermark' = watermark /\ guard' = guard /\ borders' = borders /\ odd' = odd
  BY DEF LoadEnds, choice
<1> DEFINE first == IF last > Batch THEN last - Batch + 1 ELSE 1
           n == last - first + 1
<1>3. load.at \in 1..now /\ load.topic \in Topics /\ pending \in Bars
  BY DEF BarsInv, BarTimes, BarsTypeOK
<1>4. /\ now \in Nat /\ LastNow \in Nat /\ now <= LastNow
      /\ \A k \in 1..now : k \in Times
  BY PartsAre
<1>5. /\ last \in Nat /\ last >= load.at /\ last <= now /\ last >= 1
      /\ first \in 1..LastNow /\ last \in first..LastNow /\ n \in Nat \ {0}
  BY <1>1, <1>3, <1>4, ChartAssumption
<1>6. rows' = Answer(load.topic, first, last) BY <1>1
<1> HIDE DEF first
<1>7. /\ rows' \in Seq(Bars) /\ Len(rows') = n
      /\ \A i \in 1..n : /\ rows'[i].topic = load.topic /\ rows'[i].time = first + i - 1
                         /\ rows'[i].final = (i < n)
  <2> DEFINE bars == Answer(load.topic, first, last)
  <2>1. load.topic \in Topics /\ first \in 1..LastNow /\ last \in first..LastNow BY <1>3, <1>5
  <2>2. /\ bars \in Seq(Bars) /\ Len(bars) = last - first + 1
        /\ \A i \in 1..(last - first + 1) :
              /\ bars[i].topic = load.topic /\ bars[i].time = first + i - 1
              /\ bars[i].final = (i < last - first + 1)
    BY <2>1, AnswerIs
  <2> HIDE DEF bars
  <2>3. rows' = bars BY <1>6 DEF bars
  <2>4. QED BY <2>2, <2>3
<1>8. rows' # <<>> BY <1>5, <1>7, EmptySeq
<1>9. /\ DOMAIN rows' = 1..n /\ n \in 1..n /\ 1 \in 1..n
      /\ Last(rows') = rows'[n] /\ rows'[n].time = last /\ rows'[1].time = first
  <2>1. DOMAIN rows' = 1..n BY <1>7, LenProperties
  <2>2. n \in 1..n /\ 1 \in 1..n BY <1>5
  <2>3. Last(rows') = rows'[n] BY <1>7 DEF Last
  <2>4. rows'[n].time = last /\ rows'[1].time = first BY <1>5, <1>7, <2>2
  <2>5. QED BY <2>1, <2>2, <2>3, <2>4
<1>10. candles' \in Seq(Bars) BY <1>2, <1>3, <1>7, PlacedIs
<1>11. BarsTypeOK'
  <2>1. loads' \subseteq loads BY <1>2
  <2>2. loaded' \in BOOLEAN /\ pending' \in Bars BY <1>2, NoBarIs
  <2>3. QED BY <1>2, <1>7, <1>10, <2>1, <2>2 DEF BarsInv, BarsTypeOK
<1>12. BarTimes'
  <2>1. \A i \in DOMAIN rows' : rows'[i].time \in 1..now' BY <1>2, <1>4, <1>5, <1>7, <1>9
  <2>2. \A l \in loads' : l.at \in 1..now' BY <1>2 DEF BarsInv, BarTimes
  <2>3. QED BY <1>2, <2>1, <2>2 DEF BarsInv, BarTimes
<1>13. ASSUME "overlap" \notin odd PROVE RequestsApart' /\ BordersInRows'
  <2>1. borders = <<>> /\ scroll = NoScroll BY <1>13 DEF BarsInv, RequestsApart
  <2>2. borders' = <<>> /\ scroll' = NoScroll BY <1>2, <2>1
  <2>3. DOMAIN borders' = {} BY <2>2
  <2>4. QED BY <1>8, <2>2, <2>3 DEF RequestsApart, BordersInRows
<1>14. ASSUME odd = {} PROVE OnceLoaded'
  <2>1. UntilLoaded BY <1>14 DEF BarsInv, OnceLoaded
  <2>2. /\ loads' = {} /\ load.topic = topic /\ load.at = wire.time /\ ~wire.final
        /\ scroll.phase = "idle" /\ pending = NoBar
    BY <1>2, <2>1 DEF UntilLoaded
  <2>3. candles' = rows' BY <1>2, <2>2
  <2>4. Unbroken(rows)'
    <3>1. \A i \in DOMAIN rows' : /\ rows'[i].topic = topic'
                                  /\ rows'[i].time = rows'[1].time + i - 1
                                  /\ i < Len(rows') => rows'[i].final
      BY <1>2, <1>7, <1>9, <2>2
    <3>2. QED BY <3>1 DEF Unbroken
  <2>5. UpToDate' BY <1>2, <1>5, <1>9, <2>2 DEF UpToDate
  <2>6. CandlesFollow' BY <1>2, <1>8, <2>2, <2>3 DEF CandlesFollow
  <2>7. QED BY <1>8, <2>2, <2>4, <2>5, <2>6 DEF OnceLoaded
<1>15. QED BY <1>2, <1>11, <1>12, <1>13, <1>14 DEF BarsInv

LEMMA OlderFailsKeeps == BarsInv /\ OlderFails => BarsInv'
<1> SUFFICES ASSUME BarsInv, OlderFails PROVE BarsInv' OBVIOUS
<1>1. /\ scroll.phase = "fetch" /\ scroll' = NoScroll
      /\ now' = now /\ topic' = topic /\ epoch' = epoch /\ wire' = wire /\ loads' = loads
      /\ rows' = rows /\ candles' = candles /\ loaded' = loaded /\ pending' = pending
      /\ watermark' = watermark /\ guard' = guard /\ borders' = borders /\ odd' = odd
  BY DEF OlderFails, choice, refs
<1>2. /\ NoScroll \in [phase : {"idle", "fetch", "execute"}, topic : Topics, end : Times]
      /\ NoScroll.phase = "idle" /\ NoScroll.end = 0
  BY NoScrollIs, PartsAre
<1>3. BarsTypeOK' BY <1>1, <1>2 DEF BarsInv, BarsTypeOK
<1>4. BarTimes'
  <2>1. scroll'.end <= now' BY <1>1, <1>2, PartsAre
  <2>2. QED BY <1>1, <2>1 DEF BarsInv, BarTimes
<1>5. (RequestsApart => RequestsApart') /\ (BordersInRows => BordersInRows')
  BY <1>1, <1>2 DEF RequestsApart, BordersInRows
<1>6. (UntilLoaded => UntilLoaded') /\ (OnceLoaded => OnceLoaded')
  BY <1>1, <1>2 DEF UntilLoaded, OnceLoaded, Unbroken, UpToDate, CandlesFollow
<1>7. QED BY <1>1, <1>3, <1>4, <1>5, <1>6 DEF BarsInv

\* The bars that are drawn in the end are those the scripts read, in order.
LEMMA OlderDrawnKeeps == BarsInv /\ OlderDrawn => BarsInv'
<1> SUFFICES ASSUME BarsInv, OlderDrawn PROVE BarsInv' OBVIOUS
<1>1. /\ scroll.phase = "execute" /\ scroll' = NoScroll /\ candles' = InOrder(rows)
      /\ now' = now /\ topic' = topic /\ epoch' = epoch /\ wire' = wire /\ loads' = loads
      /\ rows' = rows /\ loaded' = loaded /\ pending' = pending
      /\ watermark' = watermark /\ guard' = guard /\ borders' = borders /\ odd' = odd
  BY DEF OlderDrawn, choice, refs
<1>2. /\ NoScroll \in [phase : {"idle", "fetch", "execute"}, topic : Topics, end : Times]
      /\ NoScroll.phase = "idle" /\ NoScroll.end = 0
  BY NoScrollIs, PartsAre
<1>3. rows \in Seq(Bars) BY DEF BarsInv, BarsTypeOK
<1>4. BarsTypeOK'
  <2>1. candles' \in Seq(Bars) BY <1>1, <1>3, InOrderIs
  <2>2. QED BY <1>1, <1>2, <2>1 DEF BarsInv, BarsTypeOK
<1>5. BarTimes'
  <2>1. scroll'.end <= now' BY <1>1, <1>2, PartsAre
  <2>2. QED BY <1>1, <2>1 DEF BarsInv, BarTimes
<1>6. (RequestsApart => RequestsApart') /\ (BordersInRows => BordersInRows')
  BY <1>1, <1>2 DEF RequestsApart, BordersInRows
<1>7. UntilLoaded => UntilLoaded' BY <1>1, <1>2 DEF UntilLoaded
<1>8. ASSUME OnceLoaded PROVE OnceLoaded'
  <2>1. rows # <<>> /\ Unbroken(rows) BY <1>8 DEF OnceLoaded
  <2>2. \A i, j \in 1..Len(rows) : i < j => rows[i].time < rows[j].time
    BY <2>1, UnbrokenIsOrdered DEF BarsInv
  <2>3. candles' = rows BY <1>1, <1>3, <2>2, InOrderIs
  <2>4. CandlesFollow' BY <1>1, <1>2, <2>1, <2>3 DEF CandlesFollow
  <2>5. loads' = {} /\ rows' # <<>> /\ Unbroken(rows)' /\ UpToDate'
    BY <1>1, <1>8 DEF OnceLoaded, Unbroken, UpToDate
  <2>6. QED BY <2>4, <2>5 DEF OnceLoaded
<1>9. QED BY <1>1, <1>4, <1>5, <1>6, <1>7, <1>8 DEF BarsInv

LEMMA ScrollBackKeeps == BarsInv /\ ScrollBack => BarsInv'
<1> SUFFICES ASSUME BarsInv, ScrollBack PROVE BarsInv' OBVIOUS
<1> DEFINE end == rows[1].time - 1
<1>1. rows # <<>> /\ rows \in Seq(Bars) BY DEF ScrollBack, BarsInv, BarsTypeOK
<1>2. Head(rows) = rows[1] /\ rows[1].time \in 1..now
  BY <1>1, EndsAre DEF BarsInv, BarTimes
<1>3. /\ scroll = NoScroll /\ guard' = rows[1].time
      /\ scroll' = [phase |-> "fetch", topic |-> topic, end |-> end]
      /\ odd' = (IF loads = {} THEN odd ELSE odd \cup {"overlap"})
      /\ now' = now /\ topic' = topic /\ epoch' = epoch /\ wire' = wire /\ loads' = loads
      /\ rows' = rows /\ candles' = candles /\ loaded' = loaded /\ pending' = pending
      /\ watermark' = watermark /\ borders' = borders
  BY <1>2 DEF ScrollBack, choice
<1>4. end \in Times /\ rows[1].time \in Times
  BY <1>2, PartsAre DEF Times
<1> HIDE DEF end
<1>5. /\ scroll' \in [phase : {"idle", "fetch", "execute"}, topic : Topics, end : Times]
      /\ scroll'.phase = "fetch" /\ scroll'.topic = topic /\ scroll'.end = end
  <2>1. topic \in Topics BY DEF BarsInv, BarsTypeOK
  <2>2. QED BY <1>3, <1>4, <2>1
<1>6. BarsTypeOK'
  <2>1. odd' \subseteq {"overlap", "early", "behind", "lost"} BY <1>3 DEF BarsInv, BarsTypeOK
  <2>2. guard' \in Times BY <1>3, <1>4
  <2>3. QED BY <1>3, <1>5, <2>1, <2>2 DEF BarsInv, BarsTypeOK
<1>7. BarTimes'
  <2>1. scroll'.end <= now' BY <1>2, <1>3, <1>5, PartsAre DEF end
  <2>2. QED BY <1>3, <2>1 DEF BarsInv, BarTimes
<1>8. ASSUME "overlap" \notin odd' PROVE RequestsApart' /\ BordersInRows'
  <2>1. loads = {} /\ "overlap" \notin odd BY <1>3, <1>8
  <2>2. BordersInRows BY <2>1 DEF BarsInv
  <2>3. BordersInRows' BY <1>3, <2>2 DEF BordersInRows
  <2>4. QED BY <1>1, <1>3, <2>1, <2>3 DEF RequestsApart
<1>9. ASSUME odd' = {} PROVE loaded /\ OnceLoaded'
  <2>1. odd = {} BY <1>3, <1>9
  <2>2. loaded /\ OnceLoaded BY <1>1, <2>1 DEF BarsInv, UntilLoaded
  <2>3. scroll.phase # "execute" BY <1>3 DEF NoScroll
  <2>4. CandlesFollow' BY <1>3, <1>5, <2>2, <2>3 DEF OnceLoaded, CandlesFollow, end
  <2>5. loads' = {} /\ rows' # <<>> /\ Unbroken(rows)' /\ UpToDate'
    BY <1>3, <2>2 DEF OnceLoaded, Unbroken, UpToDate
  <2>6. QED BY <2>2, <2>4, <2>5 DEF OnceLoaded
<1>10. QED BY <1>3, <1>5, <1>6, <1>7, <1>8, <1>9 DEF BarsInv

\* The older bars end where the first one begins, so the borders move with it.
LEMMA OlderArrivesKeeps == BarsInv /\ OlderArrives => BarsInv'
<1> SUFFICES ASSUME BarsInv, OlderArrives PROVE BarsInv' OBVIOUS
<1> DEFINE new == Older(scroll.topic, scroll.end)
           n == Len(new)
           head == IF rows = <<>> THEN 0 ELSE Head(rows).time
           border == [index |-> n, time |-> head]
<1>1. /\ scroll.phase = "fetch" /\ new # <<>>
      /\ borders' = Append(Shifted(n), border)
      /\ rows' = new \o rows
      /\ scroll' = [scroll EXCEPT !.phase = "execute"]
      /\ now' = now /\ topic' = topic /\ epoch' = epoch /\ wire' = wire /\ loads' = loads
      /\ candles' = candles /\ loaded' = loaded /\ pending' = pending
      /\ watermark' = watermark /\ guard' = guard /\ odd' = odd
  BY DEF OlderArrives, choice, refs
<1>2. /\ scroll \in [phase : {"idle", "fetch", "execute"}, topic : Topics, end : Times]
      /\ scroll.topic \in Topics /\ scroll.end \in Times
      /\ rows \in Seq(Bars) /\ borders \in Seq([index : Nat, time : Times])
  BY DEF BarsInv, BarsTypeOK
<1>3. /\ new \in Seq(Bars) /\ n <= scroll.end
      /\ \A i \in 1..n : /\ new[i].topic = scroll.topic /\ new[i].time = scroll.end - n + i
                         /\ new[i].final
  BY <1>2, OlderIs
<1>4. n \in Nat \ {0} /\ Len(rows) \in Nat /\ scroll.end \in Nat
  BY <1>1, <1>2, <1>3, EmptySeq, LenProperties, ChartAssumption DEF Times
<1>5. head \in Times /\ (rows # <<>> => head = rows[1].time)
  <2>1. CASE rows = <<>> BY <2>1, PartsAre
  <2>2. CASE rows # <<>>
    <3>1. Head(rows) = rows[1] /\ 1 \in DOMAIN rows BY <1>2, <2>2, EndsAre
    <3>2. QED BY <2>2, <3>1, PartsAre DEF BarsInv, BarTimes
  <2>3. QED BY <2>1, <2>2
<1> HIDE DEF new, head
<1>6. /\ rows' \in Seq(Bars) /\ Len(rows') = n + Len(rows)
      /\ DOMAIN rows' = 1..(n + Len(rows)) /\ DOMAIN rows = 1..Len(rows)
      /\ \A i \in 1..n : rows'[i] = new[i]
      /\ \A i \in 1..Len(rows) : rows'[i + n] = rows[i]
  <2>1. /\ rows' \in Seq(Bars) /\ Len(rows') = n + Len(rows)
        /\ \A i \in 1..(n + Len(rows)) : rows'[i] = IF i <= n THEN new[i] ELSE rows[i - n]
    BY <1>1, <1>2, <1>3, ConcatProperties
  <2>2. DOMAIN rows' = 1..(n + Len(rows)) /\ DOMAIN rows = 1..Len(rows)
    BY <1>2, <2>1, LenProperties
  <2> HIDE DEF n
  <2>3. \A i \in 1..n : rows'[i] = new[i] BY <1>4, <2>1
  <2>4. \A i \in 1..Len(rows) : rows'[i + n] = rows[i]
    <3> SUFFICES ASSUME NEW i \in 1..Len(rows) PROVE rows'[i + n] = rows[i] OBVIOUS
    <3>1. i + n \in 1..(n + Len(rows)) /\ ~(i + n <= n) /\ (i + n) - n = i BY <1>4
    <3>2. QED BY <2>1, <3>1
  <2>5. QED BY <2>1, <2>2, <2>3, <2>4
<1>7. border \in [index : Nat, time : Times] /\ border.index = n /\ border.time = head
  BY <1>4, <1>5
<1> HIDE DEF n, border
\* The shifted borders, and the new one behind them.
<1>8. /\ borders' \in Seq([index : Nat, time : Times])
      /\ Len(borders) \in Nat /\ DOMAIN borders = 1..Len(borders)
      /\ DOMAIN borders' = 1..(Len(borders) + 1)
      /\ \A i \in 1..Len(borders) : /\ borders'[i].index = borders[i].index + n
                                    /\ borders'[i].time = borders[i].time
                                    /\ borders[i].index \in Nat
      /\ borders'[Len(borders) + 1] = border
  <2> DEFINE b == Len(borders)
             shifted == Shifted(n)
  <2>1. b \in Nat /\ DOMAIN borders = 1..b BY <1>2, LenProperties
  <2>2. shifted = [i \in 1..b |-> [borders[i] EXCEPT !.index = @ + n]] BY <2>1 DEF Shifted
  <2> HIDE DEF shifted, b
  <2>3. ASSUME NEW i \in 1..b
        PROVE  /\ shifted[i] \in [index : Nat, time : Times]
               /\ shifted[i].index = borders[i].index + n /\ shifted[i].time = borders[i].time
               /\ borders[i].index \in Nat
    <3>1. borders[i] \in [index : Nat, time : Times] BY <1>2, ElementOfSeq DEF b
    <3>2. shifted[i] = [borders[i] EXCEPT !.index = @ + n] BY <2>2
    <3>3. QED BY <1>4, <3>1, <3>2
  <2>4. shifted \in [1..b -> [index : Nat, time : Times]] BY <2>2, <2>3
  <2>5. shifted \in Seq([index : Nat, time : Times]) /\ Len(shifted) = b BY <2>1, <2>4, ListIs
  <2>6. borders' = Append(shifted, border) BY <1>1 DEF shifted
  <2>7. /\ borders' \in Seq([index : Nat, time : Times]) /\ Len(borders') = b + 1
        /\ \A i \in 1..b : borders'[i] = shifted[i]
        /\ borders'[b + 1] = border
    BY <1>7, <2>5, <2>6, AppendProperties
  <2>8. DOMAIN borders' = 1..(b + 1) BY <2>7, LenProperties
  <2>9. QED BY <2>1, <2>3, <2>7, <2>8 DEF b
<1>9. /\ scroll' \in [phase : {"idle", "fetch", "execute"}, topic : Topics, end : Times]
      /\ scroll'.phase = "execute"
  BY <1>1, <1>2
<1>10. rows' # <<>> BY <1>4, <1>6, EmptySeq
<1>11. BarsTypeOK' BY <1>1, <1>6, <1>8, <1>9 DEF BarsInv, BarsTypeOK
<1>12. BarTimes'
  <2>1. \A i \in 1..Len(rows) : rows[i].time \in 1..now BY <1>6 DEF BarsInv, BarTimes
  <2>2. ASSUME NEW i \in DOMAIN rows' PROVE rows'[i].time \in 1..now
    <3>1. CASE i <= n
      <4>1. i \in 1..n /\ rows'[i] = new[i] BY <1>4, <1>6, <3>1
      <4>2. new[i].time = scroll.end - n + i BY <1>3, <4>1 DEF n
      <4>3. scroll.end <= now /\ n <= scroll.end /\ now \in Nat
        BY <1>3, PartsAre DEF n, BarsInv, BarTimes
      <4>4. QED BY <1>4, <4>1, <4>2, <4>3
    <3>2. CASE i > n
      <4>1. i - n \in 1..Len(rows) /\ (i - n) + n = i BY <1>4, <1>6, <3>2
      <4>2. rows'[i] = rows[i - n] BY <1>6, <4>1
      <4>3. QED BY <2>1, <4>1, <4>2
    <3>3. QED BY <1>4, <1>6, <3>1, <3>2
  <2>3. scroll'.end = scroll.end BY <1>1, <1>2
  <2>4. QED BY <1>1, <2>2, <2>3 DEF BarsInv, BarTimes
<1>13. ASSUME "overlap" \notin odd PROVE RequestsApart' /\ BordersInRows'
  <2>1. RequestsApart /\ BordersInRows /\ rows # <<>>
    BY <1>1, <1>13 DEF BarsInv, RequestsApart
  <2>2. loads' = {} BY <1>1, <2>1 DEF RequestsApart, NoScroll
  <2>3. Len(rows) \in Nat \ {0} /\ head = rows[1].time BY <1>2, <1>5, <2>1, EmptySeq
  <2>4. ASSUME NEW i \in DOMAIN borders'
        PROVE  /\ borders'[i].index + 1 \in DOMAIN rows'
               /\ rows'[borders'[i].index + 1].time = borders'[i].time
    <3>1. CASE i \in 1..Len(borders)
      <4> DEFINE k == borders[i].index + 1
      <4>1. k \in 1..Len(rows) /\ rows[k].time = borders[i].time
        BY <1>6, <1>8, <2>1, <3>1 DEF BordersInRows
      <4>2. borders'[i].index + 1 = k + n /\ borders'[i].time = borders[i].time
        BY <1>4, <1>8, <3>1
      <4> HIDE DEF k
      <4>3. k + n \in 1..(n + Len(rows)) /\ rows'[k + n] = rows[k] BY <1>4, <1>6, <4>1
      <4>4. QED BY <1>6, <4>1, <4>2, <4>3
    <3>2. CASE i = Len(borders) + 1
      <4>1. borders'[i].index = n /\ borders'[i].time = rows[1].time BY <1>7, <1>8, <2>3, <3>2
      <4>2. n + 1 \in 1..(n + Len(rows)) /\ 1 \in 1..Len(rows) /\ 1 + n = n + 1 BY <1>4, <2>3
      <4>3. rows'[n + 1] = rows[1] BY <1>6, <4>2
      <4>4. QED BY <1>6, <4>1, <4>2, <4>3
    <3>3. QED BY <1>8, <3>1, <3>2
  <2>5. BordersInRows' BY <2>4 DEF BordersInRows
  <2>6. QED BY <1>10, <2>2, <2>5 DEF RequestsApart
<1>14. ASSUME odd = {} PROVE loaded /\ OnceLoaded'
  <2>1. loaded /\ OnceLoaded BY <1>1, <1>14 DEF BarsInv, UntilLoaded
  <2>2. /\ loads = {} /\ rows # <<>> /\ candles = rows
        /\ scroll.topic = topic /\ scroll.end = rows[1].time - 1
    BY <1>1, <2>1 DEF OnceLoaded, CandlesFollow
  <2>3. /\ Len(rows) \in Nat \ {0} /\ Last(rows) = rows[Len(rows)]
        /\ rows[1].time \in Nat
    BY <1>2, <2>2, EndsAre
  <2>4. Last(rows') = Last(rows)
    <3>1. Last(rows') = rows'[n + Len(rows)] BY <1>6 DEF Last
    <3>2. Len(rows) \in 1..Len(rows) /\ Len(rows) + n = n + Len(rows) BY <1>4, <2>3
    <3>3. QED BY <1>6, <2>3, <3>1, <3>2
  <2>5. \A i \in 1..Len(rows) : /\ rows[i].topic = topic
                                /\ rows[i].time = rows[1].time + i - 1
                                /\ i < Len(rows) => rows[i].final
    BY <1>6, <2>1 DEF OnceLoaded, Unbroken
  <2>6. \A i \in 1..n : /\ rows'[i].topic = topic
                        /\ rows'[i].time = rows[1].time - 1 - n + i /\ rows'[i].final
    BY <1>3, <1>6, <2>2 DEF n
  <2>7. rows'[1].time = rows[1].time - n BY <1>4, <2>3, <2>6
  <2>8. ASSUME NEW i \in DOMAIN rows'
        PROVE  /\ rows'[i].topic = topic
               /\ rows'[i].time = rows'[1].time + i - 1
               /\ i < Len(rows') => rows'[i].final
    <3>1. CASE i <= n
      <4>1. i \in 1..n BY <1>4, <1>6, <3>1
      <4>2. rows'[i].time = rows[1].time - 1 - n + i BY <2>6, <4>1
      <4>3. rows'[i].time = rows'[1].time + i - 1 BY <1>4, <2>3, <2>7, <4>1, <4>2
      <4>4. QED BY <2>6, <4>1, <4>3
    <3>2. CASE i > n
      <4>1. i - n \in 1..Len(rows) /\ (i - n) + n = i BY <1>4, <1>6, <3>2
      <4>2. rows'[i] = rows[i - n] BY <1>6, <4>1
      <4>3. rows'[i].time = rows[1].time + (i - n) - 1 BY <2>5, <4>1, <4>2
      <4>4. i \in Nat /\ rows'[i].time = rows'[1].time + i - 1
        BY <1>4, <1>6, <2>3, <2>7, <4>3
      <4>5. i < Len(rows') => i - n < Len(rows) BY <1>4, <1>6, <4>4
      <4>6. QED BY <2>5, <4>1, <4>2, <4>4, <4>5
    <3>3. QED BY <1>4, <1>6, <3>1, <3>2
  <2>9. Unbroken(rows)' BY <1>1, <2>8 DEF Unbroken
  <2>10. UpToDate' BY <1>1, <2>1, <2>4 DEF OnceLoaded, UpToDate
  <2>11. CandlesFollow' BY <1>1, <1>9, <2>2, <2>4 DEF CandlesFollow
  <2>12. QED BY <1>1, <1>10, <2>1, <2>2, <2>9, <2>10, <2>11 DEF OnceLoaded
<1>15. QED BY <1>1, <1>9, <1>11, <1>12, <1>13, <1>14 DEF BarsInv

\* What the socket brings is the last bar again, its end, or the next one after
\* its end.
LEMMA NextKlineIs ==
    ASSUME BarsInv, NEW bar \in NextKlines
    PROVE  /\ bar \in Bars /\ bar.topic = topic /\ bar.final \in BOOLEAN
           /\ bar.time \in 1..now
           /\ \/ bar.time = wire.time
              \/ bar.time = wire.time + 1 /\ wire.final /\ ~bar.final
<1>1. /\ topic \in Topics /\ wire.time \in 1..now /\ now \in Nat /\ wire.time \in Times
      /\ \A n \in 1..now : n \in Times
  BY PartsAre DEF BarsInv, BarsTypeOK, BarTimes
<1>2. \/ bar = Bar(topic, wire.time, FALSE)
      \/ bar = Bar(topic, wire.time, TRUE)
      \/ bar = Bar(topic, wire.time + 1, FALSE) /\ wire.final /\ wire.time < now
  BY DEF NextKlines
<1>3. CASE bar = Bar(topic, wire.time, FALSE)
  <2>1. bar \in Bars /\ bar.topic = topic /\ bar.time = wire.time /\ bar.final = FALSE
    BY <1>1, <1>3, BarIs
  <2>2. QED BY <1>1, <2>1
<1>4. CASE bar = Bar(topic, wire.time, TRUE)
  <2>1. bar \in Bars /\ bar.topic = topic /\ bar.time = wire.time /\ bar.final = TRUE
    BY <1>1, <1>4, BarIs
  <2>2. QED BY <1>1, <2>1
<1>5. CASE bar = Bar(topic, wire.time + 1, FALSE) /\ wire.final /\ wire.time < now
  <2>1. wire.time + 1 \in 1..now /\ wire.time + 1 \in Times BY <1>1, <1>5
  <2>2. bar \in Bars /\ bar.topic = topic /\ bar.time = wire.time + 1 /\ bar.final = FALSE
    BY <1>1, <1>5, <2>1, BarIs
  <2>3. QED BY <1>5, <2>1, <2>2
<1>6. QED BY <1>2, <1>3, <1>4, <1>5

\* A kline that is skipped says what the socket said before.
LEMMA StaleKeeps ==
    ASSUME BarsInv, NEW bar \in NextKlines, StaleKline(bar),
           wire' = [bar EXCEPT !.final = @ \/ (bar.time = wire.time /\ wire.final)]
    PROVE  wire' = wire
<1>1. /\ bar \in Bars /\ bar.topic = topic /\ bar.final \in BOOLEAN /\ bar.time \in Nat
      /\ bar.time = wire.time \/ bar.time = wire.time + 1
  BY NextKlineIs, PartsAre
<1>2. /\ watermark <= wire.time /\ watermark \in Nat /\ wire.time \in Nat
      /\ wire.final \in BOOLEAN
      /\ wire = [topic |-> topic, time |-> wire.time, final |-> wire.final]
  BY PartsAre DEF BarsInv, BarTimes
<1>3. ~(bar.time < watermark) BY <1>1, <1>2
<1>4. bar.time = watermark /\ ~bar.final BY <1>3 DEF StaleKline
<1>5. bar.time = wire.time /\ bar.final = FALSE BY <1>1, <1>2, <1>4
<1>6. bar = [topic |-> topic, time |-> wire.time, final |-> FALSE] BY <1>1, <1>5 DEF Bars
<1>7. (FALSE \/ (bar.time = wire.time /\ wire.final)) = wire.final BY <1>2, <1>5
<1>8. QED BY <1>2, <1>5, <1>6, <1>7

LEMMA KlineKeeps == BarsInv /\ Kline => BarsInv'
<1> SUFFICES ASSUME BarsInv, Kline PROVE BarsInv' OBVIOUS
<1>1. PICK bar \in NextKlines :
          /\ wire' = [bar EXCEPT !.final = @ \/ (bar.time = wire.time /\ wire.final)]
          /\ IF StaleKline(bar)
             THEN UNCHANGED <<rows, candles, pending, watermark, odd>>
             ELSE /\ watermark' = IF bar.final /\ loaded THEN bar.time ELSE watermark
                  /\ rows' = RowsWith(bar)
                  /\ IF loaded
                     THEN candles' = Placed(candles, bar) /\ UNCHANGED pending
                     ELSE pending' = bar /\ UNCHANGED candles
                  /\ odd' = odd \cup (IF ~loaded THEN {"early"}
                                      ELSE IF candles # <<>> /\ bar.time < Last(candles).time
                                           THEN {"behind"} ELSE {})
  BY DEF Kline
<1>2. /\ now' = now /\ topic' = topic /\ epoch' = epoch /\ loads' = loads /\ scroll' = scroll
      /\ loaded' = loaded /\ guard' = guard /\ borders' = borders
  BY DEF Kline, choice
<1>3. CASE StaleKline(bar)
  <2>1. /\ rows' = rows /\ candles' = candles /\ pending' = pending /\ watermark' = watermark
        /\ odd' = odd
    BY <1>1, <1>3
  <2>2. wire' = wire BY <1>1, <1>3, StaleKeeps
  <2>3. BarsTypeOK' /\ BarTimes' BY <1>2, <2>1, <2>2 DEF BarsInv, BarsTypeOK, BarTimes
  <2>4. (RequestsApart => RequestsApart') /\ (BordersInRows => BordersInRows')
    BY <1>2, <2>1, <2>2 DEF RequestsApart, BordersInRows
  <2>5. (UntilLoaded => UntilLoaded') /\ (OnceLoaded => OnceLoaded')
    BY <1>2, <2>1, <2>2 DEF UntilLoaded, OnceLoaded, Unbroken, UpToDate, CandlesFollow
  <2>6. QED BY <1>2, <2>1, <2>3, <2>4, <2>5 DEF BarsInv
<1>4. CASE ~StaleKline(bar)
  <2> DEFINE early == IF ~loaded THEN {"early"}
                      ELSE IF candles # <<>> /\ bar.time < Last(candles).time
                           THEN {"behind"} ELSE {}
  <2>1. /\ watermark' = (IF bar.final /\ loaded THEN bar.time ELSE watermark)
        /\ rows' = Placed(rows, bar)
        /\ odd' = odd \cup early
    BY <1>1, <1>4 DEF RowsWith
  <2>2. IF loaded THEN candles' = Placed(candles, bar) /\ pending' = pending
                  ELSE pending' = bar /\ candles' = candles
    BY <1>1, <1>4
  <2>3. /\ bar \in Bars /\ bar.topic = topic /\ bar.final \in BOOLEAN /\ bar.time \in 1..now
        /\ \/ bar.time = wire.time
           \/ bar.time = wire.time + 1 /\ wire.final /\ ~bar.final
    BY NextKlineIs
  <2>4. /\ now \in Nat /\ wire.time \in Nat /\ watermark \in Nat /\ watermark <= wire.time
        /\ wire.final \in BOOLEAN /\ \A k \in 1..now : k \in Times
    BY PartsAre DEF BarsInv, BarTimes
  <2>5. /\ wire' \in Bars /\ wire'.topic = topic /\ wire'.time = bar.time
        /\ wire'.final = (bar.final \/ (bar.time = wire.time /\ wire.final))
    <3>1. (bar.final \/ (bar.time = wire.time /\ wire.final)) \in BOOLEAN OBVIOUS
    <3>2. wire' = [bar EXCEPT !.final = bar.final \/ (bar.time = wire.time /\ wire.final)]
      BY <1>1
    <3>3. QED BY <2>3, <3>1, <3>2 DEF Bars
  <2>6. bar.time \in Nat /\ bar.time >= wire.time /\ bar.time \in Times BY <2>3, <2>4
  <2>7. rows \in Seq(Bars) /\ candles \in Seq(Bars) /\ pending \in Bars
    BY DEF BarsInv, BarsTypeOK
  <2>8. /\ rows' \in Seq(Bars) /\ rows' # <<>> /\ Last(rows') = bar
        /\ Len(rows) \in Nat /\ Len(rows') \in Nat \ {0}
        /\ IF rows # <<>> /\ Last(rows).time = bar.time
           THEN Len(rows') = Len(rows) ELSE Len(rows') = Len(rows) + 1
        /\ \A i \in 1..Len(rows') : rows'[i] = IF i = Len(rows') THEN bar ELSE rows[i]
        /\ \A i \in 1..Len(rows) : i \in 1..Len(rows') /\ rows'[i].time = rows[i].time
    <3> DEFINE new == Placed(rows, bar)
    <3>1. /\ new \in Seq(Bars) /\ new # <<>> /\ Last(new) = bar
          /\ Len(rows) \in Nat /\ Len(new) \in Nat \ {0}
          /\ IF rows # <<>> /\ Last(rows).time = bar.time
             THEN Len(new) = Len(rows) ELSE Len(new) = Len(rows) + 1
          /\ \A i \in 1..Len(new) : new[i] = IF i = Len(new) THEN bar ELSE rows[i]
          /\ \A i \in 1..Len(rows) : i \in 1..Len(new) /\ new[i].time = rows[i].time
      <4>1. rows \in Seq(Bars) /\ bar \in Bars BY <2>3, <2>7
      <4>2. QED BY <4>1, PlacedIs
    <3>2. rows' = new BY <2>1
    <3> HIDE DEF new
    <3>3. QED BY <3>1, <3>2
  <2>9. /\ DOMAIN rows' = 1..Len(rows') /\ DOMAIN rows = 1..Len(rows)
        /\ \A i \in 1..Len(rows') : i # Len(rows') => i \in 1..Len(rows) /\ rows'[i] = rows[i]
        /\ rows'[Len(rows')] = bar
    <3>1. DOMAIN rows' = 1..Len(rows') /\ DOMAIN rows = 1..Len(rows)
      BY <2>7, <2>8, LenProperties
    <3>2. Len(rows') <= Len(rows) + 1 BY <2>8
    <3>3. \A i \in 1..Len(rows') : i # Len(rows') => i \in 1..Len(rows) BY <2>8, <3>2
    <3>4. \A i \in 1..Len(rows') : i # Len(rows') => rows'[i] = rows[i] BY <2>8
    <3>5. rows'[Len(rows')] = bar BY <2>8
    <3>6. QED BY <3>1, <3>3, <3>4, <3>5
  <2>10. candles' \in Seq(Bars) /\ pending' \in Bars
    <3>1. Placed(candles, bar) \in Seq(Bars) BY <2>3, <2>7, PlacedIs
    <3>2. CASE loaded BY <2>2, <2>7, <3>1, <3>2
    <3>3. CASE ~loaded BY <2>2, <2>3, <2>7, <3>3
    <3>4. QED BY <3>2, <3>3
  <2>11. /\ odd' \subseteq {"overlap", "early", "behind", "lost"}
         /\ odd \subseteq odd' /\ ("overlap" \in odd' => "overlap" \in odd)
    BY <2>1 DEF BarsInv, BarsTypeOK
  <2>12. BarsTypeOK'
    <3>1. watermark' \in Times BY <2>1, <2>6 DEF BarsInv, BarsTypeOK
    <3>2. QED BY <1>2, <2>5, <2>8, <2>10, <2>11, <3>1 DEF BarsInv, BarsTypeOK
  <2>13. BarTimes'
    <3>1. \A i \in DOMAIN rows' : rows'[i].time \in 1..now
      <4> SUFFICES ASSUME NEW i \in DOMAIN rows' PROVE rows'[i].time \in 1..now OBVIOUS
      <4>1. CASE i = Len(rows') BY <2>3, <2>8, <2>9, <4>1
      <4>2. CASE i # Len(rows')
        <5>1. rows'[i] = rows[i] /\ i \in 1..Len(rows) BY <2>9, <4>2
        <5>2. QED BY <2>9, <5>1 DEF BarsInv, BarTimes
      <4>3. QED BY <4>1, <4>2
    <3>2. watermark' <= wire'.time BY <2>1, <2>4, <2>5, <2>6
    <3>3. wire'.topic = topic' /\ wire'.time \in 1..now' BY <1>2, <2>3, <2>5
    <3>4. QED BY <1>2, <3>1, <3>2, <3>3 DEF BarsInv, BarTimes
  <2>14. ASSUME "overlap" \notin odd' PROVE RequestsApart' /\ BordersInRows'
    <3>1. RequestsApart /\ BordersInRows BY <2>11, <2>14 DEF BarsInv
    <3>2. RequestsApart' BY <1>2, <2>8, <3>1 DEF RequestsApart
    <3>3. BordersInRows' BY <1>2, <2>8, <2>9, <3>1 DEF BordersInRows
    <3>4. QED BY <3>2, <3>3
  <2>15. ASSUME odd' = {} PROVE loaded /\ OnceLoaded'
    <3>1. early = {} /\ odd = {} BY <2>1, <2>15
    <3>2. loaded /\ OnceLoaded BY <3>1 DEF BarsInv
    <3>3. candles # <<>> => ~(bar.time < Last(candles).time) BY <3>1, <3>2
    <3>4. /\ loads = {} /\ rows # <<>> /\ candles # <<>> /\ Last(candles) = Last(rows)
          /\ Last(rows).time >= wire.time
          /\ wire.final => watermark = wire.time
          /\ wire.final /\ Last(rows).time = wire.time => Last(rows).final
      BY <3>2 DEF OnceLoaded, UpToDate, CandlesFollow
    <3> HIDE DEF early
    <3>5. /\ Len(rows) \in Nat \ {0} /\ Last(rows) = rows[Len(rows)]
          /\ Last(rows).time \in Nat /\ rows[1].time \in Nat
      BY <2>7, <3>4, EndsAre
    <3>6. ~(bar.time < Last(rows).time) BY <3>3, <3>4
    \* It is the last bar again, or follows it.
    <3>7. \/ bar.time = Last(rows).time
          \/ bar.time = Last(rows).time + 1 /\ Last(rows).final
      BY <2>3, <2>4, <2>6, <3>4, <3>5, <3>6
    <3>8. \A i \in 1..Len(rows) : /\ rows[i].topic = topic
                                  /\ rows[i].time = rows[1].time + i - 1
                                  /\ i < Len(rows) => rows[i].final
      BY <2>9, <3>2 DEF OnceLoaded, Unbroken
    <3>9. Last(rows).time = rows[1].time + Len(rows) - 1 BY <3>5, <3>8
    <3>10. rows'[1].time = rows[1].time BY <2>8, <3>5
    <3>11. bar.time = rows[1].time + Len(rows') - 1
      <4>1. CASE bar.time = Last(rows).time BY <2>8, <3>4, <3>5, <3>9, <4>1
      <4>2. CASE bar.time = Last(rows).time + 1
        <5>1. Last(rows).time # bar.time BY <3>5, <4>2
        <5>2. Len(rows') = Len(rows) + 1 BY <2>8, <5>1
        <5>3. QED BY <3>5, <3>9, <4>2, <5>2
      <4>3. QED BY <3>7, <4>1, <4>2
    <3>12. ASSUME NEW i \in DOMAIN rows'
           PROVE  /\ rows'[i].topic = topic
                  /\ rows'[i].time = rows'[1].time + i - 1
                  /\ i < Len(rows') => rows'[i].final
      <4>1. CASE i = Len(rows')
        <5>1. rows'[i] = bar BY <2>9, <4>1
        <5>2. ~(i < Len(rows')) BY <2>8, <4>1
        <5>3. QED BY <2>3, <3>10, <3>11, <4>1, <5>1, <5>2
      <4>2. CASE i # Len(rows')
        <5>1. rows'[i] = rows[i] /\ i \in 1..Len(rows) BY <2>9, <4>2
        <5>2. rows[i].final
          <6>1. CASE i < Len(rows) BY <3>8, <5>1, <6>1
          <6>2. CASE i = Len(rows)
            <7>1. bar.time # Last(rows).time BY <2>8, <3>4, <4>2, <6>2
            <7>2. QED BY <3>5, <3>7, <6>2, <7>1
          <6>3. QED BY <5>1, <6>1, <6>2, <2>8
        <5>3. QED BY <3>8, <3>10, <5>1, <5>2
      <4>3. QED BY <4>1, <4>2
    <3>13. Unbroken(rows)' BY <1>2, <3>12 DEF Unbroken
    <3>14. UpToDate'
      <4>1. Last(rows').time >= wire'.time BY <2>5, <2>6, <2>8
      <4>2. ASSUME wire'.final PROVE watermark' = wire'.time /\ bar.final
        <5>1. bar.final
          <6> SUFFICES ASSUME ~bar.final PROVE FALSE OBVIOUS
          <6>1. bar.time = wire.time /\ wire.final BY <2>5, <4>2
          <6>2. watermark = bar.time BY <3>4, <6>1
          <6>3. QED BY <1>4, <6>2 DEF StaleKline
        <5>2. QED BY <2>1, <2>5, <3>2, <5>1
      <4>3. QED BY <2>8, <4>1, <4>2 DEF UpToDate
    <3>15. CandlesFollow'
      <4>1. candles' = Placed(candles, bar) BY <2>2, <3>2
      <4>2. candles' # <<>> /\ Last(candles') = bar BY <2>3, <2>7, <4>1, PlacedIs
      <4>3. candles = rows => candles' = rows' BY <2>1, <4>1
      <4>4. QED BY <1>2, <2>8, <3>2, <3>10, <4>2, <4>3 DEF OnceLoaded, CandlesFollow
    <3>16. QED BY <1>2, <2>8, <3>2, <3>4, <3>13, <3>14, <3>15 DEF OnceLoaded
  <2>16. QED BY <1>2, <2>12, <2>13, <2>14, <2>15 DEF BarsInv
<1>5. QED BY <1>3, <1>4

LEMMA BarsStep == BarsInv /\ [BarsNext]_barsVars => BarsInv'
<1> SUFFICES ASSUME BarsInv, [BarsNext]_barsVars PROVE BarsInv' OBVIOUS
<1>1. CASE MarketMoves BY <1>1, MarketMovesKeeps
<1>2. CASE Kline BY <1>2, KlineKeeps
<1>3. CASE Reconnect BY <1>3, ReconnectKeeps
<1>4. CASE SwitchTopic BY <1>4, SwitchTopicKeeps
<1>5. ASSUME NEW load \in loads, LoadEnds(load) \/ LoadFails(load) PROVE BarsInv'
  BY <1>5, LoadEndsKeeps, LoadFailsKeeps
<1>6. CASE ScrollBack BY <1>6, ScrollBackKeeps
<1>7. CASE OlderArrives BY <1>7, OlderArrivesKeeps
<1>8. CASE OlderFails BY <1>8, OlderFailsKeeps
<1>9. CASE OlderDrawn BY <1>9, OlderDrawnKeeps
<1>10. CASE UNCHANGED barsVars
  <2>1. /\ now' = now /\ topic' = topic /\ epoch' = epoch /\ wire' = wire /\ loads' = loads
        /\ scroll' = scroll /\ rows' = rows /\ candles' = candles /\ loaded' = loaded
        /\ pending' = pending /\ watermark' = watermark /\ guard' = guard
        /\ borders' = borders /\ odd' = odd
    BY <1>10 DEF barsVars, choice, refs
  <2>2. BarsTypeOK' /\ BarTimes' BY <2>1 DEF BarsInv, BarsTypeOK, BarTimes
  <2>3. (RequestsApart => RequestsApart') /\ (BordersInRows => BordersInRows')
    BY <2>1 DEF RequestsApart, BordersInRows
  <2>4. (UntilLoaded => UntilLoaded') /\ (OnceLoaded => OnceLoaded')
    BY <2>1 DEF UntilLoaded, OnceLoaded, Unbroken, UpToDate, CandlesFollow
  <2>5. QED BY <2>1, <2>2, <2>3, <2>4 DEF BarsInv
<1>11. QED BY <1>1, <1>2, <1>3, <1>4, <1>5, <1>6, <1>7, <1>8, <1>9, <1>10 DEF BarsNext

LEMMA BarsInvIsTrue == BarsInv => ChartIsTrue
<1> SUFFICES ASSUME BarsInv PROVE ChartIsTrue OBVIOUS
<1>1. ChartIsExact BY DEF BarsInv, ChartIsExact, OnceLoaded, Unbroken, UpToDate, CandlesFollow
<1>2. BordersLineUp BY DEF BarsInv, BordersLineUp, BordersInRows
<1>3. QED BY <1>1, <1>2 DEF BarsInv, ChartIsTrue

\* Unless requests crossed, or the socket led, lagged or lost something, a chart
\* holds the bars of its topic without a gap, each once, for the scripts as for
\* the eye, and the borders of the chunks stand where they were drawn.
THEOREM ChartsAreTrue == BarsSpec => []ChartIsTrue
<1>1. BarsInv /\ [BarsNext]_barsVars => BarsInv' BY BarsStep
<1>2. QED BY <1>1, BarsStart, BarsInvIsTrue, PTL DEF BarsSpec
=============================================================================
