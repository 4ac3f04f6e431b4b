---------------------------- MODULE Stores_proofs ----------------------------
(***************************************************************************)
(* Proofs about what the server keeps.  The trade history, for every       *)
(* threshold, page size, order of ids and number of trades and faults:     *)
(* types, the fresh statistics, the exact walk, the bounded loss and the   *)
(* archive that misses nothing.  The cached bars, for every limit, age and *)
(* number of requests: the answers that are sound.                         *)
(***************************************************************************)
EXTENDS TradeHistory, BarCache, FiniteSetTheorems, SequenceTheorems,
        WellFoundedInduction, TLAPS

-----------------------------------------------------------------------------
(* Sequences                                                               *)

LEMMA SubSeqType ==
    ASSUME NEW S, NEW s \in Seq(S), NEW m \in Nat \ {0}, NEW n \in Int, n <= Len(s)
    PROVE  /\ SubSeq(s, m, n) \in Seq(S)
           /\ ToSet(SubSeq(s, m, n)) \subseteq ToSet(s)
<1>1. \A i \in m..n : i \in 1..Len(s) /\ s[i] \in S BY ElementOfSeq, LenProperties
<1>2. SubSeq(s, m, n) \in Seq(S) BY <1>1, SubSeqProperties
<1>3. /\ Len(SubSeq(s, m, n)) = IF m <= n THEN n - m + 1 ELSE 0
      /\ \A i \in 1..(n - m + 1) : SubSeq(s, m, n)[i] = s[m + i - 1]
  BY <1>1, SubSeqProperties
<1>4. DOMAIN s = 1..Len(s) BY LenProperties
<1>5. \A i \in DOMAIN SubSeq(s, m, n) : SubSeq(s, m, n)[i] \in ToSet(s)
  <2> TAKE i \in DOMAIN SubSeq(s, m, n)
  <2>1. i \in 1..Len(SubSeq(s, m, n)) BY <1>2, LenProperties
  <2>2. i \in 1..(n - m + 1) /\ m + i - 1 \in m..n BY <2>1, <1>3
  <2>3. SubSeq(s, m, n)[i] = s[m + i - 1] /\ m + i - 1 \in DOMAIN s BY <2>2, <1>1, <1>3, <1>4
  <2>4. QED BY <2>3 DEF ToSet
<1>6. QED BY <1>2, <1>5 DEF ToSet

LEMMA FrontType ==
    ASSUME NEW S, NEW s \in Seq(S)
    PROVE  /\ Front(s) \in Seq(S)
           /\ ToSet(s) \ {Last(s)} \subseteq ToSet(Front(s))
           /\ ToSet(Front(s)) \subseteq ToSet(s)
<1>1. Len(s) \in Nat /\ DOMAIN s = 1..Len(s) BY LenProperties
<1>2. Front(s) \in Seq(S) /\ ToSet(Front(s)) \subseteq ToSet(s)
  BY <1>1, SubSeqType DEF Front
<1>3. \A i \in 1..(Len(s) - 1) : s[i] \in S BY <1>1, ElementOfSeq
<1>4. /\ Len(Front(s)) = IF 1 <= Len(s) - 1 THEN Len(s) - 1 ELSE 0
      /\ \A i \in 1..(Len(s) - 1) : Front(s)[i] = s[i]
  <2>1. /\ Len(SubSeq(s, 1, Len(s) - 1)) = IF 1 <= Len(s) - 1 THEN Len(s) - 1 - 1 + 1 ELSE 0
        /\ \A i \in 1..(Len(s) - 1 - 1 + 1) : SubSeq(s, 1, Len(s) - 1)[i] = s[1 + i - 1]
    BY <1>1, <1>3, SubSeqProperties
  <2>2. QED BY <2>1, <1>1 DEF Front
<1>5. ASSUME NEW i \in DOMAIN s, s[i] # Last(s) PROVE s[i] \in ToSet(Front(s))
  <2>1. i \in 1..(Len(s) - 1) BY <1>1, <1>5 DEF Last
  <2>2. i \in DOMAIN Front(s)
    <3>1. DOMAIN Front(s) = 1..Len(Front(s)) BY <1>2, LenProperties
    <3>2. Len(Front(s)) = Len(s) - 1
      <4>1. 1 <= Len(s) - 1 BY <2>1, <1>1
      <4>2. QED BY <4>1, <1>4, Zenon
    <3>3. QED BY <3>1, <3>2, <2>1
  <2>3. QED BY <2>1, <2>2, <1>4 DEF ToSet
<1>6. QED BY <1>2, <1>5 DEF ToSet

LEMMA ConcatType ==
    ASSUME NEW S, NEW s \in Seq(S), NEW t \in Seq(S)
    PROVE  s \o t \in Seq(S) /\ ToSet(s \o t) = ToSet(s) \union ToSet(t)
<1>1. /\ s \o t \in Seq(S) /\ Len(s \o t) = Len(s) + Len(t)
      /\ \A i \in 1..Len(s) : (s \o t)[i] = s[i]
      /\ \A i \in 1..Len(t) : (s \o t)[Len(s) + i] = t[i]
  OBVIOUS
<1>2. QED
  <2>1. /\ DOMAIN s = 1..Len(s) /\ DOMAIN t = 1..Len(t) /\ Len(s) \in Nat /\ Len(t) \in Nat
        /\ DOMAIN (s \o t) = 1..(Len(s) + Len(t))
    BY <1>1, LenProperties
  <2>2. ToSet(s) \union ToSet(t) \subseteq ToSet(s \o t)
    <3>1. \A i \in DOMAIN s : i \in DOMAIN (s \o t) BY <2>1
    <3>2. \A i \in DOMAIN t : Len(s) + i \in DOMAIN (s \o t) BY <2>1
    <3>3. QED BY <3>1, <3>2, <2>1, <1>1, Zenon DEF ToSet
  <2>3. ToSet(s \o t) \subseteq ToSet(s) \union ToSet(t)
    <3> SUFFICES ASSUME NEW i \in DOMAIN (s \o t)
                 PROVE  (s \o t)[i] \in ToSet(s) \union ToSet(t)
      BY DEF ToSet
    <3>1. CASE i <= Len(s)
      <4>1. i \in DOMAIN s /\ (s \o t)[i] = s[i] BY <3>1, <2>1, <1>1
      <4>2. QED BY <4>1 DEF ToSet
    <3>2. CASE i > Len(s)
      <4>1. i - Len(s) \in DOMAIN t /\ (s \o t)[i] = t[i - Len(s)]
        <5>1. i - Len(s) \in 1..Len(t) /\ Len(s) + (i - Len(s)) = i BY <3>2, <2>1
        <5>2. QED BY <5>1, <2>1, <1>1
      <4>2. QED BY <4>1 DEF ToSet
    <3>3. QED BY <3>1, <3>2, <2>1
  <2>4. QED BY <1>1, <2>2, <2>3

LEMMA OneRecord ==
    ASSUME NEW t \in Trade
    PROVE  /\ <<t>> \in Seq(Trade) /\ <<t>> # <<>> /\ Len(<<t>>) = 1
           /\ Tail(<<t>>) = <<>> /\ ToSet(<<t>>) = {t}
<1>1. <<t>> \in Seq(Trade) /\ Len(<<t>>) = 1 /\ <<t>>[1] = t /\ Tail(<<t>>) = <<>>
  OBVIOUS
<1>2. ToSet(<<t>>) = {t} BY DEF ToSet
<1>3. QED BY <1>1, <1>2

-----------------------------------------------------------------------------
(* Files                                                                   *)

Ends == {"newline", "piece", "record"}

LEMMA AppendToFileType ==
    ASSUME NEW f \in File, NEW rs \in Seq(Trade), NEW end \in Ends
    PROVE  AppendToFile(f, rs, end) \in File
<1>1. f.records \in Seq(Trade) /\ Front(f.records) \in Seq(Trade)
  BY FrontType DEF File
<1>2. rs # <<>> => Tail(rs) \in Seq(Trade) BY HeadTailProperties
<1> DEFINE old == IF ~f.ended /\ f.last = "whole" THEN Front(f.records) ELSE f.records
           new == IF ~f.ended /\ rs # <<>> THEN Tail(rs) ELSE rs
<1>3. old \in Seq(Trade) /\ new \in Seq(Trade) BY <1>1, <1>2
<1> HIDE DEF old, new
<1>4. old \o new \in Seq(Trade) BY <1>3
<1>5. AppendToFile(f, rs, end) =
        IF rs = <<>> /\ end = "newline" THEN f
        ELSE [records |-> old \o new,
              last |-> IF end = "piece" \/ (~f.ended /\ Len(rs) = 1) THEN "torn"
                       ELSE "whole",
              ended |-> end = "newline"]
  BY DEF AppendToFile, old, new
<1>6. QED BY <1>4, <1>5 DEF File

LEMMA PartialType ==
    ASSUME NEW f \in File, NEW block \in Seq(Trade), NEW g \in Partial(f, block)
    PROVE  g \in File
<1>1. \A k \in 0..Len(block) : SubSeq(block, 1, k) \in Seq(Trade)
  <2> TAKE k \in 0..Len(block)
  <2>1. k \in Int /\ k <= Len(block) BY LenProperties
  <2>2. QED BY <2>1, SubSeqType
<1>2. Len(block) \in Nat BY LenProperties
<1>3. CASE \E k \in 0..(Len(block) - 1), end \in {"newline", "piece"} :
              g = AppendToFile(f, SubSeq(block, 1, k), end)
  <2>1. PICK k \in 0..(Len(block) - 1), end \in {"newline", "piece"} :
               g = AppendToFile(f, SubSeq(block, 1, k), end)
    BY <1>3
  <2>2. SubSeq(block, 1, k) \in Seq(Trade) /\ end \in Ends BY <1>1, <1>2 DEF Ends
  <2>3. QED BY <2>1, <2>2, AppendToFileType
<1>4. CASE \E k \in 1..Len(block) : g = AppendToFile(f, SubSeq(block, 1, k), "record")
  <2>1. PICK k \in 1..Len(block) : g = AppendToFile(f, SubSeq(block, 1, k), "record")
    BY <1>4
  <2>2. SubSeq(block, 1, k) \in Seq(Trade) /\ "record" \in Ends BY <1>1, <1>2 DEF Ends
  <2>3. QED BY <2>1, <2>2, AppendToFileType
<1>5. QED BY <1>3, <1>4 DEF Partial

LEMMA NewestType ==
    ASSUME NEW s \in Seq(Trade)
    PROVE  /\ Newest(s) \in Seq(Trade) /\ Len(Newest(s)) <= Threshold
           /\ ToSet(Newest(s)) \subseteq ToSet(s)
<1>1. Len(s) \in Nat /\ Threshold \in Nat \ {0} BY LenProperties, StoreAssumption
<1>2. CASE Len(s) <= Threshold BY <1>1, <1>2 DEF Newest
<1>3. CASE Len(s) > Threshold
  <2>1. Newest(s) = SubSeq(s, Len(s) - Threshold + 1, Len(s)) BY <1>1, <1>3 DEF Newest
  <2>2. Len(s) - Threshold + 1 \in Nat \ {0} BY <1>1, <1>3
  <2>3. Newest(s) \in Seq(Trade) /\ ToSet(Newest(s)) \subseteq ToSet(s)
    BY <1>1, <2>1, <2>2, SubSeqType
  <2>4. \A i \in (Len(s) - Threshold + 1)..Len(s) : s[i] \in Trade
    BY <1>1, <2>2, ElementOfSeq
  <2>5. Len(Newest(s)) = Threshold
    <3>1. Len(Newest(s)) = IF Len(s) - Threshold + 1 <= Len(s)
                           THEN Len(s) - (Len(s) - Threshold + 1) + 1 ELSE 0
      BY <2>1, <2>2, <2>4, <1>1, SubSeqProperties
    <3>2. QED BY <3>1, <1>1
  <2>6. QED BY <2>3, <2>5, <1>1
<1>4. QED BY <1>1, <1>2, <1>3

LEMMA MinIsLeast ==
    ASSUME NEW S \in SUBSET Nat, S # {}
    PROVE  Min(S) \in S /\ \A k \in S : Min(S) <= k
<1>1. PICK n \in S : \A k \in S : ~ (<<k, n>> \in OpToRel(<, Nat))
  BY WFMin, NatLessThanWellFounded, Zenon
<1>2. ASSUME NEW k \in S, k < n PROVE FALSE
  <2>1. <<k, n>> \in Nat \X Nat /\ <<k, n>>[1] < <<k, n>>[2] BY <1>2
  <2>2. <<k, n>> \in OpToRel(<, Nat) BY <2>1, Zenon DEF OpToRel
  <2>3. QED BY <1>1, <2>2
<1>3. \A k \in S : n <= k BY <1>2
<1>4. QED BY <1>3, Zenon DEF Min

LEMMA KeepFromBounds ==
    ASSUME NEW loaded \in Seq(Trade), NEW excess \in Nat
    PROVE  KeepFrom(loaded, excess) \in 0..excess
<1> DEFINE at == { i \in DOMAIN loaded :
                     archive.last = "whole" /\ loaded[i] = Last(archive.records) }
<1>1. at \subseteq Nat BY LenProperties
<1>2. CASE at = {} BY <1>2 DEF KeepFrom
<1>3. CASE at # {}
  <2>1. Min(at) \in Nat BY <1>1, <1>3, MinIsLeast
  <2>2. {Min(at), excess} \in SUBSET Nat /\ {Min(at), excess} # {} BY <2>1
  <2>3. Min({Min(at), excess}) \in {Min(at), excess} /\ Min({Min(at), excess}) <= excess
    BY <2>2, MinIsLeast, Zenon
  <2>4. Min({Min(at), excess}) \in 0..excess BY <2>1, <2>3
  <2>5. QED BY <2>4, <1>3 DEF KeepFrom
<1>4. QED BY <1>2, <1>3

-----------------------------------------------------------------------------
(* Types                                                                   *)

TypeInv == TypeOK /\ torn <= faults

LEMMA ReadableType ==
    ASSUME NEW f \in File
    PROVE  Readable(f) \subseteq Trade
BY ElementOfSeq, LenProperties DEF Readable, ToSet, File

LEMMA MemoryType ==
    ASSUME TypeOK
    PROVE  ToSet(trades) \subseteq Trade
BY ElementOfSeq, LenProperties DEF TypeOK, ToSet

LEMMA ArchiveType ==
    ASSUME TypeInv, NEW block \in Seq(Trade), Archive(block)
    PROVE  /\ archive' \in File
           /\ faults' \in 0..MaxFaults /\ faults <= faults'
           /\ excused' \subseteq Trade
<1>1. archive \in File /\ faults \in 0..MaxFaults /\ excused \subseteq Trade
  BY DEF TypeInv, TypeOK
<1>2. archive' \in File
  <2>1. CASE UNCHANGED archive BY <2>1, <1>1
  <2>2. CASE archive' = AppendToFile(archive, block, "newline")
    BY <2>2, <1>1, AppendToFileType DEF Ends
  <2>3. CASE archive' \in Partial(archive, block) BY <2>3, <1>1, PartialType
  <2>4. QED BY <2>1, <2>2, <2>3 DEF Archive
<1>3. faults' \in 0..MaxFaults /\ faults <= faults'
  BY <1>1, StoreAssumption DEF Archive
<1>4. ToSet(block) \subseteq Trade BY ElementOfSeq, LenProperties DEF ToSet
<1>5. QED BY <1>1, <1>2, <1>3, <1>4, ReadableType DEF Archive

LEMMA PersistType ==
    ASSUME TypeInv, PersistClosedTrade
    PROVE  TypeInv'
<1>1. PICK t \in clock..MaxTime :
        /\ clock' = t
        /\ LET trade == [id |-> recorded + 1, closedAt |-> t]
           IN  RecordTrade(trade) \/ RecordFails(trade)
  BY DEF PersistClosedTrade
<1> DEFINE trade == [id |-> recorded + 1, closedAt |-> t]
<1>2. /\ recorded' \in 0..MaxTrades /\ clock' \in 0..MaxTime /\ trade \in Trade
  BY <1>1, StoreAssumption DEF PersistClosedTrade, TypeInv, TypeOK, Trade
<1> HIDE DEF trade
<1>3. walk' \in [filter : Filters, cursor : Trade \union {NoTrade},
                 start : SUBSET Trade, seen : SUBSET Trade, done : BOOLEAN]
  <2>1. walk' = [walk EXCEPT !.start = @ \intersect ToSet(trades')] \/ walk' = walk
    BY DEF PersistClosedTrade, Surviving
  <2>2. QED BY <2>1 DEF TypeInv, TypeOK
<1>4. [c \in Caches |-> Dirty] \in [Caches -> [dirty : BOOLEAN, key : Filters, of : SUBSET Trade]]
  BY DEF Dirty, Filters
<1>5. CASE RecordTrade(trade)
  <2>1. Append(trades, trade) \in Seq(Trade) BY <1>2 DEF TypeInv, TypeOK
  <2>2. trades' \in Seq(Trade) /\ Len(trades') <= Threshold
    BY <2>1, <1>5, NewestType DEF RecordTrade
  <2>3. Overflow(Append(trades, trade)) \in Seq(Trade)
    <3> DEFINE s == Append(trades, trade)
    <3>1. s \in Seq(Trade) BY <2>1
    <3> HIDE DEF s
    <3>2. Len(s) - Threshold \in Int /\ Len(s) - Threshold <= Len(s)
      BY <3>1, LenProperties, StoreAssumption
    <3>3. SubSeq(s, 1, Len(s) - Threshold) \in Seq(Trade) BY <3>1, <3>2, SubSeqType
    <3>4. QED BY <3>3 DEF Overflow, s
  <2>4. file' \in File
    BY <1>2, <1>5, OneRecord, AppendToFileType DEF RecordTrade, TypeInv, TypeOK, Ends
  <2>5. /\ archive' \in File /\ faults' \in 0..MaxFaults /\ faults <= faults'
        /\ excused' \subseteq Trade
    BY <2>3, <1>5, ArchiveType DEF RecordTrade
  <2>6. /\ up' \in BOOLEAN /\ memo' = [c \in Caches |-> Dirty]
        /\ served' \subseteq Trade /\ torn' = torn
    BY <1>2, <1>5 DEF RecordTrade, TypeInv, TypeOK
  <2>7. torn' \in 0..MaxFaults /\ torn' <= faults'
    BY <2>5, <2>6 DEF TypeInv, TypeOK
  <2>8. QED BY <1>2, <1>3, <1>4, <2>2, <2>4, <2>5, <2>6, <2>7 DEF TypeInv, TypeOK
<1>6. CASE RecordFails(trade)
  <2>1. file' \in File
    BY <1>2, <1>6, OneRecord, PartialType DEF RecordFails, TypeInv, TypeOK
  <2>2. /\ faults' \in 0..MaxFaults /\ torn' \in 0..MaxFaults /\ torn' <= faults'
    BY <1>6, StoreAssumption DEF RecordFails, TypeInv, TypeOK
  <2>3. up' \in BOOLEAN /\ trades' \in Seq(Trade) /\ Len(trades') <= Threshold
    <3>1. /\ up' \in BOOLEAN /\ (trades' = trades \/ trades' = <<>>)
          /\ trades \in Seq(Trade) /\ Len(trades) <= Threshold
      BY <1>6 DEF RecordFails, TypeInv, TypeOK
    <3>2. CASE trades' = <<>> BY <3>1, <3>2, StoreAssumption, EmptySeq
    <3>3. CASE trades' = trades BY <3>1, <3>3
    <3>4. QED BY <3>1, <3>2, <3>3
  <2>4. QED BY <1>2, <1>3, <1>6, <2>1, <2>2, <2>3 DEF RecordFails, TypeInv, TypeOK
<1>7. QED BY <1>1, <1>5, <1>6 DEF trade

LEMMA LoadType ==
    ASSUME TypeInv, LoadExisting
    PROVE  TypeInv'
<1> DEFINE loaded == file.records
           excess == Len(loaded) - Threshold
<1>1. loaded \in Seq(Trade) BY DEF TypeInv, TypeOK, File
<1>2. Len(loaded) \in Nat /\ excess \in Int BY <1>1, LenProperties, StoreAssumption
<1> HIDE DEF loaded
<1>3. trades' \in Seq(Trade) /\ Len(trades') <= Threshold
  BY <1>1, NewestType DEF LoadExisting, ApplyRotation, loaded
<1> DEFINE block == IF excess <= 0 THEN <<>>
                    ELSE SubSeq(loaded, KeepFrom(loaded, excess) + 1, excess)
<1>4. block \in Seq(Trade)
  <2>1. CASE excess <= 0 BY <2>1, EmptySeq
  <2>2. CASE excess > 0
    <3>1. excess \in Nat BY <1>2, <2>2
    <3>2. KeepFrom(loaded, excess) + 1 \in Nat \ {0} BY <3>1, <1>1, KeepFromBounds
    <3>3. excess <= Len(loaded) BY <1>2, StoreAssumption
    <3>4. SubSeq(loaded, KeepFrom(loaded, excess) + 1, excess) \in Seq(Trade)
      BY <1>1, <1>2, <3>2, <3>3, SubSeqType
    <3>5. QED BY <3>4, <2>2, <1>2
  <2>3. QED BY <2>1, <2>2, <1>2
<1>5. Archive(block) BY DEF LoadExisting, ApplyRotation, loaded
<1> HIDE DEF block
<1>6. /\ archive' \in File /\ faults' \in 0..MaxFaults /\ faults <= faults'
      /\ excused' \subseteq Trade
  BY <1>4, <1>5, ArchiveType
<1>7. served' \subseteq Trade
  <2>1. ToSet(trades') \subseteq Trade BY <1>3, ElementOfSeq, LenProperties DEF ToSet
  <2>2. QED BY <2>1 DEF LoadExisting, TypeInv, TypeOK
<1>8. walk' \in [filter : Filters, cursor : Trade \union {NoTrade},
                 start : SUBSET Trade, seen : SUBSET Trade, done : BOOLEAN]
  BY DEF LoadExisting, Surviving, TypeInv, TypeOK
<1>9. memo' \in [Caches -> [dirty : BOOLEAN, key : Filters, of : SUBSET Trade]]
  BY DEF LoadExisting, Dirty, Filters
<1>10. up' \in BOOLEAN /\ file' = file /\ recorded' = recorded /\ clock' = clock /\ torn' = torn
  BY DEF LoadExisting
<1>11. QED BY <1>3, <1>6, <1>7, <1>8, <1>9, <1>10 DEF TypeInv, TypeOK

LEMMA PageType ==
    ASSUME TypeInv, NEW filter \in Filters, NEW cursor,
           NEW start \in SUBSET Trade, NEW seen \in SUBSET Trade,
           GetTradesPage(filter, cursor, start, seen)
    PROVE  walk' \in [filter : Filters, cursor : Trade \union {NoTrade},
                      start : SUBSET Trade, seen : SUBSET Trade, done : BOOLEAN]
<1>1. Visible(filter) \subseteq Trade BY MemoryType DEF Visible, TypeInv
<1>2. QED BY <1>1 DEF GetTradesPage

\* Every variable of the store keeps its type, and memory never holds more
\* than Threshold records: rotation is applied at runtime and at startup.
THEOREM TypeCorrect == Spec => []TypeOK
<1>1. Init => TypeInv
  <2>1. <<>> \in Seq(Trade) /\ Len(<<>>) = 0 BY EmptySeq
  <2>2. QED
    BY <2>1, StoreAssumption
    DEF Init, TypeInv, TypeOK, NoWalk, EmptyFile, File, Dirty, Caches, Filters
<1>2. TypeInv /\ [Next]_vars => TypeInv'
  <2> SUFFICES ASSUME TypeInv, [Next]_vars PROVE TypeInv'
    OBVIOUS
  <2>1. CASE PersistClosedTrade BY <2>1, PersistType
  <2>2. CASE Crash
    <3>1. trades' \in Seq(Trade) /\ Len(trades') <= Threshold
      BY <2>2, StoreAssumption, EmptySeq DEF Crash
    <3>2. QED BY <2>2, <3>1 DEF Crash, disk, ghosts, TypeInv, TypeOK
  <2>3. CASE LoadExisting BY <2>3, LoadType
  <2>4. CASE LoadFails
    <3>1. Readable(file) \subseteq Trade BY ReadableType DEF TypeInv, TypeOK
    <3>2. faults' \in 0..MaxFaults /\ torn' = torn /\ torn' <= faults'
      BY <2>4, StoreAssumption DEF LoadFails, TypeInv, TypeOK
    <3>3. trades' \in Seq(Trade) /\ Len(trades') <= Threshold
      BY <2>4, StoreAssumption, EmptySeq DEF LoadFails
    <3>4. QED
      BY <2>4, <3>1, <3>2, <3>3
      DEF LoadFails, Surviving, disk, Dirty, Filters, TypeInv, TypeOK
  <2>5. ASSUME NEW c \in Caches, NEW key \in Filters, GetStats(c, key)
        PROVE  TypeInv'
    <3>1. Visible(key) \subseteq Trade BY MemoryType DEF Visible, TypeInv
    <3>2. QED BY <2>5, <3>1 DEF GetStats, disk, ghosts, TypeInv, TypeOK
  <2>6. ASSUME NEW filter \in Filters, FirstPage(filter) PROVE TypeInv'
    <3>1. Visible(filter) \subseteq Trade BY MemoryType DEF Visible, TypeInv
    <3>2. QED BY <2>6, <3>1, PageType DEF FirstPage, disk, ghosts, TypeInv, TypeOK
  <2>7. CASE NextPage
    <3>1. walk.filter \in Filters /\ walk.start \subseteq Trade /\ walk.seen \subseteq Trade
      BY DEF TypeInv, TypeOK
    <3>2. QED BY <2>7, <3>1, PageType DEF NextPage, disk, ghosts, TypeInv, TypeOK
  <2>8. CASE UNCHANGED vars
    BY <2>8 DEF vars, TypeInv, TypeOK
  <2>9. QED BY <2>1, <2>2, <2>3, <2>4, <2>5, <2>6, <2>7, <2>8 DEF Next
<1>3. TypeInv => TypeOK BY DEF TypeInv
<1>4. QED BY <1>1, <1>2, <1>3, PTL DEF Spec

-----------------------------------------------------------------------------
(* Statistics                                                              *)

\* A memoized statistic that is not marked dirty was computed of the trades in
\* memory, whatever is recorded, rotated, reloaded and asked for in between.
THEOREM StatisticsAreFresh == Spec => []StatsAreFresh
<1>1. Init => StatsAreFresh BY DEF Init, StatsAreFresh, Dirty, Caches
<1>2. TypeOK /\ StatsAreFresh /\ [Next]_vars => StatsAreFresh'
  <2> SUFFICES ASSUME TypeOK, StatsAreFresh, [Next]_vars PROVE StatsAreFresh'
    OBVIOUS
  <2>1. CASE UNCHANGED <<up, trades, memo>>
    <3>1. \A key : Visible(key)' = Visible(key) BY <2>1 DEF Visible
    <3>2. QED BY <2>1, <3>1 DEF StatsAreFresh
  <2>2. ASSUME memo' = [c \in Caches |-> Dirty] PROVE StatsAreFresh'
    BY <2>2 DEF StatsAreFresh, Dirty
  <2>3. ASSUME up' = FALSE PROVE StatsAreFresh'
    BY <2>3 DEF StatsAreFresh
  <2>4. CASE PersistClosedTrade
    BY <2>1, <2>2, <2>3, <2>4 DEF PersistClosedTrade, RecordTrade, RecordFails
  <2>5. CASE Crash BY <2>3, <2>5 DEF Crash
  <2>6. CASE LoadExisting BY <2>2, <2>6 DEF LoadExisting
  <2>7. CASE LoadFails BY <2>2, <2>7 DEF LoadFails
  <2>8. ASSUME NEW c \in Caches, NEW key \in Filters, GetStats(c, key)
        PROVE  StatsAreFresh'
    <3>1. \A k : Visible(k)' = Visible(k) BY <2>8 DEF GetStats, Visible
    <3>2. up /\ up' /\ memo \in [Caches -> [dirty : BOOLEAN, key : Filters, of : SUBSET Trade]]
      BY <2>8 DEF GetStats, TypeOK
    <3>3. \A d \in Caches : memo'[d] = IF d = c THEN [dirty |-> FALSE, key |-> key, of |-> Visible(key)]
                                       ELSE memo[d]
      BY <2>8, <3>2 DEF GetStats
    <3>4. QED BY <3>1, <3>2, <3>3 DEF StatsAreFresh
  <2>9. CASE (\E filter \in Filters : FirstPage(filter)) \/ NextPage
    BY <2>1, <2>9 DEF FirstPage, NextPage
  <2>10. QED
    BY <2>1, <2>4, <2>5, <2>6, <2>7, <2>8, <2>9 DEF Next, vars
<1>3. QED BY <1>1, <1>2, TypeCorrect, PTL DEF Spec

-----------------------------------------------------------------------------
(* Pages                                                                   *)

\* The order of the history is strict and total on its records.
LEMMA NewerIsAnOrder ==
    ASSUME NEW t \in Trade, NEW u \in Trade, NEW v \in Trade
    PROVE  /\ ~Newer(t, t)
           /\ Newer(t, u) => ~Newer(u, t)
           /\ Newer(t, u) /\ Newer(u, v) => Newer(t, v)
           /\ t # u => Newer(t, u) \/ Newer(u, t)
<1>1. \A r \in Trade : r.id \in 1..MaxTrades /\ r.closedAt \in Nat /\ IdRank[r.id] \in Nat
  BY StoreAssumption DEF Trade
<1>2. t # u => t.id # u.id \/ t.closedAt # u.closedAt BY DEF Trade
<1>3. t.id # u.id => IdRank[t.id] # IdRank[u.id] BY <1>1, StoreAssumption
<1>4. QED BY <1>1, <1>2, <1>3 DEF Newer

\* What a walk has not seen of its start is behind its cursor, what it has
\* seen is not, and the history still holds all of its start.
WalkInv ==
    /\ up => walk.start \subseteq ToSet(trades)
    /\ \A t \in walk.start : walk.filter = "all" \/ t.id \notin Unknown
    /\ \A t \in walk.start : t \in walk.seen \/ (~walk.done /\ After(walk.cursor, t))
    /\ ~walk.done => walk.cursor # NoTrade /\ \A t \in walk.seen : ~After(walk.cursor, t)

\* One page keeps the invariant, when what is not yet seen is behind the
\* cursor and what is seen is not.
LEMMA PageKeepsWalk ==
    ASSUME TypeOK, NEW filter \in Filters, NEW cursor \in Trade \union {NoTrade},
           NEW start \in SUBSET Trade, NEW seen \in SUBSET Trade,
           GetTradesPage(filter, cursor, start, seen),
           start \subseteq Visible(filter),
           \A t \in start : t \in seen \/ After(cursor, t),
           \A t \in seen : ~After(cursor, t),
           UNCHANGED <<up, trades>>
    PROVE  WalkInv'
<1> DEFINE left == { t \in Visible(filter) : After(cursor, t) }
<1>0. PICK page \in SUBSET left :
        /\ \A t \in page : \A u \in left \ page : Newer(t, u)
        /\ IF Cardinality(left) > PageSize THEN Cardinality(page) = PageSize
           ELSE page = left
        /\ \E last \in page \union {NoTrade} :
              /\ page = {} <=> last = NoTrade
              /\ \A t \in page \ {last} : Newer(t, last)
              /\ walk' = [filter |-> filter, cursor |-> last, start |-> start,
                          seen |-> seen \union page, done |-> page = left]
  BY DEF GetTradesPage
<1>1. PICK last \in page \union {NoTrade} :
        /\ page = {} <=> last = NoTrade
        /\ \A t \in page \ {last} : Newer(t, last)
        /\ walk' = [filter |-> filter, cursor |-> last, start |-> start,
                    seen |-> seen \union page, done |-> page = left]
  BY <1>0
<1>2. left \subseteq Trade BY MemoryType DEF Visible
<1>3. page = {} => page = left
  <2> SUFFICES ASSUME page = {}, page # left PROVE FALSE
    OBVIOUS
  <2>1. Cardinality({}) = PageSize BY <1>0
  <2>2. QED BY <2>1, FS_EmptySet, StoreAssumption
<1>4. page # {} => last \in page /\ last \in Trade /\ last # NoTrade
  BY <1>1, <1>2, NoTradeAssumption
<1> HIDE DEF left
<1>5. ASSUME NEW t \in start PROVE t \in walk'.seen \/ (~walk'.done /\ After(walk'.cursor, t))
  <2>1. CASE t \in seen BY <2>1, <1>1
  <2>2. CASE t \notin seen
    <3>1. t \in left BY <2>2 DEF left
    <3>2. CASE t \in page BY <3>2, <1>1
    <3>3. CASE t \notin page
      <4>1. page # left /\ page # {} BY <3>1, <3>3, <1>3
      <4>2. Newer(last, t) BY <4>1, <3>1, <3>3, <1>0, <1>4
      <4>3. QED BY <4>1, <4>2, <1>1 DEF After
    <3>4. QED BY <3>2, <3>3
  <2>3. QED BY <2>1, <2>2
<1>6. ASSUME page # left, NEW t \in seen \union page
      PROVE  ~After(last, t)
  <2>1. page # {} /\ last \in page /\ last \in left /\ last \in Trade /\ last # NoTrade
    BY <1>1, <1>3, <1>4, <1>6
  <2>2. t \in Trade BY <1>1, <1>2, <1>6
  <2>3. CASE t \in page
    <3>1. t = last \/ Newer(t, last) BY <2>3, <1>1
    <3>2. ~Newer(last, t) BY <3>1, <2>1, <2>2, NewerIsAnOrder
    <3>3. QED BY <3>2, <2>1 DEF After
  <2>4. CASE t \in seen
    <3>1. cursor # NoTrade /\ ~Newer(cursor, t) BY <2>4 DEF After
    <3>2. Newer(cursor, last) BY <2>1, <3>1 DEF After, left
    <3>3. ~Newer(last, t) BY <3>1, <3>2, <2>1, <2>2, NewerIsAnOrder
    <3>4. QED BY <3>3, <2>1 DEF After
  <2>5. QED BY <2>3, <2>4, <1>6
<1>8. /\ walk'.start = start /\ walk'.filter = filter /\ walk'.cursor = last
      /\ walk'.seen = seen \union page /\ walk'.done = (page = left)
  BY <1>1
<1>9. /\ walk'.start \subseteq ToSet(trades')
      /\ \A t \in walk'.start : walk'.filter = "all" \/ t.id \notin Unknown
  BY <1>8 DEF Visible
<1>10. ~walk'.done => walk'.cursor # NoTrade /\ \A t \in walk'.seen : ~After(walk'.cursor, t)
  BY <1>1, <1>3, <1>4, <1>6, <1>8
<1>11. /\ (up => walk.start \subseteq ToSet(trades))'
       /\ (\A t \in walk.start : walk.filter = "all" \/ t.id \notin Unknown)'
  BY <1>9
<1>12. (\A t \in walk.start : t \in walk.seen \/ (~walk.done /\ After(walk.cursor, t)))'
  BY <1>5, <1>8
<1>13. (~walk.done => walk.cursor # NoTrade /\ \A t \in walk.seen : ~After(walk.cursor, t))'
  BY <1>10
<1>14. QED BY <1>11, <1>12, <1>13 DEF WalkInv

\* A client that follows the cursor gets every record that was in the history
\* when it began and stayed, and none twice, for every page size, every order
\* of the ids and whatever is recorded, rotated and restarted between pages.
THEOREM WalksAreExact == Spec => []WalkIsExact
<1>1. Init => WalkInv BY DEF Init, NoWalk, WalkInv
<1>2. TypeOK /\ WalkInv /\ [Next]_vars => WalkInv'
  <2> SUFFICES ASSUME TypeOK, WalkInv, [Next]_vars PROVE WalkInv'
    OBVIOUS
  <2>1. CASE UNCHANGED <<up, trades, walk>>
    <3>1. \A filter : Visible(filter)' = Visible(filter) BY <2>1 DEF Visible
    <3>2. QED BY <2>1, <3>1 DEF WalkInv, After, Newer
  <2>2. ASSUME walk' = Surviving PROVE WalkInv'
    <3>1. CASE up'
      <4>1. walk' = [walk EXCEPT !.start = walk.start \intersect ToSet(trades')]
        BY <2>2, <3>1 DEF Surviving
      <4>2. /\ walk'.start = walk.start \intersect ToSet(trades')
            /\ walk'.seen = walk.seen /\ walk'.done = walk.done
            /\ walk'.cursor = walk.cursor /\ walk'.filter = walk.filter
        BY <4>1 DEF TypeOK
      <4>3. QED BY <4>2 DEF WalkInv, After, Newer
    <3>2. CASE ~up'
      <4>1. walk' = walk BY <2>2, <3>2 DEF Surviving
      <4>2. QED BY <4>1, <3>2 DEF WalkInv, After, Newer
    <3>3. QED BY <3>1, <3>2
  <2>3. CASE PersistClosedTrade \/ LoadExisting \/ LoadFails
    BY <2>2, <2>3 DEF PersistClosedTrade, LoadExisting, LoadFails
  <2>4. CASE Crash BY <2>4 DEF Crash, WalkInv, After, Newer
  <2>5. ASSUME NEW c \in Caches, NEW key \in Filters, GetStats(c, key) PROVE WalkInv'
    BY <2>1, <2>5 DEF GetStats
  <2>6. ASSUME NEW filter \in Filters, FirstPage(filter) PROVE WalkInv'
    <3>1. Visible(filter) \subseteq Trade BY MemoryType DEF Visible
    <3>2. GetTradesPage(filter, NoTrade, Visible(filter), {}) /\ UNCHANGED <<up, trades>>
      BY <2>6 DEF FirstPage
    <3>3. \A t \in Visible(filter) : t \in {} \/ After(NoTrade, t) BY DEF After
    <3>4. {} \in SUBSET Trade /\ \A t \in {} : ~After(NoTrade, t) OBVIOUS
    <3>5. NoTrade \in Trade \union {NoTrade} /\ Visible(filter) \in SUBSET Trade BY <3>1
    <3>6. QED BY <3>2, <3>3, <3>4, <3>5, PageKeepsWalk
  <2>7. CASE NextPage
    <3>1. /\ GetTradesPage(walk.filter, walk.cursor, walk.start, walk.seen)
          /\ up /\ ~walk.done /\ UNCHANGED <<up, trades>>
      BY <2>7 DEF NextPage
    <3>2. /\ walk.filter \in Filters /\ walk.cursor \in Trade \union {NoTrade}
          /\ walk.start \in SUBSET Trade /\ walk.seen \in SUBSET Trade
      BY DEF TypeOK
    <3>3. /\ walk.start \subseteq Visible(walk.filter)
          /\ \A t \in walk.start : t \in walk.seen \/ After(walk.cursor, t)
          /\ \A t \in walk.seen : ~After(walk.cursor, t)
      BY <3>1 DEF WalkInv, Visible
    <3>4. QED BY <3>1, <3>2, <3>3, PageKeepsWalk
  <2>8. QED
    BY <2>1, <2>3, <2>4, <2>5, <2>6, <2>7 DEF Next, vars
<1>3. WalkInv => WalkIsExact BY DEF WalkInv, WalkIsExact
<1>4. QED BY <1>1, <1>2, <1>3, TypeCorrect, PTL DEF Spec

-----------------------------------------------------------------------------
(* Loss                                                                    *)

LEMMA RecordsAreFinite ==
    ASSUME NEW s \in Seq(Trade)
    PROVE  IsFiniteSet(ToSet(s))
<1>1. Len(s) \in Nat /\ DOMAIN s = 1..Len(s) BY LenProperties
<1>2. s \in [1..Len(s) -> Trade] BY LenProperties
<1>3. IsFiniteSet(1..Len(s)) BY <1>1, FS_Interval
<1>4. s \in Surjection(1..Len(s), ToSet(s)) BY <1>1, <1>2 DEF Surjection, ToSet
<1>5. QED BY <1>3, <1>4, FS_Surjection

LEMMA AtMostOneMore ==
    ASSUME NEW A, IsFiniteSet(A), NEW x, NEW B \in SUBSET (A \union {x})
    PROVE  /\ IsFiniteSet(B) /\ Cardinality(B) \in Nat /\ Cardinality(A) \in Nat
           /\ Cardinality(B) <= Cardinality(A) + 1
           /\ B \subseteq A => Cardinality(B) <= Cardinality(A)
<1>1. /\ IsFiniteSet(A \union {x})
      /\ Cardinality(A \union {x}) = IF x \in A THEN Cardinality(A) ELSE Cardinality(A) + 1
  BY FS_AddElement
<1>2. IsFiniteSet(B) /\ Cardinality(B) <= Cardinality(A \union {x}) BY <1>1, FS_Subset
<1>3. B \subseteq A => Cardinality(B) <= Cardinality(A) BY FS_Subset
<1>4. Cardinality(A) \in Nat /\ Cardinality(B) \in Nat BY <1>2, FS_CardinalityType
<1>5. QED BY <1>1, <1>2, <1>3, <1>4

\* The records that the next append will still take along.
Reserve(f) == IF f.ended THEN 0 ELSE IF f.last = "torn" THEN 1 ELSE 2

\* What one append costs: nothing behind a newline, and else the record of an
\* unterminated last line.
LEMMA OneAppend ==
    ASSUME NEW f \in File, NEW t \in Trade, NEW rs \in {<<>>, <<t>>}, NEW end \in Ends,
           ~ (rs = <<>> /\ end = "newline")
    PROVE  LET g == AppendToFile(f, rs, end) IN
           /\ f.ended => Readable(f) \union ToSet(rs) \subseteq Readable(g)
           /\ f.last = "torn" => Readable(f) \subseteq Readable(g)
           /\ Readable(f) \ {Last(f.records)} \subseteq Readable(g)
           /\ g.ended = (end = "newline")
<1> DEFINE g == AppendToFile(f, rs, end)
           old == IF ~f.ended /\ f.last = "whole" THEN Front(f.records) ELSE f.records
           new == IF ~f.ended /\ rs # <<>> THEN Tail(rs) ELSE rs
<1>1. /\ f.records \in Seq(Trade) /\ Front(f.records) \in Seq(Trade)
      /\ ToSet(f.records) \ {Last(f.records)} \subseteq ToSet(Front(f.records))
  BY FrontType DEF File
<1>2. rs \in Seq(Trade) BY OneRecord, EmptySeq
<1>3. old \in Seq(Trade) /\ new \in Seq(Trade) BY <1>1, <1>2, HeadTailProperties
<1>4. g.records = old \o new /\ g.ended = (end = "newline") BY DEF AppendToFile
<1>5. Readable(g) = ToSet(old) \union ToSet(new)
  <2> HIDE DEF g, old, new
  <2>1. ToSet(old \o new) = ToSet(old) \union ToSet(new) BY <1>3, ConcatType
  <2>2. QED BY <2>1, <1>4 DEF Readable
<1>6. QED BY <1>1, <1>4, <1>5 DEF Readable

LossInv ==
    /\ IsFiniteSet(served)
    /\ Cardinality(served \ Readable(file)) + Reserve(file) <= 2 * torn

LEMMA PersistBoundsLoss ==
    ASSUME TypeOK, LossInv, PersistClosedTrade
    PROVE  LossInv'
<1>1. PICK t \in clock..MaxTime :
        LET trade == [id |-> recorded + 1, closedAt |-> t]
        IN  RecordTrade(trade) \/ RecordFails(trade)
  BY DEF PersistClosedTrade
<1> DEFINE trade == [id |-> recorded + 1, closedAt |-> t]
           lost == served \ Readable(file)
           missing == served' \ Readable(file')
           x == Last(file.records)
<1>2. trade \in Trade
  BY <1>1, StoreAssumption DEF PersistClosedTrade, TypeOK, Trade
<1> HIDE DEF trade
<1>3. file \in File /\ torn \in Nat BY StoreAssumption DEF TypeOK
<1>4. IsFiniteSet(served) /\ IsFiniteSet(lost) /\ Cardinality(lost) \in Nat
      /\ Cardinality(lost) + Reserve(file) <= 2 * torn
  BY FS_Difference, FS_CardinalityType DEF LossInv
<1>5. Reserve(file') \in 0..2 BY DEF Reserve
<1>6. CASE RecordTrade(trade)
  <2>1. file' = AppendToFile(file, <<trade>>, "newline") /\ served' = served \union {trade}
        /\ torn' = torn
    BY <1>6 DEF RecordTrade
  <2>2. /\ file.ended => Readable(file) \union {trade} \subseteq Readable(file')
        /\ file.last = "torn" => Readable(file) \subseteq Readable(file')
        /\ Readable(file) \ {x} \subseteq Readable(file')
        /\ file'.ended
    BY <2>1, <1>2, <1>3, OneAppend, OneRecord DEF Ends
  <2>3. IsFiniteSet(served') BY <2>1, <1>4, FS_AddElement
  <2>4. Reserve(file') = 0 BY <2>2 DEF Reserve
  <2>5. CASE file.ended
    <3>1. missing \subseteq lost
      <4>1. Readable(file) \union {trade} \subseteq Readable(file') BY <2>2, <2>5
      <4>2. QED BY <4>1, <2>1
    <3>2. missing \in SUBSET (lost \union {x}) BY <3>1
    <3>3. Cardinality(missing) <= Cardinality(lost) /\ Cardinality(missing) \in Nat
      BY <3>1, <3>2, <1>4, AtMostOneMore
    <3>4. QED BY <3>3, <2>1, <2>3, <2>4, <2>5, <1>3, <1>4 DEF LossInv, Reserve
  <2>6. CASE ~file.ended /\ file.last = "torn"
    <3>1. missing \in SUBSET (lost \union {trade}) BY <2>1, <2>2, <2>6
    <3>2. Cardinality(missing) <= Cardinality(lost) + 1 /\ Cardinality(missing) \in Nat
      BY <3>1, <1>4, AtMostOneMore
    <3>3. QED BY <3>2, <2>1, <2>3, <2>4, <2>6, <1>3, <1>4 DEF LossInv, Reserve
  <2>7. CASE ~file.ended /\ file.last # "torn"
    <3> DEFINE more == lost \union {trade}
    <3>1. more \in SUBSET (lost \union {trade}) OBVIOUS
    <3>2. IsFiniteSet(more) /\ Cardinality(more) <= Cardinality(lost) + 1 /\ Cardinality(more) \in Nat
      BY <3>1, <1>4, AtMostOneMore
    <3>3. missing \in SUBSET (more \union {x}) BY <2>1, <2>2
    <3> HIDE DEF more
    <3>4. Cardinality(missing) <= Cardinality(more) + 1 /\ Cardinality(missing) \in Nat
      BY <3>2, <3>3, AtMostOneMore
    <3>5. QED BY <3>2, <3>4, <2>1, <2>3, <2>4, <2>7, <1>3, <1>4 DEF LossInv, Reserve
  <2>8. QED BY <2>5, <2>6, <2>7
<1>7. CASE RecordFails(trade)
  <2>1. /\ file' \in Partial(file, <<trade>>) /\ served' = served
        /\ torn' = IF file' = file THEN torn ELSE torn + 1
    BY <1>7 DEF RecordFails
  <2>2. CASE file' = file
    BY <2>1, <2>2 DEF LossInv
  <2>3. CASE file' # file
    <3>1. \E rs \in {<<>>, <<trade>>}, end \in Ends :
             /\ ~ (rs = <<>> /\ end = "newline")
             /\ file' = AppendToFile(file, rs, end)
      <4>1. Len(<<trade>>) = 1 /\ <<trade>> \in Seq(Trade) BY <1>2, OneRecord
      <4>2. SubSeq(<<trade>>, 1, 0) = <<>> BY SubSeqEmpty
      <4>3. SubSeq(<<trade>>, 1, 1) = <<trade>> BY <4>1, SubSeqFull
      <4>4. CASE \E k \in 0..(Len(<<trade>>) - 1), end \in {"newline", "piece"} :
                    file' = AppendToFile(file, SubSeq(<<trade>>, 1, k), end)
        <5>0. PICK k \in 0..(Len(<<trade>>) - 1), e \in {"newline", "piece"} :
                     file' = AppendToFile(file, SubSeq(<<trade>>, 1, k), e)
          BY <4>4
        <5>1. PICK end \in {"newline", "piece"} : file' = AppendToFile(file, <<>>, end)
          <6>1. k = 0 BY <4>1
          <6>2. QED BY <6>1, <5>0, <4>2
        <5>2. end # "newline" BY <5>1, <2>3 DEF AppendToFile
        <5>3. QED BY <5>1, <5>2 DEF Ends
      <4>5. CASE \E k \in 1..Len(<<trade>>) :
                    file' = AppendToFile(file, SubSeq(<<trade>>, 1, k), "record")
        <5>0. PICK k \in 1..Len(<<trade>>) :
                     file' = AppendToFile(file, SubSeq(<<trade>>, 1, k), "record")
          BY <4>5
        <5>1. file' = AppendToFile(file, <<trade>>, "record")
          <6>1. k = 1 BY <4>1
          <6>2. QED BY <6>1, <5>0, <4>3
        <5>2. QED BY <5>1 DEF Ends
      <4>6. QED BY <2>1, <4>4, <4>5 DEF Partial
    <3>2. /\ (file.ended \/ file.last = "torn") => Readable(file) \subseteq Readable(file')
          /\ Readable(file) \ {x} \subseteq Readable(file')
      BY <3>1, <1>2, <1>3, OneAppend
    <3>3. missing \in SUBSET (lost \union {x}) /\ (file.ended \/ file.last = "torn" => missing \subseteq lost)
      BY <2>1, <3>2
    <3>4. /\ Cardinality(missing) \in Nat /\ Cardinality(missing) <= Cardinality(lost) + 1
          /\ file.ended \/ file.last = "torn" => Cardinality(missing) <= Cardinality(lost)
      BY <3>3, <1>4, AtMostOneMore
    <3>5. Cardinality(missing) + Reserve(file') <= 2 * (torn + 1)
      BY <3>4, <1>3, <1>4, <1>5 DEF Reserve
    <3>6. QED BY <3>5, <2>1, <2>3, <1>4 DEF LossInv
  <2>4. QED BY <2>2, <2>3
<1>8. QED BY <1>1, <1>6, <1>7 DEF trade

\* A torn append costs the two records beside it at most, however many are
\* recorded, rotated and reloaded around it.
THEOREM LossesAreBounded == Spec => []LossIsBounded
<1>1. Init => LossInv
  <2>1. Init => served = {} /\ torn = 0 /\ file = EmptyFile BY DEF Init
  <2>2. {} \ Readable(EmptyFile) = {} OBVIOUS
  <2>3. IsFiniteSet({}) /\ Cardinality({}) = 0 BY FS_EmptySet
  <2>4. Reserve(EmptyFile) = 0 BY DEF Reserve, EmptyFile
  <2>5. QED BY <2>1, <2>2, <2>3, <2>4 DEF LossInv
<1>2. TypeOK /\ LossInv /\ [Next]_vars => LossInv'
  <2> SUFFICES ASSUME TypeOK, LossInv, [Next]_vars PROVE LossInv'
    OBVIOUS
  <2>1. ASSUME UNCHANGED <<file, served, torn>> PROVE LossInv'
    BY <2>1 DEF LossInv
  <2>2. CASE PersistClosedTrade BY <2>2, PersistBoundsLoss
  <2>3. CASE LoadExisting
    <3>1. file.records \in Seq(Trade) BY DEF TypeOK, File
    <3>2. /\ file' = file /\ torn' = torn
          /\ trades' = Newest(file.records) /\ served' = served \union ToSet(trades')
      BY <2>3 DEF LoadExisting, ApplyRotation
    <3>3. trades' \in Seq(Trade) /\ ToSet(trades') \subseteq Readable(file)
      BY <3>1, <3>2, NewestType DEF Readable
    <3>4. IsFiniteSet(served') BY <3>2, <3>3, RecordsAreFinite, FS_Union DEF LossInv
    <3>5. served' \ Readable(file') = served \ Readable(file) BY <3>2, <3>3
    <3>6. QED BY <3>2, <3>4, <3>5 DEF LossInv
  <2>4. CASE Crash \/ LoadFails BY <2>1, <2>4 DEF Crash, LoadFails, disk, ghosts
  <2>5. CASE \/ \E c \in Caches, key \in Filters : GetStats(c, key)
             \/ \E filter \in Filters : FirstPage(filter)
             \/ NextPage
    BY <2>1, <2>5 DEF GetStats, FirstPage, NextPage, disk, ghosts
  <2>6. QED BY <2>1, <2>2, <2>3, <2>4, <2>5 DEF Next, vars
<1>3. TypeOK /\ LossInv => LossIsBounded
  <2> SUFFICES ASSUME TypeOK, LossInv PROVE LossIsBounded
    OBVIOUS
  <2>1. Cardinality(served \ Readable(file)) \in Nat
    BY FS_Difference, FS_CardinalityType DEF LossInv
  <2>2. torn \in Nat BY StoreAssumption DEF TypeOK
  <2>3. QED BY <2>1, <2>2 DEF LossInv, LossIsBounded, Reserve
<1>4. QED BY <1>1, <1>2, <1>3, TypeCorrect, PTL DEF Spec

-----------------------------------------------------------------------------
(* The archive                                                             *)

\* Trade ids grow along a sequence.
Increasing(s) == \A i, j \in 1..Len(s) : i < j => s[i].id < s[j].id

\* The record of an unterminated last line, which the next append takes along.
Cut(f) == IF ~f.ended /\ f.last = "whole" THEN {Last(f.records)} ELSE {}

\* The files and the memory hold records in the order of their ids.
OrderedInv ==
    /\ Increasing(file.records) /\ Increasing(trades)
    /\ file.last = "whole" => file.records # <<>>
    /\ archive.last = "whole" => archive.records # <<>>
    /\ \A t \in Readable(file) \union Readable(archive) \union ToSet(trades) \union served :
          t.id <= recorded

\* The last line of the archive marks how far it goes.
MarkerInv ==
    archive.last = "whole" =>
        \A t \in Readable(file) : t.id < Last(archive.records).id =>
            t \in Readable(archive) \union excused

\* What is in the file is in memory, archived or excused, or it is the record
\* of a failed append that nobody has seen.
CoveredInv ==
    up => \A t \in Readable(file) :
              \/ t \in ToSet(trades) \union Readable(archive) \union excused
              \/ t \in Cut(file) \ served

BetweenInv == OrderedInv /\ MarkerInv /\ CoveredInv

LEMMA SubSeqOrder ==
    ASSUME NEW s \in Seq(Trade), NEW m \in Nat \ {0}, NEW n \in Int, n <= Len(s)
    PROVE  /\ ToSet(SubSeq(s, m, n)) = { s[i] : i \in m..n }
           /\ Increasing(s) => Increasing(SubSeq(s, m, n))
<1>1. Len(s) \in Nat BY LenProperties
<1>2. \A i \in m..n : i \in 1..Len(s) /\ s[i] \in Trade BY <1>1, ElementOfSeq
<1> DEFINE r == SubSeq(s, m, n)
<1>3. /\ Len(r) = IF m <= n THEN n - m + 1 ELSE 0
      /\ \A i \in 1..(n - m + 1) : r[i] = s[m + i - 1]
  BY <1>2, SubSeqProperties
<1>4. r \in Seq(Trade) BY SubSeqType
<1>5. DOMAIN r = 1..Len(r) BY <1>4, LenProperties
<1> HIDE DEF r
<1>6. \A i \in 1..Len(r) : m + i - 1 \in m..n /\ r[i] = s[m + i - 1] BY <1>1, <1>3
<1>7. ASSUME NEW i \in m..n PROVE s[i] \in ToSet(r)
  <2>1. i - m + 1 \in 1..(n - m + 1) /\ m + (i - m + 1) - 1 = i /\ m <= n OBVIOUS
  <2>2. i - m + 1 \in DOMAIN r /\ r[i - m + 1] = s[i] BY <2>1, <1>3, <1>5
  <2>3. QED BY <2>2 DEF ToSet
<1>8. ToSet(r) = { s[i] : i \in m..n } BY <1>5, <1>6, <1>7 DEF ToSet
<1>9. ASSUME Increasing(s), NEW i \in 1..Len(r), NEW j \in 1..Len(r), i < j
      PROVE  r[i].id < r[j].id
  <2>1. /\ m + i - 1 \in 1..Len(s) /\ m + j - 1 \in 1..Len(s) /\ m + i - 1 < m + j - 1
    BY <1>2, <1>3, <1>6, <1>9
  <2>2. s[m + i - 1].id < s[m + j - 1].id BY <2>1, <1>9 DEF Increasing
  <2>3. QED BY <2>2, <1>6
<1>10. QED BY <1>8, <1>9 DEF Increasing, r

\* In an increasing sequence the ids tell the places.
LEMMA IdsArePlaces ==
    ASSUME NEW s \in Seq(Trade), Increasing(s),
           NEW i \in 1..Len(s), NEW j \in 1..Len(s)
    PROVE  /\ s[i].id < s[j].id => i < j
           /\ s[i] = s[j] => i = j
<1>1. s[i].id \in Nat /\ s[j].id \in Nat
  <2>1. s[i] \in Trade /\ s[j] \in Trade BY ElementOfSeq
  <2>2. QED BY <2>1 DEF Trade
<1>2. i \in Nat /\ j \in Nat BY LenProperties
<1>3. /\ i < j => s[i].id < s[j].id
      /\ j < i => s[j].id < s[i].id
  BY DEF Increasing
<1>4. QED BY <1>1, <1>2, <1>3

LEMMA OneMoreIncreases ==
    ASSUME NEW s \in Seq(Trade), Increasing(s), NEW t \in Trade,
           \A u \in ToSet(s) : u.id < t.id
    PROVE  /\ s \o <<t>> = Append(s, t) /\ Append(s, t) \in Seq(Trade)
           /\ Increasing(Append(s, t))
           /\ ToSet(Append(s, t)) = ToSet(s) \union {t}
<1>1. /\ Len(s) \in Nat /\ DOMAIN s = 1..Len(s) BY LenProperties
<1>2. /\ s \o <<t>> = Append(s, t) /\ Append(s, t) \in Seq(Trade)
      /\ Len(Append(s, t)) = Len(s) + 1
      /\ \A i \in 1..Len(s) : Append(s, t)[i] = s[i]
      /\ Append(s, t)[Len(s) + 1] = t
  OBVIOUS
<1>3. ASSUME NEW i \in 1..(Len(s) + 1), NEW j \in 1..(Len(s) + 1), i < j
      PROVE  Append(s, t)[i].id < Append(s, t)[j].id
  <2>1. i \in 1..Len(s) BY <1>1, <1>3
  <2>2. CASE j = Len(s) + 1
    <3>1. s[i] \in ToSet(s) BY <2>1, <1>1 DEF ToSet
    <3>2. QED BY <3>1, <2>1, <2>2, <1>2
  <2>3. CASE j # Len(s) + 1
    <3>1. j \in 1..Len(s) BY <2>3, <1>1
    <3>2. s[i].id < s[j].id BY <2>1, <3>1, <1>3 DEF Increasing
    <3>3. QED BY <3>1, <3>2, <2>1, <1>2
  <2>4. QED BY <2>2, <2>3
<1>4. ToSet(Append(s, t)) = ToSet(s) \union {t}
  <2>1. <<t>> \in Seq(Trade) /\ ToSet(<<t>>) = {t} BY OneRecord
  <2>2. ToSet(s \o <<t>>) = ToSet(s) \union ToSet(<<t>>) BY <2>1, ConcatType
  <2>3. QED BY <2>1, <2>2, <1>2
<1>5. QED BY <1>2, <1>3, <1>4 DEF Increasing

\* The records over the threshold are the older ones.
LEMMA RotationIsInOrder ==
    ASSUME NEW s \in Seq(Trade), Increasing(s)
    PROVE  /\ Increasing(Newest(s)) /\ Overflow(s) \in Seq(Trade)
           /\ ToSet(s) = ToSet(Newest(s)) \union ToSet(Overflow(s))
           /\ \A t \in ToSet(s), m \in ToSet(Overflow(s)) :
                 t.id < m.id => t \in ToSet(Overflow(s))
<1>1. /\ Len(s) \in Nat /\ Threshold \in Nat \ {0} /\ DOMAIN s = 1..Len(s)
  BY LenProperties, StoreAssumption
<1> DEFINE excess == Len(s) - Threshold
<1>2. excess \in Int /\ excess <= Len(s) BY <1>1
<1>3. Overflow(s) = SubSeq(s, 1, excess) BY DEF Overflow
<1>4. ToSet(Overflow(s)) = { s[i] : i \in 1..excess } /\ Overflow(s) \in Seq(Trade)
  <2> HIDE DEF excess
  <2>1. ToSet(SubSeq(s, 1, excess)) = { s[i] : i \in 1..excess } BY <1>2, SubSeqOrder
  <2>2. SubSeq(s, 1, excess) \in Seq(Trade) BY <1>2, SubSeqType
  <2>3. QED BY <2>1, <2>2, <1>3
<1>5. ToSet(s) = { s[i] : i \in 1..Len(s) } BY <1>1 DEF ToSet
<1>6. Increasing(Newest(s)) /\ ToSet(s) = ToSet(Newest(s)) \union ToSet(Overflow(s))
  <2>1. CASE Len(s) <= Threshold
    <3>1. Newest(s) = s BY <2>1 DEF Newest
    <3>2. ToSet(Overflow(s)) \subseteq ToSet(s) BY <1>2, <1>4, <1>5, <1>1
    <3>3. QED BY <3>1, <3>2
  <2>2. CASE Len(s) > Threshold
    <3>1. Newest(s) = SubSeq(s, excess + 1, Len(s)) /\ excess + 1 \in Nat \ {0}
      BY <2>2, <1>1 DEF Newest
    <3> HIDE DEF excess
    <3>2. /\ ToSet(Newest(s)) = { s[i] : i \in (excess + 1)..Len(s) }
          /\ Increasing(Newest(s))
      <4>1. PICK m \in Nat \ {0} : m = excess + 1 BY <3>1
      <4>2. PICK n \in Nat : n = Len(s) BY <1>1
      <4>3. n \in Int /\ n <= Len(s) BY <4>2
      <4>4. /\ ToSet(SubSeq(s, m, n)) = { s[i] : i \in m..n }
            /\ Increasing(SubSeq(s, m, n))
        BY <4>3, SubSeqOrder
      <4>5. QED BY <4>1, <4>2, <4>4, <3>1, Zenon
    <3>3. \A i \in 1..Len(s) : i \in 1..excess \/ i \in (excess + 1)..Len(s) BY <1>1, <1>2
    <3>4. /\ \A i \in 1..excess : i \in 1..Len(s)
          /\ \A i \in (excess + 1)..Len(s) : i \in 1..Len(s)
      BY <3>1, <1>1, <1>2
    <3>5. QED BY <3>2, <3>3, <3>4, <1>4, <1>5
  <2>3. QED BY <2>1, <2>2, <1>1
<1>7. ASSUME NEW t \in ToSet(s), NEW m \in ToSet(Overflow(s)), t.id < m.id
      PROVE  t \in ToSet(Overflow(s))
  <2>1. PICK i \in 1..Len(s) : t = s[i] BY <1>5
  <2>2. PICK j \in 1..excess : m = s[j] BY <1>4
  <2>3. j \in 1..Len(s) BY <1>1, <1>2
  <2>4. i < j BY <2>1, <2>2, <2>3, <1>7, IdsArePlaces
  <2>5. i \in 1..excess BY <2>1, <2>2, <2>4, <1>1
  <2>6. QED BY <2>1, <2>5, <1>4
<1>8. QED BY <1>4, <1>6, <1>7

\* Nothing is lost of an append but the record of an unterminated last line,
\* and a last line that parses is one of the records written, or an old one.
LEMMA AppendedRecords ==
    ASSUME NEW f \in File, NEW rs \in Seq(Trade), NEW end \in Ends,
           f.last = "whole" => f.records # <<>>,
           end = "record" => rs # <<>>
    PROVE  LET g == AppendToFile(f, rs, end) IN
           /\ Readable(g) \subseteq Readable(f) \union ToSet(rs)
           /\ g.last = "whole" =>
                 g = f \/ (g.records # <<>> /\ Last(g.records) \in ToSet(rs))
<1> DEFINE g == AppendToFile(f, rs, end)
           old == IF ~f.ended /\ f.last = "whole" THEN Front(f.records) ELSE f.records
           new == IF ~f.ended /\ rs # <<>> THEN Tail(rs) ELSE rs
<1>1. CASE rs = <<>> /\ end = "newline"
  <2>1. g = f BY <1>1 DEF AppendToFile
  <2>2. QED BY <2>1
<1>2. CASE ~(rs = <<>> /\ end = "newline")
  <2>1. /\ f.records \in Seq(Trade) /\ Front(f.records) \in Seq(Trade)
        /\ ToSet(Front(f.records)) \subseteq ToSet(f.records)
    BY FrontType DEF File
  <2>2. rs # <<>> => Tail(rs) \in Seq(Trade) /\ Len(Tail(rs)) = Len(rs) - 1
                     /\ ToSet(Tail(rs)) \subseteq ToSet(rs)
    <3> SUFFICES ASSUME rs # <<>>
                 PROVE  /\ Tail(rs) \in Seq(Trade) /\ Len(Tail(rs)) = Len(rs) - 1
                        /\ ToSet(Tail(rs)) \subseteq ToSet(rs)
      OBVIOUS
    <3>1. /\ Tail(rs) \in Seq(Trade) /\ Len(Tail(rs)) = Len(rs) - 1
          /\ \A i \in 1..Len(Tail(rs)) : Tail(rs)[i] = rs[i + 1]
      BY HeadTailProperties
    <3>2. /\ DOMAIN Tail(rs) = 1..Len(Tail(rs)) /\ DOMAIN rs = 1..Len(rs)
          /\ Len(rs) \in Nat
      BY <3>1, LenProperties
    <3>3. \A i \in DOMAIN Tail(rs) : i + 1 \in DOMAIN rs /\ Tail(rs)[i] = rs[i + 1]
      BY <3>1, <3>2
    <3>4. ToSet(Tail(rs)) \subseteq ToSet(rs) BY <3>3 DEF ToSet
    <3>5. QED BY <3>1, <3>4
  <2>3. /\ old \in Seq(Trade) /\ new \in Seq(Trade)
        /\ ToSet(old) \subseteq ToSet(f.records) /\ ToSet(new) \subseteq ToSet(rs)
    BY <2>1, <2>2
  <2>4. g = [records |-> old \o new,
             last |-> IF end = "piece" \/ (~f.ended /\ Len(rs) = 1) THEN "torn" ELSE "whole",
             ended |-> end = "newline"]
    BY <1>2 DEF AppendToFile
  <2>5. Len(rs) \in Nat /\ (rs # <<>> => Len(rs) # 0) BY LenProperties, EmptySeq
  <2>6. g.last = "whole" => Len(new) > 0
    <3> SUFFICES ASSUME g.last = "whole" PROVE Len(new) > 0
      OBVIOUS
    <3>1. end # "piece" /\ ~(~f.ended /\ Len(rs) = 1) BY <2>4
    <3>2. rs # <<>> BY <3>1, <1>2 DEF Ends
    <3>3. CASE f.ended
      <4>1. new = rs BY <3>3
      <4>2. QED BY <4>1, <3>2, <2>5
    <3>4. CASE ~f.ended
      <4>0. Len(rs) # 1 BY <3>1, <3>4, Zenon
      <4>1. Len(rs) > 1
        <5>1. Len(rs) \in Nat /\ Len(rs) # 0 BY <3>2, <2>5, Zenon
        <5>2. PICK n \in Nat : n = Len(rs) BY <5>1
        <5>3. n # 0 /\ n # 1 BY <5>1, <5>2, <4>0, Zenon
        <5>4. n > 1 BY <5>3
        <5>5. QED BY <5>2, <5>4, Zenon
      <4>2. Len(new) = Len(rs) - 1 BY <3>2, <3>4, <2>2
      <4>3. QED BY <4>1, <4>2, <2>5
    <3>5. QED BY <3>3, <3>4
  <2> HIDE DEF g, old, new
  <2>7. g.records = old \o new /\ Readable(g) = ToSet(old \o new)
    BY <2>4 DEF Readable
  <2>8. ToSet(old \o new) = ToSet(old) \union ToSet(new) BY <2>3, ConcatType
  <2>9. Readable(g) \subseteq Readable(f) \union ToSet(rs)
    BY <2>3, <2>7, <2>8 DEF Readable
  <2>10. Len(new) > 0 => /\ g.records # <<>> /\ Last(g.records) \in ToSet(rs)
    <3> SUFFICES ASSUME Len(new) > 0
                 PROVE  g.records # <<>> /\ Last(g.records) \in ToSet(rs)
      OBVIOUS
    <3>1. /\ Len(old) \in Nat /\ Len(new) \in Nat /\ DOMAIN new = 1..Len(new)
          /\ Len(old \o new) = Len(old) + Len(new)
          /\ (old \o new)[Len(old) + Len(new)] = new[Len(new)]
      BY <2>3, LenProperties
    <3>2. Last(g.records) = new[Len(new)] BY <3>1, <2>7 DEF Last
    <3>3. Len(new) \in DOMAIN new BY <3>1
    <3>4. new[Len(new)] \in ToSet(new) BY <3>3 DEF ToSet
    <3>5. Len(g.records) # 0 BY <3>1, <2>7
    <3>6. g.records # <<>> BY <3>5
    <3>7. QED BY <3>2, <3>4, <3>6, <2>3
  <2>11. QED BY <2>6, <2>9, <2>10 DEF g
<1>3. QED BY <1>1, <1>2

\* What the archive is given is in it afterwards, or excused.
LEMMA ArchiveKeeps ==
    ASSUME TypeOK, OrderedInv, NEW block \in Seq(Trade), Archive(block)
    PROVE  /\ excused \subseteq excused'
           /\ Readable(archive) \union ToSet(block) \subseteq Readable(archive') \union excused'
           /\ Readable(archive') \subseteq Readable(archive) \union ToSet(block)
           /\ archive'.last = "whole" =>
                 archive' = archive \/ (archive'.records # <<>> /\ Last(archive'.records) \in ToSet(block))
<1>1. archive \in File /\ (archive.last = "whole" => archive.records # <<>>)
  BY DEF TypeOK, OrderedInv
<1>2. /\ Readable(archive') \subseteq Readable(archive) \union ToSet(block)
      /\ archive'.last = "whole" =>
            archive' = archive \/ (archive'.records # <<>> /\ Last(archive'.records) \in ToSet(block))
  <2>1. \/ archive' = archive
        \/ archive' = AppendToFile(archive, block, "newline")
        \/ archive' \in Partial(archive, block)
    BY DEF Archive
  <2>2. CASE archive' = archive BY <2>2
  <2>3. CASE archive' = AppendToFile(archive, block, "newline")
    <3>1. "newline" \in Ends /\ ("newline" = "record" => block # <<>>) BY DEF Ends
    <3>2. QED BY <1>1, <2>3, <3>1, AppendedRecords
  <2>4. CASE archive' \in Partial(archive, block)
    <3>1. PICK k \in 0..Len(block), end \in Ends :
            /\ archive' = AppendToFile(archive, SubSeq(block, 1, k), end)
            /\ end = "record" => k # 0
      <4>1. Len(block) \in Nat BY LenProperties
      <4>2. CASE \E k \in 0..(Len(block) - 1), end \in {"newline", "piece"} :
                    archive' = AppendToFile(archive, SubSeq(block, 1, k), end)
        BY <4>1, <4>2 DEF Ends
      <4>3. CASE \E k \in 1..Len(block) :
                    archive' = AppendToFile(archive, SubSeq(block, 1, k), "record")
        <5>1. PICK k \in 1..Len(block) :
                    archive' = AppendToFile(archive, SubSeq(block, 1, k), "record")
          BY <4>3
        <5>2. k \in 0..Len(block) /\ k # 0 /\ "record" \in Ends BY <4>1 DEF Ends
        <5>3. QED BY <5>1, <5>2
      <4>4. QED BY <2>4, <4>2, <4>3 DEF Partial
    <3> DEFINE rs == SubSeq(block, 1, k)
    <3>2. k \in Int /\ k <= Len(block) /\ Len(block) \in Nat BY LenProperties
    <3>3. rs \in Seq(Trade) /\ ToSet(rs) \subseteq ToSet(block) BY <3>2, SubSeqType
    <3>4. k # 0 => rs # <<>>
      <4> SUFFICES ASSUME k # 0 PROVE rs # <<>>
        OBVIOUS
      <4>1. \A i \in 1..k : block[i] \in Trade BY <3>2, ElementOfSeq
      <4>2. Len(rs) = IF 1 <= k THEN k - 1 + 1 ELSE 0 BY <4>1, <3>2, SubSeqProperties
      <4>3. Len(rs) # 0 BY <4>2, <3>1
      <4>4. QED BY <4>3
    <3>5. archive' = AppendToFile(archive, rs, end) BY <3>1
    <3>6. end = "record" => rs # <<>> BY <3>1, <3>4
    <3> HIDE DEF rs
    <3>7. /\ Readable(archive') \subseteq Readable(archive) \union ToSet(rs)
          /\ archive'.last = "whole" =>
                archive' = archive \/ (archive'.records # <<>> /\ Last(archive'.records) \in ToSet(rs))
      BY <1>1, <3>3, <3>5, <3>6, AppendedRecords
    <3>8. QED BY <3>3, <3>7
  <2>5. QED BY <2>1, <2>2, <2>3, <2>4
<1>3. excused' = excused \union ((Readable(archive) \union ToSet(block)) \ Readable(archive'))
  BY DEF Archive
<1>4. QED BY <1>2, <1>3

LEMMA LastIsRecord ==
    ASSUME NEW s \in Seq(Trade), s # <<>>
    PROVE  Last(s) \in ToSet(s) /\ Len(s) \in 1..Len(s)
<1>1. Len(s) \in Nat /\ DOMAIN s = 1..Len(s) /\ Len(s) # 0 BY LenProperties, EmptySeq
<1>2. Len(s) \in DOMAIN s /\ Len(s) \in 1..Len(s) BY <1>1
<1>3. QED BY <1>2 DEF Last, ToSet

\* The writes of one record: all of it, all but the newline, or a piece of it.
Writes(t) == { <<<<t>>, "newline">>, <<<<t>>, "record">>, <<<<>>, "piece">> }

\* What one append of a new record does to a file whose records are in order.
LEMMA AppendOne ==
    ASSUME NEW f \in File, Increasing(f.records), f.last = "whole" => f.records # <<>>,
           NEW t \in Trade, \A u \in Readable(f) : u.id < t.id,
           NEW rs, NEW end, <<rs, end>> \in Writes(t)
    PROVE  LET g == AppendToFile(f, rs, end) IN
           /\ Increasing(g.records)
           /\ g.last = "whole" => g.records # <<>>
           /\ Readable(g) \subseteq Readable(f) \union {t}
           /\ Readable(g) \cap Cut(f) = {}
           /\ end = "newline" => Cut(g) = {}
           /\ t \in Readable(g) => end = "newline" \/ Cut(g) = {t}
<1> DEFINE g == AppendToFile(f, rs, end)
           s == f.records
<1>1. \/ rs = <<t>> /\ end = "newline"
      \/ rs = <<t>> /\ end = "record"
      \/ rs = <<>> /\ end = "piece"
  BY DEF Writes
<1>2. <<t>> # <<>> /\ Len(<<t>>) = 1 /\ Tail(<<t>>) = <<>> BY OneRecord
<1>3. s \in Seq(Trade) /\ f.ended \in BOOLEAN /\ f.last \in {"whole", "torn"} BY DEF File
<1>4. Front(s) \in Seq(Trade) BY <1>3, FrontType
<1>5. g = [records |-> (IF ~f.ended /\ f.last = "whole" THEN Front(s) ELSE s)
                       \o (IF ~f.ended /\ rs # <<>> THEN Tail(rs) ELSE rs),
           last |-> IF end = "piece" \/ (~f.ended /\ Len(rs) = 1) THEN "torn" ELSE "whole",
           ended |-> end = "newline"]
  BY <1>1, <1>2 DEF AppendToFile
<1>6. t \notin Readable(f)
  <2>1. t.id \in Nat BY DEF Trade
  <2>2. QED BY <2>1
<1> HIDE DEF g
<1>7. CASE ~f.ended
  <2>1. g.last = "torn" /\ Cut(g) = {} BY <1>1, <1>2, <1>5, <1>7 DEF Cut
  <2>2. CASE f.last = "whole"
    <3>1. g.records = Front(s)
      <4>1. g.records = Front(s) \o <<>> BY <1>1, <1>2, <1>5, <1>7, <2>2
      <4>2. QED BY <4>1, <1>4
    <3>2. Len(s) \in Nat /\ Len(s) - 1 <= Len(s) /\ Len(s) \in 1..Len(s)
      BY <1>3, <2>2, LenProperties, LastIsRecord
    <3>3. /\ ToSet(Front(s)) = { s[i] : i \in 1..(Len(s) - 1) }
          /\ Increasing(Front(s))
      <4>1. 1 \in Nat \ {0} /\ Len(s) - 1 \in Int BY <3>2
      <4>2. /\ ToSet(SubSeq(s, 1, Len(s) - 1)) = { s[i] : i \in 1..(Len(s) - 1) }
            /\ Increasing(s) => Increasing(SubSeq(s, 1, Len(s) - 1))
        BY <4>1, <3>2, <1>3, SubSeqOrder
      <4>3. QED BY <4>2 DEF Front
    <3>4. Last(s) \notin ToSet(Front(s))
      <4> SUFFICES ASSUME NEW i \in 1..(Len(s) - 1), s[i] = s[Len(s)] PROVE FALSE
        BY <3>3 DEF Last
      <4>1. i \in 1..Len(s) BY <3>2
      <4>2. i = Len(s) BY <4>1, <3>2, <1>3, IdsArePlaces
      <4>3. QED BY <4>2, <3>2
    <3>5. Readable(g) = ToSet(Front(s)) /\ Readable(g) \subseteq Readable(f)
      BY <3>1, <1>3, FrontType DEF Readable
    <3>6. QED BY <3>1, <3>3, <3>4, <3>5, <2>1, <1>6 DEF Cut, g
  <2>3. CASE f.last # "whole"
    <3>1. g.records = s
      <4>1. g.records = s \o <<>> BY <1>1, <1>2, <1>5, <1>7, <2>3
      <4>2. QED BY <4>1, <1>3
    <3>2. Readable(g) = Readable(f) /\ Cut(f) = {} BY <3>1, <2>3 DEF Readable, Cut
    <3>3. QED BY <3>1, <3>2, <2>1, <1>6 DEF g
  <2>4. QED BY <2>2, <2>3
<1>8. CASE f.ended
  <2>1. Cut(f) = {} BY <1>8 DEF Cut
  <2>2. CASE rs = <<>>
    <3>1. g.records = s
      <4>1. g.records = s \o <<>> BY <2>2, <1>5, <1>8
      <4>2. QED BY <4>1, <1>3
    <3>2. end = "piece" /\ g.last = "torn" BY <2>2, <1>1, <1>2, <1>5
    <3>3. Readable(g) = Readable(f) BY <3>1 DEF Readable
    <3>4. QED BY <3>1, <3>2, <3>3, <2>1, <1>6 DEF g
  <2>3. CASE rs = <<t>>
    <3>1. g.records = s \o <<t>> BY <2>3, <1>5, <1>8
    <3>2. \A u \in ToSet(s) : u.id < t.id BY DEF Readable
    <3>3. /\ s \o <<t>> = Append(s, t) /\ Append(s, t) \in Seq(Trade)
          /\ Increasing(Append(s, t)) /\ ToSet(Append(s, t)) = ToSet(s) \union {t}
      BY <3>2, <1>3, OneMoreIncreases
    <3>4. Last(g.records) = t /\ g.records # <<>>
      <4>1. /\ Len(s) \in Nat /\ Len(Append(s, t)) = Len(s) + 1
            /\ Append(s, t)[Len(s) + 1] = t
        BY <1>3
      <4>2. Len(g.records) = Len(s) + 1 /\ g.records[Len(s) + 1] = t BY <4>1, <3>1, <3>3
      <4>3. Len(g.records) # 0 BY <4>1, <4>2
      <4>4. g.records # <<>> BY <4>3
      <4>5. QED BY <4>2, <4>4 DEF Last
    <3>5. /\ g.last = "whole" /\ g.ended = (end = "newline")
          /\ end = "newline" \/ end = "record"
      BY <2>3, <1>1, <1>2, <1>5, <1>8
    <3>6. Cut(g) = IF end = "newline" THEN {} ELSE {t} BY <3>4, <3>5 DEF Cut
    <3>7. Readable(g) = Readable(f) \union {t} BY <3>1, <3>3 DEF Readable
    <3>8. QED BY <3>1, <3>3, <3>4, <3>6, <3>7, <2>1 DEF g
  <2>4. QED BY <2>2, <2>3, <1>1
<1>9. QED BY <1>7, <1>8

\* A failed append of a record leaves the file, or is one of its writes.
LEMMA FailedAppend ==
    ASSUME NEW f \in File, NEW t \in Trade, NEW g \in Partial(f, <<t>>), g # f
    PROVE  \E rs, end : /\ <<rs, end>> \in Writes(t) /\ end # "newline"
                        /\ g = AppendToFile(f, rs, end)
<1>1. Len(<<t>>) = 1 /\ <<t>> \in Seq(Trade) BY OneRecord
<1>2. SubSeq(<<t>>, 1, 0) = <<>> BY SubSeqEmpty
<1>3. SubSeq(<<t>>, 1, 1) = <<t>> BY <1>1, SubSeqFull
<1>4. CASE \E k \in 0..(Len(<<t>>) - 1), end \in {"newline", "piece"} :
              g = AppendToFile(f, SubSeq(<<t>>, 1, k), end)
  <2>1. PICK k \in 0..(Len(<<t>>) - 1), e \in {"newline", "piece"} :
               g = AppendToFile(f, SubSeq(<<t>>, 1, k), e)
    BY <1>4
  <2>2. k = 0 BY <1>1
  <2>3. g = AppendToFile(f, <<>>, e) BY <2>1, <2>2, <1>2
  <2>4. e # "newline" BY <2>3 DEF AppendToFile
  <2>5. <<<<>>, e>> \in Writes(t) BY <2>4 DEF Writes
  <2>6. QED BY <2>3, <2>4, <2>5
<1>5. CASE \E k \in 1..Len(<<t>>) : g = AppendToFile(f, SubSeq(<<t>>, 1, k), "record")
  <2>1. PICK k \in 1..Len(<<t>>) : g = AppendToFile(f, SubSeq(<<t>>, 1, k), "record")
    BY <1>5
  <2>2. k = 1 BY <1>1
  <2>3. g = AppendToFile(f, <<t>>, "record") BY <2>1, <2>2, <1>3
  <2>4. <<<<t>>, "record">> \in Writes(t) BY DEF Writes
  <2>5. QED BY <2>3, <2>4
<1>6. QED BY <1>4, <1>5 DEF Partial

LEMMA PersistBetween ==
    ASSUME TypeOK, BetweenInv, PersistClosedTrade
    PROVE  BetweenInv'
<1>1. PICK t \in clock..MaxTime :
        LET trade == [id |-> recorded + 1, closedAt |-> t]
        IN  RecordTrade(trade) \/ RecordFails(trade)
  BY DEF PersistClosedTrade
<1> DEFINE trade == [id |-> recorded + 1, closedAt |-> t]
<1>2. /\ trade \in Trade /\ trade.id = recorded + 1 /\ recorded' = recorded + 1
      /\ recorded \in Nat /\ up
  BY <1>1, StoreAssumption DEF PersistClosedTrade, TypeOK, Trade
<1>3. RecordTrade(trade) \/ RecordFails(trade) BY <1>1
<1> HIDE DEF trade
<1>4. /\ file \in File /\ archive \in File /\ trades \in Seq(Trade)
      /\ ToSet(trades) \subseteq Trade /\ served \subseteq Trade
      /\ Readable(file) \subseteq Trade /\ Readable(archive) \subseteq Trade
  BY MemoryType, ReadableType DEF TypeOK
<1>5. /\ Increasing(file.records) /\ Increasing(trades)
      /\ file.last = "whole" => file.records # <<>>
      /\ archive.last = "whole" => archive.records # <<>>
      /\ \A u \in Readable(file) \union Readable(archive) \union ToSet(trades) \union served :
            u.id <= recorded
  BY DEF BetweenInv, OrderedInv
<1>6. \A u \in Trade : u.id \in Nat BY DEF Trade
<1>7. \A u \in Readable(file) \union Readable(archive) \union ToSet(trades) \union served :
         u.id < trade.id /\ u.id <= recorded'
  BY <1>2, <1>4, <1>5, <1>6
<1>8. \A u \in Readable(file) :
         u \in ToSet(trades) \union Readable(archive) \union excused \/ u \in Cut(file) \ served
  BY <1>2 DEF BetweenInv, CoveredInv
<1>9. archive.last = "whole" =>
        /\ Last(archive.records) \in Readable(archive)
        /\ \A u \in Readable(file) : u.id < Last(archive.records).id =>
              u \in Readable(archive) \union excused
  <2>1. archive.records \in Seq(Trade) BY <1>4 DEF File
  <2>2. QED BY <2>1, <1>5, LastIsRecord DEF BetweenInv, MarkerInv, Readable
<1>10. CASE RecordTrade(trade)
  <2> DEFINE s == Append(trades, trade)
             block == Overflow(s)
  <2>1. /\ file' = AppendToFile(file, <<trade>>, "newline")
        /\ trades' = Newest(s) /\ served' = served \union {trade} /\ Archive(block) /\ up' = up
    BY <1>10 DEF RecordTrade
  <2>2. <<<<trade>>, "newline">> \in Writes(trade) BY DEF Writes
  <2>3. /\ Increasing(file'.records)
        /\ file'.last = "whole" => file'.records # <<>>
        /\ Readable(file') \subseteq Readable(file) \union {trade}
        /\ Readable(file') \cap Cut(file) = {}
    BY <2>1, <2>2, <1>2, <1>4, <1>5, <1>7, AppendOne
  <2>4. s \in Seq(Trade) /\ Increasing(s) /\ ToSet(s) = ToSet(trades) \union {trade}
    BY <1>2, <1>4, <1>5, <1>7, OneMoreIncreases
  <2> HIDE DEF s
  <2>5. /\ Increasing(trades') /\ block \in Seq(Trade)
        /\ ToSet(s) = ToSet(trades') \union ToSet(block)
        /\ \A u \in ToSet(s), m \in ToSet(block) : u.id < m.id => u \in ToSet(block)
    BY <2>1, <2>4, RotationIsInOrder
  <2> HIDE DEF block
  <2>6. /\ excused \subseteq excused'
        /\ Readable(archive) \union ToSet(block) \subseteq Readable(archive') \union excused'
        /\ Readable(archive') \subseteq Readable(archive) \union ToSet(block)
        /\ archive'.last = "whole" =>
              archive' = archive \/ (archive'.records # <<>> /\ Last(archive'.records) \in ToSet(block))
    BY <2>1, <2>5, ArchiveKeeps DEF BetweenInv
  <2>7. trade.id <= recorded' BY <1>2
  <2>8. OrderedInv'
    <3>1. \A u \in Readable(file') \union Readable(archive') \union ToSet(trades') \union served' :
             u.id <= recorded'
      BY <2>1, <2>3, <2>4, <2>5, <2>6, <2>7, <1>7
    <3>2. archive'.last = "whole" => archive'.records # <<>> BY <2>6, <1>5
    <3>3. QED BY <3>1, <3>2, <2>3, <2>5 DEF OrderedInv
  <2>9. \A u \in Readable(file') : u \in ToSet(s) \union Readable(archive) \union excused
    BY <2>3, <2>4, <1>8
  <2>10. CoveredInv' BY <2>5, <2>6, <2>9 DEF CoveredInv
  <2>11. MarkerInv'
    <3> SUFFICES ASSUME archive'.last = "whole", NEW u \in Readable(file'),
                        u.id < Last(archive'.records).id
                 PROVE  u \in Readable(archive') \union excused'
      BY DEF MarkerInv
    <3>1. CASE archive' = archive
      <4>1. /\ Last(archive.records) \in Readable(archive) /\ u.id < Last(archive.records).id
        BY <3>1, <1>9
      <4>2. u # trade
        <5>1. Last(archive.records).id < trade.id BY <4>1, <1>7
        <5>2. trade.id \in Nat /\ Last(archive.records).id \in Nat BY <4>1, <1>2, <1>4, <1>6
        <5>3. QED BY <5>1, <5>2, <4>1
      <4>3. u \in Readable(file) BY <4>2, <2>3
      <4>4. u \in Readable(archive) \union excused BY <4>1, <4>3, <3>1, <1>9
      <4>5. QED BY <4>4, <2>6
    <3>2. CASE Last(archive'.records) \in ToSet(block)
      <4>1. CASE u \in ToSet(s) BY <4>1, <3>2, <2>5, <2>6
      <4>2. CASE u \in Readable(archive) \union excused BY <4>2, <2>6
      <4>3. QED BY <4>1, <4>2, <2>9
    <3>3. QED BY <3>1, <3>2, <2>6
  <2>12. QED BY <2>8, <2>10, <2>11 DEF BetweenInv
<1>11. CASE RecordFails(trade)
  <2>1. /\ file' \in Partial(file, <<trade>>) /\ archive' = archive
        /\ excused' = excused /\ served' = served
        /\ (up' = up /\ trades' = trades) \/ (~up' /\ trades' = <<>>)
    BY <1>11 DEF RecordFails
  <2>2. /\ Increasing(file'.records)
        /\ file'.last = "whole" => file'.records # <<>>
        /\ Readable(file') \subseteq Readable(file) \union {trade}
        /\ trade \in Readable(file') => Cut(file') = {trade}
        /\ \A u \in Readable(file) \cap Readable(file') :
              u \in Cut(file) => u \in Cut(file')
    <3>1. CASE file' = file
      <4>1. trade \notin Readable(file) BY <1>2, <1>6, <1>7
      <4>2. QED BY <4>1, <3>1, <1>5
    <3>2. CASE file' # file
      <4>1. PICK rs, end : /\ <<rs, end>> \in Writes(trade) /\ end # "newline"
                           /\ file' = AppendToFile(file, rs, end)
        BY <3>2, <2>1, <1>2, <1>4, FailedAppend
      <4>2. QED BY <4>1, <1>2, <1>4, <1>5, <1>7, AppendOne
    <3>3. QED BY <3>1, <3>2
  <2>3. trade \notin served
    <3>1. trade.id \in Nat BY <1>2, <1>6
    <3>2. QED BY <3>1, <1>7
  <2>4. OrderedInv'
    <3>1. Increasing(trades') /\ ToSet(trades') \subseteq ToSet(trades)
      <4>1. CASE trades' = <<>>
        <5>1. Len(trades') = 0 BY <4>1
        <5>2. Increasing(trades') BY <5>1 DEF Increasing
        <5>3. ToSet(trades') = {} BY <4>1 DEF ToSet
        <5>4. QED BY <5>2, <5>3
      <4>2. CASE trades' = trades BY <4>2, <1>5
      <4>3. QED BY <4>1, <4>2, <2>1
    <3>2. \A u \in Readable(file') \union Readable(archive') \union ToSet(trades') \union served' :
             u.id <= recorded'
      <4>1. trade.id <= recorded' BY <1>2
      <4>2. QED BY <4>1, <3>1, <2>1, <2>2, <1>7
    <3>3. QED BY <3>1, <3>2, <2>1, <2>2, <1>5 DEF OrderedInv
  <2>5. MarkerInv'
    <3> SUFFICES ASSUME archive.last = "whole", NEW u \in Readable(file'),
                        u.id < Last(archive.records).id
                 PROVE  u \in Readable(archive) \union excused
      BY <2>1 DEF MarkerInv
    <3>1. Last(archive.records) \in Readable(archive) BY <1>9
    <3>2. u # trade
      <4>1. Last(archive.records).id < trade.id BY <3>1, <1>7
      <4>2. trade.id \in Nat /\ Last(archive.records).id \in Nat BY <3>1, <1>2, <1>4, <1>6
      <4>3. QED BY <4>1, <4>2
    <3>3. QED BY <3>2, <2>2, <1>9
  <2>6. CoveredInv'
    <3> SUFFICES ASSUME up', NEW u \in Readable(file')
                 PROVE  \/ u \in ToSet(trades') \union Readable(archive') \union excused'
                        \/ u \in Cut(file') \ served'
      BY DEF CoveredInv
    <3>1. trades' = trades BY <2>1
    <3>2. CASE u = trade BY <3>2, <2>1, <2>2, <2>3
    <3>3. CASE u \in Readable(file) BY <3>1, <3>3, <2>1, <2>2, <1>8
    <3>4. QED BY <3>2, <3>3, <2>2
  <2>7. QED BY <2>4, <2>5, <2>6 DEF BetweenInv
<1>12. QED BY <1>3, <1>10, <1>11

\* What startup does not archive again is archived already: it is at or before
\* the record that the last line of the archive marks.
LEMMA BeforeTheBlock ==
    ASSUME TypeOK, OrderedInv, MarkerInv, NEW excess \in Nat,
           NEW i \in 1..KeepFrom(file.records, excess), i \in 1..Len(file.records)
    PROVE  file.records[i] \in Readable(archive) \union excused
<1> DEFINE loaded == file.records
           at == { k \in DOMAIN loaded :
                     archive.last = "whole" /\ loaded[k] = Last(archive.records) }
<1>1. loaded \in Seq(Trade) /\ archive.records \in Seq(Trade) BY DEF TypeOK, File
<1>2. DOMAIN loaded = 1..Len(loaded) /\ Len(loaded) \in Nat BY <1>1, LenProperties
<1>3. at # {}
  <2> SUFFICES ASSUME at = {} PROVE FALSE
    OBVIOUS
  <2>1. KeepFrom(file.records, excess) = 0 BY DEF KeepFrom
  <2>2. QED BY <2>1
<1>4. at \in SUBSET Nat BY <1>2
<1>5. KeepFrom(loaded, excess) = Min({Min(at), excess}) BY <1>3 DEF KeepFrom
<1>6. Min(at) \in at /\ Min(at) \in Nat BY <1>3, <1>4, MinIsLeast
<1>7. KeepFrom(loaded, excess) <= Min(at)
  <2>1. {Min(at), excess} \in SUBSET Nat /\ {Min(at), excess} # {} BY <1>6
  <2>2. Min({Min(at), excess}) <= Min(at) BY <2>1, MinIsLeast, Zenon
  <2>3. QED BY <2>2, <1>5
<1>8. PICK a \in DOMAIN loaded :
        a = Min(at) /\ archive.last = "whole" /\ loaded[a] = Last(archive.records)
  BY <1>6
<1>9. i <= a
  <2>1. KeepFrom(loaded, excess) \in 0..excess BY <1>1, KeepFromBounds
  <2>2. QED BY <2>1, <1>2, <1>7, <1>8
<1>10. archive.records # <<>> /\ Increasing(loaded) BY <1>8 DEF OrderedInv
<1>11. CASE i = a
  <2>1. Last(archive.records) \in Readable(archive) BY <1>1, <1>10, LastIsRecord DEF Readable
  <2>2. QED BY <2>1, <1>8, <1>11
<1>12. CASE i < a
  <2>1. loaded[i].id < loaded[a].id BY <1>2, <1>8, <1>10, <1>12 DEF Increasing
  <2>2. loaded[i] \in Readable(file) BY <1>2 DEF Readable, ToSet
  <2>3. QED BY <2>1, <2>2, <1>8 DEF MarkerInv
<1>13. QED BY <1>2, <1>9, <1>11, <1>12

LEMMA LoadBetween ==
    ASSUME TypeOK, BetweenInv, LoadExisting
    PROVE  BetweenInv'
<1> DEFINE loaded == file.records
           excess == Len(loaded) - Threshold
           block == IF excess <= 0 THEN <<>>
                    ELSE SubSeq(loaded, KeepFrom(loaded, excess) + 1, excess)
<1>1. /\ loaded \in Seq(Trade) /\ DOMAIN loaded = 1..Len(loaded) /\ Len(loaded) \in Nat
      /\ Increasing(loaded) /\ Threshold \in Nat \ {0}
  <2>1. loaded \in Seq(Trade) BY DEF TypeOK, File
  <2>2. QED BY <2>1, LenProperties, StoreAssumption DEF BetweenInv, OrderedInv
<1>2. excess \in Int /\ excess <= Len(loaded) BY <1>1
<1>3. /\ trades' = Newest(loaded) /\ Archive(block) /\ file' = file
      /\ served' = served \union ToSet(trades') /\ recorded' = recorded
  BY DEF LoadExisting, ApplyRotation
<1>4. /\ Increasing(trades') /\ ToSet(trades') \subseteq Readable(file)
      /\ Readable(file) = ToSet(loaded)
  BY <1>1, <1>3, RotationIsInOrder DEF Readable
<1>5. /\ block \in Seq(Trade) /\ ToSet(block) \subseteq Readable(file)
      /\ \A u \in Readable(file) :
            u \in ToSet(trades') \union ToSet(block) \union Readable(archive) \union excused
      /\ \A u \in Readable(file), m \in ToSet(block) : u.id < m.id =>
            u \in ToSet(block) \union Readable(archive) \union excused
  <2>1. CASE excess <= 0
    <3>1. block = <<>> BY <2>1
    <3>2. block \in Seq(Trade) /\ ToSet(block) = {}
      <4>1. <<>> \in Seq(Trade) /\ ToSet(<<>>) = {} BY EmptySeq DEF ToSet
      <4> HIDE DEF block
      <4>2. QED BY <3>1, <4>1
    <3>3. trades' = loaded
      <4>1. Len(loaded) <= Threshold BY <2>1, <1>1
      <4>2. QED BY <4>1, <1>3 DEF Newest
    <3> HIDE DEF block, loaded, excess
    <3>4. QED BY <3>2, <3>3, <1>4
  <2>2. CASE excess > 0
    <3>1. excess \in Nat BY <2>2, <1>2
    <3> DEFINE from == KeepFrom(loaded, excess)
    <3>2. from \in 0..excess BY <3>1, <1>1, KeepFromBounds
    <3>3. block = SubSeq(loaded, from + 1, excess)
      <4>1. ~(excess <= 0) BY <2>2, <1>2
      <4>2. block = IF excess <= 0 THEN <<>> ELSE SubSeq(loaded, from + 1, excess) OBVIOUS
      <4> HIDE DEF block, from, excess, loaded
      <4>3. QED BY <4>1, <4>2, Zenon
    <3>4. Newest(loaded) = SubSeq(loaded, excess + 1, Len(loaded))
      <4>1. ~(Len(loaded) <= Threshold) BY <2>2, <1>1
      <4>2. Newest(loaded) = SubSeq(loaded, Len(loaded) - Threshold + 1, Len(loaded))
        BY <4>1 DEF Newest
      <4>3. QED BY <4>2
    <3>5. \A i \in 1..from : i \in 1..Len(loaded) =>
             loaded[i] \in Readable(archive) \union excused
      BY <3>1, BeforeTheBlock DEF BetweenInv
    <3> HIDE DEF block, excess, from, loaded
    <3>6. from + 1 \in Nat \ {0} /\ excess + 1 \in Nat \ {0} /\ Len(loaded) \in Int
          /\ from \in Nat /\ from <= excess
      BY <3>1, <3>2, <1>1
    <3>7. ToSet(block) = { loaded[i] : i \in (from + 1)..excess } /\ block \in Seq(Trade)
      <4>1. ToSet(SubSeq(loaded, from + 1, excess)) = { loaded[i] : i \in (from + 1)..excess }
        BY <3>6, <1>1, <1>2, SubSeqOrder
      <4>2. SubSeq(loaded, from + 1, excess) \in Seq(Trade) BY <3>6, <1>1, <1>2, SubSeqType
      <4>3. QED BY <4>1, <4>2, <3>3
    <3>8. ToSet(trades') = { loaded[i] : i \in (excess + 1)..Len(loaded) }
      <4>1. Len(loaded) <= Len(loaded) BY <1>1
      <4>2. ToSet(SubSeq(loaded, excess + 1, Len(loaded))) =
               { loaded[i] : i \in (excess + 1)..Len(loaded) }
        BY <4>1, <3>6, <1>1, SubSeqOrder
      <4>3. QED BY <4>2, <3>4, <1>3
    <3>9. ToSet(loaded) = { loaded[i] : i \in 1..Len(loaded) } BY <1>1 DEF ToSet
    <3>10. \A i \in (from + 1)..excess : i \in 1..Len(loaded) BY <3>6, <1>1, <1>2
    <3>11. ToSet(block) \subseteq Readable(file) BY <3>7, <3>9, <3>10, <1>4
    <3>12. ASSUME NEW i \in 1..Len(loaded)
           PROVE  loaded[i] \in ToSet(trades') \union ToSet(block) \union Readable(archive) \union excused
      <4>1. \/ i \in 1..from \/ i \in (from + 1)..excess \/ i \in (excess + 1)..Len(loaded)
        BY <3>1, <3>6, <1>1
      <4>2. QED BY <4>1, <3>5, <3>7, <3>8
    <3>13. ASSUME NEW i \in 1..Len(loaded), NEW j \in (from + 1)..excess,
                  loaded[i].id < loaded[j].id
           PROVE  loaded[i] \in ToSet(block) \union Readable(archive) \union excused
      <4>1. i < j BY <3>10, <3>13, <1>1, IdsArePlaces
      <4>2. i \in 1..from \/ i \in (from + 1)..excess BY <4>1, <3>1, <3>6, <1>1
      <4>3. QED BY <4>2, <3>5, <3>7
    <3>14. ASSUME NEW u \in Readable(file)
           PROVE  u \in ToSet(trades') \union ToSet(block) \union Readable(archive) \union excused
      <4>1. PICK i \in 1..Len(loaded) : u = loaded[i] BY <3>9, <1>4
      <4>2. QED BY <4>1, <3>12
    <3>15. ASSUME NEW u \in Readable(file), NEW r \in ToSet(block), u.id < r.id
           PROVE  u \in ToSet(block) \union Readable(archive) \union excused
      <4>1. PICK i \in 1..Len(loaded) : u = loaded[i] BY <3>9, <1>4
      <4>2. PICK j \in (from + 1)..excess : r = loaded[j] BY <3>7
      <4>3. QED BY <4>1, <4>2, <3>13, <3>15
    <3>16. QED BY <3>7, <3>11, <3>14, <3>15
  <2>3. QED BY <2>1, <2>2, <1>2
<1> HIDE DEF block, excess, loaded
<1>6. /\ excused \subseteq excused'
      /\ Readable(archive) \union ToSet(block) \subseteq Readable(archive') \union excused'
      /\ Readable(archive') \subseteq Readable(archive) \union ToSet(block)
      /\ archive'.last = "whole" =>
            archive' = archive \/ (archive'.records # <<>> /\ Last(archive'.records) \in ToSet(block))
  BY <1>3, <1>5, ArchiveKeeps DEF BetweenInv
<1>7. OrderedInv'
  <2>1. /\ Increasing(file.records)
        /\ file.last = "whole" => file.records # <<>>
        /\ archive.last = "whole" => archive.records # <<>>
        /\ \A u \in Readable(file) \union Readable(archive) \union ToSet(trades) \union served :
              u.id <= recorded
    BY DEF BetweenInv, OrderedInv
  <2>2. archive'.last = "whole" => archive'.records # <<>> BY <2>1, <1>6
  <2>3. \A u \in Readable(file') \union Readable(archive') \union ToSet(trades') \union served' :
           u.id <= recorded'
    BY <2>1, <1>3, <1>4, <1>5, <1>6
  <2>4. QED BY <2>1, <2>2, <2>3, <1>3, <1>4 DEF OrderedInv
<1>8. CoveredInv' BY <1>3, <1>5, <1>6 DEF CoveredInv
<1>9. MarkerInv'
  <2> SUFFICES ASSUME archive'.last = "whole", NEW u \in Readable(file),
                      u.id < Last(archive'.records).id
               PROVE  u \in Readable(archive') \union excused'
    BY <1>3 DEF MarkerInv
  <2>1. CASE archive' = archive
    <3>1. u \in Readable(archive) \union excused BY <2>1 DEF BetweenInv, MarkerInv
    <3>2. QED BY <3>1, <1>6
  <2>2. CASE Last(archive'.records) \in ToSet(block)
    <3>1. u \in ToSet(block) \union Readable(archive) \union excused BY <2>2, <1>5
    <3>2. QED BY <3>1, <1>6
  <2>3. QED BY <2>1, <2>2, <1>6
<1>10. QED BY <1>7, <1>8, <1>9 DEF BetweenInv

\* No record falls between memory and the archive, whatever is rotated, torn
\* and reloaded: the last line of the archive tells where startup goes on.
THEOREM NothingIsLost == Spec => []NothingFallsBetween
<1>1. Init => BetweenInv
  <2> SUFFICES ASSUME Init PROVE BetweenInv
    OBVIOUS
  <2>1. /\ trades = <<>> /\ file = EmptyFile /\ archive = EmptyFile /\ served = {} /\ up
    BY DEF Init
  <2>2. Increasing(<<>>)
    <3>1. Len(<<>>) = 0 OBVIOUS
    <3>2. QED BY <3>1 DEF Increasing
  <2>3. ToSet(<<>>) = {} BY DEF ToSet
  <2>4. /\ file.records = <<>> /\ archive.records = <<>>
        /\ file.last = "torn" /\ archive.last = "torn"
    BY <2>1 DEF EmptyFile
  <2>5. QED BY <2>1, <2>2, <2>3, <2>4 DEF BetweenInv, OrderedInv, MarkerInv, CoveredInv, Readable
<1>2. TypeOK /\ BetweenInv /\ [Next]_vars => BetweenInv'
  <2> SUFFICES ASSUME TypeOK, BetweenInv, [Next]_vars PROVE BetweenInv'
    OBVIOUS
  <2>1. ASSUME UNCHANGED <<up, trades, file, archive, recorded, served, excused>>
        PROVE  BetweenInv'
    BY <2>1 DEF BetweenInv, OrderedInv, MarkerInv, CoveredInv, Increasing, Readable, Cut
  <2>2. CASE PersistClosedTrade BY <2>2, PersistBetween
  <2>3. CASE LoadExisting BY <2>3, LoadBetween
  <2>4. ASSUME UNCHANGED <<file, archive, recorded, served>>, trades' = <<>>,
               excused \subseteq excused',
               up' => Readable(file) \subseteq Readable(archive) \union excused'
        PROVE  BetweenInv'
    <3>1. Increasing(trades') /\ ToSet(trades') = {}
      <4>1. Len(trades') = 0 BY <2>4
      <4>2. QED BY <4>1, <2>4 DEF Increasing, ToSet
    <3>2. Readable(file)' = Readable(file) /\ Readable(archive)' = Readable(archive)
      BY <2>4 DEF Readable
    <3>3. OrderedInv' BY <2>4, <3>1, <3>2 DEF BetweenInv, OrderedInv
    <3>4. MarkerInv' BY <2>4, <3>2 DEF BetweenInv, MarkerInv
    <3>5. CoveredInv' BY <2>4, <3>2 DEF CoveredInv
    <3>6. QED BY <3>3, <3>4, <3>5 DEF BetweenInv
  <2>5. CASE Crash BY <2>4, <2>5 DEF Crash, disk, ghosts
  <2>6. CASE LoadFails BY <2>4, <2>6 DEF LoadFails, disk
  <2>7. CASE \/ \E c \in Caches, key \in Filters : GetStats(c, key)
             \/ \E filter \in Filters : FirstPage(filter)
             \/ NextPage
    BY <2>1, <2>7 DEF GetStats, FirstPage, NextPage, disk, ghosts
  <2>8. QED BY <2>1, <2>2, <2>3, <2>5, <2>6, <2>7 DEF Next, vars
<1>3. BetweenInv => NothingFallsBetween
  BY DEF BetweenInv, CoveredInv, NothingFallsBetween
<1>4. QED BY <1>1, <1>2, <1>3, TypeCorrect, PTL DEF Spec
-----------------------------------------------------------------------------
(* The cached bars: their operators                                        *)

LEMMA MaxIsMost ==
    ASSUME NEW N \in Nat, NEW S \in SUBSET (0..N), S # {}
    PROVE  Max(S) \in S /\ \A k \in S : k <= Max(S)
<1> DEFINE T == {N - k : k \in S}
<1>1. T \in SUBSET Nat /\ T # {}
  <2>1. \A k \in S : N - k \in Nat OBVIOUS
  <2>2. QED BY <2>1
<1>2. Min(T) \in T /\ \A k \in T : Min(T) <= k BY <1>1, MinIsLeast
<1>3. PICK m \in S : Min(T) = N - m BY <1>2
<1>4. ASSUME NEW k \in S PROVE k <= m
  <2>1. N - k \in T OBVIOUS
  <2>2. N - m <= N - k BY <1>2, <1>3, <2>1
  <2>3. QED BY <2>2
<1>5. \A k \in S : m >= k BY <1>4
<1>6. Max(S) \in S /\ \A k \in S : Max(S) >= k BY <1>5, Zenon DEF Max
<1>7. QED BY <1>6

DiskAge == Max({RecentTtl, HistoricalThreshold})

LEMMA DiskAgeType ==
    DiskAge \in Nat /\ DiskAge >= RecentTtl /\ DiskAge >= HistoricalThreshold /\ DiskAge >= 1
<1> DEFINE N == RecentTtl + HistoricalThreshold
           S == {RecentTtl, HistoricalThreshold}
<1>1. N \in Nat /\ S \in SUBSET (0..N) /\ S # {} BY CacheAssumption
<1> HIDE DEF N
<1>2. Max(S) \in S /\ \A k \in S : k <= Max(S) BY <1>1, MaxIsMost
<1>3. QED BY <1>2, CacheAssumption DEF DiskAge

LEMMA BookFacts ==
    ASSUME NEW b \in Books
    PROVE  /\ In(b) \in SUBSET Times /\ In(b) \in SUBSET (0..LastNow) /\ IsFiniteSet(In(b))
           /\ In(b) = {} <=> b = Empty
           /\ \A n \in Times : b[n] \in 0..LastNow /\ b[n] \in Nat
           /\ \A n \in Times : n \in In(b) <=> b[n] # 0
           /\ \A n \in In(b) : n \in Times /\ n \in Nat
<1>1. Times = 1..LastNow /\ LastNow \in Nat BY CacheAssumption DEF Times
<1>2. In(b) \in SUBSET Times /\ In(b) \in SUBSET (0..LastNow) BY <1>1 DEF In
<1>3. IsFiniteSet(In(b))
  <2>1. IsFiniteSet(1..LastNow) BY <1>1, FS_Interval
  <2>2. QED BY <2>1, <1>1, <1>2, FS_Subset
<1>4. ASSUME In(b) = {} PROVE b = Empty
  <2>1. \A n \in Times : b[n] = 0 BY <1>4 DEF In
  <2>2. QED BY <2>1 DEF Books, Empty
<1>5. ASSUME b = Empty PROVE In(b) = {} BY <1>5 DEF Empty, In
<1>6. \A n \in Times : b[n] \in 0..LastNow /\ b[n] \in Nat BY <1>1 DEF Books
<1>7. \A n \in Times : n \in In(b) <=> b[n] # 0 BY DEF In
<1>8. \A n \in In(b) : n \in Times /\ n \in Nat BY <1>1, <1>2
<1>9. QED BY <1>2, <1>3, <1>4, <1>5, <1>6, <1>7, <1>8

LEMMA NewestIs ==
    ASSUME NEW b \in Books, b # Empty
    PROVE  /\ NewestBar(b) \in In(b) /\ \A n \in In(b) : n <= NewestBar(b)
           /\ Min(In(b)) \in In(b) /\ \A n \in In(b) : Min(In(b)) <= n
<1>1. In(b) # {} /\ In(b) \in SUBSET (0..LastNow) BY BookFacts
<1>2. LastNow \in Nat BY CacheAssumption
<1>3. Max(In(b)) \in In(b) /\ \A n \in In(b) : n <= Max(In(b)) BY <1>1, <1>2, MaxIsMost
<1>4. NewestBar(b) = Max(In(b)) BY <1>1 DEF NewestBar
<1>5. In(b) \in SUBSET Nat BY <1>1, <1>2
<1>6. QED BY <1>1, <1>3, <1>4, <1>5, MinIsLeast

LEMMA BetweenIs ==
    ASSUME NEW b \in Books, NEW first \in Int, NEW last \in Int
    PROVE  /\ Between(b, first, last) \in Books
           /\ In(Between(b, first, last)) = {n \in In(b) : first <= n /\ n <= last}
           /\ \A n \in In(Between(b, first, last)) : Between(b, first, last)[n] = b[n]
<1> DEFINE c == Between(b, first, last)
<1>1. Times \in SUBSET Nat BY CacheAssumption DEF Times
<1>2. \A n \in Times : c[n] = IF first <= n /\ n <= last THEN b[n] ELSE 0
  BY <1>1 DEF Between
<1>3. \A n \in Times : c[n] \in 0..LastNow
  <2>1. 0 \in 0..LastNow BY CacheAssumption
  <2>2. \A n \in Times : b[n] \in 0..LastNow BY DEF Books
  <2>3. QED BY <2>1, <2>2, <1>2
<1>4. c = [n \in Times |-> c[n]] BY DEF Between
<1>5. c \in Books BY <1>3, <1>4, Zenon DEF Books
<1> HIDE DEF c
<1>6. In(c) = {n \in In(b) : first <= n /\ n <= last}
  <2>1. In(c) = {n \in Times : c[n] # 0} /\ In(b) = {n \in Times : b[n] # 0} BY DEF In
  <2>2. \A n : n \in In(c) <=> n \in Times /\ c[n] # 0 BY <2>1
  <2>3. \A n : n \in In(b) <=> n \in Times /\ b[n] # 0 BY <2>1
  <2>4. \A n : n \in In(c) <=> n \in In(b) /\ first <= n /\ n <= last BY <1>2, <2>2, <2>3
  <2>5. QED BY <2>4
<1>7. \A n \in In(c) : c[n] = b[n] BY <1>2, <1>6 DEF In
<1>8. QED BY <1>5, <1>6, <1>7 DEF c

\* slice(-limit) keeps every bar, or those from one on; there is such a one, since the
\* number of bars that are kept grows by one at a time as it moves back.
LEMMA SliceIs ==
    ASSUME NEW b \in Books
    PROVE  \/ Slice(b) = b
           \/ \E first \in Times : /\ Slice(b) = Between(b, first, LastNow)
                                   /\ Slice(b) # Empty
<1>1. Limit \in Nat \ {0} /\ LastNow \in Nat /\ Times = 1..LastNow BY CacheAssumption DEF Times
<1>2. CASE Cardinality(In(b)) <= Limit BY <1>2 DEF Slice
<1>3. CASE ~(Cardinality(In(b)) <= Limit)
  <2> DEFINE from(k) == In(Between(b, k, LastNow))
             T == {k \in Times : Cardinality(from(k)) >= Limit}
  <2>1. \A k \in Int : /\ Between(b, k, LastNow) \in Books
                       /\ from(k) = {n \in In(b) : k <= n /\ n <= LastNow}
    BY <1>1, BetweenIs
  <2>2. \A k \in Int : IsFiniteSet(from(k)) /\ Cardinality(from(k)) \in Nat
    BY <2>1, BookFacts, FS_CardinalityType
  <2>3. In(b) \in SUBSET (1..LastNow) /\ IsFiniteSet(In(b)) /\ Cardinality(In(b)) \in Nat
    BY <1>1, BookFacts, FS_CardinalityType
  <2>4. from(1) = In(b)
    <3>1. \A n \in In(b) : 1 <= n /\ n <= LastNow BY <2>3
    <3>2. from(1) = {n \in In(b) : 1 <= n /\ n <= LastNow} BY <2>1
    <3>3. QED BY <3>1, <3>2
  <2>5. In(b) # {}
    <3>1. In(b) = {} => Cardinality(In(b)) = 0 BY FS_EmptySet
    <3>2. QED BY <3>1, <1>1, <1>3
  <2>6. 1 \in Times BY <1>1, <2>3, <2>5
  <2> HIDE DEF from
  <2>7. 1 \in T BY <2>4, <2>6, <1>3, <1>1, <2>3
  <2>8. T \in SUBSET (0..LastNow) /\ T # {} BY <1>1, <2>7
  <2>9. PICK m \in T : \A k \in T : k <= m BY <2>8, <1>1, MaxIsMost
  <2>10. m \in Times /\ m \in Nat /\ m <= LastNow /\ Cardinality(from(m)) >= Limit BY <1>1, <2>9
  <2>11. ~(Cardinality(from(m+1)) >= Limit)
    <3>1. CASE m + 1 \in Times
      <4>1. m + 1 \notin T BY <2>9, <2>10
      <4>2. QED BY <4>1, <3>1
    <3>2. CASE m + 1 \notin Times
      <4>1. ~(m + 1 <= LastNow) BY <3>2, <2>10, <1>1
      <4>2. from(m+1) = {} BY <4>1, <2>1, <2>10, <2>3, <1>1
      <4>3. QED BY <4>2, FS_EmptySet, <1>1
    <3>3. QED BY <3>1, <3>2
  <2>12. from(m) \subseteq from(m+1) \cup {m}
    <3>1. from(m) = {n \in In(b) : m <= n /\ n <= LastNow} BY <2>1, <2>10
    <3>2. from(m+1) = {n \in In(b) : m+1 <= n /\ n <= LastNow} BY <2>1, <2>10
    <3>3. QED BY <3>1, <3>2, <2>3, <2>10
  <2>13. Cardinality(from(m)) <= Cardinality(from(m+1)) + 1
    <3>1. IsFiniteSet(from(m+1)) /\ Cardinality(from(m+1)) \in Nat BY <2>2, <2>10
    <3>2. IsFiniteSet(from(m+1) \cup {m}) /\ Cardinality(from(m+1) \cup {m}) <= Cardinality(from(m+1)) + 1
      BY <3>1, FS_AddElement
    <3>3. Cardinality(from(m)) <= Cardinality(from(m+1) \cup {m}) BY <3>2, <2>12, FS_Subset
    <3>4. Cardinality(from(m+1) \cup {m}) \in Nat BY <3>2, FS_CardinalityType
    <3>5. QED BY <3>1, <3>2, <3>3, <3>4, <2>2, <2>10
  <2>14. Cardinality(from(m)) = Limit
    <3>1. PICK c \in Nat : Cardinality(from(m)) = c BY <2>2, <2>10
    <3>2. PICK d \in Nat : Cardinality(from(m+1)) = d BY <2>2, <2>10
    <3>3. c >= Limit /\ ~(d >= Limit) /\ c <= d + 1 BY <3>1, <3>2, <2>10, <2>11, <2>13
    <3>4. QED BY <3>1, <3>3, <1>1
  <2>15. \E c \in {Between(b, first, LastNow) : first \in Times} : Cardinality(In(c)) = Limit
    BY <2>14, <2>10 DEF from
  <2>16. Slice(b) \in {Between(b, first, LastNow) : first \in Times} /\ Cardinality(In(Slice(b))) = Limit
    BY <2>15, <1>3, Zenon DEF Slice
  <2>17. PICK first \in Times : Slice(b) = Between(b, first, LastNow) BY <2>16
  <2>18. Slice(b) # Empty
    <3>1. Slice(b) \in Books BY <2>17, <2>1, <1>1
    <3>2. In(Slice(b)) # {} BY <2>16, <1>1, FS_EmptySet
    <3>3. QED BY <3>1, <3>2, BookFacts
  <2>19. QED BY <2>17, <2>18
<1>4. QED BY <1>2, <1>3

-----------------------------------------------------------------------------
(* The cached bars: what is kept and served                                *)

\* No bar is missing between two that are there.
NoHoles(b) == \A i, k \in In(b) : \A j \in i..k : b[j] # 0

\* Every bar that has a later one was fetched when it had closed.
ClosedBars(b) == \A n, m \in In(b) : n < m => b[n] > n

\* The newest bar is one that was open within the age of the disk before t.
FreshAt(b, t) ==
    \E n \in In(b) : n + Max({RecentTtl, HistoricalThreshold}) > t

\* Bars are fetched when they are open or later, and not before they exist; the
\* disk, while nothing odd happened to it, has no holes and is as new as its
\* dates say.
StoredInv ==
    /\ \A n \in In(stored) : n <= stored[n] /\ stored[n] <= now
    /\ odd = {} => /\ NoHoles(stored) /\ ClosedBars(stored)
                   /\ meta # NoMeta => \E n \in In(stored) : n >= meta.fetched

\* What the memory has was sound when it came there.
MemoryInv ==
    /\ memory.at <= now
    /\ memory.odd = {} /\ memory.bars # Empty =>
           NoHoles(memory.bars) /\ ClosedBars(memory.bars) /\ FreshAt(memory.bars, memory.at)

\* A request asks for bars of the past, and at least one.
AsksInv ==
    \A ask \in asks :
        /\ ask.first <= ask.last /\ ask.at <= now
        /\ IF ask.kind = "window" THEN ask.last <= ask.at ELSE ask.last = LastNow

AnswerInv ==
    answer.odd = {} /\ answer.bars # Empty =>
        /\ NoHoles(answer.bars) /\ ClosedBars(answer.bars)
        /\ FreshAt(answer.bars, now - MemoryTtl)

CacheInv == CacheTypeOK /\ StoredInv /\ MemoryInv /\ AsksInv /\ AnswerInv

\* The bars that are served are as sound as those they are taken from.
LEMMA SliceIsSound ==
    ASSUME NEW b \in Books, NEW t \in Int,
           b # Empty, NoHoles(b), ClosedBars(b), FreshAt(b, t)
    PROVE  LET s == Slice(b) IN
           s \in Books /\ s # Empty /\ NoHoles(s) /\ ClosedBars(s) /\ FreshAt(s, t)
<1>1. CASE Slice(b) = b BY <1>1
<1>2. CASE \E first \in Times : Slice(b) = Between(b, first, LastNow) /\ Slice(b) # Empty
  <2>1. PICK first \in Times : Slice(b) = Between(b, first, LastNow) /\ Slice(b) # Empty BY <1>2
  <2>2. PICK s : s = Slice(b) OBVIOUS
  <2>3. first \in Int /\ LastNow \in Int /\ Times = 1..LastNow BY CacheAssumption DEF Times
  <2>4. /\ s \in Books
        /\ In(s) = {n \in In(b) : first <= n /\ n <= LastNow}
        /\ \A n \in In(s) : s[n] = b[n]
    BY <2>1, <2>2, <2>3, BetweenIs
  <2>5. \A n \in In(b) : n \in Nat /\ n \in Times BY BookFacts
  <2>6. \A n \in Times : n \in In(s) <=> s[n] # 0 BY <2>4, BookFacts
  <2>7. \A n \in Times : n \in In(b) <=> b[n] # 0 BY BookFacts
  <2>8. NoHoles(s)
    <3> SUFFICES ASSUME NEW i \in In(s), NEW k \in In(s), NEW j \in i..k PROVE s[j] # 0 BY DEF NoHoles
    <3>1. i \in In(b) /\ k \in In(b) /\ first <= i /\ k <= LastNow BY <2>4
    <3>2. i \in Nat /\ k \in Nat /\ i \in Times BY <3>1, <2>5
    <3>3. b[j] # 0 BY <3>1 DEF NoHoles
    <3>4. j \in Times /\ first <= j /\ j <= LastNow BY <3>1, <3>2, <2>3
    <3>5. j \in In(b) BY <3>3, <3>4, <2>7
    <3>6. j \in In(s) BY <3>4, <3>5, <2>4
    <3>7. QED BY <3>4, <3>6, <2>6
  <2>9. ClosedBars(s)
    <3> SUFFICES ASSUME NEW n \in In(s), NEW m \in In(s), n < m PROVE s[n] > n BY DEF ClosedBars
    <3>1. n \in In(b) /\ m \in In(b) BY <2>4
    <3>2. b[n] > n BY <3>1 DEF ClosedBars
    <3>3. QED BY <3>2, <2>4
  <2>10. FreshAt(s, t)
    <3>1. PICK n \in In(b) : n + DiskAge > t BY DEF FreshAt, DiskAge
    <3>2. PICK k : k \in In(s) BY <2>1, <2>2, <2>4, BookFacts
    <3>3. k \in In(b) /\ first <= k BY <3>2, <2>4
    <3>4. n \in Nat /\ k \in Nat /\ n <= LastNow BY <3>1, <3>3, <2>5, <2>3
    <3>5. CASE first <= n
      <4>1. n \in In(s) BY <3>5, <3>4, <2>4
      <4>2. QED BY <4>1, <3>1 DEF FreshAt, DiskAge
    <3>6. CASE ~(first <= n)
      <4>1. k + DiskAge > t BY <3>1, <3>3, <3>4, <3>6, <2>3, DiskAgeType
      <4>2. QED BY <4>1, <3>2 DEF FreshAt, DiskAge
    <3>7. QED BY <3>5, <3>6
  <2>11. QED BY <2>1, <2>2, <2>4, <2>8, <2>9, <2>10
<1>3. QED BY <1>1, <1>2, SliceIs

\* An answer of the exchange has the bars of a range, each as it was then.
LEMMA FetchedIs ==
    ASSUME NEW ask \in Asks, NEW seen \in Times,
           ask.first <= ask.last, ask.at <= seen,
           IF ask.kind = "window" THEN ask.last <= ask.at ELSE ask.last = LastNow
    PROVE  \E first, last \in Times :
              LET b == Fetched(ask, seen) IN
              /\ b \in Books /\ b # Empty
              /\ first <= last /\ last <= seen /\ In(b) = first..last
              /\ \A n \in first..last : b[n] = seen
              /\ ask.kind # "window" => last = seen
<1>1. LastNow \in Nat /\ Times = 1..LastNow /\ Limit \in Nat \ {0} BY CacheAssumption DEF Times
<1>2. /\ ask.first \in 1..LastNow /\ ask.last \in 1..LastNow /\ ask.at \in 1..LastNow
      /\ seen \in 1..LastNow
  BY <1>1 DEF Asks
<1> DEFINE first == IF ask.kind = "window" THEN ask.first
                    ELSE IF seen > Limit THEN seen - Limit + 1 ELSE 1
           S == {ask.last, seen}
           last == Min(S)
<1>3. S \in SUBSET Nat /\ S # {} BY <1>2
<1>4. last \in S /\ \A k \in S : last <= k BY <1>3, MinIsLeast
<1> HIDE DEF last
<1>5. last \in 1..LastNow /\ last <= seen /\ (ask.kind # "window" => last = seen)
  BY <1>1, <1>2, <1>4
<1>6. first \in 1..LastNow /\ first <= last
  <2>1. CASE ask.kind = "window" BY <2>1, <1>1, <1>2, <1>4
  <2>2. CASE ask.kind # "window" BY <2>2, <1>1, <1>2, <1>5
  <2>3. QED BY <2>1, <2>2
<1>7. Fetched(ask, seen) = [n \in Times |-> IF n \in first..last THEN seen ELSE 0]
  BY DEF Fetched, last
<1> HIDE DEF first, S
<1>8. PICK f \in 1..LastNow, l \in 1..LastNow : f = first /\ l = last BY <1>5, <1>6
<1>9. PICK b : b = [n \in Times |-> IF n \in f..l THEN seen ELSE 0] OBVIOUS
<1>10. \A n \in Times : b[n] = IF n \in f..l THEN seen ELSE 0 BY <1>9
<1>11. b \in Books
  <2>1. 0 \in 0..LastNow /\ seen \in 0..LastNow BY <1>1, <1>2
  <2>2. QED BY <2>1, <1>9 DEF Books
<1>12. f..l \subseteq Times BY <1>1
<1>13. In(b) = f..l
  <2>1. \A n \in Times : b[n] # 0 <=> n \in f..l BY <1>10, <1>2
  <2>2. QED BY <2>1, <1>12 DEF In
<1>14. \A n \in f..l : b[n] = seen BY <1>10, <1>12
<1>15. b # Empty
  <2>1. f \in f..l BY <1>5, <1>6, <1>8
  <2>2. QED BY <2>1, <1>11, <1>13, BookFacts
<1>16. f <= l /\ l <= seen /\ (ask.kind # "window" => l = seen) BY <1>5, <1>6, <1>8
<1>17. b = Fetched(ask, seen) BY <1>7, <1>8, <1>9
<1>18. QED BY <1>1, <1>8, <1>11, <1>13, <1>14, <1>15, <1>16, <1>17

\* mergeBars() keeps the disk sound, unless the answer has a flaw.
LEMMA MergeIs ==
    ASSUME CacheTypeOK, StoredInv, NEW seen \in Times, seen <= now,
           NEW bars \in Books, NEW first \in Times, NEW last \in Times,
           first <= last, last <= seen, In(bars) = first..last, bars # Empty,
           \A n \in first..last : bars[n] = seen
    PROVE  LET new == Merge(bars) IN
           /\ new \in Books /\ new # Empty /\ In(stored) \subseteq In(new)
           /\ \A n \in In(new) : n <= new[n] /\ new[n] <= now
           /\ FlawsOf(bars, seen) = {} => seen = now /\ bars[now] # 0 /\ new[now] # 0
           /\ odd = {} /\ FlawsOf(bars, seen) = {} => NoHoles(new) /\ ClosedBars(new)
<1>1. LastNow \in Nat /\ Times = 1..LastNow BY CacheAssumption DEF Times
<1>2. stored \in Books /\ now \in Times BY DEF CacheTypeOK
<1>3. PICK new : new = Merge(bars) OBVIOUS
<1>4. \A n \in Times : new[n] = IF bars[n] # 0 THEN bars[n] ELSE stored[n] BY <1>3 DEF Merge
<1>5. new \in Books
  <2>1. \A n \in Times : bars[n] \in 0..LastNow /\ stored[n] \in 0..LastNow BY <1>2 DEF Books
  <2>2. \A n \in Times : new[n] \in 0..LastNow BY <2>1, <1>4
  <2>3. new = [n \in Times |-> new[n]] BY <1>3 DEF Merge
  <2>4. QED BY <2>2, <2>3, Zenon DEF Books
<1>6. /\ \A n \in Times : n \in In(bars) <=> bars[n] # 0
      /\ \A n \in Times : n \in In(stored) <=> stored[n] # 0
      /\ \A n \in Times : n \in In(new) <=> new[n] # 0
      /\ In(stored) \in SUBSET Times /\ In(new) \in SUBSET Times
      /\ \A n \in Times : stored[n] \in Nat
  BY <1>2, <1>5, BookFacts
<1>7. \A n \in Times : n \in In(new) <=> n \in first..last \/ n \in In(stored)
  BY <1>4, <1>6
<1>8. \A n \in first..last : n \in Times /\ new[n] = seen
  <2>1. \A n \in first..last : n \in Times /\ n \in In(bars) BY <1>1
  <2>2. QED BY <2>1, <1>4, <1>6
<1>9. \A n \in Times : n \notin first..last => new[n] = stored[n] BY <1>4, <1>6
<1>10. \A n \in In(stored) : n \in Times /\ n <= stored[n] /\ stored[n] <= now
  BY <1>6 DEF StoredInv
<1>11. ASSUME NEW n \in In(new) PROVE n <= new[n] /\ new[n] <= now
  <2>1. n \in Times BY <1>6
  <2>2. CASE n \in first..last BY <2>2, <1>8, <1>1
  <2>3. CASE n \notin first..last BY <2>1, <2>3, <1>7, <1>9, <1>10
  <2>4. QED BY <2>2, <2>3
<1>12. new # Empty
  <2>1. first \in first..last BY <1>1
  <2>2. first \in In(new) BY <2>1, <1>7
  <2>3. QED BY <2>2, <1>5, BookFacts
<1>13. In(stored) \subseteq In(new) BY <1>6, <1>7
<1>14. ASSUME FlawsOf(bars, seen) = {}
       PROVE  /\ seen = now /\ last = now /\ bars[now] # 0 /\ new[now] # 0
              /\ stored # Empty => first <= NewestBar(stored)
  <2>1. /\ "late" \notin FlawsOf(bars, seen) /\ "scrolled" \notin FlawsOf(bars, seen)
        /\ "gap" \notin FlawsOf(bars, seen)
    BY <1>14
  <2>2. ~(seen < now) BY <2>1 DEF FlawsOf, Flaws
  <2>3. bars[seen] # 0 BY <2>1 DEF FlawsOf, Flaws
  <2>4. stored # Empty => ~(Min(In(bars)) > NewestBar(stored)) BY <2>1 DEF FlawsOf, Flaws
  <2>5. seen = now BY <2>2, <1>1, <1>2
  <2>6. now \in first..last BY <2>3, <2>5, <1>2, <1>6
  <2>7. last = now BY <2>5, <2>6, <1>1, <1>2
  <2>8. new[now] # 0 BY <2>6, <1>2, <1>6, <1>7
  <2>9. ASSUME stored # Empty PROVE first <= NewestBar(stored)
    <3>1. Min(In(bars)) \in first..last /\ \A n \in first..last : Min(In(bars)) <= n BY NewestIs
    <3>2. first \in first..last BY <1>1
    <3>3. Min(In(bars)) = first BY <3>1, <3>2, <1>1
    <3>4. NewestBar(stored) \in Times BY <2>9, <1>2, <1>6, NewestIs
    <3>5. QED BY <2>4, <2>9, <3>3, <3>4, <1>1
  <2>10. QED BY <2>3, <2>5, <2>7, <2>8, <2>9
<1>15. ASSUME odd = {}, FlawsOf(bars, seen) = {} PROVE NoHoles(new) /\ ClosedBars(new)
  <2>1. NoHoles(stored) /\ ClosedBars(stored) BY <1>15 DEF StoredInv
  <2>2. /\ seen = now /\ last = now
        /\ stored # Empty => first <= NewestBar(stored)
    BY <1>15, <1>14
  <2>3. ASSUME NEW n \in In(new) PROVE n \in Times /\ n <= now
    <3>1. n \in Times /\ new[n] \in Nat BY <1>5, <1>6, BookFacts
    <3>2. n <= new[n] /\ new[n] <= now BY <1>11
    <3>3. QED BY <3>1, <3>2, <1>1, <1>2
  <2>4. ASSUME NEW n \in In(stored) PROVE /\ NewestBar(stored) \in In(stored)
                                         /\ first <= NewestBar(stored)
                                         /\ NewestBar(stored) \in Times
    <3>1. stored # Empty BY <1>2, BookFacts
    <3>2. QED BY <3>1, <2>2, <1>2, <1>6, NewestIs
  <2>5. NoHoles(new)
    <3> SUFFICES ASSUME NEW i \in In(new), NEW k \in In(new), NEW j \in i..k PROVE new[j] # 0
      BY DEF NoHoles
    <3>1. i \in Times /\ k \in Times /\ k <= now BY <2>3
    <3>2. j \in Times /\ i <= j /\ j <= k /\ j <= now BY <3>1, <1>1, <1>2
    <3>3. CASE j \in first..last BY <3>2, <3>3, <1>6, <1>7
    <3>4. CASE j \notin first..last
      <4>1. j < first BY <3>2, <3>4, <2>2, <1>1, <1>2
      <4>2. i \in In(stored) BY <4>1, <3>1, <3>2, <1>1, <1>7
      <4>3. NewestBar(stored) \in In(stored) /\ first <= NewestBar(stored)
            /\ NewestBar(stored) \in Times
        BY <4>2, <2>4
      <4>4. j \in i..NewestBar(stored) BY <4>1, <4>3, <3>1, <3>2, <1>1
      <4>5. stored[j] # 0 BY <4>2, <4>3, <4>4, <2>1 DEF NoHoles
      <4>6. QED BY <4>5, <3>2, <1>6, <1>7
    <3>5. QED BY <3>3, <3>4
  <2>6. ClosedBars(new)
    <3> SUFFICES ASSUME NEW n \in In(new), NEW m \in In(new), n < m PROVE new[n] > n
      BY DEF ClosedBars
    <3>1. n \in Times /\ m \in Times /\ m <= now BY <2>3
    <3>2. CASE n \in first..last
      <4>1. new[n] = now BY <3>2, <2>2, <1>8
      <4>2. QED BY <4>1, <3>1, <1>1, <1>2
    <3>3. CASE n \notin first..last
      <4>1. n \in In(stored) /\ new[n] = stored[n] BY <3>1, <3>3, <1>7, <1>9
      <4>2. CASE m \in In(stored) BY <4>1, <4>2, <2>1 DEF ClosedBars
      <4>3. CASE m \notin In(stored)
        <5>1. m \in first..last BY <4>3, <3>1, <1>7
        <5>2. n < first BY <5>1, <3>1, <3>3, <1>1
        <5>3. NewestBar(stored) \in In(stored) /\ first <= NewestBar(stored)
              /\ NewestBar(stored) \in Times
          BY <4>1, <2>4
        <5>4. n < NewestBar(stored) BY <5>2, <5>3, <3>1, <1>1
        <5>5. QED BY <4>1, <5>3, <5>4, <2>1 DEF ClosedBars
      <4>4. QED BY <4>2, <4>3
    <3>4. QED BY <3>2, <3>3
  <2>7. QED BY <2>5, <2>6
<1>16. QED BY <1>3, <1>5, <1>11, <1>12, <1>13, <1>14, <1>15

LEMMA EmptyType == Empty \in Books /\ In(Empty) = {}
<1>1. 0 \in 0..LastNow BY CacheAssumption
<1>2. QED BY <1>1 DEF Empty, Books, In

LEMMA NothingServed ==
    ASSUME answer' = NoAnswer
    PROVE  answer' \in [bars : Books, odd : SUBSET Flaws] /\ AnswerInv'
BY EmptyType DEF NoAnswer, AnswerInv

LEMMA NothingInMemory ==
    ASSUME memory' = NoMemory, now' \in Nat
    PROVE  memory' \in [bars : Books, at : 0..LastNow, odd : SUBSET Flaws] /\ MemoryInv'
<1>1. 0 \in 0..LastNow BY CacheAssumption
<1>2. QED BY <1>1, EmptyType DEF NoMemory, MemoryInv

\* What the disk serves is not older than its age.
LEMMA DiskServes ==
    ASSUME CacheInv, OnDisk(1, LastNow) # Empty
    PROVE  /\ OnDisk(1, LastNow) = stored
           /\ odd = {} => NoHoles(stored) /\ ClosedBars(stored) /\ FreshAt(stored, now)
<1>1. LastNow \in Nat /\ Times = 1..LastNow BY CacheAssumption DEF Times
<1>2. stored \in Books /\ now \in Times BY DEF CacheInv, CacheTypeOK
<1>3. ~Stale /\ OnDisk(1, LastNow) = Between(stored, 1, LastNow) BY DEF OnDisk
<1>4. Between(stored, 1, LastNow) = stored
  <2>1. Between(stored, 1, LastNow) = [n \in Times |-> stored[n]] BY <1>1 DEF Between
  <2>2. QED BY <2>1, <1>2 DEF Books
<1>5. ASSUME odd = {} PROVE NoHoles(stored) /\ ClosedBars(stored) /\ FreshAt(stored, now)
  <2>1. /\ NoHoles(stored) /\ ClosedBars(stored)
        /\ meta # NoMeta => \E n \in In(stored) : n >= meta.fetched
    BY <1>5 DEF CacheInv, StoredInv
  <2>2. meta # NoMeta BY <1>3 DEF Stale
  <2>3. PICK n \in In(stored) : n >= meta.fetched BY <2>1, <2>2
  <2>4. ~(now - meta.fetched >= (IF now - meta.newest >= HistoricalThreshold
                                 THEN HistoricalThreshold ELSE RecentTtl))
    BY <1>3 DEF Stale
  <2>6. meta.fetched \in Nat /\ n \in Nat /\ now \in Nat
    BY <1>1, <1>2, <2>3, BookFacts DEF CacheInv, CacheTypeOK
  <2>7. RecentTtl \in Nat /\ HistoricalThreshold \in Nat /\ DiskAge \in Nat
        /\ DiskAge >= RecentTtl /\ DiskAge >= HistoricalThreshold
    BY CacheAssumption, DiskAgeType
  <2>8. now - meta.fetched < DiskAge
    <3>1. CASE now - meta.newest >= HistoricalThreshold
      <4>1. ~(now - meta.fetched >= HistoricalThreshold) BY <3>1, <2>4
      <4>2. QED BY <4>1, <2>6, <2>7
    <3>2. CASE ~(now - meta.newest >= HistoricalThreshold)
      <4>1. ~(now - meta.fetched >= RecentTtl) BY <3>2, <2>4
      <4>2. QED BY <4>1, <2>6, <2>7
    <3>3. QED BY <3>1, <3>2
  <2>9. n + DiskAge > now BY <2>3, <2>6, <2>7, <2>8
  <2>10. QED BY <2>1, <2>3, <2>9 DEF FreshAt, DiskAge
<1>6. QED BY <1>3, <1>4, <1>5

\* The memory serves what it has, no longer than its own age after it came there.
LEMMA MemoryServes ==
    ASSUME NEW m, m \in [bars : Books, at : 0..LastNow, odd : SUBSET Flaws], m.bars # Empty,
           now \in Times, m.at <= now, now - m.at <= MemoryTtl,
           m.odd = {} => NoHoles(m.bars) /\ ClosedBars(m.bars) /\ FreshAt(m.bars, m.at),
           answer' = [bars |-> Slice(m.bars), odd |-> m.odd], now' = now
    PROVE  answer' \in [bars : Books, odd : SUBSET Flaws] /\ AnswerInv'
<1>1. LastNow \in Nat /\ Times = 1..LastNow /\ MemoryTtl \in Nat BY CacheAssumption DEF Times
<1>2. Slice(m.bars) \in Books
  <2>1. ASSUME NEW first \in Times, Slice(m.bars) = Between(m.bars, first, LastNow)
        PROVE  Slice(m.bars) \in Books
    BY <2>1, <1>1, BetweenIs
  <2>2. QED BY <2>1, SliceIs
<1>3. ASSUME m.odd = {}
      PROVE  /\ NoHoles(Slice(m.bars)) /\ ClosedBars(Slice(m.bars))
             /\ FreshAt(Slice(m.bars), now - MemoryTtl)
  <2>1. NoHoles(m.bars) /\ ClosedBars(m.bars) /\ FreshAt(m.bars, m.at) BY <1>3
  <2>2. PICK n \in In(m.bars) : n + DiskAge > m.at BY <2>1 DEF FreshAt, DiskAge
  <2>3. n \in Nat /\ m.at \in Nat /\ now \in Nat /\ DiskAge \in Nat
    BY <1>1, BookFacts, DiskAgeType
  <2>4. n + DiskAge > now - MemoryTtl BY <2>2, <2>3, <1>1
  <2>5. FreshAt(m.bars, now - MemoryTtl) BY <2>2, <2>4 DEF FreshAt, DiskAge
  <2>6. now - MemoryTtl \in Int BY <1>1, <2>3
  <2>7. QED BY <2>1, <2>5, <2>6, SliceIsSound
<1>4. answer'.bars = Slice(m.bars) /\ answer'.odd = m.odd OBVIOUS
<1>5. AnswerInv' BY <1>3, <1>4 DEF AnswerInv
<1>6. QED BY <1>2, <1>5

LEMMA AnsweredKeeps ==
    ASSUME CacheInv, NEW ask \in asks, Answered(ask)
    PROVE  CacheInv'
<1> USE DEF CacheInv
<1>1. LastNow \in Nat /\ Times = 1..LastNow BY CacheAssumption DEF Times
<1>2. now \in Times /\ ask \in Asks BY DEF CacheTypeOK
<1>3. PICK seen \in ask.at..now, written \in {"nothing", "bars", "both"} :
        LET bars == Fetched(ask, seen)
            flaws == FlawsOf(bars, seen)
        IN  /\ stored' = IF written = "nothing" THEN stored ELSE Merge(bars)
            /\ meta' = IF written = "both"
                       THEN [oldest |-> Min(In(stored')), newest |-> NewestBar(stored'), fetched |-> now]
                       ELSE meta
            /\ odd' = IF written = "nothing" THEN odd ELSE odd \cup flaws
            /\ IF ask.kind = "recent"
               THEN /\ memory' = [bars |-> bars, at |-> now, odd |-> flaws \ {"gap"}]
                    /\ answer' = [bars |-> bars, odd |-> flaws \ {"gap"}]
               ELSE answer' = NoAnswer /\ UNCHANGED memory
  BY DEF Answered
<1>4. asks' = asks \ {ask} /\ now' = now /\ windows' = windows BY DEF Answered
<1>5. /\ ask.first <= ask.last /\ ask.at <= now
      /\ IF ask.kind = "window" THEN ask.last <= ask.at ELSE ask.last = LastNow
  BY DEF AsksInv
<1>6. seen \in Times /\ ask.at <= seen /\ seen <= now
  <2>1. ask.at \in 1..LastNow BY <1>1, <1>2 DEF Asks
  <2>2. QED BY <2>1, <1>1, <1>2
<1>7. PICK bars : bars = Fetched(ask, seen) OBVIOUS
<1>8. PICK first \in Times, last \in Times :
         /\ bars \in Books /\ bars # Empty
         /\ first <= last /\ last <= seen /\ In(bars) = first..last
         /\ \A n \in first..last : bars[n] = seen
         /\ ask.kind # "window" => last = seen
  BY <1>2, <1>5, <1>6, <1>7, FetchedIs
<1>9. PICK flaws \in SUBSET Flaws : flaws = FlawsOf(bars, seen) BY DEF FlawsOf
<1>10. PICK new : new = Merge(bars) OBVIOUS
<1>11. /\ new \in Books /\ new # Empty /\ In(stored) \subseteq In(new)
       /\ \A n \in In(new) : n <= new[n] /\ new[n] <= now
       /\ flaws = {} => seen = now /\ bars[now] # 0 /\ new[now] # 0
       /\ odd = {} /\ flaws = {} => NoHoles(new) /\ ClosedBars(new)
  BY <1>6, <1>8, <1>9, <1>10, MergeIs
<1>12. stored' \in Books /\ meta' \in [oldest : 0..LastNow, newest : 0..LastNow, fetched : 0..LastNow]
       /\ odd' \in SUBSET Flaws
       /\ StoredInv'
  <2>1. CASE written = "nothing"
    <3>1. stored' = stored /\ meta' = meta /\ odd' = odd BY <2>1, <1>3
    <3>2. QED BY <3>1, <1>4 DEF CacheTypeOK, StoredInv
  <2>2. CASE written # "nothing"
    <3>1. stored' = new /\ odd' = odd \cup flaws
      BY <2>2, <1>3, <1>7, <1>9, <1>10
    <3>2. odd' = {} => odd = {} /\ flaws = {} BY <3>1
    <3>3. odd' \in SUBSET Flaws BY <3>1 DEF CacheTypeOK
    <3>4. CASE written = "bars"
      <4>1. meta' = meta BY <3>4, <1>3
      <4>2. ASSUME odd' = {}, meta # NoMeta PROVE \E n \in In(new) : n >= meta.fetched
        <5>1. odd = {} BY <4>2, <3>2
        <5>2. PICK n \in In(stored) : n >= meta.fetched BY <5>1, <4>2 DEF StoredInv
        <5>3. QED BY <5>2, <1>11
      <4>3. StoredInv' BY <3>1, <3>2, <4>1, <4>2, <1>4, <1>11 DEF StoredInv
      <4>4. QED BY <3>1, <3>3, <4>1, <4>3, <1>11 DEF CacheTypeOK
    <3>5. CASE written = "both"
      <4>1. meta' = [oldest |-> Min(In(new)), newest |-> NewestBar(new), fetched |-> now]
        BY <3>1, <3>5, <1>3
      <4>2. Min(In(new)) \in 0..LastNow /\ NewestBar(new) \in 0..LastNow
        <5>1. Min(In(new)) \in In(new) /\ NewestBar(new) \in In(new) BY <1>11, NewestIs
        <5>2. QED BY <5>1, <1>11, BookFacts
      <4>3. meta' \in [oldest : 0..LastNow, newest : 0..LastNow, fetched : 0..LastNow]
        <5>1. now \in 0..LastNow BY <1>1, <1>2
        <5>2. QED BY <5>1, <4>1, <4>2
      <4>4. ASSUME odd' = {} PROVE \E n \in In(new) : n >= meta'.fetched
        <5>1. new[now] # 0 BY <4>4, <3>2, <1>11
        <5>2. now \in In(new) BY <5>1, <1>2, <1>11, BookFacts
        <5>3. QED BY <5>2, <4>1, <1>1, <1>2
      <4>5. StoredInv' BY <3>1, <3>2, <4>4, <1>4, <1>11 DEF StoredInv
      <4>6. QED BY <3>1, <3>3, <4>3, <4>5, <1>11
    <3>6. QED BY <2>2, <3>4, <3>5
  <2>3. QED BY <2>1, <2>2
<1>13. /\ memory' \in [bars : Books, at : 0..LastNow, odd : SUBSET Flaws] /\ MemoryInv'
       /\ answer' \in [bars : Books, odd : SUBSET Flaws] /\ AnswerInv'
  <2>1. CASE ask.kind = "recent"
    <3>1. /\ memory' = [bars |-> bars, at |-> now, odd |-> flaws \ {"gap"}]
          /\ answer' = [bars |-> bars, odd |-> flaws \ {"gap"}]
      BY <2>1, <1>3, <1>7, <1>9
    <3>2. now \in 0..LastNow /\ now \in Nat BY <1>1, <1>2
    <3>3. /\ memory' \in [bars : Books, at : 0..LastNow, odd : SUBSET Flaws]
          /\ answer' \in [bars : Books, odd : SUBSET Flaws]
      BY <3>1, <3>2, <1>8
    <3>4. ASSUME flaws \ {"gap"} = {}
          PROVE  /\ NoHoles(bars) /\ ClosedBars(bars) /\ FreshAt(bars, now)
                 /\ FreshAt(bars, now - MemoryTtl)
      <4>1. "late" \notin flaws /\ "scrolled" \notin flaws BY <3>4
      <4>2. ~(seen < now) BY <4>1, <1>9 DEF FlawsOf, Flaws
      <4>3. bars[seen] # 0 BY <4>1, <1>9 DEF FlawsOf, Flaws
      <4>4. seen = now BY <4>2, <1>1, <1>2, <1>6
      <4>5. first \in Nat /\ last \in Nat BY <1>1, <1>8
      <4>6. now \in In(bars) BY <4>3, <4>4, <1>2, <1>8, BookFacts
      <4>7. NoHoles(bars)
        <5> SUFFICES ASSUME NEW i \in first..last, NEW k \in first..last, NEW j \in i..k
                     PROVE  bars[j] # 0
          BY <1>8 DEF NoHoles
        <5>1. j \in first..last BY <4>5
        <5>2. QED BY <5>1, <4>4, <1>1, <1>2, <1>8
      <4>8. ClosedBars(bars)
        <5> SUFFICES ASSUME NEW n \in first..last, NEW m \in first..last, n < m
                     PROVE  bars[n] > n
          BY <1>8 DEF ClosedBars
        <5>1. n < seen BY <4>5, <1>1, <1>6, <1>8
        <5>2. QED BY <5>1, <4>5, <1>1, <1>6, <1>8
      <4>9. now + DiskAge > now /\ now + DiskAge > now - MemoryTtl
        BY <3>2, DiskAgeType, CacheAssumption
      <4>10. QED BY <4>6, <4>7, <4>8, <4>9 DEF FreshAt, DiskAge
    <3>5. MemoryInv' BY <3>1, <3>2, <3>4, <1>4 DEF MemoryInv
    <3>6. AnswerInv' BY <3>1, <3>4, <1>4 DEF AnswerInv
    <3>7. QED BY <3>3, <3>5, <3>6
  <2>2. CASE ask.kind # "recent"
    <3>1. answer' = NoAnswer /\ memory' = memory BY <2>2, <1>3
    <3>2. QED BY <3>1, <1>4, NothingServed DEF CacheTypeOK, MemoryInv
  <2>3. QED BY <2>1, <2>2
<1>14. asks' \subseteq Asks /\ AsksInv' BY <1>4 DEF CacheTypeOK, AsksInv
<1>15. QED BY <1>4, <1>12, <1>13, <1>14 DEF CacheTypeOK

\* Recent bars from the memory, from the disk, or asked for.
LEMMA AskRecentKeeps ==
    ASSUME CacheInv, AskRecent
    PROVE  CacheInv'
<1> USE DEF CacheInv
<1>1. LastNow \in Nat /\ Times = 1..LastNow BY CacheAssumption DEF Times
<1>2. now \in Times /\ now \in Nat BY <1>1 DEF CacheTypeOK
<1>3. UNCHANGED <<now, stored, meta, windows, odd>> BY DEF AskRecent
<1>4. StoredInv' BY <1>3 DEF StoredInv
<1>5. CASE InMemory /\ answer' = [bars |-> Slice(memory.bars), odd |-> memory.odd]
           /\ UNCHANGED <<memory, asks>>
  <2>1. now - memory.at <= MemoryTtl BY <1>5 DEF InMemory
  <2>2. memory.bars # Empty
    <3>1. Cardinality(In(memory.bars)) >= Limit BY <1>5 DEF InMemory
    <3>2. In(memory.bars) # {}
      <4>1. In(memory.bars) = {} => Cardinality(In(memory.bars)) = 0 BY FS_EmptySet
      <4>2. QED BY <3>1, <4>1, CacheAssumption
    <3>3. QED BY <3>2, EmptyType
  <2>3. answer' \in [bars : Books, odd : SUBSET Flaws] /\ AnswerInv'
    <3>1. PICK m : m = memory OBVIOUS
    <3>2. /\ m \in [bars : Books, at : 0..LastNow, odd : SUBSET Flaws]
          /\ m.at <= now /\ now - m.at <= MemoryTtl /\ m.bars # Empty
          /\ m.odd = {} => NoHoles(m.bars) /\ ClosedBars(m.bars) /\ FreshAt(m.bars, m.at)
          /\ answer' = [bars |-> Slice(m.bars), odd |-> m.odd]
      BY <3>1, <2>1, <2>2, <1>5 DEF CacheTypeOK, MemoryInv
    <3>3. QED BY <3>2, <1>2, <1>3, MemoryServes
  <2>4. MemoryInv' /\ AsksInv' BY <1>3, <1>5 DEF MemoryInv, AsksInv
  <2>5. QED BY <1>3, <1>4, <1>5, <2>3, <2>4 DEF CacheTypeOK
<1>6. CASE /\ OnDisk(1, LastNow) # Empty
           /\ memory' = [bars |-> OnDisk(1, LastNow), at |-> now, odd |-> odd]
           /\ answer' = [bars |-> Slice(memory'.bars), odd |-> odd]
           /\ UNCHANGED asks
  <2>1. /\ OnDisk(1, LastNow) = stored
        /\ odd = {} => NoHoles(stored) /\ ClosedBars(stored) /\ FreshAt(stored, now)
    BY <1>6, DiskServes
  <2>2. PICK m : m = [bars |-> stored, at |-> now, odd |-> odd] OBVIOUS
  <2>3. memory' = m /\ answer' = [bars |-> Slice(m.bars), odd |-> m.odd]
    BY <1>6, <2>1, <2>2
  <2>4. m \in [bars : Books, at : 0..LastNow, odd : SUBSET Flaws]
    <3>1. now \in 0..LastNow BY <1>1, <1>2
    <3>2. QED BY <3>1, <2>2 DEF CacheTypeOK
  <2>5. m.bars # Empty /\ m.at = now
        /\ (m.odd = {} => NoHoles(m.bars) /\ ClosedBars(m.bars) /\ FreshAt(m.bars, m.at))
    BY <2>1, <2>2, <1>6
  <2>6. m.at <= now /\ now - m.at <= MemoryTtl BY <2>5, <1>2, CacheAssumption
  <2>7. answer' \in [bars : Books, odd : SUBSET Flaws] /\ AnswerInv'
    BY <2>3, <2>4, <2>5, <2>6, <1>2, <1>3, MemoryServes
  <2>8. MemoryInv' BY <2>3, <2>5, <2>6, <1>3 DEF MemoryInv
  <2>9. AsksInv' BY <1>3, <1>6 DEF AsksInv
  <2>10. QED BY <1>3, <1>4, <1>6, <2>3, <2>4, <2>7, <2>8, <2>9 DEF CacheTypeOK
<1>7. CASE /\ asks' = asks \cup {[kind |-> "recent", first |-> 1, last |-> LastNow, at |-> now]}
           /\ answer' = NoAnswer
           /\ UNCHANGED memory
  <2>1. PICK ask : ask = [kind |-> "recent", first |-> 1, last |-> LastNow, at |-> now] OBVIOUS
  <2>2. /\ ask \in Asks /\ ask.first <= ask.last /\ ask.at <= now
        /\ ask.kind # "window" /\ ask.last = LastNow
    <3>1. 1 \in Times /\ LastNow \in Times /\ 1 <= LastNow BY <1>1, <1>2
    <3>2. QED BY <3>1, <2>1, <1>2 DEF Asks
  <2>3. asks' = asks \cup {ask} BY <1>7, <2>1
  <2>4. asks' \subseteq Asks /\ AsksInv' BY <2>2, <2>3, <1>3 DEF CacheTypeOK, AsksInv
  <2>5. QED BY <1>3, <1>4, <1>7, <2>4, NothingServed DEF CacheTypeOK, MemoryInv
<1>8. QED BY <1>5, <1>6, <1>7 DEF AskRecent

\* The types and what an answer rests on.
LEMMA CacheInvariant == CacheSpec => []CacheInv
<1>1. CacheInit => CacheInv
  <2> SUFFICES ASSUME CacheInit PROVE CacheInv OBVIOUS
  <2>1. LastNow \in Nat /\ Times = 1..LastNow /\ FirstNow \in 1..LastNow /\ MaxWindows \in Nat
    BY CacheAssumption DEF Times
  <2>2. /\ now = FirstNow /\ memory = NoMemory /\ stored = Empty /\ meta = NoMeta
        /\ asks = {} /\ answer = NoAnswer /\ windows = 0 /\ odd = {}
    BY DEF CacheInit
  <2>3. 0 \in 0..LastNow /\ 0 \in 0..MaxWindows BY <2>1
  <2>4. CacheTypeOK BY <2>1, <2>2, <2>3, EmptyType DEF CacheTypeOK, NoMemory, NoMeta, NoAnswer
  <2>5. StoredInv BY <2>2, EmptyType DEF StoredInv, NoHoles, ClosedBars
  <2>6. MemoryInv BY <2>1, <2>2 DEF MemoryInv, NoMemory
  <2>7. AsksInv /\ AnswerInv BY <2>2 DEF AsksInv, AnswerInv, NoAnswer
  <2>8. QED BY <2>4, <2>5, <2>6, <2>7 DEF CacheInv
<1>2. CacheInv /\ [CacheNext]_cacheVars => CacheInv'
  <2> SUFFICES ASSUME CacheInv, [CacheNext]_cacheVars PROVE CacheInv' OBVIOUS
  <2>1. LastNow \in Nat /\ Times = 1..LastNow BY CacheAssumption DEF Times
  <2>2. now \in 1..LastNow /\ now \in Nat BY <2>1 DEF CacheInv, CacheTypeOK
  <2>3. CASE TimePasses
    <3>1. /\ now' = now + 1 /\ now < LastNow /\ answer' = NoAnswer
          /\ UNCHANGED <<memory, stored, meta, asks, windows, odd>>
      BY <2>3 DEF TimePasses
    <3>2. now' \in 1..LastNow /\ now' \in Nat BY <3>1, <2>1, <2>2
    <3>3. CacheTypeOK' BY <3>1, <3>2, <2>1, NothingServed DEF CacheInv, CacheTypeOK
    <3>4. StoredInv'
      <4>1. ASSUME NEW n \in In(stored) PROVE n <= stored[n] /\ stored[n] <= now'
        <5>1. stored[n] \in Nat BY BookFacts DEF CacheInv, CacheTypeOK
        <5>2. n <= stored[n] /\ stored[n] <= now BY DEF CacheInv, StoredInv
        <5>3. QED BY <5>1, <5>2, <3>1, <2>2
      <4>2. QED BY <4>1, <3>1 DEF CacheInv, StoredInv
    <3>5. MemoryInv'
      <4>1. memory.at \in Nat /\ memory.at <= now BY <2>1 DEF CacheInv, CacheTypeOK, MemoryInv
      <4>2. memory.at <= now' BY <4>1, <3>1, <2>2
      <4>3. QED BY <4>2, <3>1 DEF CacheInv, MemoryInv
    <3>6. AsksInv'
      <4>1. ASSUME NEW ask \in asks PROVE ask.at <= now'
        <5>1. ask.at \in Nat /\ ask.at <= now
          BY <2>1 DEF CacheInv, CacheTypeOK, AsksInv, Asks
        <5>2. QED BY <5>1, <3>1, <2>2
      <4>2. QED BY <4>1, <3>1 DEF CacheInv, AsksInv
    <3>7. QED BY <3>1, <3>3, <3>4, <3>5, <3>6, NothingServed DEF CacheInv
  <2>4. CASE AskRecent BY <2>4, AskRecentKeeps
  <2>5. CASE AskWindow
    <3>1. /\ windows' = windows + 1 /\ windows < MaxWindows /\ answer' = NoAnswer
          /\ UNCHANGED <<now, memory, stored, meta, odd>>
      BY <2>5 DEF AskWindow
    <3>2. PICK last \in 1..now, first \in Times :
            /\ first <= last
            /\ asks' = IF OnDisk(first, last) # Empty THEN asks
                       ELSE asks \cup {[kind |-> "window", first |-> first, last |-> last, at |-> now]}
      BY <2>5 DEF AskWindow
    <3>3. PICK ask : ask = [kind |-> "window", first |-> first, last |-> last, at |-> now] OBVIOUS
    <3>4. /\ ask \in Asks /\ ask.first <= ask.last /\ ask.at <= now
          /\ ask.kind = "window" /\ ask.last <= ask.at
      <4>1. last \in Times /\ last <= now /\ now \in Times BY <2>1, <2>2
      <4>2. QED BY <4>1, <3>2, <3>3, <2>2 DEF Asks
    <3>5. asks' \subseteq asks \cup {ask} BY <3>2, <3>3
    <3>6. asks' \subseteq Asks /\ AsksInv'
      BY <3>1, <3>4, <3>5 DEF CacheInv, CacheTypeOK, AsksInv
    <3>7. windows' \in 0..MaxWindows
      <4>1. windows \in 0..MaxWindows BY DEF CacheInv, CacheTypeOK
      <4>2. QED BY <4>1, <3>1, CacheAssumption
    <3>8. StoredInv' /\ MemoryInv' BY <3>1 DEF CacheInv, StoredInv, MemoryInv
    <3>9. CacheTypeOK' BY <3>1, <3>6, <3>7, NothingServed DEF CacheInv, CacheTypeOK
    <3>10. QED BY <3>1, <3>6, <3>8, <3>9, NothingServed DEF CacheInv
  <2>6. CASE \E ask \in asks : Answered(ask) BY <2>6, AnsweredKeeps
  <2>7. ASSUME NEW ask \in asks, Fails(ask) PROVE CacheInv'
    <3>1. /\ asks' = asks \ {ask} /\ answer' = NoAnswer
          /\ UNCHANGED <<now, memory, stored, meta, windows, odd>>
      BY <2>7 DEF Fails
    <3>2. StoredInv' /\ MemoryInv' /\ AsksInv'
      BY <3>1 DEF CacheInv, StoredInv, MemoryInv, AsksInv
    <3>3. CacheTypeOK' BY <3>1, NothingServed DEF CacheInv, CacheTypeOK
    <3>4. QED BY <3>1, <3>2, <3>3, NothingServed DEF CacheInv
  <2>8. CASE Evict
    <3>1. Evicted /\ answer' = NoAnswer /\ UNCHANGED <<now, asks, windows>> BY <2>8 DEF Evict
    <3>2. AsksInv' BY <3>1 DEF CacheInv, AsksInv
    <3>3. CASE memory' = NoMemory /\ UNCHANGED <<stored, meta, odd>>
      <4>1. StoredInv' BY <3>1, <3>3 DEF CacheInv, StoredInv
      <4>2. memory' \in [bars : Books, at : 0..LastNow, odd : SUBSET Flaws] /\ MemoryInv'
        BY <3>1, <3>3, <2>2, NothingInMemory
      <4>3. CacheTypeOK' BY <3>1, <3>3, <4>2, NothingServed DEF CacheInv, CacheTypeOK
      <4>4. QED BY <3>1, <3>2, <4>1, <4>2, <4>3, NothingServed DEF CacheInv
    <3>4. CASE stored' = Empty /\ meta' = NoMeta /\ odd' = {} /\ UNCHANGED memory
      <4>1. StoredInv' BY <3>4, EmptyType DEF StoredInv, NoHoles, ClosedBars
      <4>2. MemoryInv' BY <3>1, <3>4 DEF CacheInv, MemoryInv
      <4>3. 0 \in 0..LastNow BY <2>1
      <4>4. CacheTypeOK' BY <3>1, <3>4, <4>3, EmptyType, NothingServed DEF CacheInv, CacheTypeOK, NoMeta
      <4>5. QED BY <3>1, <3>2, <4>1, <4>2, <4>4, NothingServed DEF CacheInv
    <3>5. QED BY <3>1, <3>3, <3>4 DEF Evicted
  <2>9. CASE Restart
    <3>1. /\ memory' = NoMemory /\ asks' = {} /\ answer' = NoAnswer
          /\ UNCHANGED <<now, stored, meta, windows, odd>>
      BY <2>9 DEF Restart
    <3>2. memory' \in [bars : Books, at : 0..LastNow, odd : SUBSET Flaws] /\ MemoryInv'
      BY <3>1, <2>2, NothingInMemory
    <3>3. StoredInv' /\ AsksInv' BY <3>1 DEF CacheInv, StoredInv, AsksInv
    <3>4. CacheTypeOK' BY <3>1, <3>2, NothingServed DEF CacheInv, CacheTypeOK
    <3>5. QED BY <3>1, <3>2, <3>3, <3>4, NothingServed DEF CacheInv
  <2>10. CASE UNCHANGED cacheVars
    BY <2>10 DEF cacheVars, CacheInv, CacheTypeOK, StoredInv, MemoryInv, AsksInv, AnswerInv
  <2>11. QED BY <2>3, <2>4, <2>5, <2>6, <2>7, <2>8, <2>9, <2>10 DEF CacheNext
<1>3. QED BY <1>1, <1>2, PTL DEF CacheSpec

\* An answer of recent bars has no hole and no unfinished bar but the last, and is as new
\* as the ages of the two caches promise (GET /ohlcv and GET /bars).
THEOREM AnswersAreSound == CacheSpec => []RecentAnswerIsSound
<1>1. ASSUME CacheInv PROVE RecentAnswerIsSound
  <2>1. CacheTypeOK BY <1>1 DEF CacheInv
  <2>2. ASSUME answer.bars # Empty, answer.odd = {}
        PROVE  LET newest == NewestBar(answer.bars)
               IN  /\ \A n \in Min(In(answer.bars))..newest : answer.bars[n] # 0
                   /\ \A n \in In(answer.bars) \ {newest} : answer.bars[n] > n
                   /\ newest + MemoryTtl + Max({RecentTtl, HistoricalThreshold}) > now
    <3>1. PICK b \in Books : b = answer.bars BY <2>1 DEF CacheTypeOK
    <3>2. NoHoles(b) /\ ClosedBars(b) /\ FreshAt(b, now - MemoryTtl)
      BY <3>1, <2>2, <1>1 DEF CacheInv, AnswerInv
    <3>3. PICK newest : newest = NewestBar(b) OBVIOUS
    <3>4. /\ newest \in In(b) /\ \A n \in In(b) : n <= newest
          /\ Min(In(b)) \in In(b)
      BY <3>1, <3>3, <2>2, NewestIs
    <3>5. \A n \in In(b) : n \in Nat BY BookFacts
    <3>6. \A n \in Min(In(b))..newest : b[n] # 0 BY <3>2, <3>4 DEF NoHoles
    <3>7. ASSUME NEW n \in In(b) \ {newest} PROVE b[n] > n
      <4>1. n < newest BY <3>4, <3>5
      <4>2. QED BY <4>1, <3>2, <3>4 DEF ClosedBars
    <3>8. newest + MemoryTtl + DiskAge > now
      <4>1. PICK n \in In(b) : n + DiskAge > now - MemoryTtl BY <3>2 DEF FreshAt, DiskAge
      <4>2. n \in Nat /\ newest \in Nat /\ n <= newest BY <3>4, <3>5
      <4>3. now \in Nat BY <2>1, CacheAssumption DEF CacheTypeOK, Times
      <4>4. QED BY <4>1, <4>2, <4>3, DiskAgeType, CacheAssumption
    <3>9. QED BY <3>1, <3>3, <3>6, <3>7, <3>8 DEF DiskAge
  <2>3. QED BY <2>1, <2>2 DEF RecentAnswerIsSound
<1>2. QED BY <1>1, CacheInvariant, PTL
=============================================================================
