---------------------------- MODULE TradeHistory ----------------------------
(***************************************************************************)
(* The store of closed trades (src/trading/trade-history-store.ts): an     *)
(* append-only file of one JSON record per line, the newest Threshold      *)
(* records of it in memory, an archive file for those that left memory,    *)
(* two memoized statistics and a paginated history for clients.  Appends   *)
(* may fail or stop in the middle of a line, archive writes and reads may  *)
(* fail, and the process may crash at any of them and restart.             *)
(***************************************************************************)
EXTENDS Integers, FiniteSets, FiniteSetsExt, Sequences, SequencesExt

CONSTANTS
    Threshold,   \* ROTATION_THRESHOLD
    PageSize,    \* options.limit of a page
    IdRank,      \* IdRank[n]: place of the id of trade n in string order
    Unknown,     \* the trades that are recorded with status 'unknown'
    MaxTrades,   \* bound: trades ever closed
    MaxTime,     \* bound: the wall clock
    MaxFaults,   \* bound: writes and reads that fail
    NoTrade      \* the null cursor

ASSUME StoreAssumption ==
    /\ Threshold \in Nat \ {0} /\ PageSize \in Nat \ {0}
    /\ MaxTrades \in Nat /\ MaxTime \in Nat /\ MaxFaults \in Nat
    /\ IdRank \in [1..MaxTrades -> Nat]
    /\ \A m, n \in 1..MaxTrades : IdRank[m] = IdRank[n] => m = n
    /\ Unknown \subseteq 1..MaxTrades

Trade == [id : 1..MaxTrades, closedAt : 0..MaxTime]

ASSUME NoTradeAssumption == NoTrade \notin Trade

\* A file of lines: the records of those that parse, whether the last line does
\* (a file without lines has none that does), and whether it has its newline.
File == [records : Seq(Trade), last : {"whole", "torn"}, ended : BOOLEAN]
EmptyFile == [records |-> <<>>, last |-> "torn", ended |-> TRUE]
Caches == {"stats", "grouped"}
Filters == {"all", "confirmed"}

VARIABLES
    up,        \* the process is running
    trades,    \* the records in memory, oldest first
    file,      \* trades.jsonl
    archive,   \* trades-archive.jsonl
    memo,      \* of each memoized value: is it marked dirty, which key and
               \* which trades was it computed of
    walk,      \* a client that pages through the history
    recorded,  \* trades the engine has tried to record
    clock,     \* closedAt of the last trade
    faults,    \* faults so far
    served,    \* ghost: every record that ever was in memory
    torn,      \* ghost: appends to the file that stopped half way
    excused    \* ghost: records an archive write or a read lost sight of

disk == <<file, archive>>
ghosts == <<served, torn, excused>>
vars == <<up, trades, file, archive, memo, walk, recorded, clock, faults,
          served, torn, excused>>

Readable(f) == ToSet(f.records)

TypeOK ==
    /\ up \in BOOLEAN
    /\ trades \in Seq(Trade) /\ Len(trades) <= Threshold
    /\ file \in File /\ archive \in File
    /\ memo \in [Caches -> [dirty : BOOLEAN, key : Filters, of : SUBSET Trade]]
    /\ walk \in [filter : Filters, cursor : Trade \union {NoTrade},
                 start : SUBSET Trade, seen : SUBSET Trade, done : BOOLEAN]
    /\ recorded \in 0..MaxTrades /\ clock \in 0..MaxTime
    /\ faults \in 0..MaxFaults
    /\ served \subseteq Trade /\ excused \subseteq Trade /\ torn \in 0..MaxFaults

NoWalk == [filter |-> "all", cursor |-> NoTrade, start |-> {}, seen |-> {},
           done |-> TRUE]

\* A value that is marked dirty is never read again: what it was does not matter.
Dirty == [dirty |-> TRUE, key |-> "all", of |-> {}]

Init ==
    /\ up = TRUE /\ trades = <<>>
    /\ file = EmptyFile /\ archive = EmptyFile
    /\ memo = [c \in Caches |-> Dirty]
    /\ walk = NoWalk
    /\ recorded = 0 /\ clock = 0 /\ faults = 0
    /\ served = {} /\ torn = 0 /\ excused = {}

-----------------------------------------------------------------------------
(* Appending                                                               *)

\* Mutant: the newline stands between records and not after each.
MutantAppendToFile(f, rs, end) ==
    IF rs = <<>> /\ end = "newline" THEN f
    ELSE [records |-> (IF f.last = "whole" /\ ~f.ended THEN Front(f.records) ELSE f.records)
                      \o (IF f.ended THEN rs ELSE Tail(rs)),
          last |-> IF ~f.ended /\ Len(rs) = 1 THEN "torn" ELSE "whole",
          ended |-> FALSE]

\* f after an append of the records rs, which ended with the newline of the
\* last one, just before it, or with a piece of one more.  What follows an
\* unterminated line makes one line with it, which no longer parses.
AppendToFile(f, rs, end) ==
    IF rs = <<>> /\ end = "newline" THEN f
    ELSE LET glued == ~f.ended
         IN  [records |-> (IF glued /\ f.last = "whole" THEN Front(f.records)
                           ELSE f.records)
                          \o (IF glued /\ rs # <<>> THEN Tail(rs) ELSE rs),
              last |-> IF end = "piece" \/ (glued /\ Len(rs) = 1) THEN "torn"
                       ELSE "whole",
              ended |-> end = "newline"]

\* The writes of block that stop half way: some of its records, then nothing
\* or a piece of the next one, or all but the last newline.
Partial(f, block) ==
    { AppendToFile(f, SubSeq(block, 1, k), end) :
        k \in 0..(Len(block) - 1), end \in {"newline", "piece"} }
    \union { AppendToFile(f, SubSeq(block, 1, k), "record") : k \in 1..Len(block) }

\* The overflow goes to the archive, best effort: nobody learns of a failure.
Archive(block) ==
    /\ IF block = <<>> THEN UNCHANGED <<archive, faults>>
       ELSE \/ archive' = AppendToFile(archive, block, "newline") /\ UNCHANGED faults
            \/ /\ faults < MaxFaults /\ faults' = faults + 1
               /\ archive' \in Partial(archive, block)
    /\ excused' = excused \union
           ((Readable(archive) \union ToSet(block)) \ Readable(archive'))

\* The oldest records over the threshold, and the ones that stay.
Overflow(s) == SubSeq(s, 1, Len(s) - Threshold)
Newest(s) == IF Len(s) <= Threshold THEN s
             ELSE SubSeq(s, Len(s) - Threshold + 1, Len(s))

\* Ghost: of the records a walk began with, those that never left the history.
Surviving == IF up' THEN [walk EXCEPT !.start = @ \intersect ToSet(trades')] ELSE walk

\* recordTrade(): the append comes first; only then memory, the caches and
\* the rotation.
RecordTrade(trade) ==
    /\ file' = AppendToFile(file, <<trade>>, "newline")
    /\ trades' = Newest(Append(trades, trade))
    /\ served' = served \union {trade}
    /\ memo' = [c \in Caches |-> Dirty]
    /\ Archive(Overflow(Append(trades, trade)))
    /\ UNCHANGED <<up, torn>>

\* The append throws, or the process dies in it, with nothing, a part or all
\* but the newline of the record written; recordTrade() returns false.
RecordFails(trade) ==
    /\ faults < MaxFaults /\ faults' = faults + 1
    /\ file' \in Partial(file, <<trade>>)
    /\ torn' = IF file' = file THEN torn ELSE torn + 1
    /\ \/ UNCHANGED <<up, trades>>
       \/ up' = FALSE /\ trades' = <<>>
    /\ UNCHANGED <<archive, memo, served, excused>>

\* A position is closed and its trade recorded; ids grow, the clock never
\* goes back, and two trades may close in one millisecond.
PersistClosedTrade ==
    /\ up /\ recorded < MaxTrades /\ recorded' = recorded + 1
    /\ \E t \in clock..MaxTime :
          /\ clock' = t
          /\ LET trade == [id |-> recorded + 1, closedAt |-> t]
             IN  RecordTrade(trade) \/ RecordFails(trade)
    /\ walk' = Surviving

Crash ==
    /\ up /\ up' = FALSE /\ trades' = <<>>
    /\ UNCHANGED <<disk, memo, walk, recorded, clock, faults, ghosts>>

-----------------------------------------------------------------------------
(* Loading                                                                 *)

\* Mutant: the block begins one record too late.
MutantKeepFrom(loaded, excess) ==
    LET at == { i \in DOMAIN loaded :
                  archive.last = "whole" /\ loaded[i] = Last(archive.records) }
    IN  IF at = {} THEN 0 ELSE Min({Min(at) + 1, excess})

\* Where the block to archive begins: behind the record of the last line of
\* the archive, if that line parses and the record is among the loaded.
KeepFrom(loaded, excess) ==
    LET at == { i \in DOMAIN loaded :
                  archive.last = "whole" /\ loaded[i] = Last(archive.records) }
    IN  IF at = {} THEN 0 ELSE Min({Min(at), excess})

\* applyRotation() at startup.
ApplyRotation(loaded) ==
    LET excess == Len(loaded) - Threshold
    IN  /\ trades' = Newest(loaded)
        /\ Archive(IF excess <= 0 THEN <<>>
                   ELSE SubSeq(loaded, KeepFrom(loaded, excess) + 1, excess))

\* loadExisting(): lines that do not parse are skipped.
LoadExisting ==
    /\ ~up /\ up' = TRUE
    /\ ApplyRotation(file.records)
    /\ served' = served \union ToSet(trades')
    /\ memo' = [c \in Caches |-> Dirty]
    /\ UNCHANGED <<file, recorded, clock, torn>>
    /\ walk' = Surviving

\* A file that cannot be read is a history that starts afresh.
LoadFails ==
    /\ ~up /\ up' = TRUE
    /\ faults < MaxFaults /\ faults' = faults + 1
    /\ trades' = <<>>
    /\ excused' = excused \union (Readable(file) \ Readable(archive))
    /\ memo' = [c \in Caches |-> Dirty]
    /\ UNCHANGED <<disk, recorded, clock, served, torn>>
    /\ walk' = Surviving

-----------------------------------------------------------------------------
(* Reading                                                                 *)

\* applyFilters() with a status, and the trades that count in statistics.
Visible(filter) ==
    { t \in ToSet(trades) : filter = "all" \/ t.id \notin Unknown }

\* Mutant: one flag for both memoized values.
MutantGetStats(c, key) ==
    /\ up
    /\ memo[c].dirty \/ memo[c].key # key
    /\ memo' = [d \in Caches |->
                  IF d = c THEN [dirty |-> FALSE, key |-> key, of |-> Visible(key)]
                  ELSE [memo[d] EXCEPT !.dirty = FALSE]]
    /\ UNCHANGED <<up, trades, disk, walk, recorded, clock, faults, ghosts>>

\* getStats() and getGroupedStats(): each clears its own flag only.
GetStats(c, key) ==
    /\ up
    /\ memo[c].dirty \/ memo[c].key # key
    /\ memo' = [memo EXCEPT ![c] =
                  [dirty |-> FALSE, key |-> key, of |-> Visible(key)]]
    /\ UNCHANGED <<up, trades, disk, walk, recorded, clock, faults, ghosts>>

\* The order of the history: closedAt, then id, both descending.
Newer(t, u) ==
    \/ t.closedAt > u.closedAt
    \/ t.closedAt = u.closedAt /\ IdRank[t.id] > IdRank[u.id]

\* Mutant: a cursor of the time alone.
MutantAfter(cursor, t) == cursor = NoTrade \/ cursor.closedAt > t.closedAt

\* The records that a cursor leaves for the next page.
After(cursor, t) == cursor = NoTrade \/ Newer(cursor, t)

\* getTradesPage(): the newest PageSize of what is after the cursor; the last
\* one is the next cursor.
GetTradesPage(filter, cursor, start, seen) ==
    LET left == { t \in Visible(filter) : After(cursor, t) }
    IN  \E page \in SUBSET left :
          /\ \A t \in page : \A u \in left \ page : Newer(t, u)
          /\ IF Cardinality(left) > PageSize THEN Cardinality(page) = PageSize
             ELSE page = left
          /\ \E last \in page \union {NoTrade} :
               /\ page = {} <=> last = NoTrade
               /\ \A t \in page \ {last} : Newer(t, last)
               /\ walk' = [filter |-> filter, cursor |-> last, start |-> start,
                           seen |-> seen \union page, done |-> page = left]

FirstPage(filter) ==
    /\ up /\ GetTradesPage(filter, NoTrade, Visible(filter), {})
    /\ UNCHANGED <<up, trades, disk, memo, recorded, clock, faults, ghosts>>

NextPage ==
    /\ up /\ ~walk.done
    /\ GetTradesPage(walk.filter, walk.cursor, walk.start, walk.seen)
    /\ UNCHANGED <<up, trades, disk, memo, recorded, clock, faults, ghosts>>

Next ==
    \/ PersistClosedTrade \/ Crash \/ LoadExisting \/ LoadFails
    \/ \E c \in Caches, key \in Filters : GetStats(c, key)
    \/ \E filter \in Filters : FirstPage(filter)
    \/ NextPage

Spec == Init /\ [][Next]_vars

-----------------------------------------------------------------------------
(* Properties                                                              *)

\* A client that follows the cursor to the end sees every record that was in
\* the history when it began and stayed there, and none twice, although trades
\* close, rotate out and survive restarts between its pages, several of them
\* in one millisecond: what it has seen is at or before the cursor, and what
\* it has not seen is behind it, and nothing is once hasMore is false.
WalkIsExact ==
    /\ \A t \in walk.start \intersect ToSet(trades) :
          t \in walk.seen \/ (~walk.done /\ After(walk.cursor, t))
    /\ ~walk.done => \A t \in walk.seen : ~After(walk.cursor, t)

\* A memoized statistic that is not marked dirty was computed of the trades
\* that are in memory now, whichever of the two was asked for in between.
StatsAreFresh ==
    up => \A c \in Caches : memo[c].dirty \/ memo[c].of = Visible(memo[c].key)

\* What was once shown to a reader is still in the file after any number of
\* restarts, but for the two records next to an append that stopped half way:
\* the one that was cut and the one that is glued to it.
LossIsBounded == Cardinality(served \ Readable(file)) <= 2 * torn

\* No record falls between memory and the archive: what was once served and
\* can be read in the file is served still or archived, unless an archive
\* write failed on it or a whole read of the file did.
NothingFallsBetween ==
    up => served \intersect Readable(file) \subseteq
              ToSet(trades) \union Readable(archive) \union excused
=============================================================================
