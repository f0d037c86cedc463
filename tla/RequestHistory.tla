--------------------------- MODULE RequestHistory ---------------------------
(***************************************************************************)
(* The stored request log: its indexes and their repair at startup, the    *)
(* retention worker, the paged listing of admin/request_logs.rs and the    *)
(* figures infra/telemetry/history.rs derives from one reverse pass.       *)
(***************************************************************************)
EXTENDS Integers, Sequences, FiniteSets

CONSTANTS
    LogIds,                \* identities of log records, ordered as their keys
    MaxTime,               \* bound of the clock
    LogRetention,          \* request_log_retention_days
    MaxRows,               \* request_log_max_rows
    PruneBatch,            \* REQUEST_LOG_PRUNE_BATCH_SIZE
    PageLimit,             \* rows of a page
    ScanRows,              \* MAX_HISTORY_SCAN_ROWS
    LatencyBounds          \* upper bounds of the latency buckets

ASSUME HistoryAssumption ==
    /\ LogIds \subseteq Nat /\ IsFiniteSet(LogIds) /\ MaxTime \in Nat \ {0}
    /\ \A n \in {LogRetention, MaxRows, PruneBatch, PageLimit, ScanRows} : n \in Nat \ {0}
    /\ LatencyBounds \in Seq(Nat) \ {<<>>}
    /\ \A b, c \in 1..Len(LatencyBounds) : b < c => LatencyBounds[b] <= LatencyBounds[c]

VARIABLES
    row,          \* RequestLogs: [at, ok, ms] by id; at = 0 when there is none
    byTime, byDesc, rowCount,     \* the two indexes and request_log_count
    started,      \* the process has opened the database
    pruner,       \* the retention worker runs or sleeps
    now,
    listing       \* a client turning the pages

histVars == <<row, byTime, byDesc, rowCount, started, pruner, now, listing>>

NoLog == [at |-> 0, ok |-> TRUE, ms |-> 1]
Present == {i \in LogIds : row[i].at > 0}
Key(i) == <<row[i].at, i>>
Before(a, b) == a[1] < b[1] \/ (a[1] = b[1] /\ a[2] < b[2])
NotListing == [on |-> FALSE, filter |-> "all", cursor |-> <<0, 0>>, seen |-> <<>>, due |-> {}]

\* An environment of an earlier version has rows that its indexes do not name.
HistInit ==
    /\ row \in [LogIds -> {NoLog, [NoLog EXCEPT !.at = 1]}]
    /\ byTime \in SUBSET {Key(i) : i \in Present}
    /\ byDesc \in {{}, byTime} /\ rowCount \in {Cardinality(byTime), Cardinality(Present)}
    /\ started = FALSE /\ pruner = "sleep" /\ now = 1 /\ listing = NotListing

NeedsRepair ==
    \/ rowCount # Cardinality(Present)
    \/ Cardinality(byTime) # Cardinality(Present) \/ Cardinality(byDesc) # Cardinality(Present)
\* repair_request_log_indexes, before anything else runs; an older format marker
\* has the indexes rebuilt whatever they hold.
Repair ==
    /\ ~started /\ started' = TRUE
    /\ \/ /\ byTime' = {Key(i) : i \in Present} /\ byDesc' = {Key(i) : i \in Present}
          /\ rowCount' = Cardinality(Present)
       \/ ~NeedsRepair /\ UNCHANGED <<byTime, byDesc, rowCount>>
    /\ pruner' = "run" /\ UNCHANGED <<row, now, listing>>

\* persist_batch: a record under a new id, with the time of the batch
InsertLog(i, ok, ms) ==
    /\ started /\ row[i].at = 0 /\ <<now, i>> \notin byTime
    /\ row' = [row EXCEPT ![i] = [at |-> now, ok |-> ok, ms |-> ms]]
    /\ byTime' = byTime \cup {<<now, i>>} /\ byDesc' = byDesc \cup {<<now, i>>}
    /\ rowCount' = rowCount + 1
    /\ UNCHANGED <<started, pruner, now, listing>>

\* A row that goes is no longer due in a listing under way.
Forgotten(ids) == listing' = [listing EXCEPT !.due = @ \ ids]

-----------------------------------------------------------------------------
(* The retention worker.                                                   *)
Oldest(keys, n) == {k \in keys : Cardinality({o \in keys : Before(o, k)}) < n}
\* usize::try_from(count - max_rows).unwrap_or(usize::MAX): below the limit
\* the difference is negative and the conversion fails.
Overflow == IF rowCount >= MaxRows THEN rowCount - MaxRows ELSE Cardinality(LogIds)
Cutoff == now - LogRetention
\* The oldest rows, up to the first that is recent and not in excess.
PruneSet ==
    LET batch == Oldest(byTime, PruneBatch)
        rank(k) == Cardinality({o \in batch : Before(o, k)})
        keeps(k) == k[1] >= Cutoff /\ rank(k) >= Overflow
    IN {k \in batch : \A o \in batch : keeps(o) => Before(k, o)}
DescAfterPrune(keys) == byDesc \ keys
\* prune_request_logs_batch, again and again while it changed something
Prune ==
    /\ started /\ pruner = "run"
    /\ LET gone == PruneSet
       IN /\ row' = [i \in LogIds |-> IF Key(i) \in gone THEN NoLog ELSE row[i]]
          /\ byTime' = byTime \ gone /\ byDesc' = DescAfterPrune(gone)
          /\ rowCount' = rowCount - Cardinality(gone)
          /\ pruner' = IF gone = {} THEN "sleep" ELSE "run"
          /\ Forgotten({k[2] : k \in gone})
    /\ UNCHANGED <<started, now>>
\* An hour, or new settings; a failed batch waits a minute.
PrunerWakes == started /\ pruner = "sleep" /\ pruner' = "run" /\ UNCHANGED <<row, byTime, byDesc, rowCount, started, now, listing>>

\* delete_request_logs, through the telemetry writer
ClearLogs ==
    /\ started /\ row' = [i \in LogIds |-> NoLog] /\ byTime' = {} /\ byDesc' = {} /\ rowCount' = 0
    /\ Forgotten(LogIds) /\ UNCHANGED <<started, pruner, now>>

-----------------------------------------------------------------------------
(* The listing.                                                            *)
Matches(i, filter) == filter = "all" \/ (filter = "success") = row[i].ok
BeginListing(filter) ==
    /\ started /\ ~listing.on
    /\ listing' = [on |-> TRUE, filter |-> filter, cursor |-> <<MaxTime + 1, 0>>, seen |-> <<>>,
                   due |-> {i \in Present : Matches(i, filter)}]
    /\ UNCHANGED <<row, byTime, byDesc, rowCount, started, pruner, now>>

\* The ids of the keys, newest first.
Descending(keys) ==
    [n \in 1..Cardinality(keys) |-> (CHOOSE k \in keys : Cardinality({o \in keys : Before(k, o)}) = n - 1)[2]]
\* Mutant: the cursor of a page is the row that showed there are more.
NextCursorPeeked(found) == Key(found[PageLimit + 1])
\* encode_request_cursor of the last row shown
NextCursor(found) == Key(found[PageLimit])
\* list_requests: one row more than the page shows that there is a next one
NextPage ==
    /\ listing.on
    /\ LET rows == {k \in byTime : Before(k, listing.cursor) /\ Matches(k[2], listing.filter)}
           found == Descending(rows)
           more == Len(found) > PageLimit
       IN listing' = IF more THEN [listing EXCEPT !.cursor = NextCursor(found), !.seen = @ \o SubSeq(found, 1, PageLimit)]
                     ELSE [listing EXCEPT !.on = FALSE, !.seen = @ \o found]
    /\ UNCHANGED <<row, byTime, byDesc, rowCount, started, pruner, now>>

HistTick ==
    /\ started /\ now < MaxTime /\ now' = now + 1
    /\ UNCHANGED <<row, byTime, byDesc, rowCount, started, pruner, listing>>
HistRestart ==
    /\ started /\ started' = FALSE /\ pruner' = "sleep" /\ listing' = NotListing
    /\ UNCHANGED <<row, byTime, byDesc, rowCount, now>>

-----------------------------------------------------------------------------
(* scan_history over the range that begins at `from`.                      *)
InRange(from) == {k \in byTime : k[1] >= from}
Newest(n) == {k \in byTime : Cardinality({o \in byTime : Before(k, o)}) < n}
\* The rows it covers, and whether it stopped at its limit.
Covered(from) == InRange(from) \cap Newest(ScanRows)
ScanTruncated(from) == Cardinality(byTime) >= ScanRows /\ Newest(ScanRows) \subseteq InRange(from)

Buckets == 1..(Len(LatencyBounds) + 1)
\* latency_bucket: the first bound that is not exceeded, else the open one
LatencyBucket(ms) ==
    CHOOSE b \in Buckets : /\ b <= Len(LatencyBounds) => ms <= LatencyBounds[b]
                           /\ \A c \in 1..(b - 1) : ms > LatencyBounds[c]
Samples(from, b) == Cardinality({k \in Covered(from) : LatencyBucket(row[k[2]].ms) <= b})
\* latency_summary: rank ceil(percent / 100 * samples), at least 1
Rank(from, percent) ==
    LET n == Cardinality(Covered(from)) r == (percent * n + 99) \div 100 IN IF r < 1 THEN 1 ELSE r
PercentileBucket(from, percent) ==
    CHOOSE b \in Buckets : Samples(from, b) >= Rank(from, percent)
                           /\ \A c \in 1..(b - 1) : Samples(from, c) < Rank(from, percent)
IsFloor(from, percent) == Samples(from, Len(LatencyBounds)) < Rank(from, percent)
PercentileMs(from, percent) ==
    LET b == PercentileBucket(from, percent) IN LatencyBounds[IF b > Len(LatencyBounds) THEN b - 1 ELSE b]

HistNext ==
    \/ Repair \/ Prune \/ PrunerWakes \/ ClearLogs \/ NextPage \/ HistTick \/ HistRestart
    \/ \E i \in LogIds : InsertLog(i, TRUE, 2) \/ InsertLog(i, FALSE, 1)
    \/ \E filter \in {"all", "success"} : BeginListing(filter)
HistSpec == HistInit /\ [][HistNext]_histVars

-----------------------------------------------------------------------------
(***************************************************************************)
(* While the process runs, both indexes name every record and nothing      *)
(* else, and the counter agrees: no listing fails on "request log index    *)
(* points to a missing record", whatever environment was opened.           *)
(***************************************************************************)
LogIndexAgrees ==
    started => /\ byTime = {Key(i) : i \in Present} /\ byDesc = byTime
               /\ rowCount = Cardinality(Present)

(***************************************************************************)
(* A listing turned to its last page has shown every row that matched and  *)
(* was there all the while exactly once, newest first, though rows came    *)
(* and went between the pages.                                             *)
(***************************************************************************)
PagingComplete ==
    LET seen == {listing.seen[n] : n \in 1..Len(listing.seen)}
    IN /\ Cardinality(seen) = Len(listing.seen)
       /\ started /\ ~listing.on /\ listing.seen # <<>> => listing.due \subseteq seen

(***************************************************************************)
(* Figures not marked as truncated cover every stored request of the       *)
(* range, and a percentile "can only overstate" (history.rs:422) unless it *)
(* is marked as a floor.                                                   *)
(***************************************************************************)
FiguresHonest ==
    started => \A from \in 1..MaxTime :
        /\ ~ScanTruncated(from) => Covered(from) = InRange(from)
        /\ Covered(from) # {} => \A percent \in {50, 99} :
             LET below == {k \in Covered(from) : row[k[2]].ms <= PercentileMs(from, percent)}
             IN IF IsFloor(from, percent)
                THEN Cardinality(below) < Rank(from, percent)
                ELSE Cardinality(below) >= Rank(from, percent)

(***************************************************************************)
(* "Days request telemetry and logs are kept before pruning"               *)
(* (web/src/features/settings/operational-settings.config.ts:188): the     *)
(* worker removes a row only when it is too old or one too many.           *)
(***************************************************************************)
RecentRowsKept ==
    started => Cardinality({k \in PruneSet : k[1] >= Cutoff}) <= (IF rowCount > MaxRows THEN rowCount - MaxRows ELSE 0)

\* The stored history: rows, indexes and counter agree, pages miss and repeat
\* nothing that stayed, and figures from an incomplete scan say so.
HistorySound ==
    /\ LogIndexAgrees
    /\ PagingComplete
    /\ FiguresHonest
=============================================================================
