------------------------------ MODULE Telemetry ------------------------------
(***************************************************************************)
(* Usage statistics and meters: infra/telemetry.                           *)
(*                                                                         *)
(* Requests hand their events to a bounded queue without waiting.  One     *)
(* writer task takes them in batches into the database: a count per minute *)
(* and dimension, rolling windows over them with an index of their order,  *)
(* and a meter per credential.  What the queue or the database refuses is  *)
(* counted, first in memory and later in the database.                     *)
(***************************************************************************)
EXTENDS Integers, Sequences, FiniteSets

CONSTANTS
    ModelCount,             \* dimension 0 is the total, 1..ModelCount a model
    Windows,                \* lengths of the rolling windows, in minutes
    Retention,              \* minutes a count per minute is kept
    PageRows,               \* rows one expiry step visits
    QueueCap, BatchCap,
    MaxEvents, MaxMinute    \* bounds of a behaviour

ASSUME TelemetryAssumption ==
    /\ ModelCount \in Nat /\ Retention \in Nat /\ MaxEvents \in Nat /\ MaxMinute \in Nat
    /\ Windows # {} /\ Windows \subseteq Nat \ {0} /\ \A w \in Windows : w < Retention
    /\ \A n \in {PageRows, QueueCap, BatchCap} : n \in Nat \ {0}

Dims == 0..ModelCount
PastAll == ModelCount + 1          \* a cursor behind every row of its minute
Minutes == 0..MaxMinute
Longest == CHOOSE w \in Windows : \A v \in Windows : v <= w
Shortest == CHOOSE w \in Windows : \A v \in Windows : w <= v
\* The sum of the values of f, natural numbers: as many pairs as f has units.
SumOf(f) == Cardinality(UNION {{k} \X (1..f[k]) : k \in DOMAIN f})
NoLoss == [all |-> 0, meter |-> 0]

VARIABLES
    queue, batch,
    pending,       \* where the writer is, and whom it answers
    drops, saved,  \* events dropped since the last clear; how many are in the database
    perMinute, window, order, cursor, meter, dropped,   \* tables of the database
    credential,    \* the credential of the meter exists
    guard,         \* holder of drop_state_lock
    minute,        \* the clock
    fuel,          \* events and commands a behaviour may still begin
    \* What really happened, for the properties.
    lost,          \* events dropped since the last clear
    sent, kept,    \* events handed in, and those whose fate is in the database
    flushed,       \* the last answer to a flush
    reading, report  \* a statistics request, and what it answered

tables == <<perMinute, window, order, cursor, meter, dropped>>
readerVars == <<reading, report>>
telVars == <<queue, batch, pending, drops, saved, tables, credential, guard, minute, fuel, lost, sent, kept,
             flushed, readerVars>>

Ready == [at |-> "select", reply |-> FALSE, ok |-> TRUE, mark |-> 0, seen |-> NoLoss, todo |-> {},
          now |-> 0]

TelInit ==
    /\ queue = <<>> /\ batch = <<>> /\ pending = Ready
    /\ drops = NoLoss /\ saved = NoLoss /\ dropped = NoLoss
    /\ perMinute = [m \in Minutes |-> [d \in Dims |-> 0]]
    /\ window = [w \in Windows |-> [d \in Dims |-> 0]] /\ order = {}
    /\ cursor = [w \in Windows |-> <<-w, PastAll>>]
    /\ meter = [m \in Minutes |-> 0] /\ credential = TRUE
    /\ guard = "free" /\ minute = 0 /\ fuel = MaxEvents
    /\ lost = 0 /\ sent = 0 /\ kept = 0 /\ flushed = [ok |-> FALSE, mark |-> 0, kept |-> 0]
    /\ reading = [on |-> FALSE, seen |-> 0, lost |-> 0] /\ report = [drops |-> 0, lost |-> 0]

-----------------------------------------------------------------------------
(* The side of the requests.                                               *)
PlusDrop(c, kind) == [all |-> c.all + 1, meter |-> IF kind = "meter" THEN c.meter + 1 ELSE c.meter]

\* enqueue, note_drop; RequestAnalytics::finish and record_provider_usage
\* stamp the event with the minute it is handed in.
Enqueue(kind, d) ==
    /\ fuel > 0 /\ fuel' = fuel - 1 /\ sent' = sent + 1
    /\ IF Len(queue) < QueueCap
       THEN queue' = Append(queue, [kind |-> kind, dim |-> d, minute |-> minute]) /\ UNCHANGED <<drops, lost>>
       ELSE drops' = PlusDrop(drops, kind) /\ lost' = lost + 1 /\ UNCHANGED queue
    /\ UNCHANGED <<batch, pending, saved, tables, credential, guard, minute, kept, flushed, readerVars>>

\* flush_within and clear_request_history wait for room in the queue.
Ask(kind) ==
    /\ fuel > 0 /\ fuel' = fuel - 1 /\ Len(queue) < QueueCap
    /\ queue' = Append(queue, [kind |-> kind, dim |-> 0, minute |-> sent])
    /\ UNCHANGED <<batch, pending, drops, saved, tables, credential, guard, minute, lost, sent, kept, flushed,
                   readerVars>>

-----------------------------------------------------------------------------
(* The batch.                                                              *)
Events(kind, m, d) == Cardinality({n \in 1..Len(batch) : batch[n].kind = kind /\ batch[n].minute = m
                                                         /\ (d = 0 \/ batch[n].dim = d)})
AddedTo(d) == Cardinality({n \in 1..Len(batch) : batch[n].kind = "stat" /\ (d = 0 \/ batch[n].dim = d)})

\* update_window_counts: the old place in the order goes, the new one comes.
Reordered(old, new) ==
    (order \ {<<w, d, old[w][d]>> : w \in Windows, d \in Dims})
    \cup {e \in {<<w, d, new[w][d]>> : w \in Windows, d \in Dims} : e[3] > 0}

\* persist_batch: one transaction.  A credential deleted since keeps no meter.
StoreBatch ==
    LET win == [w \in Windows |-> [d \in Dims |-> window[w][d] + AddedTo(d)]]
    IN /\ perMinute' = [m \in Minutes |-> [d \in Dims |-> perMinute[m][d] + Events("stat", m, d)]]
       /\ window' = win /\ order' = Reordered(window, win)
       /\ meter' = [m \in Minutes |-> IF credential THEN meter[m] + Events("meter", m, 0) ELSE meter[m]]
       /\ kept' = kept + Len(batch) /\ UNCHANGED <<cursor, dropped, drops, lost>>

\* persist_batch_with_retry after the third failure
LoseBatch ==
    /\ drops' = [all |-> drops.all + Len(batch),
                 meter |-> drops.meter + Cardinality({n \in 1..Len(batch) : batch[n].kind = "meter"})]
    /\ lost' = lost + Len(batch)
    /\ UNCHANGED <<tables, kept>>

\* Persisting an empty batch succeeds without a transaction.
PersistBatch(next) ==
    /\ batch' = <<>>
    /\ \/ StoreBatch /\ pending' = next
       \/ batch # <<>> /\ LoseBatch /\ pending' = [next EXCEPT !.ok = FALSE]

AtSelect == pending = Ready /\ Len(batch) < BatchCap
Command == Head(queue).kind \in {"flush", "clear"}
idle == <<saved, credential, guard, minute, fuel, sent, flushed, readerVars>>

\* telemetry_writer: an event joins the batch
Receive ==
    /\ AtSelect /\ queue # <<>> /\ ~Command
    /\ batch' = Append(batch, Head(queue)) /\ queue' = Tail(queue)
    /\ UNCHANGED <<pending, drops, tables, lost, kept, idle>>
FullBatch ==
    /\ pending = Ready /\ Len(batch) = BatchCap /\ batch' = <<>>
    /\ (StoreBatch \/ LoseBatch) /\ UNCHANGED <<queue, pending, idle>>

\* A flush persists the batch, then the counters, and answers.
Flush(q) == [Ready EXCEPT !.at = "delta", !.reply = TRUE, !.mark = q.minute]
ReceiveFlush ==
    /\ AtSelect /\ queue # <<>> /\ Head(queue).kind = "flush" /\ queue' = Tail(queue)
    /\ PersistBatch(Flush(Head(queue))) /\ UNCHANGED idle
ReceiveClear ==
    /\ AtSelect /\ queue # <<>> /\ Head(queue).kind = "clear" /\ queue' = Tail(queue)
    /\ PersistBatch([Ready EXCEPT !.at = "clear"]) /\ UNCHANGED idle
\* The ticks every 100 ms and every 5 s; the second also expires.
FlushTick == AtSelect /\ PersistBatch([Ready EXCEPT !.at = "delta"]) /\ UNCHANGED <<queue, idle>>
MaintenanceTick == AtSelect /\ PersistBatch([Ready EXCEPT !.at = "delta", !.todo = Windows]) /\ UNCHANGED <<queue, idle>>

-----------------------------------------------------------------------------
(* The counters of what was dropped, under drop_state_lock.                *)
afterDelta == <<queue, batch, perMinute, window, order, cursor, meter, credential, minute, fuel, sent, readerVars>>
\* expire_statistics is called with the minute of that moment.
Continue(ok) == [pending EXCEPT !.at = IF pending.reply THEN "answer" ELSE "expire", !.ok = @ /\ ok, !.seen = NoLoss,
                                !.now = IF pending.todo = {} THEN 0 ELSE minute]

\* persist_drop_delta: read the counters (two atomics, taken as one), commit the
\* difference, publish.
DeltaRead ==
    /\ pending.at = "delta" /\ guard = "free"
    /\ IF drops = saved THEN pending' = Continue(TRUE) /\ UNCHANGED guard
       ELSE pending' = [pending EXCEPT !.at = "commit", !.seen = drops] /\ guard' = "writer"
    /\ UNCHANGED <<afterDelta, drops, saved, dropped, lost, kept, flushed>>
DeltaCommit ==
    /\ pending.at = "commit"
    /\ dropped' = [all |-> dropped.all + pending.seen.all - saved.all,
                   meter |-> dropped.meter + pending.seen.meter - saved.meter]
    /\ kept' = kept + pending.seen.all - saved.all
    /\ pending' = [pending EXCEPT !.at = "publish"]
    /\ UNCHANGED <<afterDelta, drops, saved, guard, lost, flushed>>
DeltaFails ==
    /\ pending.at = "commit" /\ pending' = Continue(FALSE) /\ guard' = "free"
    /\ UNCHANGED <<afterDelta, drops, saved, dropped, lost, kept, flushed>>
\* Mutant: what was dropped during the transaction is taken as written.
DeltaPublishLatest ==
    /\ pending.at = "publish" /\ saved' = drops /\ guard' = "free" /\ pending' = Continue(TRUE)
    /\ UNCHANGED <<afterDelta, drops, dropped, lost, kept, flushed>>
DeltaPublish ==
    /\ pending.at = "publish" /\ saved' = pending.seen /\ guard' = "free" /\ pending' = Continue(TRUE)
    /\ UNCHANGED <<afterDelta, drops, dropped, lost, kept, flushed>>
Answer ==
    /\ pending.at = "answer" /\ pending' = Ready
    /\ flushed' = [ok |-> pending.ok, mark |-> pending.mark, kept |-> kept]
    /\ UNCHANGED <<afterDelta, drops, saved, dropped, guard, lost, kept>>

\* clear_history_in_database; the counters follow under the same lock, so a
\* report falls before or after both.
ClearCommit ==
    /\ pending.at = "clear" /\ guard = "free" /\ guard' = "writer"
    /\ perMinute' = [m \in Minutes |-> [d \in Dims |-> 0]]
    /\ window' = [w \in Windows |-> [d \in Dims |-> 0]] /\ order' = {}
    /\ meter' = [m \in Minutes |-> 0] /\ dropped' = NoLoss
    /\ cursor' = [w \in Windows |-> <<minute - w, PastAll>>]
    /\ pending' = [pending EXCEPT !.at = "reset"]
    /\ UNCHANGED <<queue, batch, drops, saved, credential, minute, fuel, lost, sent, kept, flushed, readerVars>>
ClearReset ==
    /\ pending.at = "reset" /\ pending' = Ready /\ guard' = "free"
    /\ drops' = NoLoss /\ saved' = NoLoss /\ lost' = 0 /\ kept' = kept + drops.all - saved.all
    /\ UNCHANGED <<queue, batch, tables, credential, minute, fuel, sent, flushed, readerVars>>
ClearFails ==
    /\ pending.at = "clear" /\ guard = "free" /\ pending' = Ready
    /\ UNCHANGED <<queue, batch, drops, saved, tables, credential, guard, minute, fuel, lost, sent, kept, flushed,
                   readerVars>>

-----------------------------------------------------------------------------
(* Expiry.                                                                 *)
Behind(c, m, d) == m > c[1] \/ (m = c[1] /\ d > c[2])
RowsBehind(c) == {r \in Minutes \X Dims : Behind(c, r[1], r[2]) /\ perMinute[r[1]][r[2]] > 0}
\* The first PageRows rows behind the cursor that are old enough.
ExpiredPage(w) ==
    LET rows == RowsBehind(cursor[w])
        place(r) == Cardinality({o \in rows : Behind(o, r[1], r[2])})
    IN {r \in rows : place(r) < PageRows /\ r[1] <= pending.now - w}
LastOf(rows) == CHOOSE r \in rows : \A o \in rows : o = r \/ Behind(o, r[1], r[2])
Less(a, b) == IF a > b THEN a - b ELSE 0
Subtracted(w, rows) ==
    [window EXCEPT ![w] = [d \in Dims |->
        Less(@[d], SumOf([r \in {r \in rows : r[2] = d} |-> perMinute[r[1]][d]]))]]
\* A page moves the cursor to its last row, an empty one to the present.
Advanced(w, rows) ==
    IF rows # {} THEN LastOf(rows)
    ELSE IF pending.now - w < cursor[w][1] THEN cursor[w] ELSE <<pending.now - w, PastAll>>

expireRest == <<queue, batch, drops, saved, credential, guard, minute, fuel, lost, sent, kept, flushed, readerVars>>
\* expire_statistics, the windows from the shortest
ExpireWindow ==
    /\ pending.at = "expire" /\ pending.todo # {}
    /\ LET w == CHOOSE v \in pending.todo : \A u \in pending.todo : v <= u
           rows == ExpiredPage(w)
           win == Subtracted(w, rows)
       IN /\ window' = win /\ order' = Reordered(window, win)
          /\ cursor' = [cursor EXCEPT ![w] = Advanced(w, rows)]
          /\ pending' = IF pending.todo = {w} THEN [pending EXCEPT !.at = "remove"] ELSE [pending EXCEPT !.todo = @ \ {w}]
    /\ UNCHANGED <<perMinute, meter, dropped, expireRest>>
ExpireFails == pending.at = "expire" /\ pending.todo # {} /\ pending' = Ready /\ UNCHANGED <<tables, expireRest>>
NothingToExpire == pending.at = "expire" /\ pending.todo = {} /\ pending' = Ready /\ UNCHANGED <<tables, expireRest>>

\* Rows behind the retention go once the longest window is past them.
Removable(m) == m < pending.now - Retention /\ cursor[Longest][1] >= pending.now - Retention
RemoveOld ==
    /\ pending.at = "remove" /\ pending' = Ready
    /\ perMinute' = [m \in Minutes |-> IF Removable(m) THEN [d \in Dims |-> 0] ELSE perMinute[m]]
    /\ meter' = [m \in Minutes |-> IF m < minute - Longest THEN 0 ELSE meter[m]]
    /\ UNCHANGED <<window, order, cursor, dropped, expireRest>>


-----------------------------------------------------------------------------
(* Everybody else.                                                         *)
\* statistics_snapshot: the counters first, then the database, under the lock
ReportBegin ==
    /\ ~reading.on /\ guard = "free" /\ guard' = "reader"
    /\ reading' = [on |-> TRUE, seen |-> drops.all - saved.all, lost |-> lost]
    /\ UNCHANGED <<queue, batch, pending, drops, saved, tables, credential, minute, fuel, lost, sent, kept, flushed, report>>
ReportEnd ==
    /\ reading.on /\ reading' = [on |-> FALSE, seen |-> 0, lost |-> 0]
    /\ report' = [drops |-> dropped.all + reading.seen, lost |-> reading.lost]
    /\ guard' = IF guard = "reader" THEN "free" ELSE guard
    /\ UNCHANGED <<queue, batch, pending, drops, saved, tables, credential, minute, fuel, lost, sent, kept, flushed>>

\* The expiry of a window has caught up with the clock.
AggregationCurrent(w) == cursor[w][1] > minute - w \/ (cursor[w][1] = minute - w /\ cursor[w][2] = PastAll)
\* statistics_snapshot and api_key_statistics_snapshot: the total of a
\* dimension, and those of its models that the index names first
Total(w, d) == window[w][d]
TopDimensions(w) == {e[2] : e \in {f \in order : f[1] = w}} \ {0}

\* delete_provider_key, and the deletion of a provider: key and meter at once
DeleteCredential ==
    /\ credential /\ credential' = FALSE /\ meter' = [m \in Minutes |-> 0]
    /\ UNCHANGED <<queue, batch, pending, drops, saved, perMinute, window, order, cursor, dropped, guard, minute,
                   fuel, lost, sent, kept, flushed, readerVars>>

\* No event waits for as long as the shortest window: the queue is emptied
\* several times a second, the shortest window is a day.
Waiting == {queue[n] : n \in 1..Len(queue)} \cup {batch[n] : n \in 1..Len(batch)}
TelTick ==
    /\ minute < MaxMinute /\ minute' = minute + 1
    /\ \A e \in Waiting : e.kind \in {"stat", "meter"} => e.minute > minute' - Shortest
    /\ UNCHANGED <<queue, batch, pending, drops, saved, tables, credential, guard, fuel, lost, sent, kept, flushed,
                   readerVars>>

\* What is in memory is lost; the new process counts from zero.
TelCrash ==
    /\ fuel > 0 /\ fuel' = fuel - 1
    /\ queue' = <<>> /\ batch' = <<>> /\ pending' = Ready /\ guard' = "free"
    /\ drops' = NoLoss /\ saved' = NoLoss /\ lost' = dropped.all
    /\ sent' = 0 /\ kept' = 0 /\ flushed' = [ok |-> FALSE, mark |-> 0, kept |-> 0]
    /\ reading' = [on |-> FALSE, seen |-> 0, lost |-> 0] /\ report' = [drops |-> 0, lost |-> 0]
    /\ UNCHANGED <<tables, credential, minute>>

DropsPersisted == DeltaRead \/ DeltaCommit \/ DeltaFails \/ DeltaPublish \/ Answer
Cleared == ClearCommit \/ ClearReset \/ ClearFails
Expired == ExpireWindow \/ ExpireFails \/ NothingToExpire \/ RemoveOld
TelNext ==
    \/ \E d \in 1..ModelCount : Enqueue("stat", d)
    \/ Enqueue("meter", 0)
    \/ \E kind \in {"flush", "clear"} : Ask(kind)
    \/ Receive \/ FullBatch \/ ReceiveFlush \/ ReceiveClear \/ FlushTick \/ MaintenanceTick
    \/ DropsPersisted \/ Cleared \/ Expired
    \/ ReportBegin \/ ReportEnd \/ DeleteCredential \/ TelTick \/ TelCrash

TelSpec == TelInit /\ [][TelNext]_telVars

-----------------------------------------------------------------------------
\* The drop counters never run behind what was written of them, the lock has
\* the holder its user believes in, and queue and batch keep their bounds.
TelTypeOK ==
    /\ Len(queue) <= QueueCap /\ Len(batch) <= BatchCap
    /\ saved.all <= drops.all /\ saved.meter <= drops.meter
    /\ (pending.at \in {"commit", "publish", "reset"}) <=> (guard = "writer")
    /\ reading.on <=> (guard = "reader")
    /\ pending.seen.all <= drops.all /\ pending.seen.meter <= pending.seen.all
    /\ order \subseteq Windows \X Dims \X (Nat \ {0})

(***************************************************************************)
(* A rolling window holds exactly the requests of the rows its expiry has  *)
(* not passed, whatever pages, failures, clears, restarts and removals     *)
(* came between, and the index of the busiest lists it where it belongs.   *)
(***************************************************************************)
SumBehind(w, d) == SumOf([m \in {n \in Minutes : Behind(cursor[w], n, d)} |-> perMinute[m][d]])
WindowsExact ==
    /\ \A w \in Windows, d \in Dims : window[w][d] = SumBehind(w, d)
    /\ order = {e \in {<<w, d, window[w][d]>> : w \in Windows, d \in Dims} : e[3] > 0}

(***************************************************************************)
(* A statistics page that calls its figures current shows exactly the      *)
(* requests of the last w minutes, each under its model: the busiest and   *)
(* the others make up the total.                                           *)
(***************************************************************************)
SumSince(first, d) == SumOf([m \in {n \in Minutes : n > first} |-> perMinute[m][d]])
SumOfTop(w) == SumOf([d \in TopDimensions(w) |-> Total(w, d)])
CurrentFiguresExact ==
    \A w \in Windows : AggregationCurrent(w) =>
        Total(w, 0) = SumSince(minute - w, 0) /\ Total(w, 0) = SumOfTop(w)

(***************************************************************************)
(* A report says how many events were dropped since the last clear, never  *)
(* one twice and none too few (queries.rs, at drop_state_lock: "a report   *)
(* can never pair a pending in-memory drop delta with persisted totals     *)
(* that already include it").                                              *)
(***************************************************************************)
ReportedDropsExact == report.drops = report.lost

(***************************************************************************)
(* A flush that answers without error has the fate of every event handed   *)
(* in before it in the database: its effect, or that it was dropped.       *)
(***************************************************************************)
FlushMeansSaved == flushed.ok => flushed.kept >= flushed.mark

(***************************************************************************)
(* No meter without its credential: an event that was queued when the      *)
(* credential was deleted does not bring the meter back (store.rs:142).    *)
(***************************************************************************)
MetersOwned == credential \/ \A m \in Minutes : meter[m] = 0

\* Statistics are what happened: rolling windows and the figures shown equal
\* the stored events, drops are reported once, a flush that says saved has
\* saved, and meters belong to credentials that exist.
TelemetrySound ==
    /\ TelTypeOK
    /\ WindowsExact
    /\ CurrentFiguresExact
    /\ ReportedDropsExact
    /\ FlushMeansSaved
    /\ MetersOwned
=============================================================================
