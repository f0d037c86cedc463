-------------------------- MODULE StreamContinuity --------------------------
(***************************************************************************)
(* Stream continuity: src/gateway/continuity/, started by                  *)
(* start_continuous_request of src/gateway/flow.rs.                        *)
(*                                                                         *)
(* One streaming request: its handler, the background worker that keeps    *)
(* reading the provider after the client has gone, the run record and its  *)
(* replay journal in LMDB, the client that reads live, disconnects and     *)
(* resumes with Last-Event-ID, a second client that cancels, the           *)
(* administrator who deletes the API key, and the process, which may shut  *)
(* down or crash and is started again.                                     *)
(*                                                                         *)
(* A step is one database transaction or the code between two awaits.      *)
(* Every storage call may fail (the operation slots are all taken), up to  *)
(* MaxFaults times.  An event is its id line and its body; a body is the   *)
(* number of the provider chunk, or the error or cancellation notice.      *)
(***************************************************************************)
EXTENDS Naturals, Sequences, FiniteSets

CONSTANTS MaxChunks,    \* bound on the chunks the provider sends
          MaxEvents,    \* continuity_replay_events_per_run
          Capacity,     \* of the channel to the live client
          PageSize,     \* continuity_resume_page_size
          MaxFaults,    \* bound on failing storage calls
          MaxRestarts   \* bound on process restarts

ASSUME ContinuityAssumption ==
    /\ MaxChunks \in Nat /\ MaxEvents \in Nat /\ MaxFaults \in Nat /\ MaxRestarts \in Nat
    /\ Capacity \in Nat \ {0} /\ PageSize \in Nat \ {0}

VARIABLES process,    \* "up", "stopping" (shutdown was signalled) or "down"
          handler,    \* start_continuous_request
          run,        \* the stream_runs record
          journal,    \* the stream_events table: key, and the payload's id and body
          worker,     \* the background task's locals
          slot,       \* the stream_continuity_in_flight permit
          registered, \* the run is in stream_cancellations
          cancelled,  \* its watch channel holds true
          channel,    \* events on the way to the live client
          client,     \* "none", "live", "resume"
          got,        \* events the client has received
          replay,     \* the resume loop's locals
          canceller,  \* the cancel_stream handler
          emitted,    \* history: events the worker has numbered
          faults, restarts

storage == <<run, journal>>
control == <<slot, registered, cancelled>>
reader == <<client, got, replay>>
bounds == <<faults, restarts>>
runVars == <<process, handler, storage, worker, control, channel, reader,
          canceller, emitted, bounds>>

Terminal == {"completed", "failed", "cancelled"}
NoRun == [status |-> "none", latest |-> 0, retained |-> 0, complete |-> TRUE]
Gone == [NoRun EXCEPT !.status = "gone"]
NoWorker == [pc |-> "none", stage |-> "setup", seq |-> 0, journalling |-> TRUE,
             body |-> 0, status |-> "failed"]
NoReplay == [pc |-> "none", last |-> 0, run |-> NoRun, page |-> <<>>, ended |-> "no"]
ErrorNotice == MaxChunks + 1
CancelNotice == MaxChunks + 2
Event(id, body) == [id |-> id, body |-> body]

RunInit ==
    /\ process = "up"
    /\ handler = "idle"
    /\ run = NoRun
    /\ journal = {}
    /\ worker = NoWorker
    /\ slot = FALSE /\ registered = FALSE /\ cancelled = FALSE
    /\ channel = <<>>
    /\ client = "none"
    /\ got = <<>>
    /\ replay = NoReplay
    /\ canceller = "idle"
    /\ emitted = 0
    /\ faults = 0 /\ restarts = 0

Stopping == process = "stopping"

\* A storage call that fails changes nothing.
Fault ==
    /\ faults < MaxFaults
    /\ faults' = faults + 1
    /\ UNCHANGED <<storage, restarts>>
NoFault == UNCHANGED bounds

-----------------------------------------------------------------------------
(* Transactions of records.rs on the run record and its journal.           *)

CreateRun ==
    /\ run' = [NoRun EXCEPT !.status = "running"]
    /\ UNCHANGED journal
    /\ NoFault

\* Mutant: a journal that has lost an event goes on with the next one.
RetainAfterLoss(fits) == run.latest + 1 <= MaxEvents /\ fits

\* The next event is kept: nothing was lost before it and it is within the
\* limits; `fits` is false when the run or all runs are out of bytes.
Retain(fits) == run.complete /\ run.latest + 1 <= MaxEvents /\ fits

\* append_event: the number comes from the record.
AppendEvent(event, fits) ==
    LET sequence == run.latest + 1
        retain == Retain(fits)
    IN  /\ run.status = "running"
        /\ run' = [run EXCEPT !.latest = sequence,
                              !.retained = IF retain THEN sequence ELSE @,
                              !.complete = retain]
        /\ journal' = IF retain
                      THEN journal \union {[key |-> sequence, id |-> event.id, body |-> event.body]}
                      ELSE journal
        /\ NoFault

AppendFails == \/ Fault
               \/ run.status # "running" /\ NoFault /\ UNCHANGED storage

\* mark_replay_incomplete: does nothing to a run that has ended.
MarkIncomplete(sequence) ==
    \/ /\ run' = IF run.status = "running"
                 THEN [run EXCEPT !.complete = FALSE,
                                  !.latest = IF sequence > @ THEN sequence ELSE @]
                 ELSE run
       /\ UNCHANGED journal
       /\ NoFault
    \/ Fault

\* finish_run: the first terminal status stays.
FinishRun(status) ==
    \/ /\ run' = IF run.status = "running" THEN [run EXCEPT !.status = status] ELSE run
       /\ UNCHANGED journal
       /\ NoFault
    \/ Fault

-----------------------------------------------------------------------------
(* start_continuous_request.                                               *)

Acquire ==
    /\ handler = "idle" /\ process = "up"
    /\ handler' = "creating"
    /\ slot' = TRUE
    /\ UNCHANGED <<process, storage, worker, registered, cancelled, channel, reader,
                   canceller, emitted, bounds>>

Create ==
    /\ handler = "creating"
    /\ \/ CreateRun /\ handler' = "created" /\ UNCHANGED slot
       \/ Fault /\ handler' = "refused" /\ slot' = FALSE
    /\ UNCHANGED <<process, worker, registered, cancelled, channel, reader, canceller, emitted>>

\* Everything after the await of create_run runs in one poll.
Spawn ==
    /\ handler = "created" /\ process # "down"
    /\ handler' = "spawned"
    /\ registered' = TRUE
    /\ worker' = [NoWorker EXCEPT !.pc = "setup"]
    /\ client' = "live"
    /\ UNCHANGED <<process, storage, slot, cancelled, channel, got, replay, canceller,
                   emitted, bounds>>

\* The client leaves while its handler awaits create_run: the handler is
\* dropped, the transaction may commit all the same.
Abandon ==
    /\ handler \in {"creating", "created"}
    /\ handler' = "abandoned"
    /\ slot' = FALSE
    /\ \/ UNCHANGED storage /\ NoFault
       \/ handler = "creating" /\ CreateRun
    /\ UNCHANGED <<process, worker, registered, cancelled, channel, reader, canceller, emitted>>

-----------------------------------------------------------------------------
(* The worker.                                                             *)

WorkerAt(label) == worker.pc = label
WorkerGoto(label) == worker' = [worker EXCEPT !.pc = label]
outside == <<process, handler, reader, canceller>>

\* execute_with_server_retries retries a retryable failure without end.
Retry ==
    /\ WorkerAt("setup") /\ ~Stopping /\ ~cancelled
    /\ WorkerGoto("backoff")
    /\ UNCHANGED <<outside, storage, control, channel, emitted, bounds>>

BackoffOver ==
    /\ WorkerAt("backoff") /\ ~Stopping /\ ~cancelled
    /\ WorkerGoto("setup")
    /\ UNCHANGED <<outside, storage, control, channel, emitted, bounds>>

StreamOpens ==
    /\ WorkerAt("setup") /\ ~Stopping /\ ~cancelled
    /\ worker' = [worker EXCEPT !.pc = "consume", !.stage = "stream"]
    /\ UNCHANGED <<outside, storage, control, channel, emitted, bounds>>

\* fail_before_stream: the failure becomes event 1.
SetupFails ==
    /\ WorkerAt("setup") /\ ~Stopping /\ ~cancelled
    /\ worker' = [worker EXCEPT !.pc = "append", !.body = ErrorNotice]
    /\ UNCHANGED <<outside, storage, control, channel, emitted, bounds>>

Chunk ==
    /\ WorkerAt("consume") /\ ~Stopping /\ ~cancelled
    /\ worker.seq < MaxChunks
    /\ worker' = IF worker.journalling
                 THEN [worker EXCEPT !.pc = "append", !.body = worker.seq + 1]
                 ELSE [worker EXCEPT !.pc = "send", !.body = worker.seq + 1, !.seq = @ + 1]
    /\ emitted' = IF worker.journalling THEN emitted ELSE worker.seq + 1
    /\ UNCHANGED <<outside, storage, control, channel, bounds>>

\* The event is journalled first; the number comes from the record ...
Journal(fits) ==
    /\ WorkerAt("append")
    /\ AppendEvent(Event(worker.seq + 1, worker.body), fits)
    /\ worker' = [worker EXCEPT !.pc = "send", !.seq = run.latest + 1]
    /\ emitted' = run.latest + 1
    /\ UNCHANGED <<outside, control, channel>>

\* ... or, once the journal has failed, from the worker's own count.
JournalFails ==
    /\ WorkerAt("append")
    /\ AppendFails
    /\ worker' = [worker EXCEPT !.pc = IF Stopping THEN "send" ELSE "mark",
                                !.seq = @ + 1, !.journalling = FALSE]
    /\ emitted' = worker.seq + 1
    /\ UNCHANGED <<outside, control, channel>>

Mark ==
    /\ WorkerAt("mark")
    /\ MarkIncomplete(worker.seq)
    /\ WorkerGoto("send")
    /\ UNCHANGED <<outside, control, channel, emitted>>

\* send_live_or_cancel: a connected client needs room in the channel, a
\* disconnected one is no obstacle.
AfterSend == IF worker.stage = "stream" THEN "consume" ELSE "finish"

Send ==
    /\ WorkerAt("send")
    /\ client = "live" => Len(channel) < Capacity
    /\ channel' = IF client = "live"
                  THEN Append(channel, Event(worker.seq, worker.body)) ELSE channel
    /\ WorkerGoto(IF Stopping THEN "drop" ELSE IF cancelled THEN "cancel" ELSE AfterSend)
    /\ slot' = (slot /\ ~(cancelled /\ ~Stopping))
    /\ UNCHANGED <<outside, storage, registered, cancelled, emitted, bounds>>

\* Cancellation is noticed wherever the worker waits; its slot goes first.
Cancelled ==
    /\ worker.pc \in {"setup", "backoff", "consume", "send"}
    /\ cancelled /\ ~Stopping
    /\ slot' = FALSE
    /\ WorkerGoto("cancel")
    /\ UNCHANGED <<outside, storage, registered, cancelled, channel, emitted, bounds>>

\* finish_cancelled_run.
CancelEvent == Event(worker.seq + 1, CancelNotice)

CancelJournal ==
    /\ WorkerAt("cancel")
    /\ registered' = FALSE
    /\ emitted' = worker.seq + 1
    /\ \/ /\ worker.journalling
          /\ \E fits \in BOOLEAN : AppendEvent(CancelEvent, fits)
          /\ WorkerGoto("cancel_notify")
       \/ /\ worker.journalling
          /\ AppendFails
          /\ worker' = [worker EXCEPT !.pc = "cancel_mark", !.journalling = FALSE]
       \/ /\ ~worker.journalling
          /\ UNCHANGED <<storage, bounds>>
          /\ WorkerGoto("cancel_notify")
    /\ UNCHANGED <<outside, slot, cancelled, channel>>

CancelMark ==
    /\ WorkerAt("cancel_mark")
    /\ MarkIncomplete(worker.seq + 1)
    /\ WorkerGoto("cancel_notify")
    /\ UNCHANGED <<outside, control, channel, emitted>>

\* Mutant: the notice is sent with send().await.
CancelNotifyWaits ==
    /\ WorkerAt("cancel_notify")
    /\ client = "live" => Len(channel) < Capacity
    /\ channel' = IF client = "live" THEN Append(channel, CancelEvent) ELSE channel
    /\ worker' = [worker EXCEPT !.pc = "cancel_finish", !.status = "cancelled"]
    /\ UNCHANGED <<outside, storage, control, emitted, bounds>>

\* try_send: a full channel loses the notice, the journal keeps it.
CancelNotify ==
    /\ WorkerAt("cancel_notify")
    /\ channel' = IF client = "live" /\ Len(channel) < Capacity
                  THEN Append(channel, CancelEvent) ELSE channel
    /\ worker' = [worker EXCEPT !.pc = "cancel_finish", !.status = "cancelled"]
    /\ UNCHANGED <<outside, storage, control, emitted, bounds>>

\* The provider's stream ends well, ends badly, or its body fails.
BodyEnds(status) ==
    /\ WorkerAt("consume") /\ ~Stopping /\ ~cancelled
    /\ worker' = [worker EXCEPT !.pc = "finish", !.status = status]
    /\ UNCHANGED <<outside, storage, control, channel, emitted, bounds>>

FinishWorker ==
    /\ worker.pc \in {"finish", "cancel_finish"}
    /\ FinishRun(worker.status)
    /\ WorkerGoto(IF worker.stage = "stream" /\ ~worker.journalling THEN "final_mark" ELSE "drop")
    /\ UNCHANGED <<outside, control, channel, emitted>>

FinalMark ==
    /\ WorkerAt("final_mark")
    /\ MarkIncomplete(worker.seq)
    /\ WorkerGoto("drop")
    /\ UNCHANGED <<outside, control, channel, emitted>>

\* Shutdown stops the worker at any await but those of a cancellation and of
\* a mark; a transaction already handed to the database may commit before that.
ShutdownSeen ==
    /\ Stopping
    /\ worker.pc \in {"setup", "backoff", "consume", "append", "send", "finish"}
    /\ WorkerGoto("drop")
    /\ UNCHANGED <<outside, storage, control, channel, emitted, bounds>>

\* The task ends: its guard leaves the registry, its permit is dropped.
TaskEnds ==
    /\ WorkerAt("drop")
    /\ WorkerGoto("done")
    /\ registered' = FALSE
    /\ slot' = FALSE
    /\ UNCHANGED <<outside, storage, cancelled, channel, emitted, bounds>>

-----------------------------------------------------------------------------
(* The client: the live response, then resume_stream.                      *)

Receive(event) == got' = Append(got, event)
LastEventId == IF got = <<>> THEN 0 ELSE got[Len(got)].id
elsewhere == <<process, handler, worker, control, canceller, emitted>>

LiveEvent ==
    /\ client = "live" /\ channel # <<>> /\ process = "up"
    /\ Receive(Head(channel))
    /\ channel' = Tail(channel)
    /\ UNCHANGED <<elsewhere, storage, client, replay, bounds>>

\* The response ends, or the client goes away: the receiver is dropped.
LiveEnds ==
    /\ client = "live"
    /\ client' = "none"
    /\ channel' = <<>>
    /\ UNCHANGED <<elsewhere, storage, got, replay, bounds>>

\* resume_stream checks the cursor against the record.
Resume ==
    /\ client = "none" /\ handler = "spawned" /\ process = "up"
    /\ run.status \notin {"none", "gone"}
    /\ LastEventId <= run.latest
    /\ client' = "resume"
    /\ replay' = [NoReplay EXCEPT !.pc = "load", !.last = LastEventId]
    /\ UNCHANGED <<elsewhere, storage, channel, got, bounds>>

ResumeEnds(how) ==
    /\ client' = "none"
    /\ replay' = [NoReplay EXCEPT !.ended = how]

ReplayLoad ==
    /\ client = "resume" /\ replay.pc = "load" /\ process = "up"
    /\ \/ /\ run.status # "gone"
          /\ replay' = [replay EXCEPT !.pc = "read", !.run = run]
          /\ UNCHANGED client
          /\ UNCHANGED <<storage, bounds>>
       \/ /\ run.status = "gone"
          /\ ResumeEnds("error")
          /\ UNCHANGED <<storage, bounds>>
       \/ Fault /\ ResumeEnds("error")
    /\ UNCHANGED <<elsewhere, channel, got>>

\* One page of the journal after the cursor, in key order.
KeysAfter(after) == {e.key : e \in {x \in journal : x.key > after}}

Page(after) ==
    LET keys == KeysAfter(after)
        chosen == {k \in keys : Cardinality({j \in keys : j < k}) < PageSize}
        Nth(n) == CHOOSE e \in journal :
                    e.key \in chosen /\ Cardinality({j \in chosen : j < e.key}) = n - 1
    IN  [n \in 1..Cardinality(chosen) |-> Nth(n)]

ReplayRead ==
    LET page == Page(replay.last)
    IN  /\ client = "resume" /\ replay.pc = "read" /\ process = "up"
        /\ \/ /\ page # <<>>
              /\ replay' = [replay EXCEPT !.pc = "yield", !.page = page]
              /\ UNCHANGED <<client, storage, bounds>>
           \/ /\ page = <<>>
              /\ ~replay.run.complete /\ replay.last >= replay.run.retained
              /\ ResumeEnds("limit")
              /\ UNCHANGED <<storage, bounds>>
           \/ /\ page = <<>>
              /\ replay.run.complete \/ replay.last < replay.run.retained
              /\ IF replay.run.status # "running"
                 THEN ResumeEnds("eof")
                 ELSE replay' = [replay EXCEPT !.pc = "load"] /\ UNCHANGED client
              /\ UNCHANGED <<storage, bounds>>
           \/ Fault /\ ResumeEnds("error")
        /\ UNCHANGED <<elsewhere, channel, got>>

ReplayYield ==
    /\ client = "resume" /\ replay.pc = "yield"
    /\ Receive(Event(Head(replay.page).id, Head(replay.page).body))
    /\ replay' = [replay EXCEPT !.last = Head(replay.page).key,
                                !.page = Tail(@),
                                !.pc = IF Len(replay.page) = 1 THEN "load" ELSE "yield"]
    /\ UNCHANGED <<elsewhere, storage, channel, client, bounds>>

\* The client goes away, or shutdown ends the response.
ResumeDrops ==
    /\ client = "resume"
    /\ ResumeEnds("error")
    /\ UNCHANGED <<elsewhere, storage, channel, got, bounds>>

-----------------------------------------------------------------------------
(* cancel_stream, the administrator, the process.                          *)

CancelLoad ==
    /\ canceller = "idle" /\ handler = "spawned" /\ process = "up"
    /\ run.status = "running"
    /\ canceller' = "loaded"
    /\ UNCHANGED <<process, handler, storage, worker, control, channel, reader, emitted, bounds>>

CancelRequest ==
    /\ canceller = "loaded" /\ process # "down"
    /\ canceller' = IF registered THEN "accepted" ELSE "conflict"
    /\ cancelled' = (cancelled \/ registered)
    /\ UNCHANGED <<process, handler, storage, worker, slot, registered, channel, reader,
                   emitted, bounds>>

RemoveRun ==
    /\ run' = Gone
    /\ journal' = {}
    /\ UNCHANGED <<process, handler, worker, control, channel, reader, canceller, emitted, bounds>>

\* delete_api_key takes the key's runs along, running or not.
DeleteKey == run.status \in Terminal \union {"running"} /\ RemoveRun

\* create_run of another request drops finished runs, old or too many.
Purge == run.status \in Terminal /\ RemoveRun

Shutdown ==
    /\ process = "up" /\ restarts < MaxRestarts
    /\ process' = "stopping"
    /\ UNCHANGED <<handler, storage, worker, control, channel, reader, canceller, emitted, bounds>>

\* The process ends, in order or not: only the database stays.
Crash ==
    /\ process # "down" /\ restarts < MaxRestarts
    /\ process' = "down"
    /\ handler' = IF handler = "spawned" THEN "spawned" ELSE "abandoned"
    /\ worker' = [worker EXCEPT !.pc = "none"]
    /\ slot' = FALSE /\ registered' = FALSE /\ cancelled' = FALSE
    /\ channel' = <<>>
    /\ client' = "none"
    /\ replay' = NoReplay
    /\ canceller' = IF canceller = "loaded" THEN "conflict" ELSE canceller
    /\ UNCHANGED <<storage, got, emitted, bounds>>

\* recover_abandoned_stream_runs on the next start.
Restart ==
    /\ process = "down"
    /\ process' = "up"
    /\ restarts' = restarts + 1
    /\ run' = IF run.status = "running" THEN [run EXCEPT !.status = "failed"] ELSE run
    /\ UNCHANGED <<handler, journal, worker, control, channel, reader, canceller, emitted, faults>>

-----------------------------------------------------------------------------

WorkerStep ==
    \/ Retry \/ BackoffOver \/ StreamOpens \/ SetupFails \/ Chunk
    \/ \E fits \in BOOLEAN : Journal(fits)
    \/ JournalFails \/ Mark \/ Send \/ Cancelled \/ CancelJournal \/ CancelMark
    \/ CancelNotify
    \/ \E status \in {"completed", "failed"} : BodyEnds(status)
    \/ FinishWorker \/ FinalMark \/ ShutdownSeen \/ TaskEnds

ClientStep ==
    \/ LiveEvent \/ LiveEnds \/ Resume \/ ReplayLoad \/ ReplayRead \/ ReplayYield
    \/ ResumeDrops

RunNext ==
    \/ Acquire \/ Create \/ Spawn \/ Abandon
    \/ WorkerStep
    \/ ClientStep
    \/ CancelLoad \/ CancelRequest
    \/ DeleteKey \/ Purge \/ Shutdown \/ Crash \/ Restart

RunSpec == RunInit /\ [][RunNext]_runVars

(***************************************************************************)
(* Fairness: the handler and the worker run whenever they can (the idle    *)
(* timeout makes the provider's stream deliver or end), a signalled        *)
(* shutdown ends the process and a stopped process is started again.  No   *)
(* client has to read, to leave or to come back.                           *)
(***************************************************************************)
RunFairness ==
    /\ WF_runVars(Create \/ Spawn)
    /\ WF_runVars(WorkerStep)
    /\ WF_runVars(process = "stopping" /\ Crash)
    /\ WF_runVars(Restart)

RunFairSpec == RunSpec /\ RunFairness

-----------------------------------------------------------------------------
(* Properties.                                                             *)

Bodies == 0..CancelNotice
Events == [id : 1..CancelNotice, body : Bodies]
RunType == [status : Terminal \union {"none", "running", "gone"},
            latest : 0..CancelNotice, retained : 0..MaxEvents, complete : BOOLEAN]

\* The state stays within its types.
RunTypeOK ==
    /\ process \in {"up", "stopping", "down"}
    /\ handler \in {"idle", "creating", "created", "spawned", "refused", "abandoned"}
    /\ run \in RunType
    /\ journal \subseteq [key : 1..MaxEvents, id : 1..CancelNotice, body : Bodies]
    /\ worker.seq \in 0..MaxChunks + 1 /\ worker.journalling \in BOOLEAN
    /\ slot \in BOOLEAN /\ registered \in BOOLEAN /\ cancelled \in BOOLEAN
    /\ channel \in Seq(Events) /\ Len(channel) <= Capacity
    /\ client \in {"none", "live", "resume"}
    /\ got \in Seq(Events)
    /\ canceller \in {"idle", "loaded", "accepted", "conflict"}
    /\ emitted \in 0..CancelNotice
    /\ faults \in 0..MaxFaults /\ restarts \in 0..MaxRestarts

\* However often the client disconnects and resumes, it receives the events
\* in order, none twice and none left out; only the cancellation notice may
\* overtake an event that was journalled but no longer sent.
NoGapNoDuplicate ==
    \A i \in 1..Len(got) :
        got[i].id = i \/ (got[i].body = CancelNotice /\ got[i].id > i)

\* The id line a live event carries is the key it is replayed under, and the
\* journal has no holes.
JournalConsistent ==
    /\ \A e \in journal : e.key = e.id
    /\ {e.key : e \in journal} = 1..run.retained

\* "buffering tokens into local storage so they can be resumed seamlessly
\* without loss": a resume that ends without an error notice has delivered
\* every event of a completed stream.
ResumeComplete ==
    replay.ended = "eof" /\ run.status = "completed" => LastEventId = emitted

\* "Consumers use that status as the completion boundary and must not observe
\* a slot that is still held by this worker".
CancelledFreesSlot == run.status = "cancelled" => ~slot

\* A run stays "running" only while somebody is on the way to end it, unless
\* a storage call failed; one whose client left during the reservation stays
\* until the next start.
RunHasOwner ==
    run.status = "running" /\ process = "up" /\ faults = 0 =>
        \/ handler = "created" \/ (handler = "abandoned" /\ restarts = 0)
        \/ worker.pc \notin {"none", "done", "drop"}

\* "Cancellation must release the upstream body and its permit even if a
\* client has stopped reading and the bounded live channel is full."
CancelReleases == canceller = "accepted" ~> ~slot /\ worker.pc \in {"done", "none"}

\* "the background continuity worker supplies the separate finite overall
\* deadline": a reserved run does not stay "running" for ever.
RunDeadline == handler = "spawned" ~> run.status # "running"

\* A continuity run under storage faults, disconnects, resumes, cancellation
\* and restart: the client gets every event once and in order or is told
\* otherwise, the journal is a prefix without holes, a cancelled run has freed
\* its slot, and every running run has somebody to end it.
RunSound ==
    /\ RunTypeOK
    /\ NoGapNoDuplicate
    /\ JournalConsistent
    /\ ResumeComplete
    /\ CancelledFreesSlot
    /\ RunHasOwner
=============================================================================
