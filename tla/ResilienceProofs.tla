-------------------------- MODULE ResilienceProofs --------------------------
(***************************************************************************)
(* What keeps a request safe from a failing upstream and a failing         *)
(* connection: stream continuity first, then the circuit breaker.          *)
(*                                                                         *)
(* Stream continuity, for any number of chunks, events, faults and         *)
(* restarts.  What the client has received says nothing by itself about    *)
(* what comes next: NoGapNoDuplicate rests on the worker's count, the      *)
(* record's and the number of events being tied at every place of the      *)
(* worker (WorkerOK), on the channel going on where the client is          *)
(* (DeliveredOK) and on a page of the journal doing so too (ReplayOK,      *)
(* PageFollows).  That an ended resume is complete rests on a lost event   *)
(* being noted in the record (LossNoted), which two storage failures can   *)
(* prevent.                                                                *)
(*                                                                         *)
(* The breaker, for any requests, thresholds and cooldowns: the half-open  *)
(* slot has one owner or none, a stale lease touches nothing, only the     *)
(* probe closes an open circuit, and a probe waits for the shortest        *)
(* cooldown.                                                               *)
(*                                                                         *)
(* ProbeSlotOwned is not inductive.  It rests on the ids: generations and  *)
(* probes are handed out once, so a lease of an earlier circuit can never  *)
(* match a later one (IdsFresh, ProbesDistinct), and on an entry of the    *)
(* map being there exactly when it has a generation (EntryMarked).         *)
(* ProbeAfterCooldown rests on CooldownCovered: what an open circuit has   *)
(* waited and what it still has to wait are at least every cooldown that   *)
(* is a shortest one, whatever retiming did to the two.                    *)
(***************************************************************************)
EXTENDS CircuitBreaker, StreamContinuity, FiniteSetTheorems, SequenceTheorems, TLAPS

-----------------------------------------------------------------------------
(* Stream continuity: the inductive invariant.                             *)

WorkerPlaces ==
    {"none", "setup", "backoff", "consume", "append", "mark", "send", "cancel", "cancel_mark",
     "cancel_notify", "cancel_finish", "finish", "final_mark", "drop", "done"}
Kept == [key : 1..MaxEvents, id : 1..CancelNotice, body : Bodies]

WorkerType ==
    [pc : WorkerPlaces, stage : {"setup", "stream"}, seq : 0..(MaxChunks + 1),
     journalling : BOOLEAN, body : Bodies, status : Terminal]
ReplayType ==
    [pc : {"none", "load", "read", "yield"}, last : Nat, run : RunType,
     page : Seq(Kept), ended : {"no", "eof", "limit", "error"}]

TaskTypes ==
    /\ process \in {"up", "stopping", "down"}
    /\ handler \in {"idle", "creating", "created", "spawned", "refused", "abandoned"}
    /\ worker \in WorkerType
    /\ slot \in BOOLEAN /\ registered \in BOOLEAN /\ cancelled \in BOOLEAN
    /\ canceller \in {"idle", "loaded", "accepted", "conflict"}
    /\ emitted \in 0..CancelNotice
    /\ faults \in 0..MaxFaults /\ restarts \in 0..MaxRestarts

ReaderTypes ==
    /\ channel \in Seq(Events) /\ Len(channel) <= Capacity
    /\ client \in {"none", "live", "resume"}
    /\ got \in Seq(Events)
    /\ replay \in ReplayType

\* Before the worker is spawned there is at most an empty run.
HandlerOK ==
    /\ handler # "spawned" =>
         /\ worker = NoWorker /\ client = "none" /\ got = <<>> /\ replay = NoReplay /\ emitted = 0
         /\ run.latest = 0
    /\ handler \in {"idle", "creating", "created"} => restarts = 0 /\ process # "down"
    /\ handler \in {"idle", "creating"} => run = NoRun
    /\ handler = "created" => run.status \in {"running", "gone"}
    /\ handler = "spawned" => run.status # "none"
    /\ process = "down" => worker.pc = "none" /\ restarts < MaxRestarts

\* The record: what is retained is a prefix of what was numbered.
RecordOK ==
    /\ run \in RunType /\ journal \subseteq Kept
    /\ run.retained <= run.latest /\ run.latest <= emitted
    /\ run.complete => run.retained = run.latest
    /\ JournalConsistent

\* Where events are numbered and sent, and where the run may have ended.
Numbering == {"setup", "backoff", "consume", "append", "mark", "send",
              "cancel", "cancel_mark", "cancel_notify"}
Over == {"none", "final_mark", "drop", "done"}

\* The worker's count, the record's and the number of events.
WorkerOK ==
    /\ worker.pc \in {"setup", "backoff"} => worker.seq = 0 /\ worker.journalling
    /\ worker.pc \in {"setup", "backoff", "consume", "append", "mark", "send", "cancel", "finish"}
         => emitted = worker.seq
    /\ worker.pc \in {"cancel_mark", "cancel_notify", "cancel_finish"} => emitted = worker.seq + 1
    /\ worker.pc \in {"setup", "backoff", "consume", "append", "send", "cancel", "finish"}
         => (worker.journalling /\ run.status = "running" => run.latest = worker.seq)
    /\ worker.seq <= emitted
    /\ worker.pc \in {"append", "mark", "send"} => worker.body # CancelNotice
    /\ worker.pc = "append" => worker.journalling /\ worker.seq <= MaxChunks
    /\ worker.pc \in {"mark", "send"} => worker.seq >= 1
    /\ worker.pc \in {"mark", "cancel_mark"} => ~worker.journalling
    /\ run.status \in Terminal => worker.pc \in Over

\* A cancelled worker has given back its slot.
SlotOK ==
    /\ worker.pc \in {"cancel", "cancel_mark", "cancel_notify", "cancel_finish"} => ~slot
    /\ worker.pc = "cancel_finish" => worker.status = "cancelled"
    /\ worker.status = "cancelled" => handler = "spawned" /\ ~slot
    /\ run.status = "cancelled" => handler = "spawned" /\ ~slot

\* Events in their places after the first k.
Exact(s, k) == \A i \in 1..Len(s) : s[i].id = k + i
\* A cancellation notice that overtook an event is the last one numbered.
Overtook(e, i) == e.body = CancelNotice /\ e.id = emitted /\ e.id > i
InOrder(s, k) ==
    \A i \in 1..Len(s) : s[i].id = k + i \/ (i = Len(s) /\ Overtook(s[i], k + i))

\* What the client has, and what is on the way to it.
DeliveredOK ==
    /\ InOrder(got, 0)
    /\ Len(got) + Len(channel) <= emitted
    /\ client # "live" => channel = <<>>
    /\ InOrder(channel, Len(got))
    /\ channel # <<>> => Exact(got, 0)
    /\ worker.pc \in Numbering => Exact(got, 0) /\ Exact(channel, Len(got))
    /\ client = "live" /\ worker.pc \in {"setup", "backoff", "consume", "append"}
         => Len(got) + Len(channel) = worker.seq
    /\ client = "live" /\ worker.pc \in {"mark", "send"} => Len(got) + Len(channel) = worker.seq - 1
    /\ client = "live" /\ worker.pc \in {"cancel_mark", "cancel_notify"}
         => Len(got) + Len(channel) <= worker.seq

\* A page in hand goes on where the client is.
ReplayOK ==
    /\ client = "resume" <=> replay.pc # "none"
    /\ client = "resume" => replay.last = LastEventId
    /\ replay.pc = "yield" =>
         /\ replay.page # <<>> /\ Exact(got, 0)
         /\ \A n \in 1..Len(replay.page) :
               LET e == replay.page[n] IN e.key = replay.last + n /\ e.id = e.key /\ e.id <= emitted
    /\ replay.pc = "read" /\ replay.run.status # "running" => run = replay.run \/ run.status = "gone"
    /\ replay.pc = "read" => replay.run.status \in Terminal \cup {"running"}

\* With one storage failure at most, a journal that has lost an event says so.
LossNoted ==
    faults <= 1 =>
      /\ worker.pc \in {"consume", "finish"} /\ ~worker.journalling /\ run.status = "running" => ~run.complete
      /\ worker.pc = "send" /\ ~worker.journalling /\ run.status = "running" => ~run.complete \/ Stopping
      /\ worker.pc = "mark" => faults = 1 \/ run.status = "gone"
      /\ run.status = "completed" /\ run.complete => run.retained = emitted
EndOK ==
    replay.ended = "eof" =>
      /\ run.status \in Terminal \cup {"gone"} /\ client = "none"
      /\ faults <= 1 /\ run.status = "completed" => LastEventId = emitted

OwnerOK ==
    /\ RunHasOwner
    /\ worker.pc = "final_mark" /\ faults = 0 /\ process = "up" => run.status # "running"

RunInv ==
    /\ TaskTypes /\ ReaderTypes /\ HandlerOK /\ RecordOK /\ WorkerOK /\ SlotOK
    /\ DeliveredOK /\ ReplayOK /\ LossNoted /\ EndOK /\ OwnerOK

-----------------------------------------------------------------------------
(* Records.                                                                *)

\* A run, a worker and a resume before they begin.
LEMMA Blanks ==
    /\ NoRun \in RunType /\ NoRun.status = "none" /\ NoRun.latest = 0
    /\ NoRun.retained = 0 /\ NoRun.complete = TRUE
    /\ Gone \in RunType /\ Gone.status = "gone" /\ Gone.latest = 0
    /\ Gone.retained = 0 /\ Gone.complete = TRUE
    /\ NoWorker \in WorkerType /\ NoWorker.pc = "none" /\ NoWorker.seq = 0
    /\ NoWorker.journalling = TRUE /\ NoWorker.status = "failed" /\ NoWorker.stage = "setup"
    /\ NoReplay \in ReplayType /\ NoReplay.pc = "none" /\ NoReplay.ended = "no"
<1> USE ContinuityAssumption
<1>1. /\ NoRun \in RunType /\ NoRun.status = "none" /\ NoRun.latest = 0
      /\ NoRun.retained = 0 /\ NoRun.complete = TRUE
  BY DEF NoRun, RunType, CancelNotice
<1>2. /\ Gone \in RunType /\ Gone.status = "gone" /\ Gone.latest = 0
      /\ Gone.retained = 0 /\ Gone.complete = TRUE
  BY <1>1 DEF Gone, RunType
<1>3. /\ NoWorker \in WorkerType /\ NoWorker.pc = "none" /\ NoWorker.seq = 0
      /\ NoWorker.journalling = TRUE /\ NoWorker.status = "failed" /\ NoWorker.stage = "setup"
  BY DEF NoWorker, WorkerType, WorkerPlaces, Bodies, CancelNotice, Terminal
<1>4. <<>> \in Seq(Kept)
  OBVIOUS
<1>5. NoReplay \in ReplayType /\ NoReplay.pc = "none" /\ NoReplay.ended = "no"
  BY <1>1, <1>4 DEF NoReplay, ReplayType
<1> QED BY <1>1, <1>2, <1>3, <1>5

-----------------------------------------------------------------------------
(* The transactions.                                                       *)

\* A storage call fails, or the counter of failures stands.
Counted == faults' \in 0..MaxFaults /\ faults <= faults' /\ restarts' = restarts

\* append_event under the number the worker gives it keeps the journal whole.
LEMMA Appended ==
    ASSUME RunInv, NEW e, NEW fits \in BOOLEAN, AppendEvent(e, fits),
           e.id = run.latest + 1, e.id \in 1..CancelNotice, e.body \in Bodies,
           emitted' = run.latest + 1
    PROVE  /\ RecordOK' /\ Counted /\ faults' = faults
           /\ run.status = "running" /\ run'.status = "running" /\ run'.latest = run.latest + 1
           /\ run'.complete => run.complete
<1> USE ContinuityAssumption
<1>1. /\ run \in RunType /\ run.latest \in Nat /\ run.retained \in Nat
      /\ run.retained <= run.latest /\ run.latest <= emitted
  BY DEF RunInv, RecordOK, RunType, CancelNotice
<1>2. /\ run.status = "running" /\ run'.status = "running" /\ run'.latest = run.latest + 1
      /\ run'.retained = IF Retain(fits) THEN run.latest + 1 ELSE run.retained
      /\ run'.complete = Retain(fits)
  BY <1>1 DEF AppendEvent, RunType
<1>3. Counted /\ faults' = faults
  BY DEF AppendEvent, NoFault, bounds, Counted, RunInv, TaskTypes
<1>4. Retain(fits) \in BOOLEAN /\ (Retain(fits) => run.complete /\ run.latest + 1 <= MaxEvents)
  BY <1>1 DEF Retain, RunType
<1>5. run' \in RunType
  <2>1. run.latest + 1 \in 0..CancelNotice
    BY <1>1 DEF CancelNotice
  <2>2. (IF Retain(fits) THEN run.latest + 1 ELSE run.retained) \in 0..MaxEvents
    BY <1>1, <1>4 DEF RunType
  <2> QED
    BY <1>1, <1>4, <2>1, <2>2 DEF AppendEvent, RunType
<1>6. CASE Retain(fits)
  <2>1. run.retained = run.latest
    BY <1>4, <1>6 DEF RunInv, RecordOK
  <2>2. journal' = journal \cup {[key |-> run.latest + 1, id |-> e.id, body |-> e.body]}
    BY <1>6 DEF AppendEvent
  <2>3. [key |-> run.latest + 1, id |-> e.id, body |-> e.body] \in Kept
    BY <1>1, <1>4, <1>6 DEF Kept
  <2>4. \A x \in journal' : x.key = x.id
    BY <2>2 DEF RunInv, RecordOK, JournalConsistent
  <2>5. {x.key : x \in journal'} = 1..run'.retained
    <3>1. {x.key : x \in journal'} = {x.key : x \in journal} \cup {run.latest + 1}
      <4> DEFINE new == [key |-> run.latest + 1, id |-> e.id, body |-> e.body]
      <4>1. new.key = run.latest + 1 /\ journal' = journal \cup {new}
        BY <2>2
      <4> QED BY <4>1
    <3>2. {x.key : x \in journal} = 1..run.latest
      BY <2>1 DEF RunInv, RecordOK, JournalConsistent
    <3>3. 1..(run.latest + 1) = (1..run.latest) \cup {run.latest + 1}
      BY <1>1
    <3> QED
      BY <1>2, <1>6, <3>1, <3>2, <3>3
  <2> QED
    BY <1>1, <1>2, <1>3, <1>4, <1>5, <1>6, <2>2, <2>3, <2>4, <2>5 DEF RunInv, RecordOK, JournalConsistent
<1>7. CASE ~Retain(fits)
  <2>1. journal' = journal
    BY <1>7 DEF AppendEvent
  <2> QED
    BY <1>1, <1>2, <1>3, <1>4, <1>5, <1>7, <2>1 DEF RunInv, RecordOK, JournalConsistent
<1> QED BY <1>6, <1>7

\* An append that fails leaves the record; without a storage failure it is
\* because the run is no longer running.
LEMMA NotAppended ==
    ASSUME RunInv, AppendFails
    PROVE  /\ UNCHANGED storage /\ Counted
           /\ run.status # "running" \/ faults' = faults + 1
BY ContinuityAssumption DEF AppendFails, Fault, NoFault, bounds, storage, Counted, RunInv, TaskTypes

\* mark_replay_incomplete under a number that was given.
LEMMA Marked ==
    ASSUME RunInv, NEW n \in Nat, n <= emitted, MarkIncomplete(n), emitted' = emitted
    PROVE  /\ RecordOK' /\ Counted /\ run'.status = run.status
           /\ run.status # "running" => run' = run
           /\ run.status = "running" /\ faults' = faults => ~run'.complete
           /\ faults' = faults \/ (faults' = faults + 1 /\ run' = run)
<1> USE ContinuityAssumption
<1>1. Counted /\ journal' = journal /\ (faults' = faults \/ (faults' = faults + 1 /\ run' = run))
  BY DEF MarkIncomplete, Fault, NoFault, bounds, storage, Counted, RunInv, TaskTypes
<1>2. run \in RunType /\ run.latest \in Nat /\ run.latest <= emitted /\ emitted \in 0..CancelNotice
  BY DEF RunInv, RecordOK, RunType, CancelNotice, TaskTypes
<1>3. CASE run' = run
  <2>1. run.status = "running" => faults' # faults \/ ~run'.complete
    <3>1. ASSUME run.status = "running", faults' = faults,
                 run' = [run EXCEPT !.complete = FALSE, !.latest = IF n > @ THEN n ELSE @]
          PROVE  ~run'.complete
      BY <1>2, <3>1 DEF RunType
    <3>2. ~Fault \/ faults' # faults
      BY DEF Fault, RunInv, TaskTypes
    <3> QED
      BY <3>1, <3>2 DEF MarkIncomplete
  <2> QED
    BY <1>1, <1>3, <2>1 DEF RunInv, RecordOK, JournalConsistent
<1>4. CASE run.status = "running" /\ run' = [run EXCEPT !.complete = FALSE, !.latest = IF n > @ THEN n ELSE @]
  <2>1. /\ run'.status = run.status /\ run'.retained = run.retained /\ run'.complete = FALSE
        /\ run'.latest = IF n > run.latest THEN n ELSE run.latest
    BY <1>2, <1>4 DEF RunType
  <2>2. run' \in RunType
    <3>1. (IF n > run.latest THEN n ELSE run.latest) \in 0..CancelNotice
      BY <1>2 DEF CancelNotice
    <3> QED
      BY <1>2, <1>4, <3>1 DEF RunType
  <2>3. run'.latest <= emitted' /\ run'.retained <= run'.latest
    BY <1>2, <2>1 DEF RunInv, RecordOK, RunType, CancelNotice
  <2> QED
    BY <1>1, <1>4, <2>1, <2>2, <2>3 DEF RunInv, RecordOK, JournalConsistent
<1> QED
  BY <1>3, <1>4 DEF MarkIncomplete, Fault, storage

\* finish_run ends a running run, or storage has failed.
LEMMA Finished ==
    ASSUME RunInv, NEW s \in Terminal, FinishRun(s), emitted' = emitted
    PROVE  /\ RecordOK' /\ Counted
           /\ run'.latest = run.latest /\ run'.retained = run.retained /\ run'.complete = run.complete
           /\ \/ run.status = "running" /\ run'.status = s /\ faults' = faults
              \/ run.status # "running" /\ run' = run
              \/ run' = run /\ faults' = faults + 1
<1> USE ContinuityAssumption
<1>1. Counted /\ journal' = journal /\ (faults' = faults \/ (faults' = faults + 1 /\ run' = run))
  BY DEF FinishRun, Fault, NoFault, bounds, storage, Counted, RunInv, TaskTypes
<1>2. run \in RunType
  BY DEF RunInv, RecordOK
<1>3. CASE run' = run
  <2>1. \/ run.status = "running" /\ run'.status = s /\ faults' = faults
        \/ run.status # "running" /\ run' = run
        \/ run' = run /\ faults' = faults + 1
    BY <1>1, <1>2, <1>3 DEF FinishRun, Fault, NoFault, bounds, RunType, RunInv, TaskTypes
  <2> QED
    BY <1>1, <1>3, <2>1 DEF RunInv, RecordOK, JournalConsistent
<1>4. CASE run.status = "running" /\ run' = [run EXCEPT !.status = s] /\ faults' = faults
  <2>1. /\ run'.status = s /\ run'.retained = run.retained /\ run'.complete = run.complete
        /\ run'.latest = run.latest /\ run' \in RunType
    BY <1>2, <1>4 DEF RunType
  <2> QED
    BY <1>1, <1>2, <1>4, <2>1 DEF RunInv, RecordOK, JournalConsistent
<1> QED
  BY <1>3, <1>4 DEF FinishRun, Fault, NoFault, bounds, storage

-----------------------------------------------------------------------------
(* What a step leaves alone.                                               *)

\* Steps that do not touch the client: a run that has ended stays as it is or
\* is removed, and numbers no more events.
LEMMA ReaderKept ==
    ASSUME RunInv, UNCHANGED <<channel, reader>>, Counted,
           emitted' \in Nat, emitted <= emitted',
           run.status \in Terminal \cup {"gone"} =>
               /\ run' = run \/ run'.status = "gone"
               /\ run.status = "gone" \/ emitted' = emitted
    PROVE  ReaderTypes' /\ ReplayOK' /\ EndOK'
<1> USE ContinuityAssumption
<1>1. UNCHANGED <<client, got, replay, channel>> /\ LastEventId' = LastEventId
  BY DEF reader, LastEventId
<1>2. emitted \in Nat /\ faults \in Nat /\ faults' \in Nat
  BY DEF RunInv, TaskTypes, Counted, CancelNotice
<1>3. ReaderTypes'
  BY <1>1 DEF RunInv, ReaderTypes
<1>4. ReplayOK'
  <2>1. ASSUME replay.pc = "yield", NEW n \in 1..Len(replay.page)
        PROVE  replay.page[n].id <= emitted'
    <3>1. replay.page \in Seq(Kept) /\ replay.page[n].id <= emitted
      BY <2>1 DEF RunInv, ReplayOK, ReaderTypes, ReplayType
    <3>2. replay.page[n].id \in Nat
      <4>1. replay.page[n] \in Kept
        BY <2>1, <3>1
      <4> QED
        BY <4>1 DEF Kept, CancelNotice
    <3> QED
      BY <1>2, <3>1, <3>2
  <2>2. replay.pc = "read" /\ replay.run.status # "running" => run' = replay.run \/ run'.status = "gone"
    BY DEF RunInv, ReplayOK, Terminal
  <2>3. Exact(got, 0)' = Exact(got, 0)
    BY <1>1 DEF Exact
  <2> QED
    BY <1>1, <2>1, <2>2, <2>3 DEF RunInv, ReplayOK
<1>5. EndOK'
  BY <1>1, <1>2 DEF RunInv, EndOK, Counted, Terminal
<1> QED BY <1>3, <1>4, <1>5

\* Steps of the client.
LEMMA WorkerKept ==
    ASSUME RunInv, UNCHANGED <<elsewhere, storage>>, Counted
    PROVE  TaskTypes' /\ RecordOK' /\ WorkerOK' /\ SlotOK' /\ LossNoted' /\ OwnerOK'
<1> USE ContinuityAssumption DEF RunInv, elsewhere, storage, control, Counted
<1>1. TaskTypes'
  BY DEF TaskTypes
<1>2. RecordOK' /\ WorkerOK' /\ SlotOK'
  BY DEF RecordOK, JournalConsistent, WorkerOK, SlotOK
<1>3. LossNoted'
  BY DEF LossNoted, TaskTypes, Stopping
<1>4. OwnerOK'
  BY DEF OwnerOK, RunHasOwner, TaskTypes
<1> QED BY <1>1, <1>2, <1>3, <1>4

-----------------------------------------------------------------------------
(* The handler.                                                            *)

\* Until the worker is spawned nobody else has anything to do with the run.
LEMMA BeforeSpawn ==
    ASSUME RunInv, handler # "spawned"
    PROVE  /\ worker = NoWorker /\ worker.pc = "none" /\ worker.seq = 0 /\ worker.status = "failed"
           /\ client = "none" /\ got = <<>> /\ channel = <<>> /\ replay = NoReplay
           /\ replay.pc = "none" /\ replay.ended = "no" /\ emitted = 0 /\ run.latest = 0
BY Blanks DEF RunInv, HandlerOK, DeliveredOK

LEMMA HandlerStep ==
    ASSUME RunInv, Acquire \/ Create \/ Abandon \/ Spawn
    PROVE  RunInv'
<1> USE ContinuityAssumption DEF storage, reader, control, bounds
<1>1. handler # "spawned"
  BY DEF Acquire, Create, Abandon, Spawn
<1>2. ASSUME CreateRun
      PROVE  /\ run' \in RunType /\ run'.status = "running" /\ run'.latest = 0 /\ run'.retained = 0
             /\ run'.complete = TRUE /\ UNCHANGED <<journal, faults, restarts>>
  BY <1>2, Blanks DEF CreateRun, NoFault, RunType
<1>3. CASE Acquire \/ Create \/ Abandon
  <2>1. UNCHANGED <<process, worker, registered, cancelled, channel, client, got, replay, canceller, emitted>>
    BY <1>3 DEF Acquire, Create, Abandon
  <2>2. /\ handler' \in {"creating", "created", "refused", "abandoned"}
        /\ Counted
        /\ handler' \in {"creating", "created"} => restarts = 0 /\ process # "down"
        /\ handler' \in {"creating", "refused"} => run' = NoRun
        /\ handler' = "created" => run'.status = "running"
        /\ handler' = "abandoned" => restarts = 0
    <3>1. /\ handler \in {"idle", "creating", "created"} /\ restarts = 0 /\ process # "down"
          /\ handler \in {"idle", "creating"} => run = NoRun
      BY <1>3 DEF Acquire, Create, Abandon, RunInv, HandlerOK
    <3>2. faults \in 0..MaxFaults
      BY DEF RunInv, TaskTypes
    <3>3. CASE Acquire
      BY <3>1, <3>2, <3>3 DEF Acquire, Counted
    <3>4. CASE Create
      <4>1. CASE CreateRun /\ handler' = "created" /\ slot' = slot
        BY <1>2, <3>1, <3>2, <4>1 DEF Counted
      <4>2. CASE Fault /\ handler' = "refused" /\ slot' = FALSE
        BY <3>1, <3>2, <3>4, <4>2 DEF Fault, Counted, Create
      <4> QED BY <3>4, <4>1, <4>2 DEF Create
    <3>5. CASE Abandon
      <4>1. handler' = "abandoned" /\ slot' = FALSE /\ UNCHANGED <<faults, restarts>>
        BY <1>2, <3>5 DEF Abandon, NoFault
      <4> QED BY <3>1, <3>2, <4>1 DEF Counted
    <3> QED BY <1>3, <3>3, <3>4, <3>5
  <2>3. \/ UNCHANGED <<run, journal>>
        \/ CreateRun /\ run = NoRun /\ handler' \in {"created", "abandoned"}
    BY <1>3 DEF Acquire, Create, Abandon, Fault, RunInv, HandlerOK
  <2>12. slot' \in BOOLEAN
    BY <1>3 DEF Acquire, Create, Abandon, RunInv, TaskTypes
  <2>4. TaskTypes'
    BY <2>1, <2>2, <2>12 DEF RunInv, TaskTypes, Counted
  <2>5. ReaderTypes' /\ ReplayOK' /\ EndOK'
    <3>1. run.status \in Terminal \cup {"gone"} => run' = run
      BY <2>3, Blanks DEF Terminal
    <3> QED
      BY <2>1, <2>2, <3>1, ReaderKept DEF RunInv, TaskTypes, CancelNotice
  <2>6. RecordOK' /\ run'.latest = 0 /\ (run' = run \/ run'.status = "running")
    BY <1>1, <1>2, <2>1, <2>3, BeforeSpawn, Blanks DEF RunInv, RecordOK, JournalConsistent
  <2>7. HandlerOK'
    BY <1>1, <2>1, <2>2, <2>6, BeforeSpawn DEF HandlerOK, RunInv, Counted
  <2>8. WorkerOK' /\ SlotOK'
    BY <1>1, <2>1, <2>2, <2>6, BeforeSpawn DEF WorkerOK, SlotOK, RunInv, Terminal, Over
  <2>9. DeliveredOK'
    BY <2>1 DEF RunInv, DeliveredOK, InOrder, Exact, Overtook
  <2>10. LossNoted'
    BY <1>1, <2>1, <2>2, <2>6, BeforeSpawn DEF LossNoted, RunInv, Counted, TaskTypes
  <2>11. OwnerOK'
    BY <1>1, <2>1, <2>2, <2>3, <2>6, BeforeSpawn, Blanks DEF OwnerOK, RunHasOwner, RunInv, Counted, TaskTypes, HandlerOK
  <2> QED BY <2>4, <2>5, <2>6, <2>7, <2>8, <2>9, <2>10, <2>11 DEF RunInv
<1>4. CASE Spawn
  <2>1. /\ UNCHANGED <<process, run, journal, slot, cancelled, channel, got, replay, canceller, emitted,
                       faults, restarts>>
        /\ handler = "created" /\ process # "down" /\ handler' = "spawned" /\ registered' = TRUE /\ client' = "live"
    BY <1>4 DEF Spawn
  <2>2. /\ worker' \in WorkerType /\ worker'.pc = "setup" /\ worker'.seq = 0
        /\ worker'.journalling = TRUE /\ worker'.status = "failed"
    BY <1>4, Blanks DEF Spawn, WorkerType, WorkerPlaces
  <2>3. run.status \in {"running", "gone"}
    BY <2>1 DEF RunInv, HandlerOK
  <2>4. TaskTypes' /\ ReaderTypes' /\ HandlerOK' /\ RecordOK'
    BY <2>1, <2>2, <2>3 DEF RunInv, TaskTypes, ReaderTypes, HandlerOK, RecordOK, JournalConsistent
  <2>5. WorkerOK' /\ SlotOK'
    BY <1>1, <2>1, <2>2, <2>3, BeforeSpawn DEF WorkerOK, SlotOK, Terminal
  <2>6. DeliveredOK'
    BY <1>1, <2>1, <2>2, BeforeSpawn DEF DeliveredOK, InOrder, Exact
  <2>7. ReplayOK' /\ EndOK'
    BY <1>1, <2>1, BeforeSpawn DEF ReplayOK, EndOK
  <2>8. LossNoted' /\ OwnerOK'
    BY <2>1, <2>2, <2>3 DEF LossNoted, OwnerOK, RunHasOwner
  <2> QED BY <2>4, <2>5, <2>6, <2>7, <2>8 DEF RunInv
<1> QED BY <1>3, <1>4

-----------------------------------------------------------------------------
(* The worker.                                                             *)

\* There is a worker once it is spawned.
LEMMA WorkerSpawned ==
    ASSUME RunInv, worker.pc # "none"
    PROVE  handler = "spawned" /\ process # "down"
BY Blanks DEF RunInv, HandlerOK

\* A step of the worker keeps what the handler's place says.
LEMMA HandlerKept ==
    ASSUME RunInv, handler = "spawned", handler' = "spawned",
           process' = process, worker.pc # "none", run'.status # "none"
    PROVE  HandlerOK'
BY DEF RunInv, HandlerOK

\* Where the worker goes without numbering, storing or sending anything.
Move ==
    \/ worker.pc \in {"setup", "backoff"} /\ worker'.pc \in {"setup", "backoff", "consume"}
    \/ worker.pc = "setup" /\ worker'.pc = "append" /\ worker'.body # CancelNotice
    \/ worker.pc \in {"setup", "backoff", "consume", "send"} /\ worker'.pc = "cancel" /\ ~slot'
    \/ worker.pc = "consume" /\ worker'.pc = "finish"
    \/ worker.pc # "none" /\ worker'.pc = "drop" /\ Stopping
    \/ worker.pc = "drop" /\ worker'.pc = "done"

\* What such a step keeps.
Moves ==
    /\ UNCHANGED <<process, handler, storage, channel, reader, canceller, cancelled, emitted, bounds>>
    /\ registered' \in BOOLEAN /\ slot' \in BOOLEAN /\ (slot' => slot)
    /\ worker' \in WorkerType /\ worker'.seq = worker.seq /\ worker'.journalling = worker.journalling
    /\ worker'.status = "cancelled" => worker.status = "cancelled"
    /\ Move

\* The moves of the worker keep the invariant.
LEMMA MoveKeeps ==
    ASSUME RunInv, Moves
    PROVE  RunInv'
<1> USE ContinuityAssumption DEF storage, reader, bounds
<1>1. worker.pc # "none" /\ handler = "spawned" /\ process # "down"
  BY WorkerSpawned DEF Moves, Move
<1>2. UNCHANGED <<process, handler, run, journal, channel, client, got, replay, emitted, faults, restarts>>
  BY DEF Moves
<1>3. TaskTypes' /\ RecordOK'
  BY <1>2 DEF RunInv, TaskTypes, RecordOK, JournalConsistent, Moves
<1>4. ReaderTypes' /\ ReplayOK' /\ EndOK'
  BY <1>2, ReaderKept DEF RunInv, TaskTypes, Counted, CancelNotice
<1>5. HandlerOK'
  BY <1>1, <1>2, HandlerKept DEF RunInv, HandlerOK
<1>6. WorkerOK'
  BY <1>2 DEF RunInv, WorkerOK, Moves, Move, Over, WorkerType, TaskTypes
<1>7. SlotOK'
  BY <1>2 DEF RunInv, SlotOK, Moves, Move
<1>8. DeliveredOK'
  <2>1. /\ InOrder(got, 0)' = InOrder(got, 0) /\ Exact(got, 0)' = Exact(got, 0)
        /\ InOrder(channel, Len(got))' = InOrder(channel, Len(got))
        /\ Exact(channel, Len(got))' = Exact(channel, Len(got))
    BY <1>2 DEF InOrder, Exact, Overtook
  <2> QED
    BY <1>2, <2>1 DEF RunInv, DeliveredOK, WorkerOK, Moves, Move, Numbering
<1>9. LossNoted'
  BY <1>2 DEF RunInv, LossNoted, WorkerOK, Moves, Move, Stopping
<1>10. OwnerOK'
  BY <1>2 DEF RunInv, OwnerOK, RunHasOwner, Moves, Move, Stopping
<1> QED BY <1>3, <1>4, <1>5, <1>6, <1>7, <1>8, <1>9, <1>10 DEF RunInv

LEMMA MoveStep ==
    ASSUME RunInv,
           \/ Retry \/ BackoffOver \/ StreamOpens \/ SetupFails \/ Cancelled \/ ShutdownSeen \/ TaskEnds
           \/ \E status \in {"completed", "failed"} : BodyEnds(status)
    PROVE  RunInv'
<1> USE ContinuityAssumption DEF WorkerAt, WorkerGoto, outside, control
<1>1. worker \in WorkerType /\ slot \in BOOLEAN /\ registered \in BOOLEAN
  BY DEF RunInv, TaskTypes
<1>2. CASE Retry \/ BackoffOver
  BY <1>1, <1>2, MoveKeeps DEF Retry, BackoffOver, Moves, Move, WorkerType, WorkerPlaces
<1>6. CASE StreamOpens
  BY <1>1, <1>6, MoveKeeps DEF StreamOpens, Moves, Move, WorkerType, WorkerPlaces
<1>7. CASE ShutdownSeen
  BY <1>1, <1>7, MoveKeeps DEF ShutdownSeen, Moves, Move, WorkerType, WorkerPlaces
<1>3. CASE SetupFails
  <2>1. ErrorNotice \in Bodies /\ ErrorNotice # CancelNotice
    BY DEF Bodies, ErrorNotice, CancelNotice
  <2> QED
    BY <1>1, <1>3, <2>1, MoveKeeps DEF SetupFails, Moves, Move, WorkerType, WorkerPlaces
<1>4. CASE Cancelled \/ TaskEnds
  BY <1>1, <1>4, MoveKeeps DEF Cancelled, TaskEnds, Moves, Move, WorkerType, WorkerPlaces
<1>5. ASSUME NEW status \in {"completed", "failed"}, BodyEnds(status) PROVE RunInv'
  BY <1>1, <1>5, MoveKeeps DEF BodyEnds, Moves, Move, WorkerType, WorkerPlaces, Terminal
<1> QED BY <1>2, <1>3, <1>4, <1>5, <1>6, <1>7

\* Numbering an event leaves what is delivered in order: nothing has
\* overtaken it yet.
LEMMA NumberingKeeps ==
    ASSUME RunInv, UNCHANGED <<got, channel, client>>, emitted' \in Nat, emitted <= emitted',
           worker' \in WorkerType,
           \/ worker.pc = "consume" /\ worker'.pc = "append" /\ worker'.seq = worker.seq
           \/ worker.pc \in {"consume", "append"} /\ worker'.pc \in {"mark", "send"}
                /\ worker'.seq = worker.seq + 1
           \/ worker.pc = "cancel" /\ worker'.pc \in {"cancel_mark", "cancel_notify"}
                /\ worker'.seq = worker.seq
    PROVE  DeliveredOK'
<1> USE ContinuityAssumption
<1>1. Exact(got, 0) /\ Exact(channel, Len(got))
  BY DEF RunInv, DeliveredOK, Numbering
<1>2. Exact(got, 0)' /\ Exact(channel, Len(got))' /\ InOrder(got, 0)' /\ InOrder(channel, Len(got))'
  BY <1>1 DEF Exact, InOrder
<1>3. emitted \in Nat /\ worker.seq \in Nat /\ Len(got) \in Nat /\ Len(channel) \in Nat
  BY DEF RunInv, TaskTypes, ReaderTypes, WorkerType, CancelNotice
<1>4. Len(got') + Len(channel') <= emitted'
  BY <1>3 DEF RunInv, DeliveredOK
<1> QED
  BY <1>2, <1>3, <1>4 DEF RunInv, DeliveredOK, WorkerOK, Numbering, Over

LEMMA ChunkStep ==
    ASSUME RunInv, Chunk
    PROVE  RunInv'
<1> USE ContinuityAssumption DEF outside, control, storage, reader, bounds
<1>1. /\ UNCHANGED <<process, handler, run, journal, slot, registered, cancelled, channel, client, got,
                     replay, canceller, faults, restarts>>
      /\ worker.pc = "consume" /\ ~Stopping /\ worker.seq < MaxChunks
  BY DEF Chunk, WorkerAt
<1>2. worker \in WorkerType /\ emitted = worker.seq /\ emitted \in 0..CancelNotice
  BY <1>1 DEF RunInv, TaskTypes, WorkerOK
<1>3. worker.seq + 1 \in Bodies /\ worker.seq + 1 # CancelNotice /\ worker.seq + 1 \in 0..(MaxChunks + 1)
  BY <1>1, <1>2 DEF WorkerType, Bodies, CancelNotice
<1>4. /\ worker' \in WorkerType /\ worker'.journalling = worker.journalling
      /\ worker'.status = worker.status /\ worker'.body # CancelNotice
  BY <1>1, <1>2, <1>3 DEF Chunk, WorkerType, WorkerPlaces
<1>5. \/ worker.journalling /\ worker'.pc = "append" /\ worker'.seq = worker.seq /\ emitted' = emitted
      \/ /\ ~worker.journalling /\ worker'.pc = "send" /\ worker'.seq = worker.seq + 1
         /\ emitted' = worker.seq + 1
  BY <1>2 DEF Chunk, WorkerType
<1>6. emitted' \in 0..CancelNotice /\ emitted <= emitted' /\ run.status \notin Terminal
  BY <1>1, <1>2, <1>3, <1>5 DEF RunInv, WorkerOK, Over, CancelNotice
<1>7. handler = "spawned" /\ process # "down"
  BY <1>1, WorkerSpawned
<1>8. TaskTypes'
  BY <1>1, <1>4, <1>6 DEF RunInv, TaskTypes
<1>9. ReaderTypes' /\ ReplayOK' /\ EndOK'
  BY <1>1, <1>6, ReaderKept DEF RunInv, TaskTypes, Counted, CancelNotice
<1>10. HandlerOK'
  BY <1>1, <1>7, HandlerKept DEF RunInv, HandlerOK
<1>11. RecordOK'
  BY <1>1, <1>2, <1>6 DEF RunInv, RecordOK, JournalConsistent, RunType, CancelNotice
<1>12. WorkerOK'
  BY <1>1, <1>2, <1>4, <1>5, <1>6 DEF RunInv, WorkerOK, WorkerType
<1>13. SlotOK'
  BY <1>1, <1>4, <1>5 DEF RunInv, SlotOK
<1>14. DeliveredOK'
  BY <1>1, <1>4, <1>5, <1>6, NumberingKeeps DEF CancelNotice
<1>15. LossNoted' /\ OwnerOK'
  BY <1>1, <1>4, <1>5, <1>6 DEF RunInv, LossNoted, OwnerOK, RunHasOwner, Terminal
<1> QED BY <1>8, <1>9, <1>10, <1>11, <1>12, <1>13, <1>14, <1>15 DEF RunInv

\* The worker stands before a number that is free.
LEMMA NextNumber ==
    ASSUME RunInv, worker.pc \in {"append", "cancel"}
    PROVE  /\ worker \in WorkerType /\ emitted = worker.seq
           /\ worker.journalling /\ run.status = "running" => run.latest = worker.seq
           /\ worker.seq + 1 \in 1..CancelNotice /\ emitted <= worker.seq + 1
           /\ worker.pc = "append" => worker.journalling /\ worker.seq + 1 \in 0..(MaxChunks + 1)
           /\ run.status \notin Terminal /\ run.status # "none"
           /\ handler = "spawned" /\ process # "down"
<1> USE ContinuityAssumption
<1>1. worker \in WorkerType /\ emitted = worker.seq /\ run.status \notin Terminal
  BY DEF RunInv, TaskTypes, WorkerOK, Over
<1>2. handler = "spawned" /\ process # "down"
  BY WorkerSpawned
<1> QED
  BY <1>1, <1>2 DEF RunInv, WorkerOK, HandlerOK, WorkerType, CancelNotice

LEMMA JournalStep ==
    ASSUME RunInv, NEW fits \in BOOLEAN, Journal(fits)
    PROVE  RunInv'
<1> USE ContinuityAssumption DEF outside, control, reader
<1> DEFINE event == Event(worker.seq + 1, worker.body)
<1>1. /\ UNCHANGED <<process, handler, slot, registered, cancelled, channel, client, got, replay, canceller>>
      /\ worker.pc = "append" /\ AppendEvent(event, fits) /\ emitted' = run.latest + 1
  BY DEF Journal, WorkerAt
<1>2. run.status = "running" /\ run.latest = worker.seq
  BY <1>1, NextNumber DEF AppendEvent
<1>3. /\ RecordOK' /\ Counted /\ faults' = faults /\ run'.status = "running"
      /\ run'.latest = run.latest + 1 /\ (run'.complete => run.complete)
  <2>1. event.id = worker.seq + 1 /\ event.body = worker.body
    BY DEF Event
  <2> QED
    BY <1>1, <1>2, <2>1, NextNumber, Appended DEF WorkerType
<1>4. /\ worker' \in WorkerType /\ worker'.pc = "send" /\ worker'.seq = worker.seq + 1
      /\ worker'.journalling = worker.journalling /\ worker'.status = worker.status
      /\ worker'.body = worker.body
  BY <1>1, <1>2, NextNumber DEF Journal, WorkerType, WorkerPlaces
<1>5. emitted' \in 0..CancelNotice /\ emitted <= emitted'
  BY <1>1, <1>2, NextNumber
<1>6. TaskTypes'
  BY <1>1, <1>3, <1>4, <1>5 DEF RunInv, TaskTypes, Counted
<1>7. ReaderTypes' /\ ReplayOK' /\ EndOK'
  BY <1>1, <1>2, <1>3, <1>5, ReaderKept DEF Terminal, CancelNotice
<1>8. HandlerOK'
  BY <1>1, <1>3, NextNumber, HandlerKept
<1>9. WorkerOK'
  BY <1>1, <1>2, <1>3, <1>4, NextNumber DEF RunInv, WorkerOK, WorkerType, Terminal
<1>10. SlotOK'
  BY <1>1, <1>3, <1>4 DEF RunInv, SlotOK
<1>11. DeliveredOK'
  BY <1>1, <1>4, <1>5, NumberingKeeps DEF CancelNotice
<1>12. LossNoted' /\ OwnerOK'
  BY <1>1, <1>3, <1>4, NextNumber DEF RunInv, LossNoted, OwnerOK, RunHasOwner
<1> QED BY <1>3, <1>6, <1>7, <1>8, <1>9, <1>10, <1>11, <1>12 DEF RunInv

LEMMA JournalFailsStep ==
    ASSUME RunInv, JournalFails
    PROVE  RunInv'
<1> USE ContinuityAssumption DEF outside, control, reader, storage
<1>1. /\ UNCHANGED <<process, handler, slot, registered, cancelled, channel, client, got, replay, canceller>>
      /\ worker.pc = "append" /\ AppendFails /\ emitted' = worker.seq + 1
  BY DEF JournalFails, WorkerAt
<1>2. UNCHANGED <<run, journal>> /\ Counted /\ (run.status # "running" \/ faults' = faults + 1)
  BY <1>1, NotAppended
<1>3. /\ worker' \in WorkerType /\ worker'.seq = worker.seq + 1 /\ worker'.journalling = FALSE
      /\ worker'.pc = IF Stopping THEN "send" ELSE "mark"
      /\ worker'.status = worker.status /\ worker'.body = worker.body
  BY <1>1, NextNumber DEF JournalFails, WorkerType, WorkerPlaces
<1>4. emitted' \in 0..CancelNotice /\ emitted <= emitted' /\ emitted \in Nat
  BY <1>1, NextNumber DEF RunInv, TaskTypes
<1>5. TaskTypes'
  BY <1>1, <1>2, <1>3, <1>4 DEF RunInv, TaskTypes, Counted
<1>6. ReaderTypes' /\ ReplayOK' /\ EndOK'
  BY <1>1, <1>2, <1>4, NextNumber, ReaderKept
<1>7. HandlerOK'
  BY <1>1, <1>2, NextNumber, HandlerKept
<1>8. RecordOK'
  BY <1>2, <1>4 DEF RunInv, RecordOK, JournalConsistent, RunType, CancelNotice
<1>9. WorkerOK'
  BY <1>1, <1>2, <1>3, NextNumber DEF RunInv, WorkerOK, WorkerType
<1>10. SlotOK'
  BY <1>1, <1>2, <1>3 DEF RunInv, SlotOK
<1>11. DeliveredOK'
  BY <1>1, <1>3, <1>4, NumberingKeeps
<1>12. LossNoted'
  <2>1. faults \in Nat /\ faults' \in Nat /\ Stopping' = Stopping
    BY <1>1, <1>2 DEF RunInv, TaskTypes, Counted, Stopping
  <2>2. run.status \in {"running", "gone"}
    BY <1>1, NextNumber DEF RunInv, RecordOK, RunType
  <2> QED
    BY <1>2, <1>3, <2>1, <2>2 DEF LossNoted
<1>13. OwnerOK'
  BY <1>3 DEF OwnerOK, RunHasOwner
<1> QED BY <1>5, <1>6, <1>7, <1>8, <1>9, <1>10, <1>11, <1>12, <1>13 DEF RunInv

LEMMA CancelJournalStep ==
    ASSUME RunInv, CancelJournal
    PROVE  RunInv'
<1> USE ContinuityAssumption DEF outside, control, reader, storage
<1>1. /\ UNCHANGED <<process, handler, slot, cancelled, channel, client, got, replay, canceller>>
      /\ registered' = FALSE /\ worker.pc = "cancel" /\ emitted' = worker.seq + 1
  BY DEF CancelJournal, WorkerAt
<1>2. emitted' \in 0..CancelNotice /\ emitted <= emitted' /\ emitted \in Nat
  BY <1>1, NextNumber DEF RunInv, TaskTypes
<1>3. /\ RecordOK' /\ Counted /\ run'.status = run.status
      /\ run.status = "gone" => run' = run
  <2>1. CASE UNCHANGED <<run, journal>> /\ Counted
    BY <1>2, <2>1 DEF RunInv, RecordOK, JournalConsistent, RunType, CancelNotice
  <2>2. ASSUME worker.journalling, NEW fits \in BOOLEAN, AppendEvent(CancelEvent, fits) PROVE <1>3!:
    <3>1. run.status = "running" /\ run.latest = worker.seq
      BY <1>1, <2>2, NextNumber DEF AppendEvent
    <3>2. CancelEvent.id = worker.seq + 1 /\ CancelEvent.body \in Bodies
      BY DEF CancelEvent, Event, Bodies, CancelNotice
    <3> QED
      BY <1>1, <2>2, <3>1, <3>2, NextNumber, Appended
  <2>3. CASE AppendFails
    BY <2>1, <2>3, NotAppended
  <2>4. CASE UNCHANGED <<storage, bounds>>
    BY <2>1, <2>4 DEF bounds, Counted, RunInv, TaskTypes
  <2> QED
    BY <2>2, <2>3, <2>4 DEF CancelJournal
<1>4. /\ worker' \in WorkerType /\ worker'.seq = worker.seq /\ worker'.status = worker.status
      /\ worker'.pc \in {"cancel_mark", "cancel_notify"}
      /\ worker'.pc = "cancel_mark" => ~worker'.journalling
  BY <1>1, NextNumber DEF CancelJournal, WorkerGoto, WorkerType, WorkerPlaces
<1>5. TaskTypes'
  BY <1>1, <1>2, <1>3, <1>4 DEF RunInv, TaskTypes, Counted
<1>6. ReaderTypes' /\ ReplayOK' /\ EndOK'
  BY <1>1, <1>2, <1>3, NextNumber, ReaderKept
<1>7. HandlerOK'
  BY <1>1, <1>3, NextNumber, HandlerKept
<1>8. WorkerOK'
  BY <1>1, <1>3, <1>4, NextNumber DEF WorkerOK, WorkerType
<1>9. SlotOK'
  BY <1>1, <1>3, <1>4 DEF RunInv, SlotOK
<1>10. DeliveredOK'
  BY <1>1, <1>2, <1>4, NumberingKeeps
<1>11. LossNoted' /\ OwnerOK'
  BY <1>1, <1>3, <1>4, NextNumber DEF LossNoted, OwnerOK, RunHasOwner, Terminal
<1> QED BY <1>3, <1>5, <1>6, <1>7, <1>8, <1>9, <1>10, <1>11 DEF RunInv

\* mark_replay_incomplete after a lost event, and after the end of the run.
LEMMA MarkStep ==
    ASSUME RunInv, Mark \/ CancelMark \/ FinalMark
    PROVE  RunInv'
<1> USE ContinuityAssumption DEF outside, control, reader
<1>1. /\ UNCHANGED <<process, handler, slot, registered, cancelled, channel, client, got, replay,
                     canceller, emitted>>
      /\ \/ worker.pc = "mark" /\ worker' = [worker EXCEPT !.pc = "send"] /\ MarkIncomplete(worker.seq)
         \/ worker.pc = "cancel_mark" /\ worker' = [worker EXCEPT !.pc = "cancel_notify"]
              /\ MarkIncomplete(worker.seq + 1)
         \/ worker.pc = "final_mark" /\ worker' = [worker EXCEPT !.pc = "drop"] /\ MarkIncomplete(worker.seq)
  BY DEF Mark, CancelMark, FinalMark, WorkerAt, WorkerGoto
<1>2. worker \in WorkerType /\ worker.seq \in Nat /\ emitted \in 0..CancelNotice /\ worker.seq <= emitted
  BY DEF RunInv, TaskTypes, WorkerType, WorkerOK
<1>3. PICK n \in Nat : n <= emitted /\ MarkIncomplete(n)
  BY <1>1, <1>2 DEF RunInv, WorkerOK
<1>4. /\ RecordOK' /\ Counted /\ run'.status = run.status
      /\ run.status # "running" => run' = run
      /\ run.status = "running" /\ faults' = faults => ~run'.complete
      /\ faults' = faults \/ (faults' = faults + 1 /\ run' = run)
  BY <1>1, <1>3, Marked
<1>5. /\ worker' \in WorkerType /\ worker'.seq = worker.seq /\ worker'.status = worker.status
      /\ worker'.body = worker.body /\ worker'.journalling = worker.journalling
      /\ \/ worker.pc = "mark" /\ worker'.pc = "send"
         \/ worker.pc = "cancel_mark" /\ worker'.pc = "cancel_notify"
         \/ worker.pc = "final_mark" /\ worker'.pc = "drop"
  BY <1>1, <1>2 DEF WorkerType, WorkerPlaces
<1>6. handler = "spawned" /\ process # "down" /\ run.status # "none"
  BY <1>5, WorkerSpawned DEF RunInv, HandlerOK
<1>7. TaskTypes'
  BY <1>1, <1>4, <1>5 DEF RunInv, TaskTypes, Counted
<1>8. ReaderTypes' /\ ReplayOK' /\ EndOK'
  BY <1>1, <1>2, <1>4, ReaderKept DEF Terminal, CancelNotice
<1>9. HandlerOK'
  BY <1>1, <1>4, <1>5, <1>6, HandlerKept
<1>10. WorkerOK' /\ SlotOK'
  BY <1>1, <1>4, <1>5 DEF RunInv, WorkerOK, SlotOK, Over
<1>11. DeliveredOK'
  BY <1>1, <1>5 DEF RunInv, DeliveredOK, InOrder, Exact, Overtook, Numbering
<1>12. LossNoted'
  <2>1. faults \in Nat /\ faults' \in Nat /\ Stopping' = Stopping
    BY <1>1, <1>4 DEF RunInv, TaskTypes, Counted, Stopping
  <2>2. worker.pc = "mark" /\ faults' <= 1 /\ run'.status = "running" => ~run'.complete
    BY <1>4, <2>1 DEF RunInv, LossNoted
  <2>3. run'.status = "completed" => run' = run
    BY <1>4
  <2> QED
    BY <1>1, <1>4, <1>5, <2>1, <2>2, <2>3 DEF RunInv, LossNoted, Counted
<1>13. OwnerOK'
  BY <1>1, <1>4, <1>5 DEF RunInv, OwnerOK, RunHasOwner, Counted, TaskTypes
<1> QED BY <1>4, <1>7, <1>8, <1>9, <1>10, <1>11, <1>12, <1>13 DEF RunInv

LEMMA FinishStep ==
    ASSUME RunInv, FinishWorker
    PROVE  RunInv'
<1> USE ContinuityAssumption DEF outside, control, reader
<1>1. /\ UNCHANGED <<process, handler, slot, registered, cancelled, channel, client, got, replay,
                     canceller, emitted>>
      /\ worker.pc \in {"finish", "cancel_finish"} /\ FinishRun(worker.status)
  BY DEF FinishWorker
<1>2. worker \in WorkerType /\ worker.status \in Terminal /\ emitted \in 0..CancelNotice
  BY DEF RunInv, TaskTypes, WorkerType
<1>3. /\ RecordOK' /\ Counted
      /\ run'.latest = run.latest /\ run'.retained = run.retained /\ run'.complete = run.complete
      /\ \/ run.status = "running" /\ run'.status = worker.status /\ faults' = faults
         \/ run.status # "running" /\ run' = run
         \/ run' = run /\ faults' = faults + 1
  BY <1>1, <1>2, Finished
<1>4. /\ worker' \in WorkerType /\ worker'.seq = worker.seq /\ worker'.status = worker.status
      /\ worker'.pc \in {"final_mark", "drop"}
  BY <1>2 DEF FinishWorker, WorkerGoto, WorkerType, WorkerPlaces
<1>5. handler = "spawned" /\ process # "down" /\ run.status \in {"running", "gone"}
  BY <1>1, WorkerSpawned DEF RunInv, HandlerOK, WorkerOK, RecordOK, RunType, Over
<1>6. TaskTypes'
  BY <1>1, <1>3, <1>4 DEF RunInv, TaskTypes, Counted
<1>7. ReaderTypes' /\ ReplayOK' /\ EndOK'
  BY <1>1, <1>2, <1>3, <1>5, ReaderKept DEF Terminal, CancelNotice
<1>8. HandlerOK'
  BY <1>1, <1>2, <1>3, <1>5, HandlerKept DEF Terminal
<1>9. WorkerOK' /\ SlotOK'
  BY <1>1, <1>2, <1>3, <1>4, <1>5 DEF RunInv, WorkerOK, SlotOK, Over
<1>10. DeliveredOK'
  BY <1>1, <1>4 DEF RunInv, DeliveredOK, InOrder, Exact, Overtook, Numbering
<1>11. LossNoted'
  <2>1. faults \in Nat /\ faults' \in Nat /\ faults <= faults'
    BY <1>3 DEF RunInv, TaskTypes, Counted
  <2>2. ASSUME faults' <= 1, run'.status = "completed", run'.complete PROVE run'.retained = emitted'
    <3>1. worker.pc = "finish" /\ run.status = "running" /\ worker.journalling
      BY <1>1, <1>3, <1>5, <2>1, <2>2 DEF RunInv, LossNoted, SlotOK
    <3> QED
      BY <1>1, <1>3, <2>2, <3>1 DEF RunInv, WorkerOK, RecordOK
  <2> QED
    BY <1>4, <2>2 DEF LossNoted
<1>12. OwnerOK'
  BY <1>1, <1>2, <1>3, <1>4 DEF RunInv, OwnerOK, RunHasOwner, Counted, TaskTypes, Terminal
<1> QED BY <1>3, <1>6, <1>7, <1>8, <1>9, <1>10, <1>11, <1>12 DEF RunInv

\* Sending: the event that is next, or a notice that may overtake one.
LEMMA Sent ==
    ASSUME RunInv, NEW e \in Events, client = "live", Len(channel) < Capacity,
           Exact(got, 0), Exact(channel, Len(got)), Len(got) + Len(channel) < emitted,
           channel' = Append(channel, e), got' = got, emitted' = emitted,
           e.id = Len(got) + Len(channel) + 1 \/ (e.body = CancelNotice /\ e.id = emitted)
    PROVE  /\ channel' \in Seq(Events) /\ Len(channel') = Len(channel) + 1 /\ Len(channel') <= Capacity
           /\ InOrder(got, 0)' /\ InOrder(channel, Len(got))'
           /\ Exact(got, 0)' /\ Len(got') + Len(channel') <= emitted'
           /\ e.id = Len(got) + Len(channel) + 1 => Exact(channel, Len(got))'
<1> USE ContinuityAssumption
<1>1. /\ channel \in Seq(Events) /\ got \in Seq(Events) /\ Len(got) \in Nat /\ Len(channel) \in Nat
      /\ emitted \in Nat
  BY DEF RunInv, ReaderTypes, TaskTypes, CancelNotice
<1>2. /\ channel' \in Seq(Events) /\ Len(channel') = Len(channel) + 1
      /\ \A i \in 1..Len(channel') : channel'[i] = IF i <= Len(channel) THEN channel[i] ELSE e
  BY <1>1
<1>3. Exact(got, 0)' /\ InOrder(got, 0)'
  BY DEF Exact, InOrder
<1>4. e.id \in Nat
  BY DEF Events, CancelNotice
<1>5. InOrder(channel, Len(got))'
  <2> SUFFICES ASSUME NEW i \in 1..Len(channel')
               PROVE  \/ channel'[i].id = Len(got) + i
                      \/ i = Len(channel') /\ channel'[i].body = CancelNotice
                           /\ channel'[i].id = emitted /\ channel'[i].id > Len(got) + i
    BY DEF InOrder, Overtook
  <2>1. CASE i <= Len(channel)
    <3>1. i \in 1..Len(channel) /\ channel'[i] = channel[i]
      BY <1>1, <1>2, <2>1
    <3> QED
      BY <3>1 DEF Exact
  <2>2. CASE i = Len(channel) + 1
    BY <1>1, <1>2, <1>4, <2>2
  <2> QED BY <1>1, <1>2, <2>1, <2>2
<1>6. e.id = Len(got) + Len(channel) + 1 => Exact(channel, Len(got))'
  <2> SUFFICES ASSUME e.id = Len(got) + Len(channel) + 1, NEW i \in 1..Len(channel')
               PROVE  channel'[i].id = Len(got) + i
    BY DEF Exact
  <2>1. CASE i <= Len(channel)
    <3>1. i \in 1..Len(channel) /\ channel'[i] = channel[i]
      BY <1>1, <1>2, <2>1
    <3> QED
      BY <3>1 DEF Exact
  <2>2. CASE i = Len(channel) + 1
    BY <1>1, <1>2, <2>2
  <2> QED
    BY <1>1, <1>2, <2>1, <2>2
<1>7. Len(channel') <= Capacity /\ Len(got') + Len(channel') <= emitted'
  BY <1>1, <1>2
<1> QED BY <1>2, <1>3, <1>5, <1>6, <1>7

LEMMA SendStep ==
    ASSUME RunInv, Send
    PROVE  RunInv'
<1> USE ContinuityAssumption DEF outside, storage, bounds, reader
<1>1. /\ UNCHANGED <<process, handler, run, journal, registered, cancelled, client, got, replay,
                     canceller, emitted, faults, restarts>>
      /\ worker.pc = "send" /\ (client = "live" => Len(channel) < Capacity)
      /\ channel' = IF client = "live" THEN Append(channel, Event(worker.seq, worker.body)) ELSE channel
  BY DEF Send, WorkerAt
<1>2. /\ worker \in WorkerType /\ emitted = worker.seq /\ worker.seq \in 1..(MaxChunks + 1)
      /\ worker.body # CancelNotice
  BY <1>1 DEF RunInv, TaskTypes, WorkerOK, WorkerType
<1>3. /\ worker' \in WorkerType /\ worker'.seq = worker.seq /\ worker'.status = worker.status
      /\ worker'.journalling = worker.journalling
      /\ worker'.pc = IF Stopping THEN "drop" ELSE IF cancelled THEN "cancel"
                      ELSE IF worker.stage = "stream" THEN "consume" ELSE "finish"
  BY <1>2 DEF Send, WorkerGoto, AfterSend, WorkerType, WorkerPlaces
<1>4. slot' \in BOOLEAN /\ (slot' => slot) /\ (worker'.pc = "cancel" => ~slot')
  BY <1>3 DEF Send, RunInv, TaskTypes
<1>5. handler = "spawned" /\ process # "down" /\ run.status # "none" /\ run.status \notin Terminal
  BY <1>1, WorkerSpawned DEF RunInv, HandlerOK, WorkerOK, Over
<1>6. Exact(got, 0) /\ Exact(channel, Len(got)) /\ Len(got) \in Nat /\ Len(channel) \in Nat
  BY <1>1 DEF RunInv, DeliveredOK, Numbering, ReaderTypes
<1>7. DeliveredOK' /\ channel' \in Seq(Events) /\ Len(channel') <= Capacity
  <2>1. CASE client = "live"
    <3> DEFINE e == Event(worker.seq, worker.body)
    <3>1. e \in Events /\ e.id = worker.seq /\ channel' = Append(channel, e)
      BY <1>1, <1>2, <2>1 DEF Event, Events, WorkerType, CancelNotice
    <3>2. Len(got) + Len(channel) = worker.seq - 1
      BY <1>1, <2>1 DEF RunInv, DeliveredOK
    <3>3. e.id = Len(got) + Len(channel) + 1 /\ Len(got) + Len(channel) < emitted
      BY <1>2, <1>6, <3>1, <3>2
    <3> HIDE DEF e
    <3>4. /\ channel' \in Seq(Events) /\ Len(channel') = Len(channel) + 1 /\ Len(channel') <= Capacity
          /\ InOrder(got, 0)' /\ InOrder(channel, Len(got))'
          /\ Exact(got, 0)' /\ Len(got') + Len(channel') <= emitted' /\ Exact(channel, Len(got))'
      BY <1>1, <1>6, <2>1, <3>1, <3>3, Sent
    <3>5. Len(got') + Len(channel') = worker'.seq
      BY <1>1, <1>2, <1>3, <1>6, <3>2, <3>4
    <3> QED
      BY <1>1, <1>3, <2>1, <3>4, <3>5 DEF DeliveredOK
  <2>2. CASE client # "live"
    <3>1. UNCHANGED <<channel, got, client>>
      BY <1>1, <2>2
    <3> QED
      BY <1>1, <1>3, <1>6, <2>2, <3>1 DEF RunInv, DeliveredOK, ReaderTypes, InOrder, Exact, Overtook
  <2> QED BY <2>1, <2>2
<1>8. TaskTypes' /\ ReaderTypes'
  BY <1>1, <1>3, <1>4, <1>7 DEF RunInv, TaskTypes, ReaderTypes
<1>9. HandlerOK'
  BY <1>1, <1>5, HandlerKept
<1>10. RecordOK' /\ ReplayOK' /\ EndOK'
  BY <1>1 DEF RunInv, RecordOK, JournalConsistent, ReplayOK, EndOK, LastEventId, Exact
<1>11. WorkerOK' /\ SlotOK'
  BY <1>1, <1>2, <1>3, <1>4, <1>5 DEF RunInv, WorkerOK, SlotOK
<1>12. LossNoted' /\ OwnerOK'
  BY <1>1, <1>2, <1>3, <1>5 DEF RunInv, LossNoted, OwnerOK, RunHasOwner, Stopping, Terminal
<1> QED BY <1>7, <1>8, <1>9, <1>10, <1>11, <1>12 DEF RunInv

LEMMA CancelNotifyStep ==
    ASSUME RunInv, CancelNotify
    PROVE  RunInv'
<1> USE ContinuityAssumption DEF outside, storage, control, bounds, reader
<1>1. /\ UNCHANGED <<process, handler, run, journal, slot, registered, cancelled, client, got, replay,
                     canceller, emitted, faults, restarts>>
      /\ worker.pc = "cancel_notify"
      /\ channel' = IF client = "live" /\ Len(channel) < Capacity THEN Append(channel, CancelEvent) ELSE channel
  BY DEF CancelNotify, WorkerAt
<1>2. worker \in WorkerType /\ emitted = worker.seq + 1 /\ emitted \in 1..CancelNotice
  BY <1>1 DEF RunInv, TaskTypes, WorkerOK, WorkerType
<1>3. /\ worker' \in WorkerType /\ worker'.seq = worker.seq /\ worker'.status = "cancelled"
      /\ worker'.pc = "cancel_finish"
  BY <1>2 DEF CancelNotify, WorkerType, WorkerPlaces, Terminal
<1>4. handler = "spawned" /\ process # "down" /\ run.status # "none" /\ run.status \notin Terminal /\ ~slot
  BY <1>1, WorkerSpawned DEF RunInv, HandlerOK, WorkerOK, SlotOK, Over
<1>5. Exact(got, 0) /\ Exact(channel, Len(got)) /\ Len(got) \in Nat /\ Len(channel) \in Nat
  BY <1>1 DEF RunInv, DeliveredOK, Numbering, ReaderTypes
<1>6. DeliveredOK' /\ channel' \in Seq(Events) /\ Len(channel') <= Capacity
  <2>1. CASE client = "live" /\ Len(channel) < Capacity
    <3>1. /\ CancelEvent \in Events /\ CancelEvent.id = emitted /\ CancelEvent.body = CancelNotice
          /\ channel' = Append(channel, CancelEvent)
      BY <1>1, <1>2, <2>1 DEF CancelEvent, Event, Events, Bodies, CancelNotice
    <3>2. Len(got) + Len(channel) < emitted
      BY <1>1, <1>2, <1>5, <2>1 DEF RunInv, DeliveredOK, WorkerType
    <3>3. /\ channel' \in Seq(Events) /\ Len(channel') <= Capacity
          /\ InOrder(got, 0)' /\ InOrder(channel, Len(got))'
          /\ Exact(got, 0)' /\ Len(got') + Len(channel') <= emitted'
      BY <1>1, <1>5, <2>1, <3>1, <3>2, Sent
    <3> QED
      BY <1>1, <1>3, <2>1, <3>3 DEF DeliveredOK, Numbering
  <2>2. CASE channel' = channel
    BY <1>1, <1>3, <1>5, <2>2 DEF RunInv, DeliveredOK, ReaderTypes, InOrder, Exact, Overtook, Numbering
  <2> QED BY <1>1, <2>1, <2>2
<1>7. TaskTypes' /\ ReaderTypes'
  BY <1>1, <1>3, <1>6 DEF RunInv, TaskTypes, ReaderTypes
<1>8. HandlerOK'
  BY <1>1, <1>4, HandlerKept
<1>9. RecordOK' /\ ReplayOK' /\ EndOK'
  BY <1>1 DEF RunInv, RecordOK, JournalConsistent, ReplayOK, EndOK, LastEventId, Exact
<1>10. WorkerOK' /\ SlotOK'
  BY <1>1, <1>2, <1>3, <1>4 DEF RunInv, WorkerOK, SlotOK
<1>11. LossNoted' /\ OwnerOK'
  BY <1>1, <1>3, <1>4 DEF LossNoted, OwnerOK, RunHasOwner, Terminal
<1> QED BY <1>6, <1>7, <1>8, <1>9, <1>10, <1>11 DEF RunInv

-----------------------------------------------------------------------------
(* The client.                                                             *)

\* A page holds the events that follow the cursor, as far as the journal and
\* the page go.
LEMMA PageFollows ==
    ASSUME RunInv, NEW a \in Nat
    PROVE  /\ Page(a) \in Seq(Kept)
           /\ \A n \in 1..Len(Page(a)) :
                 Page(a)[n].key = a + n /\ Page(a)[n].id = a + n /\ a + n <= run.retained
           /\ Page(a) = <<>> <=> run.retained <= a
<1> USE ContinuityAssumption
<1> DEFINE keys == KeysAfter(a)
           chosen == {k \in keys : Cardinality({j \in keys : j < k}) < PageSize}
           Nth(n) == CHOOSE e \in journal :
                       e.key \in chosen /\ Cardinality({j \in chosen : j < e.key}) = n - 1
           m == IF run.retained <= a + PageSize THEN run.retained ELSE a + PageSize
<1>1. /\ run.retained \in Nat /\ journal \subseteq Kept /\ \A e \in journal : e.key = e.id
      /\ {e.key : e \in journal} = 1..run.retained
  BY DEF RunInv, RecordOK, RunType, JournalConsistent
<1>2. keys = (a + 1)..run.retained
  <2>1. keys = {k \in {e.key : e \in journal} : k > a}
    BY DEF KeysAfter
  <2> QED
    BY <1>1, <2>1
<1>3. ASSUME NEW lo \in Int, NEW hi \in Int, NEW k \in lo..hi
      PROVE  Cardinality({j \in lo..hi : j < k}) = k - lo
  <2>1. {j \in lo..hi : j < k} = lo..(k - 1)
    OBVIOUS
  <2>2. lo \in Int /\ k - 1 \in Int /\ lo <= k
    OBVIOUS
  <2>3. Cardinality(lo..(k - 1)) = IF lo > k - 1 THEN 0 ELSE (k - 1) - lo + 1
    BY <2>2, FS_Interval
  <2>4. k \in Int
    OBVIOUS
  <2>5. (IF lo > k - 1 THEN 0 ELSE (k - 1) - lo + 1) = k - lo
    BY <2>2, <2>4
  <2> QED
    BY <2>1, <2>3, <2>5, Zenon
<1>4. chosen = (a + 1)..m
  <2>1. \A k \in keys : Cardinality({j \in keys : j < k}) = k - (a + 1)
    BY <1>1, <1>2, <1>3
  <2>2. chosen = {k \in keys : k - (a + 1) < PageSize}
    BY <2>1
  <2> HIDE DEF chosen
  <2> QED
    BY <1>1, <1>2, <2>2
<1>5. m \in Nat /\ m <= run.retained
  BY <1>1
<1>7. Page(a) = [n \in 1..Cardinality(chosen) |-> Nth(n)]
  BY DEF Page
<1>14. m <= a <=> run.retained <= a
  BY <1>1
<1> HIDE DEF m, chosen, keys
<1>6. Cardinality(chosen) = IF m <= a THEN 0 ELSE m - a
  <2>1. a + 1 \in Int /\ m \in Int
    BY <1>5
  <2>2. Cardinality((a + 1)..m) = IF a + 1 > m THEN 0 ELSE m - (a + 1) + 1
    BY <2>1, FS_Interval
  <2> QED
    BY <1>4, <1>5, <2>2
<1>8. ASSUME NEW n \in 1..Cardinality(chosen)
      PROVE  Nth(n) \in journal /\ Nth(n).key = a + n /\ a + n <= m
  <2>1. a + n \in chosen /\ n \in Nat /\ a + 1 \in Int /\ m \in Int
    BY <1>4, <1>5, <1>6
  <2>2. \A k \in chosen : Cardinality({j \in chosen : j < k}) = k - (a + 1)
    BY <1>3, <1>4, <2>1
  <2>8. a + n \in {e.key : e \in journal}
    <3>1. a + n \in (a + 1)..m
      BY <1>4, <2>1
    <3>2. a + n \in 1..run.retained
      BY <1>1, <1>5, <2>1, <3>1
    <3> QED
      BY <1>1, <3>2
  <2>3. PICK e \in journal : e.key = a + n
    BY <2>8
  <2>4. e.key \in chosen /\ Cardinality({j \in chosen : j < e.key}) = n - 1
    BY <2>1, <2>2, <2>3
  <2>5. /\ Nth(n) \in journal /\ Nth(n).key \in chosen
        /\ Cardinality({j \in chosen : j < Nth(n).key}) = n - 1
    BY <2>3, <2>4
  <2>6. Nth(n).key - (a + 1) = n - 1
    BY <2>2, <2>5
  <2>7. Nth(n).key \in Int
    <3>1. \A k \in chosen : k \in Int
      BY <1>4
    <3> QED BY <2>5, <3>1
  <2> HIDE DEF Nth
  <2> QED
    BY <1>4, <2>1, <2>5, <2>6, <2>7
<1>9. Cardinality(chosen) \in Nat
  BY <1>5, <1>6
<1> HIDE DEF Nth
<1>10. Page(a) \in Seq(Kept) /\ Len(Page(a)) = Cardinality(chosen)
  BY <1>1, <1>7, <1>8, <1>9
<1>11. \A n \in 1..Len(Page(a)) : Page(a)[n].key = a + n /\ Page(a)[n].id = a + n /\ a + n <= run.retained
  <2> SUFFICES ASSUME NEW n \in 1..Len(Page(a))
               PROVE  Page(a)[n].key = a + n /\ Page(a)[n].id = a + n /\ a + n <= run.retained
    OBVIOUS
  <2>1. n \in 1..Cardinality(chosen) /\ Page(a)[n] = Nth(n)
    BY <1>7, <1>10
  <2> QED
    BY <1>1, <1>5, <1>8, <2>1
<1>12. Page(a) = <<>> <=> Cardinality(chosen) = 0
  BY <1>9, <1>10
<1>13. Cardinality(chosen) = 0 <=> run.retained <= a
  BY <1>5, <1>6, <1>14
<1> QED BY <1>10, <1>11, <1>12, <1>13

\* The last event a client has is its last one in order or the last at all.
LEMMA LastSeen ==
    ASSUME RunInv
    PROVE  /\ LastEventId \in Nat /\ LastEventId <= emitted /\ Len(got) \in Nat /\ emitted \in Nat
           /\ Exact(got, 0) \/ LastEventId = emitted
           /\ Exact(got, 0) => LastEventId = Len(got)
<1> USE ContinuityAssumption
<1>1. got \in Seq(Events) /\ emitted \in Nat /\ InOrder(got, 0) /\ Len(channel) \in Nat
      /\ Len(got) + Len(channel) <= emitted /\ Len(got) \in Nat
  BY DEF RunInv, ReaderTypes, TaskTypes, DeliveredOK, CancelNotice
<1>2. CASE got = <<>>
  BY <1>1, <1>2 DEF LastEventId, Exact
<1>3. CASE got # <<>>
  <2>1. Len(got) \in 1..Len(got) /\ LastEventId = got[Len(got)].id
    BY <1>1, <1>3 DEF LastEventId
  <2>2. LastEventId = Len(got) \/ LastEventId = emitted
    BY <1>1, <2>1 DEF InOrder, Overtook
  <2>3. Exact(got, 0) => LastEventId = Len(got)
    BY <1>1, <2>1 DEF Exact
  <2>4. LastEventId = emitted \/ Exact(got, 0)
    BY <1>1, <2>1 DEF Exact, InOrder, Overtook
  <2> QED
    BY <1>1, <2>2, <2>3, <2>4
<1> QED BY <1>2, <1>3

\* A step of the client: everything it does not touch.
ClientMoves == UNCHANGED elsewhere /\ UNCHANGED storage /\ Counted

LEMMA ClientSpawned ==
    ASSUME RunInv, client # "none" \/ handler = "spawned"
    PROVE  handler = "spawned" /\ run.status # "none"
BY DEF RunInv, HandlerOK

\* What is left to show of a step of the client.
LEMMA ClientKeeps ==
    ASSUME RunInv, ClientMoves, handler = "spawned", ReaderTypes', DeliveredOK', ReplayOK', EndOK'
    PROVE  RunInv'
<1>1. TaskTypes' /\ RecordOK' /\ WorkerOK' /\ SlotOK' /\ LossNoted' /\ OwnerOK'
  BY WorkerKept DEF ClientMoves
<1>2. HandlerOK'
  BY DEF RunInv, HandlerOK, ClientMoves, elsewhere, storage, Counted
<1> QED BY <1>1, <1>2 DEF RunInv

\* A client that goes, or comes, takes nothing with it.
LEMMA StillDelivered ==
    ASSUME RunInv, UNCHANGED <<elsewhere, got>>, client' # "live", channel' = <<>>
    PROVE  DeliveredOK'
<1> USE ContinuityAssumption DEF elsewhere
<1>1. /\ Len(got) \in Nat /\ Len(channel) \in Nat /\ emitted \in Nat /\ Len(channel') = 0
      /\ Len(got) + Len(channel) <= emitted
  BY DEF RunInv, ReaderTypes, DeliveredOK, TaskTypes, CancelNotice
<1>2. InOrder(got, 0)' /\ Exact(got, 0)' = Exact(got, 0)
  BY DEF RunInv, DeliveredOK, InOrder, Exact, Overtook
<1>3. InOrder(channel, Len(got))' /\ Exact(channel, Len(got))'
  BY <1>1 DEF InOrder, Exact
<1>4. Len(got') + Len(channel') <= emitted'
  BY <1>1
<1> QED
  BY <1>2, <1>3, <1>4 DEF RunInv, DeliveredOK

LEMMA LiveEventStep ==
    ASSUME RunInv, LiveEvent
    PROVE  RunInv'
<1> USE ContinuityAssumption
<1>1. /\ client = "live" /\ channel # <<>> /\ got' = Append(got, Head(channel)) /\ channel' = Tail(channel)
      /\ UNCHANGED <<client, replay, process, handler, worker, emitted, run, faults, restarts>>
  BY DEF LiveEvent, Receive, elsewhere, storage, bounds
<1>2. ClientMoves
  BY DEF LiveEvent, bounds, Counted, RunInv, TaskTypes, ClientMoves
<1>3. /\ channel \in Seq(Events) /\ got \in Seq(Events) /\ Len(channel) \in Nat \ {0} /\ Len(got) \in Nat
      /\ Exact(got, 0) /\ InOrder(channel, Len(got)) /\ Len(got) + Len(channel) <= emitted
      /\ emitted \in Nat /\ Len(channel) <= Capacity
  BY <1>1 DEF RunInv, ReaderTypes, DeliveredOK, TaskTypes, CancelNotice
<1>4. /\ Head(channel) = channel[1] /\ channel[1] \in Events /\ channel' \in Seq(Events)
      /\ Len(channel') = Len(channel) - 1 /\ \A i \in 1..Len(channel') : channel'[i] = channel[i + 1]
  BY <1>1, <1>3
<1>5. /\ got' \in Seq(Events) /\ Len(got') = Len(got) + 1
      /\ \A i \in 1..Len(got) : got'[i] = got[i]
      /\ got'[Len(got) + 1] = channel[1]
  BY <1>1, <1>3, <1>4
<1>6. channel[1].id = Len(got) + 1 \/ (Len(channel) = 1 /\ Overtook(channel[1], Len(got) + 1))
  <2>1. 1 \in 1..Len(channel)
    BY <1>3
  <2> QED BY <1>3, <2>1 DEF InOrder
<1>7. InOrder(got, 0)'
  <2> SUFFICES ASSUME NEW i \in 1..Len(got')
               PROVE  got'[i].id = i \/ (i = Len(got') /\ got'[i].body = CancelNotice
                                          /\ got'[i].id = emitted /\ got'[i].id > i)
    BY <1>1 DEF InOrder, Overtook
  <2>1. CASE i <= Len(got)
    BY <1>3, <1>5, <2>1 DEF Exact
  <2>2. CASE i = Len(got) + 1
    BY <1>3, <1>5, <1>6, <2>2 DEF Overtook
  <2> QED BY <1>3, <1>5, <2>1, <2>2
<1>8. channel[1].id = Len(got) + 1 => Exact(got, 0)'
  <2> SUFFICES ASSUME channel[1].id = Len(got) + 1, NEW i \in 1..Len(got')
               PROVE  got'[i].id = i
    BY <1>3, <1>5 DEF Exact
  <2>1. CASE i <= Len(got)
    BY <1>3, <1>5, <2>1 DEF Exact
  <2>2. CASE i = Len(got) + 1
    BY <1>3, <1>5, <2>2
  <2> QED BY <1>3, <1>5, <2>1, <2>2
<1>9. InOrder(channel, Len(got))'
  <2> SUFFICES ASSUME NEW i \in 1..Len(channel')
               PROVE  \/ channel'[i].id = Len(got) + 1 + i
                      \/ i = Len(channel') /\ channel'[i].body = CancelNotice
                           /\ channel'[i].id = emitted /\ channel'[i].id > Len(got) + 1 + i
    BY <1>1, <1>5 DEF InOrder, Overtook
  <2>1. i + 1 \in 1..Len(channel) /\ channel'[i] = channel[i + 1] /\ i \in Nat
    BY <1>3, <1>4
  <2>2. \/ channel[i + 1].id = Len(got) + (i + 1)
        \/ i + 1 = Len(channel) /\ channel[i + 1].body = CancelNotice
             /\ channel[i + 1].id = emitted /\ channel[i + 1].id > Len(got) + (i + 1)
    BY <1>3, <2>1 DEF InOrder, Overtook
  <2> QED BY <1>3, <1>4, <2>1, <2>2
<1>10. Exact(channel, Len(got)) => Exact(channel, Len(got))' /\ channel[1].id = Len(got) + 1
  <2> SUFFICES ASSUME Exact(channel, Len(got))
               PROVE  Exact(channel, Len(got))' /\ channel[1].id = Len(got) + 1
    OBVIOUS
  <2>1. channel[1].id = Len(got) + 1
    BY <1>3 DEF Exact
  <2>2. ASSUME NEW i \in 1..Len(channel') PROVE channel'[i].id = Len(got') + i
    <3>1. i + 1 \in 1..Len(channel) /\ channel'[i] = channel[i + 1] /\ i \in Nat
      BY <1>3, <1>4
    <3>2. channel[i + 1].id = Len(got) + (i + 1)
      BY <3>1 DEF Exact
    <3> QED BY <1>3, <1>5, <3>1, <3>2
  <2> QED BY <2>1, <2>2 DEF Exact
<1>11. channel' # <<>> => channel[1].id = Len(got) + 1
  BY <1>3, <1>4, <1>6
<1>12. Len(got') + Len(channel') = Len(got) + Len(channel)
  BY <1>3, <1>4, <1>5
<1>13. DeliveredOK'
  BY <1>1, <1>7, <1>8, <1>9, <1>10, <1>11, <1>12 DEF RunInv, DeliveredOK
<1>14. ReaderTypes'
  BY <1>1, <1>3, <1>4, <1>5 DEF RunInv, ReaderTypes
<1>15. ReplayOK' /\ EndOK'
  <2>1. replay.pc = "none"
    BY <1>1 DEF RunInv, ReplayOK, ReaderTypes, ReplayType
  <2>2. replay.ended # "eof"
    BY <1>1 DEF RunInv, EndOK
  <2> QED BY <1>1, <2>1, <2>2 DEF ReplayOK, EndOK
<1> QED BY <1>1, <1>2, <1>13, <1>14, <1>15, ClientSpawned, ClientKeeps

\* The client ends one of its two ways of reading, with an empty page.
LEMMA ClientEnds ==
    ASSUME RunInv, ClientMoves, client # "none", client' = "none", channel' = <<>>, got' = got,
           replay' \in ReplayType, replay'.pc = "none", EndOK'
    PROVE  RunInv'
<1>1. handler = "spawned"
  BY ClientSpawned
<1>2. DeliveredOK'
  BY StillDelivered DEF ClientMoves
<1>3. channel' \in Seq(Events) /\ Len(channel') <= Capacity
  BY ContinuityAssumption
<1>4. ReaderTypes'
  BY <1>3 DEF RunInv, ReaderTypes
<1>5. ReplayOK'
  BY DEF ReplayOK
<1> QED BY <1>1, <1>2, <1>4, <1>5, ClientKeeps

\* An ended resume, whatever ended it.
LEMMA ResumeEnded ==
    ASSUME NEW how \in {"eof", "limit", "error"}, ResumeEnds(how)
    PROVE  /\ client' = "none" /\ replay' \in ReplayType /\ replay'.pc = "none"
           /\ replay'.ended = how
BY Blanks DEF ResumeEnds, ReplayType

LEMMA ClientLeaves ==
    ASSUME RunInv, LiveEnds \/ ResumeDrops
    PROVE  RunInv'
<1>1. ClientMoves
  BY DEF LiveEnds, ResumeDrops, bounds, Counted, RunInv, TaskTypes, ClientMoves
<1>2. CASE LiveEnds
  <2>1. client = "live" /\ client' = "none" /\ channel' = <<>> /\ UNCHANGED <<got, replay>>
    BY <1>2 DEF LiveEnds
  <2>2. replay \in ReplayType /\ replay.pc = "none" /\ replay.ended # "eof"
    BY <2>1 DEF RunInv, ReplayOK, ReaderTypes, EndOK
  <2>3. EndOK'
    BY <2>1, <2>2 DEF EndOK
  <2> QED BY <1>1, <2>1, <2>2, <2>3, ClientEnds
<1>3. CASE ResumeDrops
  <2>1. client = "resume" /\ ResumeEnds("error") /\ UNCHANGED <<got, channel>>
    BY <1>3 DEF ResumeDrops
  <2>2. channel = <<>>
    BY <2>1 DEF RunInv, DeliveredOK
  <2>3. EndOK'
    BY <2>1, ResumeEnded DEF EndOK
  <2> QED BY <1>1, <2>1, <2>2, <2>3, ResumeEnded, ClientEnds
<1> QED BY <1>2, <1>3

\* A resume goes on: the client still has what it had.
LEMMA ResumeGoesOn ==
    ASSUME RunInv, ClientMoves, handler = "spawned", client # "live", client' = "resume",
           UNCHANGED <<channel, got>>, replay' \in ReplayType, replay'.ended # "eof", ReplayOK'
    PROVE  RunInv'
<1>1. channel = <<>>
  BY DEF RunInv, DeliveredOK
<1>2. DeliveredOK'
  BY <1>1, StillDelivered DEF ClientMoves
<1>3. ReaderTypes' /\ EndOK'
  BY DEF RunInv, ReaderTypes, EndOK
<1> QED BY <1>2, <1>3, ClientKeeps

LEMMA ResumeStep ==
    ASSUME RunInv, Resume
    PROVE  RunInv'
<1>1. /\ client = "none" /\ handler = "spawned" /\ client' = "resume" /\ UNCHANGED <<channel, got>>
      /\ replay' = [NoReplay EXCEPT !.pc = "load", !.last = LastEventId]
  BY DEF Resume
<1>2. ClientMoves
  BY DEF Resume, bounds, Counted, RunInv, TaskTypes, ClientMoves
<1>3. LastEventId \in Nat /\ LastEventId' = LastEventId
  BY <1>1, LastSeen DEF LastEventId
<1>4. /\ replay' \in ReplayType /\ replay'.pc = "load" /\ replay'.last = LastEventId
      /\ replay'.ended = "no"
  BY <1>1, <1>3, Blanks DEF ReplayType
<1>5. ReplayOK'
  BY <1>1, <1>3, <1>4 DEF ReplayOK
<1> QED BY <1>1, <1>2, <1>4, <1>5, ResumeGoesOn

LEMMA ReplayLoadStep ==
    ASSUME RunInv, ReplayLoad
    PROVE  RunInv'
<1>1. client = "resume" /\ replay.pc = "load" /\ UNCHANGED <<elsewhere, channel, got>>
  BY DEF ReplayLoad
<1>2. ClientMoves
  BY ContinuityAssumption DEF ReplayLoad, Fault, bounds, Counted, RunInv, TaskTypes, ClientMoves, storage
<1>3. CASE ResumeEnds("error")
  <2>1. channel = <<>>
    BY <1>1 DEF RunInv, DeliveredOK
  <2>2. EndOK'
    BY <1>3, ResumeEnded DEF EndOK
  <2> QED BY <1>1, <1>2, <1>3, <2>1, <2>2, ResumeEnded, ClientEnds
<1>4. CASE run.status # "gone" /\ replay' = [replay EXCEPT !.pc = "read", !.run = run] /\ client' = client
  <2>1. handler = "spawned" /\ run.status \in Terminal \cup {"running"} /\ run \in RunType
    BY <1>1, <1>4, ClientSpawned DEF RunInv, RecordOK, RunType
  <2>2. replay \in ReplayType /\ replay.ended # "eof" /\ replay.last = LastEventId
    BY <1>1 DEF RunInv, ReaderTypes, EndOK, ReplayOK
  <2>3. /\ replay' \in ReplayType /\ replay'.pc = "read" /\ replay'.run = run
        /\ replay'.last = replay.last /\ replay'.ended = replay.ended
    BY <1>4, <2>1, <2>2 DEF ReplayType
  <2>4. run' = run /\ LastEventId' = LastEventId
    BY <1>1, <1>2 DEF ClientMoves, storage, LastEventId
  <2>5. ReplayOK'
    BY <1>1, <1>4, <2>1, <2>2, <2>3, <2>4 DEF ReplayOK
  <2> QED BY <1>1, <1>2, <1>4, <2>1, <2>2, <2>3, <2>5, ResumeGoesOn
<1> QED BY <1>3, <1>4 DEF ReplayLoad

\* A resume that reads an empty page after a final record has everything.
LEMMA AtTheEnd ==
    ASSUME RunInv, client = "resume", replay.pc = "read", Page(replay.last) = <<>>,
           replay.run.status # "running",
           replay.run.complete \/ replay.last < replay.run.retained
    PROVE  /\ run.status \in Terminal \cup {"gone"}
           /\ faults <= 1 /\ run.status = "completed" => LastEventId = emitted
<1>1. /\ run = replay.run \/ run.status = "gone"
      /\ replay.run.status \in Terminal \cup {"running"} /\ replay.last = LastEventId
      /\ run \in RunType
  BY DEF RunInv, ReplayOK, RecordOK
<1>2. run.status \in Terminal \cup {"gone"}
  BY <1>1
<1>3. ASSUME faults <= 1, run.status = "completed" PROVE LastEventId = emitted
  <2>1. run = replay.run /\ run.retained \in Nat
    BY <1>1, <1>3, ContinuityAssumption DEF RunType
  <2>2. LastEventId \in Nat /\ LastEventId <= emitted /\ emitted \in Nat
    BY LastSeen
  <2>3. run.retained <= LastEventId
    BY <1>1, <2>2, PageFollows
  <2>4. run.complete
    BY <1>1, <2>1, <2>2, <2>3
  <2>5. run.retained = emitted
    BY <1>3, <2>4 DEF RunInv, LossNoted
  <2> QED BY <2>1, <2>2, <2>3, <2>5
<1> QED BY <1>2, <1>3

LEMMA ReplayReadStep ==
    ASSUME RunInv, ReplayRead
    PROVE  RunInv'
<1> DEFINE page == Page(replay.last)
<1>1. client = "resume" /\ replay.pc = "read" /\ UNCHANGED <<elsewhere, channel, got>>
  BY DEF ReplayRead
<1>2. ClientMoves
  BY ContinuityAssumption DEF ReplayRead, Fault, bounds, Counted, RunInv, TaskTypes, ClientMoves, storage
<1>3. /\ handler = "spawned" /\ replay \in ReplayType /\ replay.ended # "eof"
      /\ replay.last = LastEventId /\ LastEventId \in Nat /\ channel = <<>>
      /\ LastEventId' = LastEventId
  BY <1>1, ClientSpawned, LastSeen DEF RunInv, ReaderTypes, EndOK, ReplayOK, DeliveredOK, LastEventId
<1>4. CASE page # <<>> /\ replay' = [replay EXCEPT !.pc = "yield", !.page = page] /\ client' = client
  <2>1. /\ page \in Seq(Kept)
        /\ \A n \in 1..Len(page) :
              page[n].key = replay.last + n /\ page[n].id = replay.last + n /\ replay.last + n <= run.retained
        /\ ~(run.retained <= replay.last)
    BY <1>3, <1>4, PageFollows
  <2> HIDE DEF page
  <2>2. /\ replay' \in ReplayType /\ replay'.pc = "yield" /\ replay'.page = page
        /\ replay'.last = replay.last /\ replay'.ended = replay.ended
    BY <1>3, <1>4, <2>1 DEF ReplayType
  <2>3. run.retained \in Nat /\ run.retained <= emitted /\ emitted \in Nat /\ emitted' = emitted
    BY <1>1, ContinuityAssumption DEF RunInv, RecordOK, RunType, TaskTypes, CancelNotice, elsewhere
  <2>4. Exact(got, 0)'
    <3>1. LastEventId # emitted
      BY <1>3, <2>1, <2>3
    <3> QED BY <1>1, <3>1, LastSeen DEF Exact
  <2>5. \A n \in 1..Len(page) : page[n].key = replay.last + n /\ page[n].id = page[n].key /\ page[n].id <= emitted
    BY <1>3, <2>1, <2>3
  <2>6. ReplayOK'
    BY <1>1, <1>3, <1>4, <2>2, <2>3, <2>4, <2>5 DEF ReplayOK
  <2> QED BY <1>1, <1>2, <1>3, <1>4, <2>2, <2>6, ResumeGoesOn
<1>5. CASE ResumeEnds("limit") \/ ResumeEnds("error")
  <2>1. EndOK'
    BY <1>5, ResumeEnded DEF EndOK
  <2> QED BY <1>1, <1>2, <1>3, <1>5, <2>1, ResumeEnded, ClientEnds
<1>6. CASE /\ page = <<>> /\ (replay.run.complete \/ replay.last < replay.run.retained)
           /\ replay.run.status # "running" /\ ResumeEnds("eof") /\ UNCHANGED <<storage, bounds>>
  <2>1. /\ run.status \in Terminal \cup {"gone"}
        /\ faults <= 1 /\ run.status = "completed" => LastEventId = emitted
    BY <1>1, <1>6, AtTheEnd
  <2>2. run' = run /\ faults' = faults /\ emitted' = emitted
    BY <1>1, <1>6 DEF storage, bounds, elsewhere
  <2>3. EndOK'
    BY <1>3, <1>6, <2>1, <2>2, ResumeEnded DEF EndOK
  <2> QED BY <1>1, <1>2, <1>3, <1>6, <2>3, ResumeEnded, ClientEnds
<1>7. CASE replay' = [replay EXCEPT !.pc = "load"] /\ client' = client
  <2>1. /\ replay' \in ReplayType /\ replay'.pc = "load" /\ replay'.last = replay.last
        /\ replay'.ended = replay.ended
    BY <1>3, <1>7 DEF ReplayType
  <2>2. ReplayOK'
    BY <1>1, <1>3, <1>7, <2>1 DEF ReplayOK
  <2> QED BY <1>1, <1>2, <1>3, <1>7, <2>1, <2>2, ResumeGoesOn
<1> HIDE DEF page
<1> QED
  <2>1. \/ page # <<>> /\ replay' = [replay EXCEPT !.pc = "yield", !.page = page] /\ client' = client
        \/ ResumeEnds("limit")
        \/ /\ page = <<>> /\ (replay.run.complete \/ replay.last < replay.run.retained)
           /\ IF replay.run.status # "running" THEN ResumeEnds("eof")
              ELSE replay' = [replay EXCEPT !.pc = "load"] /\ UNCHANGED client
           /\ UNCHANGED <<storage, bounds>>
        \/ ResumeEnds("error")
    BY DEF ReplayRead, page
  <2> QED BY <1>4, <1>5, <1>6, <1>7, <2>1

LEMMA ReplayYieldStep ==
    ASSUME RunInv, ReplayYield
    PROVE  RunInv'
<1> USE ContinuityAssumption
<1> DEFINE e == Head(replay.page)
<1>1. /\ client = "resume" /\ replay.pc = "yield" /\ UNCHANGED <<elsewhere, channel, client>>
      /\ got' = Append(got, Event(e.id, e.body))
      /\ replay' = [replay EXCEPT !.last = e.key, !.page = Tail(@),
                                  !.pc = IF Len(replay.page) = 1 THEN "load" ELSE "yield"]
  BY DEF ReplayYield, Receive
<1>2. ClientMoves
  BY DEF ReplayYield, bounds, Counted, RunInv, TaskTypes, ClientMoves
<1>3. /\ handler = "spawned" /\ replay \in ReplayType /\ replay.ended # "eof"
      /\ replay.last = LastEventId /\ channel = <<>> /\ emitted' = emitted
  BY <1>1, ClientSpawned DEF RunInv, ReaderTypes, EndOK, ReplayOK, DeliveredOK, elsewhere
<1>4. /\ Exact(got, 0) /\ LastEventId = Len(got) /\ Len(got) \in Nat /\ emitted \in Nat
      /\ got \in Seq(Events)
  BY <1>1, LastSeen DEF RunInv, ReplayOK, ReaderTypes
<1>5. /\ replay.page \in Seq(Kept) /\ replay.page # <<>> /\ Len(replay.page) \in Nat \ {0}
      /\ \A n \in 1..Len(replay.page) :
            /\ replay.page[n].key = Len(got) + n /\ replay.page[n].id = Len(got) + n
            /\ Len(got) + n <= emitted
  <2>1. replay.page \in Seq(Kept) /\ replay.page # <<>>
    BY <1>1, <1>3 DEF RunInv, ReplayOK, ReplayType
  <2>2. \A n \in 1..Len(replay.page) :
            /\ replay.page[n].key = Len(got) + n /\ replay.page[n].id = Len(got) + n
            /\ Len(got) + n <= emitted
    BY <1>1, <1>3, <1>4 DEF RunInv, ReplayOK
  <2> QED BY <2>1, <2>2
<1>6. e \in Kept /\ e.key = Len(got) + 1 /\ e.id = Len(got) + 1 /\ Len(got) + 1 <= emitted
  BY <1>4, <1>5
<1>7. Event(e.id, e.body) \in Events /\ Event(e.id, e.body).id = Len(got) + 1
  BY <1>6 DEF Event, Events, Kept
<1> HIDE DEF e
<1>8. /\ got' \in Seq(Events) /\ Len(got') = Len(got) + 1
      /\ \A i \in 1..Len(got) : got'[i] = got[i]
      /\ got'[Len(got) + 1].id = Len(got) + 1
  BY <1>1, <1>4, <1>7
<1>9. Exact(got, 0)'
  <2> SUFFICES ASSUME NEW i \in 1..Len(got') PROVE got'[i].id = i
    BY <1>4, <1>8 DEF Exact
  <2>1. CASE i <= Len(got)
    BY <1>4, <1>8, <2>1 DEF Exact
  <2>2. CASE i = Len(got) + 1
    BY <1>8, <2>2
  <2> QED BY <1>4, <1>8, <2>1, <2>2
<1>10. LastEventId' = Len(got) + 1
  <2>1. got' # <<>>
    BY <1>4, <1>8
  <2> QED BY <1>8, <2>1 DEF LastEventId
<1>11. DeliveredOK'
  <2>1. InOrder(got, 0)'
    BY <1>4, <1>8, <1>9 DEF Exact, InOrder
  <2>2. channel' = <<>> /\ Len(channel') = 0 /\ Len(got') + Len(channel') <= emitted'
    BY <1>1, <1>3, <1>4, <1>6, <1>8
  <2>3. InOrder(channel, Len(got))' /\ Exact(channel, Len(got))'
    BY <2>2 DEF InOrder, Exact
  <2> QED BY <1>1, <1>9, <2>1, <2>2, <2>3 DEF DeliveredOK
<1>12. /\ Tail(replay.page) \in Seq(Kept) /\ Len(Tail(replay.page)) = Len(replay.page) - 1
       /\ \A n \in 1..Len(Tail(replay.page)) : Tail(replay.page)[n] = replay.page[n + 1]
  BY <1>5
<1>13. /\ replay' \in ReplayType /\ replay'.last = Len(got) + 1 /\ replay'.page = Tail(replay.page)
       /\ replay'.pc = (IF Len(replay.page) = 1 THEN "load" ELSE "yield")
       /\ replay'.ended = replay.ended
  <2>1. e.key \in Nat /\ (IF Len(replay.page) = 1 THEN "load" ELSE "yield") \in {"load", "yield"}
    BY <1>4, <1>6
  <2>2. replay'.last = e.key /\ replay'.page = Tail(replay.page) /\ replay'.ended = replay.ended
        /\ replay'.pc = (IF Len(replay.page) = 1 THEN "load" ELSE "yield")
    BY <1>1, <1>3 DEF ReplayType
  <2>3. replay' \in ReplayType
    BY <1>1, <1>3, <1>12, <2>1 DEF ReplayType
  <2> QED BY <1>6, <2>2, <2>3
<1>14. ReplayOK'
  <2>1. \A n \in 1..Len(replay'.page) :
            /\ replay'.page[n].key = Len(got) + 1 + n /\ replay'.page[n].id = Len(got) + 1 + n
            /\ Len(got) + 1 + n <= emitted
    <3> SUFFICES ASSUME NEW n \in 1..Len(Tail(replay.page))
                 PROVE  /\ Tail(replay.page)[n].key = Len(got) + 1 + n
                        /\ Tail(replay.page)[n].id = Len(got) + 1 + n
                        /\ Len(got) + 1 + n <= emitted
      BY <1>13
    <3>1. n + 1 \in 1..Len(replay.page) /\ Tail(replay.page)[n] = replay.page[n + 1] /\ n \in Nat
      BY <1>5, <1>12
    <3>2. /\ replay.page[n + 1].key = Len(got) + (n + 1) /\ replay.page[n + 1].id = Len(got) + (n + 1)
          /\ Len(got) + (n + 1) <= emitted
      BY <1>5, <3>1
    <3> QED BY <1>4, <3>1, <3>2
  <2>2. replay'.pc = "yield" => replay'.page # <<>>
    <3>1. ASSUME replay'.pc = "yield" PROVE Len(replay'.page) # 0
      BY <1>5, <1>12, <1>13, <3>1
    <3> QED BY <3>1
  <2> QED BY <1>1, <1>3, <1>9, <1>10, <1>13, <2>1, <2>2 DEF ReplayOK
<1>15. ReaderTypes' /\ EndOK'
  BY <1>1, <1>3, <1>8, <1>13 DEF RunInv, ReaderTypes, EndOK
<1> QED BY <1>2, <1>3, <1>11, <1>14, <1>15, ClientKeeps

LEMMA ClientStepKeeps ==
    ASSUME RunInv, ClientStep
    PROVE  RunInv'
BY LiveEventStep, ClientLeaves, ResumeStep, ReplayLoadStep, ReplayReadStep, ReplayYieldStep DEF ClientStep

-----------------------------------------------------------------------------
(* The other client, the administrator and the process.                    *)

\* What is delivered depends on the worker only by where it stands.
LEMMA DeliveryKept ==
    ASSUME RunInv, UNCHANGED <<got, emitted>>, worker' = worker \/ worker'.pc = "none",
           UNCHANGED <<channel, client>> \/ (channel' = <<>> /\ client' # "live")
    PROVE  DeliveredOK'
<1> USE ContinuityAssumption
<1>1. /\ Len(got) \in Nat /\ Len(channel) \in Nat /\ emitted \in Nat
      /\ Len(got) + Len(channel) <= emitted
  BY DEF RunInv, ReaderTypes, DeliveredOK, TaskTypes, CancelNotice
<1>2. InOrder(got, 0)' /\ Exact(got, 0)' = Exact(got, 0)
  BY DEF RunInv, DeliveredOK, InOrder, Exact, Overtook
<1>3. CASE UNCHANGED <<channel, client>>
  <2>1. InOrder(channel, Len(got))' /\ Exact(channel, Len(got))' = Exact(channel, Len(got))
    BY <1>3 DEF RunInv, DeliveredOK, InOrder, Exact, Overtook
  <2> QED BY <1>1, <1>2, <1>3, <2>1 DEF RunInv, DeliveredOK, Numbering
<1>4. CASE channel' = <<>> /\ client' # "live"
  <2>1. InOrder(channel, Len(got))' /\ Exact(channel, Len(got))' /\ Len(channel') = 0
    BY <1>4 DEF InOrder, Exact
  <2>2. Len(got') + Len(channel') <= emitted'
    BY <1>1, <2>1
  <2> QED BY <1>2, <1>4, <2>1, <2>2 DEF RunInv, DeliveredOK, Numbering
<1> QED BY <1>3, <1>4

LEMMA CancelShutdownStep ==
    ASSUME RunInv, CancelLoad \/ CancelRequest \/ Shutdown
    PROVE  RunInv'
<1> USE ContinuityAssumption DEF storage, control, reader, bounds
<1>1. /\ UNCHANGED <<handler, run, journal, worker, slot, registered, channel, client, got, replay,
                     emitted, faults, restarts>>
      /\ process' = process \/ (process = "up" /\ process' = "stopping")
  BY DEF CancelLoad, CancelRequest, Shutdown
<1>2. cancelled' \in BOOLEAN
  BY DEF CancelLoad, CancelRequest, Shutdown, RunInv, TaskTypes
<1>3. canceller' \in {"idle", "loaded", "accepted", "conflict"}
  BY DEF CancelLoad, CancelRequest, Shutdown, RunInv, TaskTypes
<1>4. TaskTypes'
  BY <1>1, <1>2, <1>3 DEF RunInv, TaskTypes
<1>5. ReaderTypes' /\ ReplayOK' /\ EndOK'
  BY <1>1 DEF RunInv, ReaderTypes, ReplayOK, EndOK, Exact, LastEventId
<1>6. HandlerOK' /\ RecordOK' /\ WorkerOK' /\ SlotOK'
  BY <1>1 DEF RunInv, HandlerOK, RecordOK, JournalConsistent, WorkerOK, SlotOK
<1>7. DeliveredOK'
  BY <1>1, DeliveryKept
<1>8. LossNoted' /\ OwnerOK'
  BY <1>1 DEF RunInv, LossNoted, OwnerOK, RunHasOwner, Stopping
<1> QED BY <1>4, <1>5, <1>6, <1>7, <1>8 DEF RunInv

LEMMA RemoveStep ==
    ASSUME RunInv, DeleteKey \/ Purge
    PROVE  RunInv'
<1> USE ContinuityAssumption DEF storage, control, reader, bounds
<1>1. /\ UNCHANGED <<process, handler, worker, slot, registered, cancelled, channel, client, got, replay,
                     canceller, emitted, faults, restarts>>
      /\ run' = Gone /\ journal' = {} /\ run.status \in Terminal \cup {"running"}
  BY DEF DeleteKey, Purge, RemoveRun
<1>2. handler \notin {"idle", "creating"}
  BY <1>1, Blanks DEF RunInv, HandlerOK, Terminal
<1>3. TaskTypes'
  BY <1>1 DEF RunInv, TaskTypes
<1>4. ReaderTypes' /\ ReplayOK' /\ EndOK'
  <2>1. Counted /\ emitted' \in Nat /\ emitted' = emitted
    BY <1>1 DEF RunInv, TaskTypes, Counted, CancelNotice
  <2> QED BY <1>1, <2>1, Blanks, ReaderKept
<1>5. HandlerOK'
  BY <1>1, <1>2, Blanks DEF RunInv, HandlerOK
<1>6. RecordOK'
  <2>1. emitted \in Nat /\ {e.key : e \in journal'} = {} /\ 1..0 = {}
    BY <1>1 DEF RunInv, TaskTypes, CancelNotice
  <2> QED BY <1>1, <2>1, Blanks DEF RecordOK, JournalConsistent
<1>7. WorkerOK' /\ SlotOK'
  BY <1>1, Blanks DEF RunInv, WorkerOK, SlotOK, Terminal
<1>8. DeliveredOK'
  BY <1>1, DeliveryKept
<1>9. LossNoted' /\ OwnerOK'
  BY <1>1, Blanks DEF RunInv, LossNoted, OwnerOK, RunHasOwner, Stopping
<1> QED BY <1>3, <1>4, <1>5, <1>6, <1>7, <1>8, <1>9 DEF RunInv

LEMMA CrashStep ==
    ASSUME RunInv, Crash
    PROVE  RunInv'
<1> USE ContinuityAssumption DEF storage, bounds
<1>1. /\ UNCHANGED <<run, journal, got, emitted, faults, restarts>>
      /\ restarts < MaxRestarts /\ process' = "down"
      /\ handler' = IF handler = "spawned" THEN "spawned" ELSE "abandoned"
      /\ ~slot' /\ ~registered' /\ ~cancelled'
      /\ channel' = <<>> /\ client' = "none" /\ replay' = NoReplay
      /\ canceller' = IF canceller = "loaded" THEN "conflict" ELSE canceller
  BY DEF Crash
<1>2. /\ worker' \in WorkerType /\ worker'.pc = "none" /\ worker'.seq = worker.seq
      /\ worker'.status = worker.status
  BY DEF RunInv, TaskTypes, WorkerType, WorkerPlaces, Crash
<1>3. handler # "spawned" => worker' = NoWorker
  <2>1. [NoWorker EXCEPT !.pc = "none"] = NoWorker
    BY DEF NoWorker
  <2> QED BY <2>1 DEF RunInv, HandlerOK, Crash
<1>4. slot' \in BOOLEAN /\ registered' \in BOOLEAN /\ cancelled' \in BOOLEAN
  BY DEF Crash
<1>5. TaskTypes'
  BY <1>1, <1>2, <1>4 DEF RunInv, TaskTypes
<1>6. ReaderTypes' /\ ReplayOK' /\ EndOK'
  BY <1>1, Blanks DEF RunInv, ReaderTypes, ReplayOK, EndOK
<1>7. HandlerOK'
  BY <1>1, <1>2, <1>3 DEF RunInv, HandlerOK
<1>8. RecordOK' /\ WorkerOK'
  BY <1>1, <1>2 DEF RunInv, RecordOK, JournalConsistent, WorkerOK, Over
<1>9. SlotOK'
  BY <1>1, <1>2 DEF RunInv, SlotOK
<1>10. DeliveredOK'
  BY <1>1, <1>2, DeliveryKept
<1>11. LossNoted' /\ OwnerOK'
  BY <1>1, <1>2 DEF RunInv, LossNoted, OwnerOK, RunHasOwner
<1> QED BY <1>5, <1>6, <1>7, <1>8, <1>9, <1>10, <1>11 DEF RunInv

LEMMA RestartStep ==
    ASSUME RunInv, Restart
    PROVE  RunInv'
<1> USE ContinuityAssumption DEF control, reader
<1>1. /\ UNCHANGED <<handler, journal, worker, slot, registered, cancelled, channel, client, got, replay,
                     canceller, emitted, faults>>
      /\ process = "down" /\ process' = "up" /\ restarts' = restarts + 1
      /\ run' = IF run.status = "running" THEN [run EXCEPT !.status = "failed"] ELSE run
  BY DEF Restart
<1>2. /\ worker.pc = "none" /\ restarts < MaxRestarts /\ handler \notin {"idle", "creating", "created"}
      /\ run \in RunType
  BY <1>1 DEF RunInv, HandlerOK, RecordOK
<1>3. /\ run' \in RunType /\ run'.latest = run.latest /\ run'.retained = run.retained
      /\ run'.complete = run.complete
      /\ \/ run' = run /\ run.status # "running"
         \/ run.status = "running" /\ run'.status = "failed"
  BY <1>1, <1>2 DEF RunType, Terminal
<1>4. TaskTypes'
  BY <1>1, <1>2 DEF RunInv, TaskTypes
<1>5. ReaderTypes'
  BY <1>1 DEF RunInv, ReaderTypes
<1>6. ReplayOK'
  <2>1. replay.pc = "read" /\ replay.run.status # "running" => run' = replay.run \/ run'.status = "gone"
    BY <1>3 DEF RunInv, ReplayOK
  <2> QED BY <1>1, <2>1 DEF RunInv, ReplayOK, Exact, LastEventId
<1>7. EndOK'
  BY <1>1, <1>3 DEF RunInv, EndOK, LastEventId, Terminal
<1>8. HandlerOK'
  BY <1>1, <1>2, <1>3 DEF RunInv, HandlerOK
<1>9. RecordOK'
  BY <1>1, <1>3 DEF RunInv, RecordOK, JournalConsistent
<1>10. WorkerOK' /\ SlotOK'
  BY <1>1, <1>2, <1>3 DEF RunInv, WorkerOK, SlotOK, Over
<1>11. DeliveredOK'
  BY <1>1, DeliveryKept
<1>12. LossNoted' /\ OwnerOK'
  BY <1>1, <1>2, <1>3 DEF RunInv, LossNoted, OwnerOK, RunHasOwner
<1> QED BY <1>4, <1>5, <1>6, <1>7, <1>8, <1>9, <1>10, <1>11, <1>12 DEF RunInv

-----------------------------------------------------------------------------
(* Every step, and the theorems.                                           *)

LEMMA RunStarts ==
    ASSUME RunInit
    PROVE  RunInv
<1> USE ContinuityAssumption DEF RunInit
<1>1. TaskTypes
  <2>1. slot \in BOOLEAN /\ registered \in BOOLEAN /\ cancelled \in BOOLEAN
    OBVIOUS
  <2> QED BY <2>1, Blanks DEF TaskTypes, CancelNotice
<1>2. ReaderTypes
  BY Blanks DEF ReaderTypes
<1>3. HandlerOK /\ WorkerOK /\ SlotOK
  BY Blanks DEF HandlerOK, WorkerOK, SlotOK, Terminal
<1>4. RecordOK
  <2>1. {e.key : e \in journal} = {} /\ 1..0 = {} /\ journal \subseteq Kept
    OBVIOUS
  <2> QED BY <2>1, Blanks DEF RecordOK, JournalConsistent
<1>5. DeliveredOK
  BY Blanks DEF DeliveredOK, InOrder, Exact, Numbering
<1>6. ReplayOK /\ EndOK
  BY Blanks DEF ReplayOK, EndOK
<1>7. LossNoted /\ OwnerOK
  BY Blanks DEF LossNoted, OwnerOK, RunHasOwner
<1> QED BY <1>1, <1>2, <1>3, <1>4, <1>5, <1>6, <1>7 DEF RunInv

LEMMA RunStutters ==
    ASSUME RunInv, UNCHANGED runVars
    PROVE  RunInv'
<1> USE DEF runVars, storage, control, reader, bounds, RunInv
<1>1. TaskTypes' /\ ReaderTypes' /\ HandlerOK'
  BY DEF TaskTypes, ReaderTypes, HandlerOK
<1>2. RecordOK' /\ WorkerOK' /\ SlotOK'
  BY DEF RecordOK, JournalConsistent, WorkerOK, SlotOK
<1>3. DeliveredOK'
  BY DEF DeliveredOK, InOrder, Exact, Overtook
<1>4. ReplayOK' /\ EndOK'
  BY DEF ReplayOK, EndOK, Exact, LastEventId
<1>5. LossNoted' /\ OwnerOK'
  BY DEF LossNoted, OwnerOK, RunHasOwner, Stopping
<1> QED BY <1>1, <1>2, <1>3, <1>4, <1>5

LEMMA RunStep ==
    ASSUME RunInv, [RunNext]_runVars
    PROVE  RunInv'
<1>1. CASE Acquire \/ Create \/ Spawn \/ Abandon
  BY <1>1, HandlerStep
<1>2. CASE WorkerStep
  BY <1>2, MoveStep, ChunkStep, JournalStep, JournalFailsStep, MarkStep, SendStep, CancelJournalStep,
     CancelNotifyStep, FinishStep DEF WorkerStep
<1>3. CASE ClientStep
  BY <1>3, ClientStepKeeps
<1>4. CASE CancelLoad \/ CancelRequest \/ DeleteKey \/ Purge \/ Shutdown \/ Crash \/ Restart
  BY <1>4, CancelShutdownStep, RemoveStep, CrashStep, RestartStep
<1> QED BY <1>1, <1>2, <1>3, <1>4, RunStutters DEF RunNext

LEMMA RunInvariant == RunSpec => []RunInv
<1>1. RunInit => RunInv
  BY RunStarts
<1>2. RunInv /\ [RunNext]_runVars => RunInv'
  BY RunStep
<1> QED BY <1>1, <1>2, PTL DEF RunSpec

\* What the invariant says of the code.
LEMMA InvariantSays ==
    ASSUME RunInv
    PROVE  /\ RunTypeOK /\ NoGapNoDuplicate /\ JournalConsistent /\ CancelledFreesSlot /\ RunHasOwner
           /\ faults <= 1 => ResumeComplete
<1>1. RunTypeOK
  <2>1. slot \in BOOLEAN /\ registered \in BOOLEAN /\ cancelled \in BOOLEAN
    BY DEF RunInv, TaskTypes
  <2>2. worker.seq \in 0..MaxChunks + 1 /\ worker.journalling \in BOOLEAN
    BY DEF RunInv, TaskTypes, WorkerType
  <2> QED BY <2>1, <2>2 DEF RunInv, TaskTypes, ReaderTypes, RecordOK, Kept, RunTypeOK
<1>2. NoGapNoDuplicate
  <2> SUFFICES ASSUME NEW i \in 1..Len(got)
               PROVE  got[i].id = i \/ (got[i].body = CancelNotice /\ got[i].id > i)
    BY DEF NoGapNoDuplicate
  <2>1. got[i].id = 0 + i \/ Overtook(got[i], 0 + i)
    BY DEF RunInv, DeliveredOK, InOrder
  <2> QED BY <2>1 DEF Overtook
<1>3. JournalConsistent /\ CancelledFreesSlot /\ RunHasOwner /\ (faults <= 1 => ResumeComplete)
  BY DEF RunInv, RecordOK, SlotOK, OwnerOK, EndOK, CancelledFreesSlot, ResumeComplete
<1> QED BY <1>1, <1>2, <1>3

\* However many storage calls fail and however often the process stops, a
\* client that disconnects and resumes gets the events in order, none twice
\* and none left out, the journal is a prefix without holes under the ids the
\* live events carry, a cancelled run has freed its slot and a running run has
\* somebody to end it; as long as at most one storage call has failed, a
\* resume that ends without a notice has delivered all of a completed stream.
THEOREM RunIsSafe ==
    RunSpec => [](/\ RunTypeOK /\ NoGapNoDuplicate /\ JournalConsistent /\ CancelledFreesSlot
                  /\ RunHasOwner /\ (faults <= 1 => ResumeComplete))
BY RunInvariant, InvariantSays, PTL

\* With at most one failing storage call the run is sound, the completeness
\* of a resume included.
THEOREM RunIsSound ==
    ASSUME MaxFaults <= 1
    PROVE  RunSpec => []RunSound
<1>1. RunInv => RunSound
  <2>1. ASSUME RunInv PROVE faults <= 1
    BY <2>1, ContinuityAssumption DEF RunInv, TaskTypes
  <2> QED BY <2>1, InvariantSays DEF RunSound
<1> QED BY <1>1, RunInvariant, PTL

-----------------------------------------------------------------------------
(* The circuit breaker: the inductive invariant.                           *)

\* Every id in use was handed out before the next one.
IdsFresh ==
    /\ 1 <= nextGeneration /\ 1 <= nextProbe
    /\ circuit.generation < nextGeneration /\ circuit.probe < nextProbe
    /\ \A r \in Requests : /\ lease[r].generation < nextGeneration
                           /\ lease[r].probe < nextProbe

\* Nobody holds a probe id twice, and nobody holds one without a generation.
ProbesDistinct ==
    /\ \A r, s \in Requests :
          lease[r].probe # None /\ lease[r].probe = lease[s].probe => r = s
    /\ \A r \in Requests : lease[r].probe # None => lease[r].generation # None

\* A request that has no lease yet has no ids.
Unleased ==
    \A r \in Requests : phase[r] \in {"idle", "prepared"} =>
        lease[r].generation = None /\ lease[r].probe = None

\* An entry without a generation is the missing entry.
EntryMarked == circuit.generation = None => circuit = NoCircuit

\* The probe slot belongs to the one current lease with a probe id.
SlotMatches ==
    /\ circuit.probe # None =>
          circuit.open /\ \E r \in Requests : Current(r) /\ lease[r].probe = circuit.probe
    /\ \A r \in Requests :
          Current(r) /\ lease[r].probe # None => lease[r].probe = circuit.probe

Shortest(c) == c \in Cooldowns /\ \A d \in Cooldowns : c <= d

\* The time an open circuit has waited and the time it has left.
CooldownCovered ==
    /\ circuit.open => /\ quiet = circuit.age
                       /\ \A c \in Cooldowns : Shortest(c) => circuit.age + circuit.left >= c
    /\ \A r \in Requests : phase[r] = "failing" => lease[r].cooldown \in Cooldowns

BreakerInv ==
    /\ BreakerTypeOK /\ IdsFresh /\ ProbesDistinct /\ Unleased /\ EntryMarked
    /\ SlotMatches /\ CooldownCovered

USE BreakerAssumption DEF CircuitType, LeaseType, None, leaseVars, adminVars, idVars

-----------------------------------------------------------------------------
(* Facts about the operators.                                              *)

\* permit_provider gives the lease its ids and changes nothing else of it.
LEMMA GrantLease ==
    ASSUME BreakerTypeOK, NEW r \in Requests, NEW g \in 0..MaxId, NEW p \in 0..MaxId,
           Grant(r, g, p)
    PROVE  /\ lease' \in [Requests -> LeaseType]
           /\ phase' \in [Requests -> {"idle", "prepared", "leased", "failing"}]
           /\ lease'[r].generation = g /\ lease'[r].probe = p
<1>1. lease[r] \in LeaseType
  BY DEF BreakerTypeOK
<1>2. [lease[r] EXCEPT !.generation = g, !.probe = p] \in LeaseType
  BY <1>1
<1>3. lease' = [lease EXCEPT ![r] = [lease[r] EXCEPT !.generation = g, !.probe = p]]
  BY DEF Grant, BreakerTypeOK
<1> QED
  BY <1>1, <1>2, <1>3 DEF Grant, BreakerTypeOK

\* Longest is a cooldown no other exceeds, so ages may stop there.
LEMMA LongestExists == Longest \in Cooldowns /\ \A d \in Cooldowns : d <= Longest
BY DEF Longest

\* A lease that ends is a lease with no ids.
LEMMA FinishedLease ==
    ASSUME BreakerTypeOK, NEW r \in Requests, FinishLease(r)
    PROVE  /\ lease' \in [Requests -> LeaseType]
           /\ phase' \in [Requests -> {"idle", "prepared", "leased", "failing"}]
BY DEF BreakerTypeOK, FinishLease, NoLease

\* Settings are numbers.
LEMMA SettingsNat == (\A t \in Thresholds : t \in Nat) /\ (\A c \in Cooldowns : c \in Nat)
OBVIOUS

-----------------------------------------------------------------------------
(* Every action keeps BreakerInv.                                          *)

\* A request that starts has no lease yet.
LEMMA StartInv ==
    ASSUME BreakerInv, NEW r \in Requests, Start(r)
    PROVE  BreakerInv'
<1> USE DEF BreakerInv, BreakerTypeOK
<1>1. BreakerTypeOK'
  BY DEF Start
<1>2. IdsFresh' /\ ProbesDistinct' /\ Unleased'
  BY DEF Start, IdsFresh, ProbesDistinct, Unleased
<1>3. EntryMarked' /\ SlotMatches'
  BY DEF Start, EntryMarked, SlotMatches, Current, NoCircuit, Closed, IdsFresh,
          ProbesDistinct, Unleased
<1>4. CooldownCovered'
  BY DEF Start, CooldownCovered, Shortest
<1> QED
  BY <1>1, <1>2, <1>3, <1>4

\* A lease without the breaker has no ids either.
LEMMA AdmitUnguardedInv ==
    ASSUME BreakerInv, NEW r \in Requests, AdmitUnguarded(r)
    PROVE  BreakerInv'
<1> USE DEF BreakerInv, BreakerTypeOK
<1>1. BreakerTypeOK'
  <2>1. None \in 0..MaxId /\ None \in 0..MaxId /\ Grant(r, None, None)
    BY DEF AdmitUnguarded
  <2>2. lease' \in [Requests -> LeaseType]
        /\ phase' \in [Requests -> {"idle", "prepared", "leased", "failing"}]
    BY <2>1, GrantLease
  <2> QED
    BY <2>2 DEF AdmitUnguarded
<1>2. IdsFresh' /\ ProbesDistinct' /\ Unleased'
  BY DEF AdmitUnguarded, Grant, IdsFresh, ProbesDistinct, Unleased
<1>3. EntryMarked' /\ SlotMatches'
  BY DEF AdmitUnguarded, Grant, EntryMarked, SlotMatches, Current, NoCircuit,
          Closed, IdsFresh, ProbesDistinct, Unleased
<1>4. CooldownCovered'
  BY DEF AdmitUnguarded, Grant, CooldownCovered, Shortest
<1> QED
  BY <1>1, <1>2, <1>3, <1>4

\* A new entry has a generation no lease has seen.
LEMMA AdmitClosedInv ==
    ASSUME BreakerInv, NEW r \in Requests, AdmitClosed(r)
    PROVE  BreakerInv'
<1> USE DEF BreakerInv, BreakerTypeOK
<1>1. BreakerTypeOK'
  <2>1. Entry.generation \in 0..MaxId /\ None \in 0..MaxId /\ Grant(r, Entry.generation, None)
    BY DEF AdmitClosed, Entry, EntryExists, Closed, NoCircuit
  <2>2. lease' \in [Requests -> LeaseType]
        /\ phase' \in [Requests -> {"idle", "prepared", "leased", "failing"}]
    BY <2>1, GrantLease
  <2> QED
    BY <2>2 DEF AdmitClosed, Entry, EntryExists, Closed, NoCircuit
<1>2. IdsFresh' /\ ProbesDistinct' /\ Unleased'
  BY DEF AdmitClosed, Grant, Entry, EntryExists, Closed, NoCircuit, IdsFresh,
          ProbesDistinct, Unleased
<1>3. EntryMarked' /\ SlotMatches'
  BY DEF AdmitClosed, Grant, Entry, EntryExists, Closed, NoCircuit,
          EntryMarked, SlotMatches, Current, IdsFresh, ProbesDistinct, Unleased
<1>4. CooldownCovered'
  BY DEF AdmitClosed, Grant, Entry, EntryExists, Closed, NoCircuit,
          CooldownCovered, Shortest
<1> QED
  BY <1>1, <1>2, <1>3, <1>4

\* The slot is free, so there is no other current probe; its id is new.
LEMMA AdmitProbeInv ==
    ASSUME BreakerInv, NEW r \in Requests, AdmitProbe(r)
    PROVE  BreakerInv'
<1> USE DEF BreakerInv, BreakerTypeOK
<1>1. BreakerTypeOK'
  <2>1. circuit.generation \in 0..MaxId /\ nextProbe \in 0..MaxId /\ Grant(r, circuit.generation, nextProbe)
    BY DEF AdmitProbe, IdsFresh
  <2>2. lease' \in [Requests -> LeaseType]
        /\ phase' \in [Requests -> {"idle", "prepared", "leased", "failing"}]
    BY <2>1, GrantLease
  <2> QED
    BY <2>2 DEF AdmitProbe, IdsFresh
<1>2. IdsFresh' /\ ProbesDistinct' /\ Unleased'
  BY DEF AdmitProbe, Grant, ProbeDue, IdsFresh, ProbesDistinct, Unleased
<1>3. EntryMarked' /\ SlotMatches'
  BY DEF AdmitProbe, Grant, ProbeDue, EntryMarked, SlotMatches, Current,
          NoCircuit, Closed, IdsFresh, ProbesDistinct, Unleased
<1>4. CooldownCovered'
  BY DEF AdmitProbe, Grant, ProbeDue, CooldownCovered, Shortest
<1> QED
  BY <1>1, <1>2, <1>3, <1>4

\* A refused request leaves as it came.
LEMMA RefuseInv ==
    ASSUME BreakerInv, NEW r \in Requests, Refuse(r)
    PROVE  BreakerInv'
<1> USE DEF BreakerInv, BreakerTypeOK
<1>1. BreakerTypeOK'
  BY DEF Refuse, NoLease
<1>2. IdsFresh' /\ ProbesDistinct' /\ Unleased'
  BY DEF Refuse, NoLease, IdsFresh, ProbesDistinct, Unleased
<1>3. EntryMarked' /\ SlotMatches'
  BY DEF Refuse, NoLease, EntryMarked, SlotMatches, Current, NoCircuit, Closed,
          IdsFresh, ProbesDistinct, Unleased
<1>4. CooldownCovered'
  BY DEF Refuse, NoLease, CooldownCovered, Shortest
<1> QED
  BY <1>1, <1>2, <1>3, <1>4

\* Only the probe frees the slot, and it ends.
LEMMA SucceedInv ==
    ASSUME BreakerInv, NEW r \in Requests, Succeed(r)
    PROVE  BreakerInv'
<1> USE DEF BreakerInv, BreakerTypeOK
<1>1. BreakerTypeOK'
  <2>1. circuit' \in CircuitType
    BY DEF Succeed, AfterSuccess, Closed
  <2> QED
    BY <2>1, FinishedLease DEF Succeed
<1>2. IdsFresh' /\ ProbesDistinct' /\ Unleased'
  BY DEF Succeed, AfterSuccess, FinishLease, NoLease, HoldsProbe, Closed,
          IdsFresh, ProbesDistinct, Unleased
<1>3. EntryMarked' /\ SlotMatches'
  BY DEF Succeed, AfterSuccess, FinishLease, NoLease, HoldsProbe, Closed,
          EntryMarked, SlotMatches, Current, NoCircuit, IdsFresh, ProbesDistinct, Unleased
<1>4. CooldownCovered'
  BY DEF Succeed, AfterSuccess, FinishLease, NoLease, HoldsProbe, Closed,
          CooldownCovered, Shortest
<1> QED
  BY <1>1, <1>2, <1>3, <1>4

\* The failing request remembers a cooldown of the settings.
LEMMA FailReadInv ==
    ASSUME BreakerInv, NEW r \in Requests, FailRead(r)
    PROVE  BreakerInv'
<1> USE DEF BreakerInv, BreakerTypeOK
<1>1. BreakerTypeOK'
  <2>1. CASE lease[r].generation = None
    BY <2>1, FinishedLease DEF FailRead
  <2>2. CASE lease[r].generation # None
    <3>0. settings.threshold \in Thresholds /\ settings.cooldown \in Cooldowns
      OBVIOUS
    <3>1. settings.threshold \in Nat /\ settings.cooldown \in Nat
      BY <3>0, SettingsNat
    <3>2. lease[r] \in LeaseType
      OBVIOUS
    <3>3. [lease[r] EXCEPT !.threshold = settings.threshold,
                           !.cooldown = settings.cooldown] \in LeaseType
      BY <3>1, <3>2
    <3>4. lease' = [lease EXCEPT ![r] = [lease[r] EXCEPT !.threshold = settings.threshold,
                                                         !.cooldown = settings.cooldown]]
      BY <2>2 DEF FailRead
    <3> QED
      BY <2>2, <3>3, <3>4 DEF FailRead
  <2> QED
    BY <2>1, <2>2
<1>2. IdsFresh' /\ ProbesDistinct' /\ Unleased'
  BY DEF FailRead, FinishLease, NoLease, IdsFresh, ProbesDistinct, Unleased
<1>3. EntryMarked' /\ SlotMatches'
  BY DEF FailRead, FinishLease, NoLease, EntryMarked, SlotMatches, Current,
          NoCircuit, Closed, IdsFresh, ProbesDistinct, Unleased
<1>4. CooldownCovered'
  BY DEF FailRead, FinishLease, NoLease, CooldownCovered, Shortest
<1> QED
  BY <1>1, <1>2, <1>3, <1>4

\* A failure that trips starts a whole cooldown; the slot goes with its probe.
LEMMA FailApplyInv ==
    ASSUME BreakerInv, NEW r \in Requests, FailApply(r)
    PROVE  BreakerInv'
<1> USE DEF BreakerInv, BreakerTypeOK
<1>1. BreakerTypeOK'
  <2>1. AfterFailure(r) \in CircuitType
    BY DEF AfterFailure, Saturated, Trips
  <2> QED
    BY <2>1, FinishedLease DEF FailApply
<1>2. IdsFresh' /\ ProbesDistinct' /\ Unleased'
  BY DEF FailApply, AfterFailure, Trips, Saturated, FinishLease, NoLease,
          HoldsProbe, IdsFresh, ProbesDistinct, Unleased
<1>3. EntryMarked' /\ SlotMatches'
  <2>1. /\ circuit'.generation = circuit.generation
        /\ circuit.open => circuit'.open
        /\ circuit' # circuit => circuit.generation # None
        /\ circuit'.probe = IF Current(r) /\ HoldsProbe(r) THEN None ELSE circuit.probe
    BY DEF FailApply, AfterFailure, Current
  <2>2. EntryMarked'
    BY <2>1 DEF EntryMarked, NoCircuit, Closed
  <2>3. \A s \in Requests : lease'[s] = IF s = r THEN NoLease ELSE lease[s]
    BY DEF FailApply, FinishLease
  <2>4. SlotMatches'
    BY <2>1, <2>3 DEF SlotMatches, Current, HoldsProbe, NoLease, ProbesDistinct
  <2> QED
    BY <2>2, <2>4
<1>4. CooldownCovered'
  BY DEF FailApply, AfterFailure, Trips, Saturated, FinishLease, NoLease,
          HoldsProbe, CooldownCovered, Shortest
<1> QED
  BY <1>1, <1>2, <1>3, <1>4

\* A lease that is given up frees its own slot only.
LEMMA ReleaseInv ==
    ASSUME BreakerInv, NEW r \in Requests, Release(r)
    PROVE  BreakerInv'
<1> USE DEF BreakerInv, BreakerTypeOK
<1>1. BreakerTypeOK'
  BY DEF Release, FinishLease, NoLease, HoldsProbe
<1>2. IdsFresh' /\ ProbesDistinct' /\ Unleased'
  BY DEF Release, FinishLease, NoLease, HoldsProbe, IdsFresh, ProbesDistinct, Unleased
<1>3. EntryMarked' /\ SlotMatches'
  BY DEF Release, FinishLease, NoLease, HoldsProbe, EntryMarked, SlotMatches,
          Current, NoCircuit, Closed, IdsFresh, ProbesDistinct, Unleased
<1>4. CooldownCovered'
  BY DEF Release, FinishLease, NoLease, HoldsProbe, CooldownCovered, Shortest
<1> QED
  BY <1>1, <1>2, <1>3, <1>4

\* New settings touch no circuit and no lease.
LEMMA SettingsWriteInv ==
    ASSUME BreakerInv, NEW t \in Thresholds, NEW c \in Cooldowns, NEW e \in BOOLEAN,
           SettingsWrite(t, c, e)
    PROVE  BreakerInv'
<1> USE DEF BreakerInv, BreakerTypeOK
<1>1. BreakerTypeOK'
  BY DEF SettingsWrite
<1>2. IdsFresh' /\ ProbesDistinct' /\ Unleased'
  BY DEF SettingsWrite, IdsFresh, ProbesDistinct, Unleased
<1>3. EntryMarked' /\ SlotMatches'
  BY DEF SettingsWrite, EntryMarked, SlotMatches, Current, NoCircuit, Closed,
          IdsFresh, ProbesDistinct, Unleased
<1>4. CooldownCovered'
  BY DEF SettingsWrite, CooldownCovered, Shortest
<1> QED
  BY <1>1, <1>2, <1>3, <1>4

\* Retiming leaves what is missing of the new cooldown.
LEMMA SettingsRetimeInv ==
    ASSUME BreakerInv, SettingsRetime
    PROVE  BreakerInv'
<1> USE DEF BreakerInv, BreakerTypeOK
<1>1. BreakerTypeOK'
  BY DEF SettingsRetime
<1>2. IdsFresh' /\ ProbesDistinct' /\ Unleased'
  BY DEF SettingsRetime, IdsFresh, ProbesDistinct, Unleased
<1>3. EntryMarked' /\ SlotMatches'
  <2>1. /\ circuit'.generation = circuit.generation /\ circuit'.open = circuit.open
        /\ circuit'.probe = circuit.probe /\ lease' = lease
    BY DEF SettingsRetime
  <2>2. EntryMarked'
    BY DEF SettingsRetime, EntryMarked, NoCircuit, Closed
  <2>3. SlotMatches'
    BY <2>1 DEF SlotMatches, Current
  <2> QED
    BY <2>2, <2>3
<1>4. CooldownCovered'
  BY DEF SettingsRetime, CooldownCovered, Shortest
<1> QED
  BY <1>1, <1>2, <1>3, <1>4

\* Publication touches no circuit and no lease.
LEMMA SettingsPublishInv ==
    ASSUME BreakerInv, SettingsPublish
    PROVE  BreakerInv'
<1> USE DEF BreakerInv, BreakerTypeOK
<1>1. BreakerTypeOK'
  BY DEF SettingsPublish
<1>2. IdsFresh' /\ ProbesDistinct' /\ Unleased'
  BY DEF SettingsPublish, IdsFresh, ProbesDistinct, Unleased
<1>3. EntryMarked' /\ SlotMatches'
  BY DEF SettingsPublish, EntryMarked, SlotMatches, Current, NoCircuit, Closed,
          IdsFresh, ProbesDistinct, Unleased
<1>4. CooldownCovered'
  BY DEF SettingsPublish, CooldownCovered, Shortest
<1> QED
  BY <1>1, <1>2, <1>3, <1>4

\* A removed entry has no generation, so every lease on it is stale.
LEMMA ClearInv ==
    ASSUME BreakerInv, Clear
    PROVE  BreakerInv'
<1> USE DEF BreakerInv, BreakerTypeOK
<1>1. BreakerTypeOK'
  BY DEF Clear, NoCircuit, Closed
<1>2. IdsFresh' /\ ProbesDistinct' /\ Unleased'
  BY DEF Clear, NoCircuit, Closed, IdsFresh, ProbesDistinct, Unleased
<1>3. EntryMarked' /\ SlotMatches'
  BY DEF Clear, NoCircuit, Closed, EntryMarked, SlotMatches, Current, IdsFresh,
          ProbesDistinct, Unleased
<1>4. CooldownCovered'
  BY DEF Clear, NoCircuit, Closed, CooldownCovered, Shortest
<1> QED
  BY <1>1, <1>2, <1>3, <1>4

\* What passes of the wait is added to the age, up to the longest cooldown.
LEMMA TickInv ==
    ASSUME BreakerInv, Tick
    PROVE  BreakerInv'
<1> USE DEF BreakerInv, BreakerTypeOK
<1>1. BreakerTypeOK'
  <2>1. Later(circuit.age) \in Nat /\ Sooner(circuit.left) \in Nat /\ Later(quiet) \in Nat
    BY DEF Later, Sooner
  <2> QED
    BY <2>1 DEF Tick
<1>2. IdsFresh' /\ ProbesDistinct' /\ Unleased'
  BY DEF Tick, Later, Sooner, IdsFresh, ProbesDistinct, Unleased
<1>3. EntryMarked' /\ SlotMatches'
  BY DEF Tick, Later, Sooner, EntryMarked, SlotMatches, Current, NoCircuit,
          Closed, IdsFresh, ProbesDistinct, Unleased
<1>4. CooldownCovered'
  <2>1. Longest \in Nat /\ \A d \in Cooldowns : d <= Longest /\ d \in Nat
    BY LongestExists
  <2>2. /\ quiet' = Later(quiet) /\ circuit'.age = Later(circuit.age)
        /\ circuit'.left = Sooner(circuit.left)
        /\ circuit.age \in Nat /\ circuit.left \in Nat /\ quiet = circuit.age
    BY DEF Tick, CooldownCovered
  <2>3. ASSUME NEW c \in Cooldowns, Shortest(c)
        PROVE  circuit'.age + circuit'.left >= c
    <3>1. circuit.age + circuit.left >= c /\ c <= Longest /\ c \in Nat
      BY <2>1, <2>3 DEF CooldownCovered, Tick
    <3> QED
      BY <2>1, <2>2, <3>1 DEF Later, Sooner
  <2> QED
    BY <2>2, <2>3 DEF Tick, CooldownCovered, Shortest
<1> QED
  BY <1>1, <1>2, <1>3, <1>4

-----------------------------------------------------------------------------
(* The theorems.                                                           *)

\* The missing entry and idle requests satisfy the invariant.
LEMMA BreakerInitInv == BreakerInit => BreakerInv
<1> SUFFICES ASSUME BreakerInit PROVE BreakerInv
  OBVIOUS
<1>1. BreakerTypeOK
  BY DEF BreakerInit, BreakerTypeOK, NoCircuit, Closed, NoLease
<1>2. IdsFresh /\ ProbesDistinct /\ Unleased /\ EntryMarked /\ SlotMatches
  BY DEF BreakerInit, IdsFresh, ProbesDistinct, Unleased, EntryMarked, SlotMatches,
         Current, NoCircuit, Closed, NoLease
<1>3. CooldownCovered
  BY DEF BreakerInit, CooldownCovered, NoCircuit, Closed
<1> QED
  BY <1>1, <1>2, <1>3 DEF BreakerInv

\* Every step keeps the invariant.
LEMMA BreakerStepInv == BreakerInv /\ [BreakerNext]_circuitVars => BreakerInv'
<1> SUFFICES ASSUME BreakerInv, [BreakerNext]_circuitVars PROVE BreakerInv'
  OBVIOUS
<1>1. CASE UNCHANGED circuitVars
  BY <1>1 DEF circuitVars, BreakerInv, BreakerTypeOK, IdsFresh, ProbesDistinct, Unleased,
              EntryMarked, SlotMatches, Current, CooldownCovered
<1>2. CASE BreakerNext
  BY <1>2, StartInv, AdmitUnguardedInv, AdmitClosedInv, AdmitProbeInv, RefuseInv, SucceedInv,
     FailReadInv, FailApplyInv, ReleaseInv, SettingsWriteInv, SettingsRetimeInv,
     SettingsPublishInv, ClearInv, TickInv DEF BreakerNext
<1> QED
  BY <1>1, <1>2

\* The invariant holds in every reachable state.
LEMMA BreakerInvariant == BreakerSpec => []BreakerInv
BY BreakerInitInv, BreakerStepInv, PTL DEF BreakerSpec

\* For any number of requests the circuit is well formed, the half-open slot
\* is held by one live lease or free, and it never leaks (permit_provider and
\* the end of CircuitProbePermit).
THEOREM CircuitIsSound == BreakerSpec => []CircuitSound
<1>1. BreakerInv => CircuitSound
  <2> SUFFICES ASSUME BreakerInv PROVE ProbeSlotOwned
    BY DEF BreakerInv, CircuitSound
  <2>1. \A r \in Probes : HoldsProbe(r)
    BY DEF Probes, HoldsProbe, BreakerInv, SlotMatches
  <2>2. \A r, s \in Probes : r = s
    BY <2>1 DEF Probes, HoldsProbe, BreakerInv, ProbesDistinct
  <2>3. circuit.probe # None => circuit.open /\ \E r \in Probes : HoldsProbe(r)
    BY DEF Probes, HoldsProbe, BreakerInv, SlotMatches
  <2> QED
    BY <2>1, <2>2, <2>3 DEF ProbeSlotOwned
<1> QED
  BY <1>1, BreakerInvariant, PTL

\* What a step does to the lease of one request that is not the one moving.
LEMMA StaleStep ==
    ASSUME BreakerInv, [BreakerNext]_circuitVars, NEW r \in Requests,
           phase[r] \in {"leased", "failing"}, phase'[r] = "idle",
           lease[r].generation # circuit.generation
    PROVE  circuit' = circuit
<1> USE DEF BreakerInv, BreakerTypeOK
<1>1. phase' # phase
  OBVIOUS
<1>2. PICK s \in Requests :
          \/ Start(s) \/ AdmitUnguarded(s) \/ AdmitClosed(s) \/ AdmitProbe(s)
          \/ Refuse(s) \/ Succeed(s) \/ FailRead(s) \/ FailApply(s) \/ Release(s)
  BY <1>1 DEF BreakerNext, circuitVars, SettingsWrite, SettingsRetime, SettingsPublish,
              Clear, Tick
<1>3. CASE s # r
  BY <1>2, <1>3 DEF Start, AdmitUnguarded, AdmitClosed, AdmitProbe, Grant, Refuse, Succeed,
                    FailRead, FailApply, Release, FinishLease
<1>4. CASE s = r
  BY <1>2, <1>4 DEF Start, AdmitUnguarded, AdmitClosed, AdmitProbe, Grant, Refuse, Succeed,
                    FailRead, FailApply, Release, Current, AfterSuccess
<1> QED
  BY <1>3, <1>4

\* A step that closes an open circuit, or frees its slot, is the end of the
\* lease of its probe.
LEMMA ClosingStep ==
    ASSUME BreakerInv, [BreakerNext]_circuitVars, circuit.open,
           circuit'.generation = circuit.generation
    PROVE  /\ ~circuit'.open => \E r \in Probes : phase'[r] = "idle"
           /\ circuit.probe # None /\ circuit'.probe # circuit.probe
                 => \E r \in Probes : phase'[r] # "leased"
<1> USE DEF BreakerInv, BreakerTypeOK
<1>1. ASSUME NEW r \in Requests, Succeed(r) \/ FailApply(r) \/ Release(r)
      PROVE  /\ phase'[r] = "idle"
             /\ r \in Probes \/ (circuit'.open = circuit.open /\ circuit'.probe = circuit.probe)
             /\ ~circuit'.open => r \in Probes
  <2>1. CASE Succeed(r)
    BY <2>1 DEF Succeed, FinishLease, AfterSuccess, Probes, HoldsProbe, Closed
  <2>2. CASE FailApply(r)
    BY <2>2 DEF FailApply, FinishLease, AfterFailure, Probes, HoldsProbe
  <2>3. CASE Release(r)
    BY <2>3 DEF Release, FinishLease, Probes, HoldsProbe
  <2> QED
    BY <1>1, <2>1, <2>2, <2>3
<1>2. CASE \E r \in Requests : Succeed(r) \/ FailApply(r) \/ Release(r)
  BY <1>1, <1>2
<1>3. ASSUME NEW r \in Requests, AdmitClosed(r) PROVE FALSE
  BY <1>3 DEF AdmitClosed, Entry, NoCircuit, Closed
<1>4. ASSUME NEW r \in Requests, AdmitProbe(r)
      PROVE  circuit'.open = circuit.open /\ circuit.probe = None
  BY <1>4 DEF AdmitProbe, ProbeDue
<1>5. ASSUME Clear PROVE FALSE
  BY <1>5 DEF Clear, EntryMarked, NoCircuit, Closed
<1>6. ASSUME Tick \/ SettingsRetime
      PROVE  circuit'.open = circuit.open /\ circuit'.probe = circuit.probe
  BY <1>6 DEF Tick, SettingsRetime
<1>7. ASSUME \/ \E r \in Requests : Start(r) \/ AdmitUnguarded(r) \/ Refuse(r) \/ FailRead(r)
             \/ \E t \in Thresholds, c \in Cooldowns, e \in BOOLEAN : SettingsWrite(t, c, e)
             \/ SettingsPublish \/ UNCHANGED circuitVars
      PROVE  circuit' = circuit
  BY <1>7 DEF Start, AdmitUnguarded, Refuse, FailRead, SettingsWrite, SettingsPublish,
              circuitVars
<1> QED
  BY <1>2, <1>3, <1>4, <1>5, <1>6, <1>7 DEF BreakerNext

\* A probe is admitted after the shortest cooldown.
LEMMA ProbeStep ==
    ASSUME BreakerInv, [BreakerNext]_circuitVars,
           circuit'.probe # circuit.probe, circuit'.probe # None,
           NEW c \in Cooldowns, \A d \in Cooldowns : c <= d
    PROVE  quiet >= c
<1> USE DEF BreakerInv, BreakerTypeOK
<1>1. ASSUME NEW r \in Requests, AdmitProbe(r)
      PROVE  quiet >= c
  BY <1>1 DEF AdmitProbe, ProbeDue, CooldownCovered, Shortest
<1>2. ASSUME NEW r \in Requests, Succeed(r) \/ FailApply(r) \/ Release(r)
      PROVE  circuit'.probe \in {circuit.probe, None}
  <2>1. CASE Succeed(r)
    BY <2>1 DEF Succeed, AfterSuccess, Closed
  <2>2. CASE FailApply(r)
    BY <2>2 DEF FailApply, AfterFailure
  <2>3. CASE Release(r)
    BY <2>3 DEF Release
  <2> QED
    BY <1>2, <2>1, <2>2, <2>3
<1>3. ASSUME NEW r \in Requests, AdmitClosed(r)
      PROVE  circuit'.probe \in {circuit.probe, None}
  BY <1>3 DEF AdmitClosed, Entry, Closed
<1>4. ASSUME Clear \/ Tick \/ SettingsRetime
      PROVE  circuit'.probe \in {circuit.probe, None}
  <2>1. CASE Clear
    BY <2>1 DEF Clear, NoCircuit, Closed
  <2>2. CASE Tick
    BY <2>2 DEF Tick
  <2>3. CASE SettingsRetime
    BY <2>3 DEF SettingsRetime
  <2> QED
    BY <1>4, <2>1, <2>2, <2>3
<1>5. ASSUME \/ \E r \in Requests : Start(r) \/ AdmitUnguarded(r) \/ Refuse(r) \/ FailRead(r)
             \/ \E t \in Thresholds, d \in Cooldowns, e \in BOOLEAN : SettingsWrite(t, d, e)
             \/ SettingsPublish \/ UNCHANGED circuitVars
      PROVE  circuit' = circuit
  BY <1>5 DEF Start, AdmitUnguarded, Refuse, FailRead, SettingsWrite, SettingsPublish,
              circuitVars
<1> QED
  BY <1>1, <1>2, <1>3, <1>4, <1>5 DEF BreakerNext

\* For any number of requests and any sequence of settings, a lease ends
\* without touching a circuit it was not given for, only the probe closes an
\* open circuit or frees its slot, and a probe waits for the cooldown.
THEOREM LeasesAreDisciplined == BreakerSpec => LeaseDiscipline
<1>1. BreakerInv /\ [BreakerNext]_circuitVars =>
        [\A r \in Requests :
            /\ phase[r] \in {"leased", "failing"}
            /\ phase'[r] = "idle"
            /\ lease[r].generation # circuit.generation
            => circuit' = circuit]_circuitVars
  BY StaleStep
<1>2. BreakerInv /\ [BreakerNext]_circuitVars =>
        [circuit.open /\ circuit'.generation = circuit.generation =>
            /\ ~circuit'.open => \E r \in Probes : phase'[r] = "idle"
            /\ circuit.probe # None /\ circuit'.probe # circuit.probe
                  => \E r \in Probes : phase'[r] # "leased"]_circuitVars
  BY ClosingStep
<1>3. BreakerInv /\ [BreakerNext]_circuitVars =>
        [circuit'.probe # circuit.probe /\ circuit'.probe # None
            => \A c \in Cooldowns :
                  (\A d \in Cooldowns : c <= d) => quiet >= c]_circuitVars
  BY ProbeStep
<1>4. BreakerSpec => StaleLeaseHarmless
  BY <1>1, BreakerInvariant, PTL DEF BreakerSpec, StaleLeaseHarmless
<1>5. BreakerSpec => OnlyProbeCloses
  BY <1>2, BreakerInvariant, PTL DEF BreakerSpec, OnlyProbeCloses
<1>6. BreakerSpec => ProbeAfterCooldown
  BY <1>3, BreakerInvariant, PTL DEF BreakerSpec, ProbeAfterCooldown
<1> QED
  BY <1>4, <1>5, <1>6, PTL DEF LeaseDiscipline
=============================================================================
