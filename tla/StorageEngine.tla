---------------------------- MODULE StorageEngine ----------------------------
(***************************************************************************)
(* The LMDB environment of infra/storage: bounded operation slots, one     *)
(* writer at a time, a read-write gate that keeps transactions and map     *)
(* growth apart, and marker files that let a restart open a map that is    *)
(* large enough.                                                           *)
(*   environment.rs  read, write, grow_map, open                           *)
(*   fs_guard.rs     the map-size markers                                  *)
(* An operation may be dropped by its caller at any await; what it handed  *)
(* to a blocking thread goes on without it.                                *)
(***************************************************************************)
EXTENDS Integers, FiniteSets, FiniteSetsExt

CONSTANTS
    StReaders, StWriters,   \* operations, each begun once
    MaxOperations,          \* MAX_DATABASE_OPERATIONS
    InitialSize, SizeLimit, \* bounds of the map, in units of data
    Needs                   \* the amounts a write may add

StOps == StReaders \cup StWriters
Nobody == "nobody"

ASSUME StorageBounds ==
    /\ MaxOperations \in Nat \ {0}
    /\ InitialSize \in Nat \ {0} /\ SizeLimit \in Nat /\ InitialSize <= SizeLimit
    /\ Needs \subseteq Nat \ {0}
    /\ StReaders \cap StWriters = {} /\ Nobody \notin StOps

VARIABLES
    stPc,          \* where an operation is
    need,          \* what a write adds
    dropped,       \* operations whose future was dropped
    slots,         \* operations that hold a slot
    writer,        \* holder of the writer mutex
    gate,          \* operations that share the resize gate
    gateQueue,     \* operation waiting for the gate alone, or holding it
    resizing,      \* operation that holds the gate alone
    attempted,     \* map size a write ran against
    mapSize,       \* size of the open map
    markers,       \* sizes with a marker file on disk
    used,          \* data on disk
    applied        \* how often a write was committed

stVars == <<stPc, need, dropped, slots, writer, gate, gateQueue, resizing,
            attempted, mapSize, markers, used, applied>>
memory == <<need, dropped>>
disk == <<markers, used>>

\* The sizes read_map_size_marker looks for: the initial size doubled up to
\* the limit.
NextSize(size) == IF 2 * size < SizeLimit THEN 2 * size ELSE SizeLimit
\* read_map_size_marker: the largest size that has a marker.
OpenSize(found) == Max(found \cup {InitialSize})

StInit ==
    /\ stPc = [o \in StOps |-> "new"]
    /\ need \in [StWriters -> Needs]
    /\ dropped = {} /\ slots = {} /\ writer = Nobody
    /\ gate = {} /\ gateQueue = Nobody /\ resizing = Nobody
    /\ attempted = [o \in StWriters |-> 0]
    /\ mapSize = InitialSize /\ markers = {} /\ used = 0
    /\ applied = [o \in StWriters |-> 0]

Answered == {"done", "busy", "failed", "gone"}
GoTo(o, place) == stPc' = [stPc EXCEPT ![o] = place]
FreeWriter(o) == writer' = IF writer = o THEN Nobody ELSE writer

\* try_acquire_owned on the operation slots: Busy is an answer, not a wait.
TakeSlot(o) ==
    /\ stPc[o] \in {"new", "retry"}
    /\ IF Cardinality(slots) < MaxOperations
       THEN slots' = slots \cup {o} /\ GoTo(o, IF o \in StWriters THEN "slotted" ELSE "locked")
       ELSE GoTo(o, "busy") /\ UNCHANGED slots
    /\ UNCHANGED <<memory, disk, writer, gate, gateQueue, resizing, attempted, mapSize, applied>>

LockWriter(o) ==
    /\ stPc[o] = "slotted" /\ writer = Nobody
    /\ writer' = o /\ GoTo(o, "locked")
    /\ UNCHANGED <<memory, disk, slots, gate, gateQueue, resizing, attempted, mapSize, applied>>

\* read_owned: tokio's lock is fair, so a queued grow_map is served first.
\* The size is loaded under the guard, then the transaction begins.
EnterGate(o) ==
    /\ stPc[o] = "locked" /\ gateQueue = Nobody
    /\ gate' = gate \cup {o} /\ GoTo(o, "running")
    /\ attempted' = IF o \in StWriters THEN [attempted EXCEPT ![o] = mapSize] ELSE attempted
    /\ UNCHANGED <<memory, disk, slots, writer, gateQueue, resizing, mapSize, applied>>

\* The end of an operation that answers: guard, slot and mutex are released.
EndOperation(o, answer) ==
    /\ GoTo(o, IF o \in dropped THEN "gone" ELSE answer)
    /\ gate' = gate \ {o} /\ slots' = slots \ {o} /\ FreeWriter(o)

ReadDone(o) ==
    /\ stPc[o] = "running" /\ o \in StReaders
    /\ EndOperation(o, "done")
    /\ UNCHANGED <<memory, disk, gateQueue, resizing, attempted, mapSize, applied>>

\* The closure returned Ok and the commit succeeds, or it returned an error
\* and the transaction is abandoned.
Commit(o) ==
    /\ stPc[o] = "running" /\ o \in StWriters /\ used + need[o] <= mapSize
    /\ used' = used + need[o]
    /\ applied' = [applied EXCEPT ![o] = @ + 1]
    /\ EndOperation(o, "done")
    /\ UNCHANGED <<memory, markers, gateQueue, resizing, attempted, mapSize>>
Abandon(o) ==
    /\ stPc[o] = "running" /\ o \in StWriters
    /\ EndOperation(o, "failed")
    /\ UNCHANGED <<memory, disk, gateQueue, resizing, attempted, mapSize, applied>>

\* Mutant: the shared guard is still held when the gate is wanted alone.
HitFullKeepsGuard(o) ==
    /\ stPc[o] = "running" /\ o \in StWriters /\ used + need[o] > mapSize
    /\ IF o \in dropped
       THEN EndOperation(o, "gone") /\ UNCHANGED gateQueue
       ELSE /\ GoTo(o, "queued") /\ gateQueue' = o
            /\ UNCHANGED <<gate, slots, writer>>
    /\ UNCHANGED <<memory, disk, resizing, attempted, mapSize, applied>>
\* MapFull: the transaction and its guard are gone, slot and mutex are kept
\* while grow_map waits for the gate.  Nobody grows the map for a dropped
\* future.
HitFull(o) ==
    /\ stPc[o] = "running" /\ o \in StWriters /\ used + need[o] > mapSize
    /\ IF o \in dropped
       THEN EndOperation(o, "gone") /\ UNCHANGED gateQueue
       ELSE /\ GoTo(o, "queued") /\ gateQueue' = o /\ gate' = gate \ {o}
            /\ UNCHANGED <<slots, writer>>
    /\ UNCHANGED <<memory, disk, resizing, attempted, mapSize, applied>>

LeaveGrow(o, place) ==
    /\ GoTo(o, IF o \in dropped THEN "gone" ELSE place)
    /\ gateQueue' = Nobody /\ resizing' = Nobody
    /\ slots' = slots \ {o} /\ FreeWriter(o)

\* The gate is held alone: a peer that grew the map already is enough, and a
\* map at its limit fails the write.
GrowCheck(o) ==
    /\ stPc[o] = "queued" /\ gateQueue = o /\ gate = {}
    /\ IF mapSize > attempted[o] THEN LeaveGrow(o, "retry")
       ELSE IF mapSize < attempted[o] \/ NextSize(mapSize) = mapSize THEN LeaveGrow(o, "failed")
       ELSE GoTo(o, "marking") /\ resizing' = o /\ UNCHANGED <<gateQueue, slots, writer>>
    /\ UNCHANGED <<memory, disk, gate, attempted, mapSize, applied>>

\* write_map_size_marker, synced before the map changes; it may fail, also
\* after the file was created.
WriteMarker(o) ==
    /\ stPc[o] = "marking"
    /\ \/ /\ markers' = markers \cup {NextSize(mapSize)} /\ GoTo(o, "resizing")
          /\ UNCHANGED <<gateQueue, resizing, slots, writer>>
       \/ /\ markers' \in {markers, markers \cup {NextSize(mapSize)}}
          /\ LeaveGrow(o, "failed")
    /\ UNCHANGED <<memory, used, gate, attempted, mapSize, applied>>

\* Mutant: the marker is removed whether or not the resize succeeded.
ResizeClearsMarker(o) ==
    /\ stPc[o] = "resizing"
    /\ mapSize' = NextSize(mapSize) /\ LeaveGrow(o, "retry")
    /\ markers' = markers \ {NextSize(mapSize)}
    /\ UNCHANGED <<memory, used, gate, attempted, applied>>
\* resize_with_marker_cleanup: a failed resize removes its marker, which may
\* fail as well.
Resize(o) ==
    /\ stPc[o] = "resizing"
    /\ \/ /\ mapSize' = NextSize(mapSize) /\ LeaveGrow(o, "retry")
          /\ UNCHANGED markers
       \/ /\ LeaveGrow(o, "failed") /\ UNCHANGED mapSize
          /\ markers' \in {markers, markers \ {NextSize(mapSize)}}
    /\ UNCHANGED <<memory, used, gate, attempted, applied>>

\* The caller goes away.  A blocking task keeps what was moved into it: the
\* transaction its guard, slot and mutex, the resize its guard alone.
DropFuture(o) ==
    /\ stPc[o] \notin Answered /\ o \notin dropped
    /\ \/ /\ stPc[o] \in {"new", "retry", "slotted", "locked", "queued"}
          /\ GoTo(o, "gone") /\ slots' = slots \ {o} /\ FreeWriter(o)
          /\ gateQueue' = IF gateQueue = o THEN Nobody ELSE gateQueue
          /\ UNCHANGED dropped
       \/ /\ stPc[o] = "running"
          /\ dropped' = dropped \cup {o} /\ UNCHANGED <<stPc, slots, writer, gateQueue>>
       \/ /\ stPc[o] \in {"marking", "resizing"}
          /\ dropped' = dropped \cup {o} /\ slots' = slots \ {o} /\ FreeWriter(o)
          /\ UNCHANGED <<stPc, gateQueue>>
    /\ UNCHANGED <<need, disk, gate, resizing, attempted, mapSize, applied>>

\* The process dies and opens the environment again.
CrashAndOpen ==
    /\ stPc' = [o \in StOps |-> IF stPc[o] = "new" THEN "new" ELSE IF stPc[o] \in Answered
                                THEN stPc[o] ELSE "gone"]
    /\ dropped' = {} /\ slots' = {} /\ writer' = Nobody
    /\ gate' = {} /\ gateQueue' = Nobody /\ resizing' = Nobody
    /\ mapSize' = OpenSize(markers)
    /\ UNCHANGED <<need, attempted, disk, applied>>

StStep(o) ==
    \/ TakeSlot(o) \/ LockWriter(o) \/ EnterGate(o) \/ ReadDone(o) \/ Commit(o) \/ HitFull(o)
    \/ GrowCheck(o) \/ WriteMarker(o) \/ Resize(o)

StNext ==
    \/ \E o \in StOps : StStep(o) \/ Abandon(o) \/ DropFuture(o)
    \/ CrashAndOpen

StFairness == \A o \in StOps : WF_stVars(StStep(o))
StSpec == StInit /\ [][StNext]_stVars /\ StFairness

-----------------------------------------------------------------------------
\* Every variable has its type and the map stays within its bounds.
StTypeOK ==
    /\ stPc \in [StOps -> {"new", "retry", "slotted", "locked", "running", "queued",
                           "marking", "resizing"} \cup Answered]
    /\ slots \subseteq StOps /\ Cardinality(slots) <= MaxOperations
    /\ writer \in StWriters \cup {Nobody} /\ gateQueue \in StWriters \cup {Nobody}
    /\ mapSize \in InitialSize..SizeLimit
    /\ dropped \subseteq StOps

(***************************************************************************)
(* environment.rs:284: no transaction is open while the map is resized,    *)
(* also when the operation that resizes was dropped and its slot and the   *)
(* writer mutex went to somebody else.                                     *)
(***************************************************************************)
ResizeAlone == resizing # Nobody => \A o \in StOps : stPc[o] # "running"

(***************************************************************************)
(* A restart at any moment, between the marker and the resize as well as   *)
(* after a failed clean-up, opens a map that holds all committed data and  *)
(* is no smaller than the one in use.                                      *)
(***************************************************************************)
ReopenFits == used <= OpenSize(markers) /\ mapSize <= OpenSize(markers)

(***************************************************************************)
(* The retry loop after MapFull runs a closure again but commits it once,  *)
(* and a write that answers with an error changed nothing.                 *)
(***************************************************************************)
AppliedOnce ==
    \A o \in StWriters :
        /\ applied[o] <= 1
        /\ stPc[o] = "done" => applied[o] = 1
        /\ stPc[o] \in {"busy", "failed", "retry", "queued"} => applied[o] = 0

\* An operation that waits for the gate, its slot and for a write the mutex in
\* hand, is answered: resizes, other operations and lost markers hold up nobody
\* for good.
OperationsAnswered == \A o \in StOps : stPc[o] = "locked" ~> stPc[o] \in Answered

\* The LMDB environment under load, growth, abandoned callers and crashes: the
\* map is resized alone, a restart opens a map that fits, and a write is
\* applied once or not at all.
StorageSound ==
    /\ StTypeOK
    /\ ResizeAlone
    /\ ReopenFits
    /\ AppliedOnce
=============================================================================
