--------------------------- MODULE RuntimeProofs ---------------------------
(***************************************************************************)
(* Proofs about two parts that every request passes.  The storage engine   *)
(* (StorageEngine): transactions and map growth exclude each other, every  *)
(* restart opens a map that holds what was committed, and a write is       *)
(* applied once, for any number of operations, slots and map sizes.  The   *)
(* live view (LiveRequests): the registry is exact and a viewer converges  *)
(* to it, for any number of requests and any capacity of the broadcast.    *)
(***************************************************************************)
EXTENDS StorageEngine, LiveRequests, FiniteSetTheorems, SequenceTheorems, WellFoundedInduction, TLAPS

-----------------------------------------------------------------------------
(* The storage engine: the inductive invariant.                            *)

Places == {"new", "retry", "slotted", "locked", "running", "queued", "marking", "resizing"} \cup Answered
Sizes  == InitialSize..SizeLimit

StTypes ==
    /\ stPc \in [StOps -> Places] /\ need \in [StWriters -> Needs]
    /\ dropped \subseteq StOps
    /\ slots \subseteq StOps /\ IsFiniteSet(slots) /\ Cardinality(slots) <= MaxOperations
    /\ writer \in StWriters \cup {Nobody}
    /\ gateQueue \in StWriters \cup {Nobody} /\ resizing \in StWriters \cup {Nobody}
    /\ attempted \in [StWriters -> Nat] /\ applied \in [StWriters -> Nat]
    /\ mapSize \in Sizes /\ markers \subseteq Sizes /\ used \in Nat

Growing == {"marking", "resizing"}

\* Who may be where: the gate is shared by the open transactions, the queue
\* for it alone belongs to the one writer whose write met a full map, also
\* after its caller has gone and the writer mutex is somebody else's.
PlacesOK ==
    /\ gate = {o \in StOps : stPc[o] = "running"}
    /\ \A o \in StOps : stPc[o] \in {"slotted", "queued"} \cup Growing => o \in StWriters
    /\ \A o \in StWriters : stPc[o] \in {"locked", "running", "queued"} => writer = o
    /\ \A o \in StOps : stPc[o] \in {"queued"} \cup Growing => gateQueue = o
    /\ gateQueue # Nobody => stPc[gateQueue] \in {"queued"} \cup Growing
    /\ \A o \in StOps : stPc[o] \in Growing => resizing = o
    /\ resizing # Nobody => stPc[resizing] \in Growing /\ gate = {}

\* The map in use has a marker or is the initial one, and the marker of a
\* resize is on disk before the map changes.
SizesOK ==
    /\ used <= mapSize /\ mapSize \in markers \cup {InitialSize}
    /\ \A o \in StOps : stPc[o] \in Growing => NextSize(mapSize) # mapSize
    /\ \A o \in StOps : stPc[o] = "resizing" => NextSize(mapSize) \in markers

AppliedOK ==
    \A o \in StWriters :
        /\ applied[o] <= 1
        /\ stPc[o] = "done" => applied[o] = 1
        /\ stPc[o] \notin {"done", "gone"} => applied[o] = 0

StInv == StTypes /\ PlacesOK /\ SizesOK /\ AppliedOK

-----------------------------------------------------------------------------
(* Sizes and slots.                                                        *)

\* The map a restart opens is the largest that has a marker.
LEMMA OpensLargest ==
    ASSUME NEW M \in SUBSET Sizes
    PROVE  /\ OpenSize(M) \in M \cup {InitialSize}
           /\ \A m \in M : m <= OpenSize(M)
           /\ InitialSize <= OpenSize(M)
<1> DEFINE S == M \cup {InitialSize}
           B == {k \in Nat : SizeLimit - k \in S}
<1>1. /\ S \subseteq Sizes /\ InitialSize \in S /\ Sizes \subseteq Nat
      /\ SizeLimit \in Nat /\ \A m \in Sizes : m <= SizeLimit
  BY StorageBounds DEF Sizes
<1>2. SizeLimit - InitialSize \in B
  BY <1>1, StorageBounds
<1>3. PICK k \in B : \A j \in B : ~(j < k)
  <2>1. B \subseteq Nat /\ B # {}
    BY <1>2
  <2> HIDE DEF B
  <2>2. PICK k \in B : \A j \in B : ~(<<j, k>> \in OpToRel(<, Nat))
    BY <2>1, NatLessThanWellFounded, WFMin
  <2>3. \A j \in B : ~(j < k)
    BY <2>1, <2>2, Zenon DEF OpToRel
  <2> QED BY <2>3
<1>4. ASSUME NEW m \in S PROVE SizeLimit - k >= m
  <2>1. SizeLimit - m \in B
    BY <1>1, <1>4
  <2>2. ~(SizeLimit - m < k) /\ k \in Nat /\ m \in Nat
    BY <1>1, <1>3, <1>4, <2>1
  <2> QED BY <1>1, <2>2
<1>5. \E x \in S : \A y \in S : x >= y
  BY <1>3, <1>4
<1>6. OpenSize(M) \in S /\ \A y \in S : OpenSize(M) >= y
  BY <1>5 DEF OpenSize, Max
<1> QED BY <1>1, <1>6

\* Growth stays within the bounds of the map.
LEMMA NextSizeInRange ==
    ASSUME NEW n \in Sizes
    PROVE  NextSize(n) \in Sizes /\ n <= NextSize(n)
BY StorageBounds DEF NextSize, Sizes

\* Slots that are given back, and one that is taken.
LEMMA FewerSlots ==
    ASSUME StTypes, NEW T \in SUBSET slots
    PROVE  IsFiniteSet(T) /\ Cardinality(T) <= MaxOperations
<1>1. IsFiniteSet(T) /\ Cardinality(T) <= Cardinality(slots)
  BY FS_Subset DEF StTypes
<1>2. Cardinality(T) \in Nat /\ Cardinality(slots) \in Nat
  BY <1>1, FS_CardinalityType DEF StTypes
<1> QED BY <1>1, <1>2, StorageBounds DEF StTypes

LEMMA OneMoreSlot ==
    ASSUME StTypes, NEW o, Cardinality(slots) < MaxOperations
    PROVE  IsFiniteSet(slots \cup {o}) /\ Cardinality(slots \cup {o}) <= MaxOperations
<1>1. IsFiniteSet(slots) /\ Cardinality(slots) \in Nat
  BY FS_CardinalityType DEF StTypes
<1>2. /\ IsFiniteSet(slots \cup {o})
      /\ Cardinality(slots \cup {o}) = IF o \in slots THEN Cardinality(slots) ELSE Cardinality(slots) + 1
  BY <1>1, FS_AddElement
<1> QED BY <1>1, <1>2, StorageBounds

\* The mutexes, the gate and its queue.
LEMMA PlaceSteps ==
    ASSUME StInv, NEW o \in StOps, StStep(o) \/ Abandon(o) \/ DropFuture(o)
    PROVE  PlacesOK'
<1>1. CASE TakeSlot(o)
  BY <1>1, StorageBounds
  DEF TakeSlot, GoTo, StInv, StTypes, PlacesOK, Growing, Answered, memory, disk, StOps, Places
<1>2. CASE LockWriter(o)
  BY <1>2, StorageBounds
  DEF LockWriter, GoTo, StInv, StTypes, PlacesOK, Growing, Answered, memory, disk, StOps,
     Places
<1>3. CASE EnterGate(o)
  BY <1>3, StorageBounds
  DEF EnterGate, GoTo, StInv, StTypes, PlacesOK, Growing, Answered, memory, disk, StOps, Places
<1>4. CASE ReadDone(o)
  BY <1>4, StorageBounds
  DEF ReadDone, GoTo, FreeWriter, EndOperation, StInv, StTypes, PlacesOK, Growing, Answered,
     memory, disk, StOps, Places
<1>5. CASE Commit(o)
  BY <1>5, StorageBounds
  DEF Commit, GoTo, FreeWriter, EndOperation, StInv, StTypes, PlacesOK, Growing, Answered,
     memory, StOps, Places
<1>6. CASE HitFull(o)
  BY <1>6, StorageBounds
  DEF HitFull, GoTo, FreeWriter, EndOperation, StInv, StTypes, PlacesOK, Growing, Answered,
     memory, disk, StOps, Places
<1>7. CASE GrowCheck(o)
  BY <1>7, StorageBounds
  DEF GrowCheck, GoTo, FreeWriter, LeaveGrow, StInv, StTypes, PlacesOK, Growing, Answered,
     memory, disk, StOps, Places
<1>8. CASE WriteMarker(o)
  BY <1>8, StorageBounds
  DEF WriteMarker, GoTo, FreeWriter, LeaveGrow, StInv, StTypes, PlacesOK, Growing, Answered,
     memory, StOps, Places
<1>9. CASE Resize(o)
  BY <1>9, StorageBounds
  DEF Resize, GoTo, FreeWriter, LeaveGrow, StInv, StTypes, PlacesOK, Growing, Answered, memory,
     StOps, Places
<1>10. CASE Abandon(o)
  BY <1>10, StorageBounds
  DEF Abandon, GoTo, FreeWriter, EndOperation, StInv, StTypes, PlacesOK, Growing, Answered,
     memory, disk, StOps, Places
<1>11. CASE DropFuture(o)
  BY <1>11, StorageBounds
  DEF DropFuture, GoTo, FreeWriter, StInv, StTypes, PlacesOK, Growing, Answered, disk, StOps,
     Places
<1> QED BY <1>1, <1>2, <1>3, <1>4, <1>5, <1>6, <1>7, <1>8, <1>9, <1>10, <1>11 DEF StStep

\* Writes are applied once.
LEMMA AppliedSteps ==
    ASSUME StInv, NEW o \in StOps, StStep(o) \/ Abandon(o) \/ DropFuture(o)
    PROVE  AppliedOK'
<1>1. CASE TakeSlot(o)
  BY <1>1, StorageBounds
  DEF TakeSlot, GoTo, StInv, StTypes, AppliedOK, PlacesOK, Answered, memory, disk, StOps
<1>2. CASE LockWriter(o)
  BY <1>2, StorageBounds
  DEF LockWriter, GoTo, StInv, StTypes, AppliedOK, PlacesOK, Answered, memory, disk, StOps
<1>3. CASE EnterGate(o)
  BY <1>3, StorageBounds
  DEF EnterGate, GoTo, StInv, StTypes, AppliedOK, PlacesOK, Answered, memory, disk, StOps
<1>4. CASE ReadDone(o)
  BY <1>4, StorageBounds
  DEF ReadDone, GoTo, FreeWriter, EndOperation, StInv, StTypes, AppliedOK, PlacesOK, Answered,
     memory, disk, StOps
<1>5. CASE Commit(o)
  BY <1>5, StorageBounds
  DEF Commit, GoTo, FreeWriter, EndOperation, StInv, StTypes, AppliedOK, PlacesOK, Answered,
     memory, StOps
<1>6. CASE HitFull(o)
  BY <1>6, StorageBounds
  DEF HitFull, GoTo, FreeWriter, EndOperation, StInv, StTypes, AppliedOK, PlacesOK, Answered,
     memory, disk, StOps
<1>7. CASE GrowCheck(o)
  BY <1>7, StorageBounds
  DEF GrowCheck, GoTo, FreeWriter, LeaveGrow, StInv, StTypes, AppliedOK, PlacesOK, Answered,
     memory, disk, StOps
<1>8. CASE WriteMarker(o)
  BY <1>8, StorageBounds
  DEF WriteMarker, GoTo, FreeWriter, LeaveGrow, StInv, StTypes, AppliedOK, PlacesOK, Answered,
     memory, StOps
<1>9. CASE Resize(o)
  BY <1>9, StorageBounds
  DEF Resize, GoTo, FreeWriter, LeaveGrow, StInv, StTypes, AppliedOK, PlacesOK, Answered,
     memory, StOps
<1>10. CASE Abandon(o)
  BY <1>10, StorageBounds
  DEF Abandon, GoTo, FreeWriter, EndOperation, StInv, StTypes, AppliedOK, PlacesOK, Answered,
     memory, disk, StOps
<1>11. CASE DropFuture(o)
  BY <1>11, StorageBounds
  DEF DropFuture, GoTo, FreeWriter, StInv, StTypes, AppliedOK, PlacesOK, Answered, disk, StOps
<1> QED BY <1>1, <1>2, <1>3, <1>4, <1>5, <1>6, <1>7, <1>8, <1>9, <1>10, <1>11 DEF StStep

\* Data and map sizes.
LEMMA SizeSteps ==
    ASSUME StInv, NEW o \in StOps, StStep(o) \/ Abandon(o) \/ DropFuture(o)
    PROVE  SizesOK'
<1>1. CASE TakeSlot(o)
  BY <1>1, StorageBounds
  DEF TakeSlot, GoTo, StInv, StTypes, SizesOK, PlacesOK, Growing, Answered, memory, disk,
     Sizes, StOps
<1>2. CASE LockWriter(o)
  BY <1>2, StorageBounds
  DEF LockWriter, GoTo, StInv, StTypes, SizesOK, PlacesOK, Growing, Answered, memory, disk,
     Sizes, StOps
<1>3. CASE EnterGate(o)
  BY <1>3, StorageBounds
  DEF EnterGate, GoTo, StInv, StTypes, SizesOK, PlacesOK, Growing, Answered, memory, disk,
     Sizes, StOps
<1>4. CASE ReadDone(o)
  BY <1>4, StorageBounds
  DEF ReadDone, GoTo, FreeWriter, EndOperation, StInv, StTypes, SizesOK, PlacesOK, Growing,
     Answered, memory, disk, Sizes, StOps
<1>5. CASE Commit(o)
  BY <1>5, StorageBounds
  DEF Commit, GoTo, FreeWriter, EndOperation, StInv, StTypes, SizesOK, PlacesOK, Growing,
     Answered, memory, Sizes, StOps
<1>6. CASE HitFull(o)
  BY <1>6, StorageBounds
  DEF HitFull, GoTo, FreeWriter, EndOperation, StInv, StTypes, SizesOK, PlacesOK, Growing,
     Answered, memory, disk, Sizes, StOps
<1>7. CASE GrowCheck(o)
  BY <1>7, StorageBounds, NextSizeInRange
  DEF GrowCheck, GoTo, FreeWriter, LeaveGrow, StInv, StTypes, SizesOK, PlacesOK, Growing,
     Answered, memory, disk, Sizes, StOps
<1>8. CASE WriteMarker(o)
  BY <1>8, StorageBounds, NextSizeInRange
  DEF WriteMarker, GoTo, FreeWriter, LeaveGrow, StInv, StTypes, SizesOK, PlacesOK, Growing,
     Answered, memory, Sizes, StOps
<1>9. CASE Resize(o)
  BY <1>9, StorageBounds, NextSizeInRange
  DEF Resize, GoTo, FreeWriter, LeaveGrow, StInv, StTypes, SizesOK, PlacesOK, Growing,
     Answered, memory, Sizes, StOps
<1>10. CASE Abandon(o)
  BY <1>10, StorageBounds
  DEF Abandon, GoTo, FreeWriter, EndOperation, StInv, StTypes, SizesOK, PlacesOK, Growing,
     Answered, memory, disk, Sizes, StOps
<1>11. CASE DropFuture(o)
  BY <1>11, StorageBounds
  DEF DropFuture, GoTo, FreeWriter, StInv, StTypes, SizesOK, PlacesOK, Growing, Answered, disk,
     Sizes, StOps
<1> QED BY <1>1, <1>2, <1>3, <1>4, <1>5, <1>6, <1>7, <1>8, <1>9, <1>10, <1>11 DEF StStep

\* Types.
LEMMA TypeSteps ==
    ASSUME StInv, NEW o \in StOps, StStep(o) \/ Abandon(o) \/ DropFuture(o)
    PROVE  StTypes'
<1>1. CASE TakeSlot(o)
  BY <1>1, StorageBounds, FewerSlots, OneMoreSlot
  DEF TakeSlot, GoTo, StInv, StTypes, Growing, Answered, memory, disk, Sizes, StOps, Places
<1>2. CASE LockWriter(o)
  BY <1>2, StorageBounds
  DEF LockWriter, GoTo, StInv, PlacesOK, StTypes, Growing, Answered, memory, disk, Sizes,
     StOps, Places
<1>3. CASE EnterGate(o)
  BY <1>3, StorageBounds
  DEF EnterGate, GoTo, StInv, StTypes, Growing, Answered, memory, disk, Sizes, StOps, Places
<1>4. CASE ReadDone(o)
  BY <1>4, StorageBounds, FewerSlots
  DEF ReadDone, GoTo, FreeWriter, EndOperation, StInv, StTypes, Growing, Answered, memory,
     disk, Sizes, StOps, Places
<1>5. CASE Commit(o)
  <2>1. need[o] \in Nat /\ used \in Nat /\ applied[o] \in Nat /\ o \in StWriters
    BY <1>5, StorageBounds DEF Commit, StInv, StTypes
  <2>2. used' \in Nat /\ applied' \in [StWriters -> Nat]
    BY <1>5, <2>1 DEF Commit, StInv, StTypes
  <2> QED BY <1>5, <2>2, FewerSlots DEF Commit, EndOperation, GoTo, FreeWriter, StInv, StTypes, Places, Answered, memory
<1>6. CASE HitFull(o)
  BY <1>6, StorageBounds, FewerSlots
  DEF HitFull, GoTo, FreeWriter, EndOperation, StInv, StTypes, Growing, Answered, memory, disk,
     Sizes, StOps, Places
<1>7. CASE GrowCheck(o)
  BY <1>7, StorageBounds, NextSizeInRange, FewerSlots
  DEF GrowCheck, GoTo, FreeWriter, LeaveGrow, StInv, StTypes, Growing, Answered, memory, disk,
     Sizes, StOps, Places
<1>8. CASE WriteMarker(o)
  BY <1>8, StorageBounds, NextSizeInRange, FewerSlots
  DEF WriteMarker, GoTo, FreeWriter, LeaveGrow, StInv, StTypes, Growing, Answered, memory,
     Sizes, StOps, Places
<1>9. CASE Resize(o)
  BY <1>9, StorageBounds, NextSizeInRange, FewerSlots
  DEF Resize, GoTo, FreeWriter, LeaveGrow, StInv, StTypes, Growing, Answered, memory, Sizes,
     StOps, Places
<1>10. CASE Abandon(o)
  BY <1>10, StorageBounds, FewerSlots
  DEF Abandon, GoTo, FreeWriter, EndOperation, StInv, StTypes, Growing, Answered, memory, disk,
     Sizes, StOps, Places
<1>11. CASE DropFuture(o)
  BY <1>11, StorageBounds, FewerSlots
  DEF DropFuture, GoTo, FreeWriter, StInv, StTypes, Growing, Answered, disk, Sizes, StOps,
     Places
<1> QED BY <1>1, <1>2, <1>3, <1>4, <1>5, <1>6, <1>7, <1>8, <1>9, <1>10, <1>11 DEF StStep

\* A restart opens a map no smaller than the one in use.
LEMMA MapReopens ==
    ASSUME StInv
    PROVE  /\ OpenSize(markers) \in markers \cup {InitialSize}
           /\ OpenSize(markers) \in Sizes /\ mapSize <= OpenSize(markers)
<1>1. markers \in SUBSET Sizes /\ mapSize \in markers \cup {InitialSize} /\ InitialSize \in Sizes
  BY StorageBounds DEF StInv, StTypes, SizesOK, Sizes
<1>2. /\ OpenSize(markers) \in markers \cup {InitialSize}
      /\ \A m \in markers : m <= OpenSize(markers)
      /\ InitialSize <= OpenSize(markers)
  BY <1>1, OpensLargest
<1> QED BY <1>1, <1>2

\* A crash and the restart after it.
LEMMA CrashStep ==
    ASSUME StInv, CrashAndOpen
    PROVE  StInv'
<1>1. /\ OpenSize(markers) \in markers \cup {InitialSize} /\ mapSize <= OpenSize(markers)
      /\ OpenSize(markers) \in Sizes
  BY MapReopens
<1>2. IsFiniteSet({}) /\ Cardinality({}) = 0
  BY FS_EmptySet
<1>3. StTypes'
  BY <1>1, <1>2, StorageBounds DEF CrashAndOpen, StInv, StTypes, Places, Answered, disk
<1>4. PlacesOK'
  <2>1. \A o \in StOps : stPc'[o] \in {"new"} \cup Answered
    BY DEF CrashAndOpen, Answered
  <2>2. gate' = {} /\ gateQueue' = Nobody /\ resizing' = Nobody
    BY DEF CrashAndOpen
  <2>3. \A o \in StOps : stPc'[o] \notin {"running", "slotted", "locked", "queued", "marking", "resizing"}
    BY <2>1 DEF Answered
  <2> QED BY <2>2, <2>3 DEF PlacesOK, Growing, StOps
<1>5. SizesOK'
  <2>1. used <= OpenSize(markers)
    BY <1>1, StorageBounds DEF StInv, StTypes, SizesOK, Sizes
  <2>2. \A o \in StOps : stPc'[o] \notin Growing
    BY DEF CrashAndOpen, Growing, Answered
  <2> QED BY <1>1, <2>1, <2>2 DEF CrashAndOpen, SizesOK, disk, Growing
<1>6. AppliedOK'
  BY DEF CrashAndOpen, StInv, AppliedOK, Answered, StOps
<1> QED BY <1>3, <1>4, <1>5, <1>6 DEF StInv

\* The invariant holds at the start.
LEMMA StorageStart == StInit => StInv
<1> SUFFICES ASSUME StInit PROVE StInv
  OBVIOUS
<1>1. IsFiniteSet({}) /\ Cardinality({}) = 0
  BY FS_EmptySet
<1>2. StTypes
  BY <1>1, StorageBounds DEF StInit, StTypes, Places, Sizes
<1>3. PlacesOK /\ AppliedOK
  BY StorageBounds DEF StInit, PlacesOK, AppliedOK, Growing, StOps
<1>4. SizesOK
  BY StorageBounds DEF StInit, SizesOK, Growing
<1> QED BY <1>2, <1>3, <1>4 DEF StInv

\* Every step keeps the invariant.
LEMMA StorageStep == StInv /\ [StNext]_stVars => StInv'
<1> SUFFICES ASSUME StInv, [StNext]_stVars PROVE StInv'
  OBVIOUS
<1>1. ASSUME NEW o \in StOps, StStep(o) \/ Abandon(o) \/ DropFuture(o) PROVE StInv'
  BY <1>1, TypeSteps, PlaceSteps, SizeSteps, AppliedSteps DEF StInv
<1>2. CASE UNCHANGED stVars
  BY <1>2 DEF stVars, StInv, StTypes, PlacesOK, SizesOK, AppliedOK
<1> QED BY <1>1, <1>2, CrashStep DEF StNext

\* The map is never resized under an open transaction, a restart at any moment
\* opens a map that holds the committed data, and a write that was retried
\* after MapFull is applied once (infra/storage/environment.rs, fs_guard.rs),
\* for every number of operations and every map size, crashes included.
THEOREM StorageIsSound == StSpec => []StorageSound
<1>1. StInv => StorageSound
  <2> SUFFICES ASSUME StInv PROVE StorageSound
    OBVIOUS
  <2>1. StTypeOK
    BY DEF StInv, StTypes, StTypeOK, Places, Sizes
  <2>2. ResizeAlone
    BY DEF StInv, PlacesOK, ResizeAlone
  <2>3. ReopenFits
    <3>1. mapSize <= OpenSize(markers) /\ OpenSize(markers) \in Sizes
      BY MapReopens
    <3> QED BY <3>1, StorageBounds DEF StInv, StTypes, SizesOK, Sizes, ReopenFits
  <2>4. AppliedOnce
    BY DEF StInv, AppliedOK, AppliedOnce
  <2> QED BY <2>1, <2>2, <2>3, <2>4 DEF StorageSound
<1> QED BY <1>1, StorageStart, StorageStep, PTL DEF StSpec

-----------------------------------------------------------------------------
(* The live view: the inductive invariant.                                 *)

Rows   == [provider : Nat, log : Nat, tokens : Nat, detail : Nat, on : BOOLEAN]
Views  == [rows : [Requests -> Rows], count : Nat, truncated : BOOLEAN]
Events == [type : {"started", "updated", "finished", "capacity"}, id : Requests \cup {""},
           row : Rows, count : Nat, truncated : BOOLEAN]

Uncounted == {r \in Requests : phase[r] = "uncounted"}
Active == ActiveCount(entry, untracked)

RegistryOK ==
    /\ entry \in [Requests -> Rows] /\ untracked \in Nat /\ truncated \in BOOLEAN
    /\ phase \in [Requests -> {"new", "tracked", "uncounted", "over"}]
    /\ \A r \in Requests : /\ entry[r].on <=> phase[r] = "tracked"
                           /\ phase[r] # "tracked" => entry[r] = NoRow
                           /\ entry[r].tokens = entry[r].log /\ entry[r].detail = entry[r].log
    /\ IsFiniteSet(Tracked(entry)) /\ Cardinality(Tracked(entry)) <= MaxLive
    /\ IsFiniteSet(Uncounted) /\ untracked = Cardinality(Uncounted)
    /\ truncated = (untracked > 0)

\* Events that say something of a row, of the count, of the truncation.
About(x, r) == x.type # "capacity" /\ x.id = r
Counts(x) == x.type # "updated"
Caps(x) == x.type = "capacity"

\* A row of request r says nothing of records later than the latest.
NoLater(row, r, e, p) == p[r] # "over" => row.log <= e[r].log /\ row.detail <= e[r].log

\* The last event of each kind in s tells what the registry holds: rows e,
\* phases p, count c and truncation t.
EventOK(x, p) ==
    /\ x \in Events
    /\ x.type # "capacity" => x.id \in Requests
    /\ x.type \in {"started", "updated"} => x.row.on
    /\ x.type = "finished" => p[x.id] = "over"
RowsOK(s, e, p) ==
    \A n \in 1..Len(s) : \A r \in Requests : About(s[n], r) => NoLater(s[n].row, r, e, p)
LastRowOK(s, e, p) ==
    \A n \in 1..Len(s) : \A r \in Requests :
        About(s[n], r) /\ (\A m \in (n + 1)..Len(s) : ~About(s[m], r)) =>
            IF s[n].type = "finished" THEN e[r] = NoRow ELSE Agree(s[n].row, e[r]) /\ p[r] = "tracked"
LastCountOK(s, c) ==
    \A n \in 1..Len(s) : Counts(s[n]) /\ (\A m \in (n + 1)..Len(s) : ~Counts(s[m])) => s[n].count = c
LastCapOK(s, t) ==
    \A n \in 1..Len(s) : Caps(s[n]) /\ (\A m \in (n + 1)..Len(s) : ~Caps(s[m])) => s[n].truncated = t
EventsOK(s, e, p, c, t) ==
    /\ s \in Seq(Events) /\ \A n \in 1..Len(s) : EventOK(s[n], p)
    /\ RowsOK(s, e, p) /\ LastRowOK(s, e, p) /\ LastCountOK(s, c) /\ LastCapOK(s, t)

\* A view that becomes the registry's once it has been told the events of s:
\* what they do not mention it has already, and a running request that they
\* only update it shows as running, or they start it.
Matches(v, s, e, p, c, t) ==
    /\ \A r \in Requests : (\A n \in 1..Len(s) : ~About(s[n], r)) => Agree(v.rows[r], e[r])
    /\ \A r \in Requests : NoLater(v.rows[r], r, e, p)
    /\ \A r \in Requests : p[r] = "tracked" =>
           v.rows[r].on \/ \E n \in 1..Len(s) : About(s[n], r) /\ s[n].type = "started"
    /\ (\A n \in 1..Len(s) : ~Counts(s[n])) => v.count = c
    /\ (\A n \in 1..Len(s) : ~Caps(s[n])) => v.truncated = t

ViewOK ==
    /\ viewer.at = "taken" /\ ~lagged => Matches(viewer.snapshot, unread, entry, phase, Active, truncated)
    /\ viewer.at = "live" /\ ~lagged => Matches(viewer.shown, unread, entry, phase, Active, truncated)

LiveInv ==
    /\ RegistryOK
    /\ viewer \in [at : {"off", "subscribed", "taken", "live"}, snapshot : Views, shown : Views]
    /\ lagged \in BOOLEAN /\ Len(unread) <= EventCapacity
    /\ viewer.at = "off" => unread = <<>>
    /\ EventsOK(unread, entry, phase, Active, truncated)
    /\ ViewOK

-----------------------------------------------------------------------------
(* Events that are sent and events that are read.                          *)

\* One event more, one event less.
LEMMA OneMore ==
    ASSUME NEW s \in Seq(Events), NEW x \in Events, NEW z, z = Append(s, x)
    PROVE  /\ z \in Seq(Events) /\ Len(z) = Len(s) + 1 /\ Len(s) \in Nat
           /\ z[Len(s) + 1] = x /\ \A n \in 1..Len(s) : z[n] = s[n]
OBVIOUS

LEMMA OneLess ==
    ASSUME NEW s \in Seq(Events), s # <<>>, NEW z, z = Tail(s)
    PROVE  /\ z \in Seq(Events) /\ Len(s) = Len(z) + 1 /\ Len(z) \in Nat
           /\ Head(s) = s[1] /\ s[1] \in Events /\ \A n \in 1..Len(z) : z[n] = s[n + 1]
OBVIOUS

\* The registry goes from e, p, c, t to f, q, d, u and x says so.
Tells(x, e, p, c, t, f, q, d, u) ==
    /\ EventOK(x, q)
    /\ \A r \in Requests : /\ p[r] = "over" => q[r] = "over"
                           /\ q[r] # "over" => e[r].log <= f[r].log
                           /\ {e[r].log, f[r].log} \subseteq Nat
                           /\ About(x, r) => NoLater(x.row, r, f, q)
    /\ \A r \in Requests :
           IF About(x, r)
           THEN IF x.type = "finished" THEN f[r] = NoRow /\ q[r] = "over"
                ELSE Agree(x.row, f[r]) /\ q[r] = "tracked" /\ (x.type = "updated" => p[r] = "tracked")
           ELSE f[r] = e[r] /\ (p[r] = "tracked" <=> q[r] = "tracked")
    /\ IF Counts(x) THEN x.count = d ELSE d = c
    /\ IF Caps(x) THEN x.truncated = u ELSE u = t

\* What is not later stays so: a request's records only become more.
LEMMA LaterStill ==
    ASSUME NEW x, NEW e, NEW p, NEW c, NEW t, NEW f, NEW q, NEW d, NEW u, Tells(x, e, p, c, t, f, q, d, u),
           NEW r \in Requests, NEW row \in Rows, NoLater(row, r, e, p)
    PROVE  NoLater(row, r, f, q)
<1>1. row.log \in Nat /\ row.detail \in Nat
  BY DEF Rows
<1>2. PICK k \in Nat, m \in Nat : k = e[r].log /\ m = f[r].log
  BY DEF Tells
<1>3. q[r] # "over" => p[r] # "over" /\ k <= m
  BY <1>2 DEF Tells
<1> QED BY <1>1, <1>2, <1>3 DEF NoLater

\* The events stay true to the registry when a change is sent.
LEMMA EventsTold ==
    ASSUME NEW s, NEW x, NEW e, NEW p, NEW c, NEW t, NEW f, NEW q, NEW d, NEW u,
           EventsOK(s, e, p, c, t), Tells(x, e, p, c, t, f, q, d, u), NEW z, z = Append(s, x)
    PROVE  EventsOK(z, f, q, d, u)
<1>1. s \in Seq(Events) /\ x \in Events
  BY DEF EventsOK, Tells, EventOK
<1>2. PICK k \in Nat : k = Len(s)
  BY <1>1
<1>3. /\ z \in Seq(Events) /\ Len(z) = k + 1
      /\ z[k + 1] = x /\ \A n \in 1..k : z[n] = s[n]
  BY <1>1, <1>2, OneMore
<1>4. ASSUME NEW n \in 1..(k + 1) PROVE EventOK(z[n], q)
  <2>1. CASE n = k + 1
    BY <1>3, <2>1 DEF Tells
  <2>2. CASE n # k + 1
    <3>1. n \in 1..k
      BY <2>2
    <3>2. EventOK(s[n], p)
      BY <1>2, <3>1 DEF EventsOK
    <3> QED BY <1>3, <3>1, <3>2 DEF EventOK, Tells
  <2> QED BY <2>1, <2>2
<1>5. LastRowOK(z, f, q)
  <2> SUFFICES ASSUME NEW n \in 1..(k + 1), NEW r \in Requests, About(z[n], r),
                      \A m \in (n + 1)..(k + 1) : ~About(z[m], r)
               PROVE  IF z[n].type = "finished" THEN f[r] = NoRow ELSE Agree(z[n].row, f[r]) /\ q[r] = "tracked"
    BY <1>3 DEF LastRowOK
  <2>1. CASE n = k + 1
    BY <1>3, <2>1 DEF Tells
  <2>2. CASE n # k + 1
    <3>1. n \in 1..k /\ k + 1 \in (n + 1)..(k + 1) /\ \A m \in (n + 1)..k : m \in 1..k /\ m \in (n + 1)..(k + 1)
      BY <2>2
    <3>2. ~About(x, r) /\ About(s[n], r) /\ z[n] = s[n]
      BY <1>3, <3>1
    <3>3. \A m \in (n + 1)..k : ~About(s[m], r)
      BY <1>3, <3>1
    <3>4. IF s[n].type = "finished" THEN e[r] = NoRow ELSE Agree(s[n].row, e[r]) /\ p[r] = "tracked"
      BY <1>2, <3>1, <3>2, <3>3 DEF EventsOK, LastRowOK
    <3> QED BY <3>2, <3>4 DEF Tells
  <2> QED BY <2>1, <2>2
<1>6. LastCountOK(z, d)
  <2> SUFFICES ASSUME NEW n \in 1..(k + 1), Counts(z[n]), \A m \in (n + 1)..(k + 1) : ~Counts(z[m])
               PROVE  z[n].count = d
    BY <1>3 DEF LastCountOK
  <2>1. CASE n = k + 1
    BY <1>3, <2>1 DEF Tells
  <2>2. CASE n # k + 1
    <3>1. n \in 1..k /\ k + 1 \in (n + 1)..(k + 1) /\ \A m \in (n + 1)..k : m \in 1..k /\ m \in (n + 1)..(k + 1)
      BY <2>2
    <3>2. ~Counts(x) /\ Counts(s[n]) /\ z[n] = s[n]
      BY <1>3, <3>1
    <3>3. \A m \in (n + 1)..k : ~Counts(s[m])
      BY <1>3, <3>1
    <3>4. s[n].count = c
      BY <1>2, <3>1, <3>2, <3>3 DEF EventsOK, LastCountOK
    <3> QED BY <3>2, <3>4 DEF Tells
  <2> QED BY <2>1, <2>2
<1>7. LastCapOK(z, u)
  <2> SUFFICES ASSUME NEW n \in 1..(k + 1), Caps(z[n]), \A m \in (n + 1)..(k + 1) : ~Caps(z[m])
               PROVE  z[n].truncated = u
    BY <1>3 DEF LastCapOK
  <2>1. CASE n = k + 1
    BY <1>3, <2>1 DEF Tells
  <2>2. CASE n # k + 1
    <3>1. n \in 1..k /\ k + 1 \in (n + 1)..(k + 1) /\ \A m \in (n + 1)..k : m \in 1..k /\ m \in (n + 1)..(k + 1)
      BY <2>2
    <3>2. ~Caps(x) /\ Caps(s[n]) /\ z[n] = s[n]
      BY <1>3, <3>1
    <3>3. \A m \in (n + 1)..k : ~Caps(s[m])
      BY <1>3, <3>1
    <3>4. s[n].truncated = t
      BY <1>2, <3>1, <3>2, <3>3 DEF EventsOK, LastCapOK
    <3> QED BY <3>2, <3>4 DEF Tells
  <2> QED BY <2>1, <2>2
<1>8. RowsOK(z, f, q)
  <2> SUFFICES ASSUME NEW n \in 1..(k + 1), NEW r \in Requests, About(z[n], r) PROVE NoLater(z[n].row, r, f, q)
    BY <1>3 DEF RowsOK
  <2>1. CASE n = k + 1
    BY <1>3, <2>1 DEF Tells
  <2>2. CASE n # k + 1
    <3>1. n \in 1..k
      BY <2>2
    <3>2. About(s[n], r) /\ z[n] = s[n] /\ s[n].row \in Rows
      BY <1>2, <1>3, <3>1 DEF EventsOK, EventOK, Events
    <3>3. NoLater(s[n].row, r, e, p)
      BY <1>2, <3>1, <3>2 DEF EventsOK, RowsOK
    <3> QED BY <3>2, <3>3, LaterStill
  <2> QED BY <2>1, <2>2
<1> QED BY <1>3, <1>4, <1>5, <1>6, <1>7, <1>8 DEF EventsOK

\* ... and so does a view that will read it.
LEMMA ViewTold ==
    ASSUME NEW s, NEW x, NEW e, NEW p, NEW c, NEW t, NEW f, NEW q, NEW d, NEW u, NEW v, NEW z,
           EventsOK(s, e, p, c, t), Tells(x, e, p, c, t, f, q, d, u), Matches(v, s, e, p, c, t),
           v \in Views, z = Append(s, x)
    PROVE  Matches(v, z, f, q, d, u)
<1>1. s \in Seq(Events) /\ x \in Events
  BY DEF EventsOK, Tells, EventOK
<1>2. PICK k \in Nat : k = Len(s)
  BY <1>1
<1>3. /\ z \in Seq(Events) /\ Len(z) = k + 1
      /\ z[k + 1] = x /\ \A n \in 1..k : z[n] = s[n]
  BY <1>1, <1>2, OneMore
<1>4. k + 1 \in 1..(k + 1) /\ \A n \in 1..k : n \in 1..(k + 1)
  OBVIOUS
<1>5. ASSUME NEW r \in Requests, \A n \in 1..(k + 1) : ~About(z[n], r) PROVE Agree(v.rows[r], f[r])
  <2>1. ~About(x, r) /\ \A n \in 1..k : ~About(s[n], r)
    BY <1>3, <1>4, <1>5
  <2> QED BY <1>2, <2>1 DEF Matches, Tells
<1>6. ASSUME NEW r \in Requests, q[r] = "tracked"
      PROVE  v.rows[r].on \/ \E n \in 1..(k + 1) : About(z[n], r) /\ z[n].type = "started"
  <2>1. CASE p[r] = "tracked"
    <3>1. v.rows[r].on \/ \E n \in 1..k : About(s[n], r) /\ s[n].type = "started"
      BY <1>2, <2>1 DEF Matches
    <3> QED BY <1>3, <1>4, <3>1
  <2>2. CASE p[r] # "tracked"
    <3>1. About(x, r) /\ x.type = "started"
      BY <1>1, <1>6, <2>2 DEF Tells, Events, About
    <3> QED BY <1>3, <1>4, <3>1
  <2> QED BY <2>1, <2>2
<1>7. ASSUME \A n \in 1..(k + 1) : ~Counts(z[n]) PROVE v.count = d
  <2>1. ~Counts(x) /\ \A n \in 1..k : ~Counts(s[n])
    BY <1>3, <1>4, <1>7
  <2> QED BY <1>2, <2>1 DEF Matches, Tells
<1>8. ASSUME \A n \in 1..(k + 1) : ~Caps(z[n]) PROVE v.truncated = u
  <2>1. ~Caps(x) /\ \A n \in 1..k : ~Caps(s[n])
    BY <1>3, <1>4, <1>8
  <2> QED BY <1>2, <2>1 DEF Matches, Tells
<1>9. ASSUME NEW r \in Requests PROVE NoLater(v.rows[r], r, f, q)
  <2>1. v.rows[r] \in Rows /\ NoLater(v.rows[r], r, e, p)
    BY DEF Matches, Views
  <2> QED BY <2>1, LaterStill
<1> QED BY <1>3, <1>5, <1>6, <1>7, <1>8, <1>9 DEF Matches

\* The events that are left stay true to the registry.
LEMMA EventsRead ==
    ASSUME NEW s, NEW e, NEW p, NEW c, NEW t, EventsOK(s, e, p, c, t), s # <<>>, NEW z, z = Tail(s)
    PROVE  EventsOK(z, e, p, c, t)
<1>1. s \in Seq(Events)
  BY DEF EventsOK
<1>2. PICK k \in Nat : k = Len(z) /\ z \in Seq(Events) /\ Len(s) = k + 1 /\ \A n \in 1..k : z[n] = s[n + 1]
  BY <1>1, OneLess
<1>3. \A n \in 1..k : EventOK(z[n], p)
  BY <1>2 DEF EventsOK
<1>4. ASSUME NEW n \in 1..k
      PROVE  /\ n + 1 \in 1..(k + 1) /\ z[n] = s[n + 1]
             /\ \A m \in (n + 2)..(k + 1) : m - 1 \in (n + 1)..k /\ z[m - 1] = s[m]
  <2>1. \A m \in (n + 2)..(k + 1) : m - 1 \in 1..k /\ m - 1 \in (n + 1)..k /\ (m - 1) + 1 = m
    OBVIOUS
  <2>2. ASSUME NEW m \in (n + 2)..(k + 1) PROVE z[m - 1] = s[m]
    <3>1. PICK j \in 1..k : j = m - 1 /\ j + 1 = m
      BY <2>1
    <3> QED BY <1>2, <3>1
  <2> QED BY <1>2, <2>1, <2>2
<1>5. LastRowOK(z, e, p)
  <2> SUFFICES ASSUME NEW n \in 1..k, NEW r \in Requests, About(z[n], r),
                      \A m \in (n + 1)..k : ~About(z[m], r)
               PROVE  IF z[n].type = "finished" THEN e[r] = NoRow ELSE Agree(z[n].row, e[r]) /\ p[r] = "tracked"
    BY <1>2 DEF LastRowOK
  <2>1. PICK i \in 1..(k + 1) : i = n + 1 /\ z[n] = s[i]
    BY <1>4
  <2>2. ASSUME NEW m \in (i + 1)..(k + 1) PROVE ~About(s[m], r)
    <3>1. m \in (n + 2)..(k + 1)
      BY <2>1
    <3>2. PICK j \in (n + 1)..k : z[j] = s[m]
      BY <1>4, <3>1
    <3>3. ~About(z[j], r)
      BY <3>2
    <3> QED BY <3>2, <3>3
  <2> QED BY <1>2, <2>1, <2>2 DEF EventsOK, LastRowOK
<1>6. LastCountOK(z, c)
  <2> SUFFICES ASSUME NEW n \in 1..k, Counts(z[n]), \A m \in (n + 1)..k : ~Counts(z[m])
               PROVE  z[n].count = c
    BY <1>2 DEF LastCountOK
  <2>1. PICK i \in 1..(k + 1) : i = n + 1 /\ z[n] = s[i]
    BY <1>4
  <2>2. ASSUME NEW m \in (i + 1)..(k + 1) PROVE ~Counts(s[m])
    <3>1. m \in (n + 2)..(k + 1)
      BY <2>1
    <3>2. PICK j \in (n + 1)..k : z[j] = s[m]
      BY <1>4, <3>1
    <3>3. ~Counts(z[j])
      BY <3>2
    <3> QED BY <3>2, <3>3
  <2> QED BY <1>2, <2>1, <2>2 DEF EventsOK, LastCountOK
<1>7. LastCapOK(z, t)
  <2> SUFFICES ASSUME NEW n \in 1..k, Caps(z[n]), \A m \in (n + 1)..k : ~Caps(z[m])
               PROVE  z[n].truncated = t
    BY <1>2 DEF LastCapOK
  <2>1. PICK i \in 1..(k + 1) : i = n + 1 /\ z[n] = s[i]
    BY <1>4
  <2>2. ASSUME NEW m \in (i + 1)..(k + 1) PROVE ~Caps(s[m])
    <3>1. m \in (n + 2)..(k + 1)
      BY <2>1
    <3>2. PICK j \in (n + 1)..k : z[j] = s[m]
      BY <1>4, <3>1
    <3>3. ~Caps(z[j])
      BY <3>2
    <3> QED BY <3>2, <3>3
  <2> QED BY <1>2, <2>1, <2>2 DEF EventsOK, LastCapOK
<1>8. RowsOK(z, e, p)
  <2> SUFFICES ASSUME NEW n \in 1..k, NEW r \in Requests, About(z[n], r) PROVE NoLater(z[n].row, r, e, p)
    BY <1>2 DEF RowsOK
  <2>1. PICK i \in 1..(k + 1) : i = n + 1 /\ z[n] = s[i]
    BY <1>4
  <2> QED BY <1>2, <2>1 DEF EventsOK, RowsOK
<1> QED BY <1>2, <1>3, <1>5, <1>6, <1>7, <1>8 DEF EventsOK

\* What an update makes of a row.
LEMMA MergedFields ==
    ASSUME NEW a \in Rows, NEW b \in Rows
    PROVE  /\ Merged(a, b) \in Rows
           /\ Merged(a, b).on = a.on /\ Merged(a, b).detail = a.detail
           /\ Merged(a, b).provider = b.provider /\ Merged(a, b).tokens = b.tokens
           /\ Merged(a, b).log = IF b.log = 0 THEN a.log ELSE b.log
BY DEF Merged, Rows

\* What the dashboard makes of one event.
LEMMA AppliedFields ==
    ASSUME NEW v \in Views, NEW x \in Events, x.type # "capacity" => x.id \in Requests,
           NEW w, w = Applied(v, x)
    PROVE  /\ w \in Views
           /\ \A r \in Requests :
                 w.rows[r] = IF ~About(x, r) THEN v.rows[r]
                             ELSE IF x.type = "finished" THEN NoRow
                             ELSE IF x.type = "started" THEN x.row
                             ELSE IF v.rows[r].on THEN Merged(v.rows[r], x.row) ELSE v.rows[r]
           /\ w.count = IF Counts(x) THEN x.count ELSE v.count
           /\ w.truncated = IF Caps(x) THEN x.truncated ELSE v.truncated
<1>1. /\ v.rows \in [Requests -> Rows] /\ NoRow \in Rows /\ x.row \in Rows /\ x.count \in Nat
      /\ x.truncated \in BOOLEAN /\ x.type \in {"started", "updated", "finished", "capacity"}
  BY DEF Views, Events, NoRow, Rows
<1>2. CASE x.type = "capacity"
  <2>1. w = [v EXCEPT !.truncated = x.truncated, !.count = x.count]
    BY <1>2 DEF Applied
  <2> QED BY <1>1, <1>2, <2>1 DEF Views, About, Counts, Caps
<1>3. CASE x.type = "updated"
  <2>1. w = [v EXCEPT !.rows[x.id] = IF @.on THEN Merged(@, x.row) ELSE @]
    BY <1>3 DEF Applied
  <2>2. PICK g : g = [v.rows EXCEPT ![x.id] = IF @.on THEN Merged(@, x.row) ELSE @]
    OBVIOUS
  <2>3. w = [v EXCEPT !.rows = g]
    BY <2>1, <2>2 DEF Views
  <2>4. x.id \in Requests /\ g \in [Requests -> Rows]
    <3>1. x.id \in Requests /\ Merged(v.rows[x.id], x.row) \in Rows
      BY <1>1, <1>3, MergedFields
    <3> QED BY <1>1, <2>2, <3>1
  <2> QED BY <1>1, <1>3, <2>2, <2>3, <2>4 DEF Views, About, Counts, Caps
<1>4. CASE x.type \in {"started", "finished"}
  <2>1. PICK y \in Rows : y = IF x.type = "started" THEN x.row ELSE NoRow
    BY <1>1
  <2>2. w = [v EXCEPT !.rows[x.id] = y, !.count = x.count]
    BY <1>4, <2>1 DEF Applied
  <2>3. PICK g : g = [v.rows EXCEPT ![x.id] = y]
    OBVIOUS
  <2>4. w = [v EXCEPT !.rows = g, !.count = x.count]
    BY <2>2, <2>3 DEF Views
  <2>5. x.id \in Requests /\ g \in [Requests -> Rows]
    BY <1>1, <1>4, <2>3
  <2>6. w \in Views /\ w.rows = g /\ w.count = x.count /\ w.truncated = v.truncated
    BY <1>1, <2>4, <2>5 DEF Views
  <2>7. \A r \in Requests : g[r] = IF r = x.id THEN y ELSE v.rows[r]
    BY <1>1, <2>3, <2>5
  <2>8. Counts(x) /\ ~Caps(x) /\ \A r : About(x, r) <=> r = x.id
    BY <1>4 DEF About, Counts, Caps
  <2> QED BY <1>4, <2>1, <2>6, <2>7, <2>8
<1> QED BY <1>1, <1>2, <1>3, <1>4

\* A view that reads an event goes on to match the registry.
LEMMA ViewRead ==
    ASSUME NEW s, NEW e, NEW p, NEW c, NEW t, NEW v \in Views, EventsOK(s, e, p, c, t), s # <<>>,
           Matches(v, s, e, p, c, t), NEW z, z = Tail(s), NEW w, w = Applied(v, Head(s))
    PROVE  w \in Views /\ Matches(w, z, e, p, c, t)
<1>1. s \in Seq(Events)
  BY DEF EventsOK
<1>2. PICK k \in Nat : k = Len(z) /\ Len(s) = k + 1 /\ \A n \in 1..k : z[n] = s[n + 1]
  BY <1>1, OneLess
<1>3. PICK x : x = s[1] /\ x = Head(s)
  BY <1>1, OneLess
<1>4. EventOK(x, p) /\ x \in Events
  BY <1>2, <1>3 DEF EventsOK, EventOK
<1>5. /\ w \in Views
      /\ \A r \in Requests :
            w.rows[r] = IF ~About(x, r) THEN v.rows[r]
                        ELSE IF x.type = "finished" THEN NoRow
                        ELSE IF x.type = "started" THEN x.row
                        ELSE IF v.rows[r].on THEN Merged(v.rows[r], x.row) ELSE v.rows[r]
      /\ w.count = IF Counts(x) THEN x.count ELSE v.count
      /\ w.truncated = IF Caps(x) THEN x.truncated ELSE v.truncated
  BY <1>3, <1>4, AppliedFields DEF EventOK
<1>6. 1 \in 1..(k + 1) /\ \A n \in 2..(k + 1) : n - 1 \in 1..k /\ z[n - 1] = s[n] /\ n \in 1..(k + 1)
  <2>1. ASSUME NEW n \in 2..(k + 1) PROVE z[n - 1] = s[n]
    <3>1. PICK j \in 1..k : j = n - 1 /\ j + 1 = n
      OBVIOUS
    <3> QED BY <1>2, <3>1
  <2>2. 1 \in 1..(k + 1) /\ \A n \in 2..(k + 1) : n - 1 \in 1..k /\ n \in 1..(k + 1)
    OBVIOUS
  <2> QED BY <2>1, <2>2
<1>7. \A n \in 1..(k + 1) : n = 1 \/ n \in 2..(k + 1)
  OBVIOUS
<1>8. ASSUME NEW r \in Requests, \A n \in 1..k : ~About(z[n], r) PROVE Agree(w.rows[r], e[r])
  <2>1. \A n \in 2..(k + 1) : ~About(s[n], r)
    BY <1>6, <1>8
  <2>2. CASE ~About(x, r)
    <3>1. \A n \in 1..(k + 1) : ~About(s[n], r)
      BY <1>3, <1>7, <2>1, <2>2
    <3> QED BY <1>2, <1>5, <2>2, <3>1 DEF Matches
  <2>3. CASE About(x, r)
    <3>1. IF x.type = "finished" THEN e[r] = NoRow ELSE Agree(x.row, e[r]) /\ p[r] = "tracked"
      <4>1. \A m \in (1 + 1)..(k + 1) : ~About(s[m], r)
        BY <2>1
      <4> QED BY <1>2, <1>3, <1>6, <2>3, <4>1 DEF EventsOK, LastRowOK
    <3>2. CASE x.type = "finished"
      BY <1>5, <2>3, <3>1, <3>2 DEF Agree
    <3>3. CASE x.type = "started"
      BY <1>5, <2>3, <3>1, <3>3
    <3>4. CASE x.type = "updated"
      <4>1. v.rows[r].on \/ \E n \in 1..(k + 1) : About(s[n], r) /\ s[n].type = "started"
        BY <1>2, <3>1, <3>4 DEF Matches
      <4>2. \A n \in 1..(k + 1) : ~(About(s[n], r) /\ s[n].type = "started")
        BY <1>3, <1>7, <2>1, <3>4
      <4>3. w.rows[r] = Merged(v.rows[r], x.row) /\ v.rows[r].on
        BY <1>5, <2>3, <3>4, <4>1, <4>2
      <4>4. Agree(x.row, e[r]) /\ x.row.on /\ v.rows[r].log <= e[r].log
        BY <1>4, <3>1, <3>4 DEF EventOK, Matches, NoLater
      <4>5. v.rows[r] \in Rows /\ x.row \in Rows
        BY <1>4 DEF Views, Events
      <4>6. w.rows[r].log = e[r].log
        <5>1. PICK i \in Nat, j \in Nat : i = v.rows[r].log /\ j = x.row.log
          BY <4>5 DEF Rows
        <5>2. e[r].log = j /\ i <= j
          BY <4>4, <5>1 DEF Agree
        <5>3. w.rows[r].log = IF j = 0 THEN i ELSE j
          BY <4>3, <4>5, <5>1, MergedFields
        <5> QED BY <5>2, <5>3
      <4>7. /\ w.rows[r].on = v.rows[r].on /\ w.rows[r].provider = x.row.provider
            /\ w.rows[r].tokens = x.row.tokens
        <5>1. PICK a \in Rows, b \in Rows : a = v.rows[r] /\ b = x.row
          BY <4>5
        <5>2. Merged(a, b).on = a.on /\ Merged(a, b).provider = b.provider /\ Merged(a, b).tokens = b.tokens
          BY MergedFields
        <5> QED BY <4>3, <5>1, <5>2
      <4>8. x.row.on = TRUE /\ v.rows[r].on = TRUE
        BY <4>3, <4>4, <4>5 DEF Rows
      <4> QED BY <4>4, <4>6, <4>7, <4>8 DEF Agree
    <3> QED BY <1>4, <2>3, <3>2, <3>3, <3>4 DEF Events, About
  <2> QED BY <2>2, <2>3
<1>9. ASSUME NEW r \in Requests, p[r] = "tracked"
      PROVE  w.rows[r].on \/ \E n \in 1..k : About(z[n], r) /\ z[n].type = "started"
  <2>1. v.rows[r].on \/ \E n \in 1..(k + 1) : About(s[n], r) /\ s[n].type = "started"
    BY <1>2, <1>9 DEF Matches
  <2>2. About(x, r) => x.type # "finished"
    BY <1>4, <1>9 DEF EventOK, About
  <2>3. About(x, r) /\ x.type # "finished" => x.row.on
    BY <1>4 DEF EventOK, Events, About
  <2>4. CASE v.rows[r].on
    <3>1. v.rows[r] \in Rows /\ x.row \in Rows
      BY <1>4 DEF Views, Events
    <3>2. Merged(v.rows[r], x.row).on
      BY <2>4, <3>1, MergedFields
    <3> QED BY <1>5, <2>2, <2>3, <2>4, <3>2
  <2>5. CASE About(x, r) /\ x.type = "started"
    BY <1>5, <2>3, <2>5
  <2>6. CASE \E n \in 2..(k + 1) : About(s[n], r) /\ s[n].type = "started"
    BY <1>6, <2>6
  <2> QED BY <1>3, <1>7, <2>1, <2>4, <2>5, <2>6
<1>10. ASSUME \A n \in 1..k : ~Counts(z[n]) PROVE w.count = c
  <2>1. \A n \in 2..(k + 1) : ~Counts(s[n])
    BY <1>6, <1>10
  <2>2. CASE Counts(x)
    <3>1. \A m \in (1 + 1)..(k + 1) : ~Counts(s[m])
      BY <2>1
    <3> QED BY <1>2, <1>3, <1>5, <1>6, <2>2, <3>1 DEF EventsOK, LastCountOK
  <2>3. CASE ~Counts(x)
    <3>1. \A n \in 1..(k + 1) : ~Counts(s[n])
      BY <1>3, <1>7, <2>1, <2>3
    <3> QED BY <1>2, <1>5, <2>3, <3>1 DEF Matches
  <2> QED BY <2>2, <2>3
<1>11. ASSUME \A n \in 1..k : ~Caps(z[n]) PROVE w.truncated = t
  <2>1. \A n \in 2..(k + 1) : ~Caps(s[n])
    BY <1>6, <1>11
  <2>2. CASE Caps(x)
    <3>1. \A m \in (1 + 1)..(k + 1) : ~Caps(s[m])
      BY <2>1
    <3> QED BY <1>2, <1>3, <1>5, <1>6, <2>2, <3>1 DEF EventsOK, LastCapOK
  <2>3. CASE ~Caps(x)
    <3>1. \A n \in 1..(k + 1) : ~Caps(s[n])
      BY <1>3, <1>7, <2>1, <2>3
    <3> QED BY <1>2, <1>5, <2>3, <3>1 DEF Matches
  <2> QED BY <2>2, <2>3
<1>12. ASSUME NEW r \in Requests PROVE NoLater(w.rows[r], r, e, p)
  <2>1. v.rows[r] \in Rows /\ NoLater(v.rows[r], r, e, p) /\ x.row \in Rows
    BY <1>4 DEF Views, Events, Matches
  <2>2. About(x, r) => NoLater(x.row, r, e, p)
    BY <1>2, <1>3, <1>6 DEF EventsOK, RowsOK
  <2>3. CASE ~About(x, r) \/ (x.type = "updated" /\ ~v.rows[r].on)
    BY <1>5, <2>1, <2>3
  <2>4. CASE About(x, r) /\ x.type = "started"
    BY <1>5, <2>2, <2>4
  <2>5. CASE About(x, r) /\ x.type = "finished"
    <3>1. p[r] = "over"
      BY <1>4, <2>5 DEF EventOK, About
    <3> QED BY <3>1 DEF NoLater
  <2>6. CASE About(x, r) /\ x.type = "updated" /\ v.rows[r].on
    <3>1. w.rows[r] = Merged(v.rows[r], x.row)
      BY <1>5, <2>6
    <3>2. w.rows[r].detail = v.rows[r].detail /\ w.rows[r].log \in {v.rows[r].log, x.row.log}
      BY <2>1, <3>1, MergedFields
    <3> QED BY <2>1, <2>2, <2>6, <3>2 DEF NoLater
  <2> QED BY <1>4, <2>3, <2>4, <2>5, <2>6 DEF Events, About
<1> QED BY <1>2, <1>5, <1>8, <1>9, <1>10, <1>11, <1>12 DEF Matches

\* The registry's own view matches, whatever events are still to be read.
LEMMA SnapshotMatches ==
    ASSUME RegistryOK, NEW s
    PROVE  Snapshot \in Views /\ Matches(Snapshot, s, entry, phase, Active, truncated)
<1>1. Cardinality(Tracked(entry)) \in Nat
  BY FS_CardinalityType DEF RegistryOK
<1>2. Active \in Nat
  BY <1>1 DEF Active, ActiveCount, RegistryOK
<1>3. /\ Snapshot.rows = entry /\ Snapshot.count = Active /\ Snapshot.truncated = truncated
  BY DEF Snapshot, Active
<1>4. Snapshot \in Views
  BY <1>2 DEF Snapshot, Active, Views, RegistryOK
<1>5. \A r \in Requests : Agree(entry[r], entry[r]) /\ NoLater(entry[r], r, entry, phase)
  BY DEF Agree, NoLater, RegistryOK, Rows
<1> QED BY <1>3, <1>4, <1>5 DEF Matches, RegistryOK

-----------------------------------------------------------------------------
(* Changes of the registry.                                                *)

\* The count is a number.
LEMMA ActiveNat ==
    ASSUME NEW e, IsFiniteSet(Tracked(e)), NEW n \in Nat
    PROVE  ActiveCount(e, n) \in Nat
<1>1. Cardinality(Tracked(e)) \in Nat
  BY FS_CardinalityType
<1> QED BY <1>1 DEF ActiveCount

\* Nothing to read says nothing of the registry.
LEMMA NothingSent == ASSUME NEW e, NEW p, NEW c, NEW t PROVE EventsOK(<<>>, e, p, c, t)
<1>1. <<>> \in Seq(Events) /\ Len(<<>>) = 0 /\ 1..0 = {}
  OBVIOUS
<1> QED BY <1>1 DEF EventsOK, RowsOK, LastRowOK, LastCountOK, LastCapOK

\* A change that is sent reaches the viewer or makes it lag.
LEMMA SentStep ==
    ASSUME LiveInv, RegistryOK', UNCHANGED viewer, NEW x, Send(<<x>>),
           Tells(x, entry, phase, Active, truncated, entry', phase', Active', truncated')
    PROVE  LiveInv'
<1>1. EventsOK(unread, entry, phase, Active, truncated) /\ lagged \in BOOLEAN
      /\ Len(unread) <= EventCapacity /\ (viewer.at = "off" => unread = <<>>)
  BY DEF LiveInv
<1>2. x \in Events /\ unread \in Seq(Events)
  BY <1>1 DEF Tells, EventOK, EventsOK
<1>3. CASE ~Subscribed
  <2>1. unread' = <<>> /\ lagged' = lagged /\ viewer'.at = "off"
    BY <1>1, <1>3 DEF Send, Subscribed
  <2>2. EventsOK(unread', entry', phase', Active', truncated')
    BY <2>1, NothingSent
  <2>3. Len(unread') <= EventCapacity
    BY <2>1, LiveAssumption
  <2> QED BY <1>1, <2>1, <2>2, <2>3 DEF LiveInv, ViewOK
<1>4. CASE Subscribed
  <2>1. PICK all, k : all = Append(unread, x) /\ k = Len(unread)
    OBVIOUS
  <2>2. all = unread \o <<x>> /\ all \in Seq(Events) /\ Len(all) = k + 1 /\ k \in Nat /\ all # <<>>
    BY <1>2, <2>1
  <2>3. EventsOK(all, entry', phase', Active', truncated')
    BY <1>1, <2>1, EventsTold
  <2>4. viewer'.at # "off"
    BY <1>4 DEF Subscribed
  <2>7. /\ unread' = IF Len(all) - EventCapacity > 0
                     THEN SubSeq(all, Len(all) - EventCapacity + 1, Len(all)) ELSE all
        /\ lagged' = (lagged \/ Len(all) - EventCapacity > 0)
    BY <1>4, <2>2, Zenon DEF Send
  <2>5. CASE Len(all) - EventCapacity > 0
    <3>1. Len(all) - EventCapacity = 1
      BY <1>1, <2>1, <2>2, <2>5, LiveAssumption
    <3>2. unread' = SubSeq(all, 2, Len(all)) /\ lagged' = TRUE
      <4>1. unread' = SubSeq(all, 1 + 1, Len(all))
        BY <2>5, <2>7, <3>1
      <4>2. lagged' = TRUE
        BY <2>5, <2>7, Zenon
      <4> QED BY <4>1, <4>2
    <3>3. SubSeq(all, 2, Len(all)) = Tail(all) /\ Len(Tail(all)) = k
      BY <2>2
    <3>4. EventsOK(unread', entry', phase', Active', truncated')
      BY <2>2, <2>3, <3>2, <3>3, EventsRead
    <3>5. Len(unread') <= EventCapacity
      BY <1>1, <2>1, <3>2, <3>3
    <3> QED BY <2>4, <3>2, <3>4, <3>5 DEF LiveInv, ViewOK
  <2>6. CASE ~(Len(all) - EventCapacity > 0)
    <3>1. unread' = all /\ lagged' = lagged
      <4>1. unread' = all
        BY <2>6, <2>7
      <4>2. lagged' = lagged
        BY <1>1, <2>6, <2>7, Zenon
      <4> QED BY <4>1, <4>2
    <3>2. Len(unread') <= EventCapacity
      BY <2>2, <2>6, <3>1, LiveAssumption
    <3>3. ASSUME NEW v \in Views, Matches(v, unread, entry, phase, Active, truncated)
          PROVE  Matches(v, unread', entry', phase', Active', truncated')
      <4>1. Matches(v, all, entry', phase', Active', truncated')
        BY <1>1, <2>1, <3>3, ViewTold, Zenon
      <4> QED BY <3>1, <4>1
    <3>4. ViewOK'
      <4>1. viewer.snapshot \in Views /\ viewer.shown \in Views /\ viewer' = viewer
        BY DEF LiveInv
      <4> QED BY <3>1, <3>3, <4>1 DEF LiveInv, ViewOK
    <3> QED BY <1>1, <2>3, <2>4, <3>1, <3>2, <3>4 DEF LiveInv
  <2> QED BY <2>5, <2>6
<1> QED BY <1>3, <1>4

\* A change of the row of r, told by an event about it.
LEMMA TellsRow ==
    ASSUME RegistryOK, RegistryOK', NEW r \in Requests, NEW x, EventOK(x, phase'),
           x.type \in {"started", "updated", "finished"}, x.id = r, phase[r] # "over",
           \A u \in Requests \ {r} : entry'[u] = entry[u] /\ phase'[u] = phase[u],
           IF x.type = "finished" THEN phase'[r] = "over"
           ELSE /\ Agree(x.row, entry'[r]) /\ x.row.detail <= entry'[r].log /\ entry[r].log <= entry'[r].log
                /\ phase'[r] = "tracked" /\ (x.type = "updated" => phase[r] = "tracked"),
           IF Counts(x) THEN x.count = Active' ELSE Active' = Active, truncated' = truncated
    PROVE  Tells(x, entry, phase, Active, truncated, entry', phase', Active', truncated')
<1>1. /\ \A u \in Requests : entry[u] \in Rows /\ entry'[u] \in Rows
      /\ \A u \in Requests : entry[u].log \in Nat /\ entry'[u].log \in Nat
  BY DEF RegistryOK, Rows
<1>2. \A u \in Requests : About(x, u) <=> u = r
  BY DEF About
<1>3. ~Caps(x)
  BY DEF Caps
<1>4. x.row \in Rows /\ x.row.log \in Nat
  BY DEF EventOK, Events, Rows
<1>5. ASSUME NEW u \in Requests
      PROVE  /\ phase[u] = "over" => phase'[u] = "over"
             /\ phase'[u] # "over" => entry[u].log <= entry'[u].log
             /\ About(x, u) => NoLater(x.row, u, entry', phase')
  <2>1. CASE u = r
    <3>1. CASE x.type = "finished"
      BY <2>1, <3>1 DEF NoLater
    <3>2. CASE x.type # "finished"
      BY <1>1, <1>4, <2>1, <3>2 DEF NoLater, Agree
    <3> QED BY <3>1, <3>2
  <2>2. CASE u # r
    <3>1. entry'[u] = entry[u] /\ phase'[u] = phase[u]
      BY <2>2
    <3> QED BY <1>1, <1>2, <2>2, <3>1
  <2> QED BY <2>1, <2>2
<1>6. ASSUME NEW u \in Requests
      PROVE  IF About(x, u)
             THEN IF x.type = "finished" THEN entry'[u] = NoRow /\ phase'[u] = "over"
                  ELSE Agree(x.row, entry'[u]) /\ phase'[u] = "tracked" /\ (x.type = "updated" => phase[u] = "tracked")
             ELSE entry'[u] = entry[u] /\ (phase[u] = "tracked" <=> phase'[u] = "tracked")
  <2>1. phase'[r] = "over" => entry'[r] = NoRow
    BY DEF RegistryOK
  <2> QED BY <1>2, <2>1
<1> QED BY <1>1, <1>3, <1>5, <1>6 DEF Tells

\* A change of what is not tracked, told by a "capacity" event.
LEMMA TellsCapacity ==
    ASSUME RegistryOK, NEW r \in Requests, NEW x, EventOK(x, phase'), x.type = "capacity",
           entry' = entry, phase[r] # "tracked", phase[r] # "over", NEW to, to # "tracked",
           phase' = [phase EXCEPT ![r] = to], x.count = Active', x.truncated = truncated'
    PROVE  Tells(x, entry, phase, Active, truncated, entry', phase', Active', truncated')
<1>1. \A u \in Requests : entry[u] \in Rows /\ entry[u].log \in Nat /\ entry[u].log <= entry[u].log
  BY DEF RegistryOK, Rows
<1>2. \A u \in Requests : ~About(x, u)
  BY DEF About
<1>3. \A u \in Requests : /\ phase[u] = "over" => phase'[u] = "over"
                           /\ phase[u] = "tracked" <=> phase'[u] = "tracked"
  BY DEF RegistryOK
<1>4. Caps(x) /\ Counts(x)
  BY DEF Caps, Counts
<1> QED BY <1>1, <1>2, <1>3, <1>4 DEF Tells

\* A request starts.
LEMMA StartStep ==
    ASSUME LiveInv, NEW r \in Requests, StartRequest(r)
    PROVE  LiveInv'
<1>1. RegistryOK /\ phase[r] = "new" /\ viewer' = viewer
  BY DEF LiveInv, StartRequest
<1>2. /\ IsFiniteSet(Tracked(entry)) /\ IsFiniteSet(Uncounted)
      /\ Cardinality(Tracked(entry)) \in Nat /\ Cardinality(Uncounted) \in Nat
      /\ r \notin Tracked(entry) /\ r \notin Uncounted
  BY <1>1, FS_CardinalityType DEF RegistryOK, Tracked, Uncounted
<1>3. CASE Cardinality(Tracked(entry)) < MaxLive
  <2>1. PICK row : row = [NoRow EXCEPT !.on = TRUE]
    OBVIOUS
  <2>2. row \in Rows /\ row.on /\ row.log = 0 /\ row.tokens = 0 /\ row.detail = 0
    BY <2>1 DEF NoRow, Rows
  <2>3. /\ entry' = [entry EXCEPT ![r] = row] /\ phase' = [phase EXCEPT ![r] = "tracked"]
        /\ untracked' = untracked /\ truncated' = truncated
        /\ Send(<<Started(r, row, ActiveCount(entry', untracked))>>)
    BY <1>3, <2>1 DEF StartRequest
  <2>4. Tracked(entry') = Tracked(entry) \cup {r} /\ Uncounted' = Uncounted
    BY <1>1, <2>2, <2>3 DEF Tracked, Uncounted, RegistryOK
  <2>5. IsFiniteSet(Tracked(entry')) /\ Cardinality(Tracked(entry')) = Cardinality(Tracked(entry)) + 1
    BY <1>2, <2>4, FS_AddElement
  <2>6. RegistryOK'
    <3>1. Cardinality(Tracked(entry')) <= MaxLive
      BY <1>2, <1>3, <2>5, LiveAssumption
    <3>2. /\ entry' \in [Requests -> Rows] /\ phase' \in [Requests -> {"new", "tracked", "uncounted", "over"}]
          /\ \A u \in Requests : /\ entry'[u].on <=> phase'[u] = "tracked"
                                 /\ phase'[u] # "tracked" => entry'[u] = NoRow
                                 /\ entry'[u].tokens = entry'[u].log /\ entry'[u].detail = entry'[u].log
      BY <1>1, <2>2, <2>3 DEF RegistryOK
    <3> QED BY <1>1, <2>3, <2>4, <2>5, <3>1, <3>2 DEF RegistryOK
  <2>7. PICK x : x = Started(r, row, ActiveCount(entry', untracked))
    OBVIOUS
  <2>8. Active' \in Nat /\ Active' = ActiveCount(entry', untracked)
    BY <2>3, <2>6, ActiveNat DEF Active, RegistryOK
  <2>9. /\ x \in Events /\ x.type = "started" /\ x.id = r /\ x.row = row /\ x.count = Active'
    BY <2>2, <2>7, <2>8 DEF Started, Events
  <2>10. Tells(x, entry, phase, Active, truncated, entry', phase', Active', truncated')
    <3>1. EventOK(x, phase')
      BY <2>2, <2>9 DEF EventOK
    <3>2. /\ \A u \in Requests \ {r} : entry'[u] = entry[u] /\ phase'[u] = phase[u]
          /\ entry'[r] = row /\ phase'[r] = "tracked"
      BY <1>1, <2>3 DEF RegistryOK
    <3>3. entry[r].log = 0
      BY <1>1 DEF RegistryOK, NoRow
    <3>4. /\ Agree(x.row, entry'[r]) /\ x.row.detail <= entry'[r].log /\ entry[r].log <= entry'[r].log
      BY <2>2, <2>9, <3>2, <3>3 DEF Agree
    <3>5. Counts(x)
      BY <2>9 DEF Counts
    <3> QED BY <1>1, <2>3, <2>6, <2>9, <3>1, <3>2, <3>4, <3>5, TellsRow
  <2> QED BY <1>1, <2>3, <2>6, <2>7, <2>10, SentStep
<1>4. CASE ~(Cardinality(Tracked(entry)) < MaxLive)
  <2>1. /\ entry' = entry /\ phase' = [phase EXCEPT ![r] = "uncounted"]
        /\ untracked' = untracked + 1 /\ truncated' = TRUE
        /\ Send(<<Capacity(TRUE, ActiveCount(entry, untracked + 1))>>)
    BY <1>4 DEF StartRequest
  <2>2. Uncounted' = Uncounted \cup {r}
    BY <1>1, <2>1 DEF Uncounted, RegistryOK
  <2>3. IsFiniteSet(Uncounted') /\ Cardinality(Uncounted') = Cardinality(Uncounted) + 1
    BY <1>2, <2>2, FS_AddElement
  <2>4. RegistryOK'
    <3>1. /\ phase' \in [Requests -> {"new", "tracked", "uncounted", "over"}]
          /\ \A u \in Requests : /\ entry'[u].on <=> phase'[u] = "tracked"
                                 /\ phase'[u] # "tracked" => entry'[u] = NoRow
                                 /\ entry'[u].tokens = entry'[u].log /\ entry'[u].detail = entry'[u].log
      BY <1>1, <2>1 DEF RegistryOK
    <3>2. untracked' \in Nat /\ untracked' > 0
      BY <1>1, <2>1 DEF RegistryOK
    <3>3. truncated' = (untracked' > 0) /\ truncated' \in BOOLEAN
      BY <2>1, <3>2, Zenon
    <3> QED BY <1>1, <2>1, <2>3, <3>1, <3>2, <3>3 DEF RegistryOK
  <2>5. PICK x : x = Capacity(TRUE, ActiveCount(entry, untracked + 1))
    OBVIOUS
  <2>6. Active' \in Nat /\ Active' = ActiveCount(entry, untracked + 1)
    BY <2>1, <2>4, ActiveNat DEF Active, RegistryOK
  <2>7. x \in Events /\ x.type = "capacity" /\ x.count = Active' /\ x.truncated = TRUE
    BY <2>5, <2>6 DEF Capacity, Events, NoRow, Rows
  <2>8. Tells(x, entry, phase, Active, truncated, entry', phase', Active', truncated')
    <3>1. EventOK(x, phase')
      BY <2>7 DEF EventOK
    <3> QED BY <1>1, <2>1, <2>7, <3>1, TellsCapacity
  <2> QED BY <1>1, <2>1, <2>4, <2>5, <2>8, SentStep
<1> QED BY <1>3, <1>4

\* The row of a running request changes.
LEMMA UpdateStep ==
    ASSUME LiveInv, NEW r \in Requests, UpdateProvider(r) \/ UpdateLog(r)
    PROVE  LiveInv'
<1>1. RegistryOK /\ phase[r] = "tracked" /\ UNCHANGED <<untracked, truncated, phase, viewer>>
  BY DEF LiveInv, UpdateProvider, UpdateLog
<1>2. entry[r] \in Rows /\ entry[r].on /\ entry[r].tokens = entry[r].log /\ entry[r].detail = entry[r].log
      /\ entry[r].log \in Nat
  BY <1>1 DEF RegistryOK, Rows
<1>3. PICK row \in Rows :
          /\ row.on /\ row.tokens = row.log /\ row.detail = row.log
          /\ row.log \in Nat /\ entry[r].log <= row.log
          /\ entry' = [entry EXCEPT ![r] = row] /\ Send(<<Updated(r, row)>>)
  <2>1. CASE UpdateProvider(r)
    <3>1. PICK new : new = [entry[r] EXCEPT !.provider = @ + 1]
      OBVIOUS
    <3>2. new \in Rows /\ new.on /\ new.log = entry[r].log /\ new.tokens = new.log /\ new.detail = new.log
      BY <1>2, <3>1 DEF Rows
    <3>3. entry' = [entry EXCEPT ![r] = new] /\ Send(<<Updated(r, new)>>)
      BY <2>1, <3>1 DEF UpdateProvider
    <3>4. new \in Rows
      BY <3>2
    <3> USE <3>4
    <3> WITNESS new \in Rows
    <3> QED BY <1>2, <3>2, <3>3
  <2>2. CASE UpdateLog(r)
    <3>1. PICK n \in Nat : n = entry[r].log + 1
      BY <1>2
    <3>2. PICK new : new = [entry[r] EXCEPT !.log = n, !.tokens = n, !.detail = n]
      OBVIOUS
    <3>3. new \in Rows /\ new.on /\ new.log = n /\ new.tokens = n /\ new.detail = n
      BY <1>2, <3>2 DEF Rows
    <3>4. entry' = [entry EXCEPT ![r] = new] /\ Send(<<Updated(r, new)>>)
      BY <2>2, <3>1, <3>2 DEF UpdateLog
    <3>5. new \in Rows
      BY <3>3
    <3> USE <3>5
    <3> WITNESS new \in Rows
    <3> QED BY <1>2, <3>1, <3>3, <3>4
  <2> QED BY <2>1, <2>2
<1>4. Tracked(entry') = Tracked(entry) /\ Uncounted' = Uncounted
  BY <1>1, <1>2, <1>3 DEF Tracked, Uncounted, RegistryOK
<1>5. RegistryOK'
  <2>1. /\ entry' \in [Requests -> Rows]
        /\ \A u \in Requests : /\ entry'[u].on <=> phase'[u] = "tracked"
                               /\ phase'[u] # "tracked" => entry'[u] = NoRow
                               /\ entry'[u].tokens = entry'[u].log /\ entry'[u].detail = entry'[u].log
    BY <1>1, <1>3 DEF RegistryOK
  <2> QED BY <1>1, <1>4, <2>1 DEF RegistryOK
<1>6. Active' = Active
  BY <1>1, <1>4 DEF Active, ActiveCount
<1>7. PICK x : x = Updated(r, row)
  OBVIOUS
<1>8. /\ x \in Events /\ x.type = "updated" /\ x.id = r
      /\ x.row.on /\ Agree(x.row, row) /\ x.row.detail = 0
  <2>1. PICK told : told = [row EXCEPT !.detail = 0]
    OBVIOUS
  <2>2. told \in Rows /\ told.on /\ Agree(told, row) /\ told.detail = 0
    BY <1>3, <2>1 DEF Rows, Agree
  <2>3. x = [type |-> "updated", id |-> r, row |-> told, count |-> 0, truncated |-> FALSE]
    BY <1>7, <2>1 DEF Updated
  <2> QED BY <2>2, <2>3 DEF Events
<1>9. Tells(x, entry, phase, Active, truncated, entry', phase', Active', truncated')
  <2>1. EventOK(x, phase')
    BY <1>8 DEF EventOK
  <2>2. /\ \A u \in Requests \ {r} : entry'[u] = entry[u] /\ phase'[u] = phase[u]
        /\ entry'[r] = row /\ phase'[r] = "tracked" /\ truncated' = truncated
    BY <1>1, <1>3 DEF RegistryOK
  <2>3. x.row.detail <= entry'[r].log
    BY <1>3, <1>8, <2>2
  <2>4. ~Counts(x)
    BY <1>8 DEF Counts
  <2> QED BY <1>1, <1>3, <1>5, <1>6, <1>8, <2>1, <2>2, <2>3, <2>4, TellsRow
<1> QED BY <1>1, <1>3, <1>5, <1>7, <1>9, SentStep

\* A request ends.
LEMMA FinishStep ==
    ASSUME LiveInv, NEW r \in Requests, FinishTracked(r) \/ FinishUncounted(r)
    PROVE  LiveInv'
<1>1. RegistryOK /\ viewer' = viewer
  BY DEF LiveInv, FinishTracked, FinishUncounted
<1>2. /\ IsFiniteSet(Tracked(entry)) /\ IsFiniteSet(Uncounted)
      /\ Cardinality(Tracked(entry)) \in Nat /\ Cardinality(Uncounted) \in Nat
  BY <1>1, FS_CardinalityType DEF RegistryOK
<1>3. CASE FinishTracked(r)
  <2>1. truncated' = truncated /\ phase[r] = "tracked"
    BY <1>1, <1>3 DEF FinishTracked, RegistryOK
  <2>2. /\ entry' = [entry EXCEPT ![r] = NoRow] /\ phase' = [phase EXCEPT ![r] = "over"]
        /\ untracked' = untracked /\ Send(<<Finished(r, ActiveCount(entry', untracked))>>)
    BY <1>3, <2>1 DEF FinishTracked
  <2>3. NoRow \in Rows /\ ~NoRow.on /\ NoRow.tokens = NoRow.log /\ NoRow.detail = NoRow.log
    BY DEF NoRow, Rows
  <2>4. Tracked(entry') = Tracked(entry) \ {r} /\ Uncounted' = Uncounted /\ r \in Tracked(entry)
    BY <1>1, <2>1, <2>2, <2>3 DEF Tracked, Uncounted, RegistryOK
  <2>5. IsFiniteSet(Tracked(entry')) /\ Cardinality(Tracked(entry')) = Cardinality(Tracked(entry)) - 1
    BY <1>2, <2>4, FS_RemoveElement
  <2>6. RegistryOK'
    <3>1. Cardinality(Tracked(entry')) <= MaxLive
      BY <1>1, <1>2, <2>5, LiveAssumption DEF RegistryOK
    <3>2. /\ entry' \in [Requests -> Rows] /\ phase' \in [Requests -> {"new", "tracked", "uncounted", "over"}]
          /\ \A u \in Requests : /\ entry'[u].on <=> phase'[u] = "tracked"
                                 /\ phase'[u] # "tracked" => entry'[u] = NoRow
                                 /\ entry'[u].tokens = entry'[u].log /\ entry'[u].detail = entry'[u].log
      BY <1>1, <2>2, <2>3 DEF RegistryOK
    <3> QED BY <1>1, <2>1, <2>2, <2>4, <2>5, <3>1, <3>2 DEF RegistryOK
  <2>7. PICK x : x = Finished(r, ActiveCount(entry', untracked))
    OBVIOUS
  <2>8. Active' \in Nat /\ Active' = ActiveCount(entry', untracked)
    BY <2>2, <2>6, ActiveNat DEF Active, RegistryOK
  <2>9. x \in Events /\ x.type = "finished" /\ x.id = r /\ x.count = Active'
    BY <2>3, <2>7, <2>8 DEF Finished, Events
  <2>10. Tells(x, entry, phase, Active, truncated, entry', phase', Active', truncated')
    <3>1. /\ \A u \in Requests \ {r} : entry'[u] = entry[u] /\ phase'[u] = phase[u]
          /\ phase'[r] = "over"
      BY <1>1, <2>2 DEF RegistryOK
    <3>2. EventOK(x, phase')
      BY <2>9, <3>1 DEF EventOK
    <3>3. Counts(x)
      BY <2>9 DEF Counts
    <3> QED BY <1>1, <2>1, <2>6, <2>9, <3>1, <3>2, <3>3, TellsRow
  <2> QED BY <1>1, <2>2, <2>6, <2>7, <2>10, SentStep
<1>4. CASE FinishUncounted(r)
  <2>1. /\ phase[r] = "uncounted" /\ untracked > 0 /\ entry' = entry
        /\ phase' = [phase EXCEPT ![r] = "over"]
        /\ untracked' = untracked - 1 /\ truncated' = (untracked' > 0)
        /\ Send(<<Capacity(truncated', ActiveCount(entry, untracked'))>>)
    BY <1>4 DEF FinishUncounted
  <2>2. Uncounted' = Uncounted \ {r} /\ r \in Uncounted
    BY <1>1, <2>1 DEF Uncounted, RegistryOK
  <2>3. IsFiniteSet(Uncounted') /\ Cardinality(Uncounted') = Cardinality(Uncounted) - 1
    BY <1>2, <2>2, FS_RemoveElement
  <2>4. RegistryOK'
    <3>1. /\ phase' \in [Requests -> {"new", "tracked", "uncounted", "over"}]
          /\ \A u \in Requests : /\ entry'[u].on <=> phase'[u] = "tracked"
                                 /\ phase'[u] # "tracked" => entry'[u] = NoRow
                                 /\ entry'[u].tokens = entry'[u].log /\ entry'[u].detail = entry'[u].log
      BY <1>1, <2>1 DEF RegistryOK
    <3>2. untracked' \in Nat /\ truncated' \in BOOLEAN
      BY <1>1, <2>1 DEF RegistryOK
    <3> QED BY <1>1, <2>1, <2>3, <3>1, <3>2 DEF RegistryOK
  <2>5. PICK x : x = Capacity(truncated', ActiveCount(entry, untracked'))
    OBVIOUS
  <2>6. Active' \in Nat /\ Active' = ActiveCount(entry, untracked') /\ truncated' \in BOOLEAN
    BY <2>1, <2>4, ActiveNat DEF Active, RegistryOK
  <2>7. x \in Events /\ x.type = "capacity" /\ x.count = Active' /\ x.truncated = truncated'
    BY <2>5, <2>6 DEF Capacity, Events, NoRow, Rows
  <2>8. Tells(x, entry, phase, Active, truncated, entry', phase', Active', truncated')
    <3>1. EventOK(x, phase')
      BY <2>7 DEF EventOK
    <3> QED BY <1>1, <2>1, <2>7, <3>1, TellsCapacity
  <2> QED BY <1>1, <2>1, <2>4, <2>5, <2>8, SentStep
<1> QED BY <1>3, <1>4

-----------------------------------------------------------------------------
(* The viewer, and the theorem.                                            *)

\* The viewer connects, reads, lags and leaves.
LEMMA ViewerStep ==
    ASSUME LiveInv,
           Subscribe \/ TakeSnapshot \/ ShowSnapshot \/ ReceiveEvent \/ ReceiveLagged \/ Disconnect
    PROVE  LiveInv'
<1>1. /\ RegistryOK /\ UNCHANGED registry
      /\ viewer \in [at : {"off", "subscribed", "taken", "live"}, snapshot : Views, shown : Views]
      /\ lagged \in BOOLEAN /\ Len(unread) <= EventCapacity
      /\ EventsOK(unread, entry, phase, Active, truncated)
  BY DEF LiveInv, Subscribe, TakeSnapshot, ShowSnapshot, ReceiveEvent, ReceiveLagged, Disconnect
<1>2. RegistryOK' /\ entry' = entry /\ phase' = phase /\ truncated' = truncated /\ Active' = Active
  BY <1>1 DEF registry, RegistryOK, Active, Uncounted
<1>3. NoSnapshot \in Views
  BY DEF NoSnapshot, Views, NoRow, Rows
<1>4. Snapshot \in Views /\ Matches(Snapshot, unread, entry, phase, Active, truncated)
  BY <1>1, SnapshotMatches
<1>5. CASE Subscribe \/ Disconnect
  <2>1. unread' = <<>> /\ lagged' = FALSE /\ viewer'.at \in {"off", "subscribed"}
        /\ viewer' \in [at : {"off", "subscribed", "taken", "live"}, snapshot : Views, shown : Views]
    BY <1>1, <1>3, <1>5 DEF Subscribe, Disconnect
  <2>2. EventsOK(unread', entry', phase', Active', truncated') /\ Len(unread') <= EventCapacity
    BY <2>1, NothingSent, LiveAssumption
  <2> QED BY <1>2, <2>1, <2>2 DEF LiveInv, ViewOK
<1>6. CASE TakeSnapshot
  <2>1. /\ viewer'.at = "taken" /\ viewer'.snapshot = Snapshot
        /\ viewer' \in [at : {"off", "subscribed", "taken", "live"}, snapshot : Views, shown : Views]
        /\ unread' = unread /\ lagged' = lagged
    BY <1>1, <1>4, <1>6 DEF TakeSnapshot
  <2> QED BY <1>1, <1>2, <1>4, <2>1 DEF LiveInv, ViewOK
<1>7. CASE ShowSnapshot
  <2>1. /\ viewer'.at = "live" /\ viewer'.shown = viewer.snapshot /\ viewer.at = "taken"
        /\ viewer' \in [at : {"off", "subscribed", "taken", "live"}, snapshot : Views, shown : Views]
        /\ unread' = unread /\ lagged' = lagged
    BY <1>1, <1>3, <1>7 DEF ShowSnapshot
  <2> QED BY <1>1, <1>2, <2>1 DEF LiveInv, ViewOK
<1>8. CASE ReceiveEvent
  <2>1. PICK v, w : v = viewer.shown /\ w = Applied(v, Head(unread))
    OBVIOUS
  <2>2. v \in Views /\ unread # <<>> /\ unread' = Tail(unread) /\ lagged' = lagged
    BY <1>1, <1>8, <2>1 DEF ReceiveEvent
  <2>3. Matches(v, unread, entry, phase, Active, truncated)
    BY <1>8, <2>1 DEF ReceiveEvent, LiveInv, ViewOK
  <2>4. w \in Views /\ Matches(w, unread', entry, phase, Active, truncated)
    BY <1>1, <2>1, <2>2, <2>3, ViewRead
  <2>5. /\ viewer'.at = "live" /\ viewer'.shown = w
        /\ viewer' \in [at : {"off", "subscribed", "taken", "live"}, snapshot : Views, shown : Views]
    BY <1>1, <1>8, <2>1, <2>4 DEF ReceiveEvent
  <2>6. EventsOK(unread', entry, phase, Active, truncated)
    BY <1>1, <2>2, EventsRead
  <2>7. Len(unread') <= EventCapacity
    <3>1. unread \in Seq(Events)
      BY <1>1 DEF EventsOK
    <3>2. Len(unread') \in Nat /\ Len(unread) = Len(unread') + 1
      BY <2>2, <3>1, OneLess
    <3> QED BY <1>1, <3>2, LiveAssumption
  <2> QED BY <1>1, <1>2, <2>2, <2>4, <2>5, <2>6, <2>7 DEF LiveInv, ViewOK
<1>9. CASE ReceiveLagged
  <2>1. /\ viewer'.at = "live" /\ viewer'.shown = Snapshot
        /\ viewer' \in [at : {"off", "subscribed", "taken", "live"}, snapshot : Views, shown : Views]
        /\ unread' = unread /\ lagged' = FALSE
    BY <1>1, <1>4, <1>9 DEF ReceiveLagged
  <2> QED BY <1>1, <1>2, <1>4, <2>1 DEF LiveInv, ViewOK
<1> QED BY <1>5, <1>6, <1>7, <1>8, <1>9

\* Nothing runs and nobody looks at the start.
LEMMA LiveStart == LiveInit => LiveInv
<1> SUFFICES ASSUME LiveInit PROVE LiveInv
  OBVIOUS
<1>1. NoRow \in Rows /\ ~NoRow.on /\ NoRow.tokens = NoRow.log /\ NoRow.detail = NoRow.log /\ NoSnapshot \in Views
  BY DEF NoSnapshot, Views, NoRow, Rows
<1>2. Tracked(entry) = {} /\ Uncounted = {}
  BY <1>1 DEF LiveInit, Tracked, Uncounted
<1>3. IsFiniteSet({}) /\ Cardinality({}) = 0
  BY FS_EmptySet
<1>4. RegistryOK
  <2>1. truncated = FALSE /\ ~(untracked > 0) /\ untracked = 0
    BY DEF LiveInit
  <2>2. truncated = (untracked > 0) /\ truncated \in BOOLEAN
    <3>1. (untracked > 0) = FALSE
      BY <2>1, SMT
    <3> QED BY <2>1, <3>1, Zenon
  <2>3. /\ entry \in [Requests -> Rows] /\ phase \in [Requests -> {"new", "tracked", "uncounted", "over"}]
        /\ \A r \in Requests : entry[r] = NoRow /\ phase[r] = "new"
    BY <1>1 DEF LiveInit
  <2> QED BY <1>1, <1>2, <1>3, <2>1, <2>2, <2>3, LiveAssumption DEF RegistryOK
<1>5. EventsOK(unread, entry, phase, Active, truncated) /\ Len(unread) <= EventCapacity
  BY NothingSent, LiveAssumption DEF LiveInit
<1> QED BY <1>1, <1>4, <1>5 DEF LiveInv, LiveInit, ViewOK

\* Every step keeps the invariant.
LEMMA LiveStep == LiveInv /\ [LiveNext]_liveVars => LiveInv'
<1> SUFFICES ASSUME LiveInv, [LiveNext]_liveVars PROVE LiveInv'
  OBVIOUS
<1>1. CASE UNCHANGED liveVars
  BY <1>1 DEF liveVars, LiveInv, RegistryOK, ViewOK, Active, Uncounted
<1>2. CASE LiveNext
  BY <1>2, StartStep, UpdateStep, FinishStep, ViewerStep DEF LiveNext
<1> QED BY <1>1, <1>2

\* The registry counts every running request once, and a viewer that has read
\* all its events shows what the registry holds, whatever raced its snapshot
\* and however often it lagged (state/request_live.rs, request_events of
\* admin/request_logs.rs), for any number of requests and any capacity.
THEOREM LiveViewIsSound == LiveSpec => []LiveViewSound
<1>1. LiveInv => LiveViewSound
  <2> SUFFICES ASSUME LiveInv PROVE LiveViewSound
    OBVIOUS
  <2>1. RegistryExact
    BY DEF LiveInv, RegistryOK, RegistryExact, Tracked, Uncounted
  <2>2. ASSUME viewer.at = "live", unread = <<>>, ~lagged
        PROVE  /\ viewer.shown.count = ActiveCount(entry, untracked) /\ viewer.shown.truncated = truncated
               /\ \A r \in Requests : /\ Agree(viewer.shown.rows[r], entry[r])
                                      /\ entry[r].on => viewer.shown.rows[r].detail <= entry[r].detail
    <3>1. 1..Len(unread) = {}
      BY <2>2
    <3>2. Matches(viewer.shown, unread, entry, phase, Active, truncated)
      BY <2>2 DEF LiveInv, ViewOK
    <3>3. \A r \in Requests : entry[r].on => phase[r] # "over" /\ entry[r].detail = entry[r].log
      BY DEF LiveInv, RegistryOK
    <3> QED BY <3>1, <3>2, <3>3 DEF Matches, Active, NoLater
  <2> QED BY <2>1, <2>2 DEF LiveViewSound, ViewConverges
<1> QED BY <1>1, LiveStart, LiveStep, PTL DEF LiveSpec
=============================================================================
