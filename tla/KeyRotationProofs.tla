------------------------- MODULE KeyRotationProofs -------------------------
(***************************************************************************)
(* Proofs about stored keys and their rotation (ProviderKeys,              *)
(* KeyRotation), the log of requests (RequestHistory) and the chat of the  *)
(* dashboard (WorkspaceChat).                                              *)
(*                                                                         *)
(* For any set of keys: the availability index agrees with the records of  *)
(* enabled keys, the provider's counters are what CountsBounded says, and  *)
(* both hold of the keys under any rotation, because KeyRotation changes   *)
(* them only by steps of ProviderKeys.                                     *)
(*                                                                         *)
(* The three parts of KeysInv are inductive together: the counters stay in *)
(* step with the records because every action changes the membership of at *)
(* most one key in Stored and in Invalid, and says so to the counter.      *)
(***************************************************************************)
EXTENDS KeyRotation, RequestHistory, WorkspaceChat, FiniteSetTheorems, SequenceTheorems,
        WellFoundedInduction, TLAPS

KeysInv == KeysTypeOK /\ IndexExact /\ CountsBounded

\* The two counted sets are finite, their sizes natural numbers.
LEMMA CountedSets ==
    /\ IsFiniteSet(Stored) /\ Cardinality(Stored) \in Nat
    /\ IsFiniteSet(Invalid) /\ Cardinality(Invalid) \in Nat
<1>1. Stored \in SUBSET Keys /\ Invalid \in SUBSET Keys
  BY DEF Stored, Invalid
<1>2. IsFiniteSet(Stored) /\ IsFiniteSet(Invalid)
  BY <1>1, KeysAssumption, FS_Subset
<1> QED
  BY <1>2, FS_CardinalityType

\* A counter that is reduced when one element goes stays a bound.
LEMMA Reduced ==
    ASSUME NEW S, IsFiniteSet(S), NEW x \in S, NEW n \in Nat, n <= Cardinality(S)
    PROVE  /\ OneLess(n) \in Nat
           /\ OneLess(n) <= Cardinality(S \ {x})
           /\ n = Cardinality(S) => OneLess(n) = Cardinality(S \ {x})
<1>1. Cardinality(S) \in Nat /\ Cardinality(S \ {x}) \in Nat
  BY FS_CardinalityType, FS_RemoveElement
<1>2. Cardinality(S \ {x}) = Cardinality(S) - 1
  BY FS_RemoveElement
<1> QED
  BY <1>1, <1>2 DEF OneLess

\* The keys stored at start satisfy the invariant.
LEMMA KeysInitInv == KeysInit => KeysInv
<1> SUFFICES ASSUME KeysInit PROVE KeysInv
  OBVIOUS
<1>1. IsFiniteSet(Seeded) /\ Cardinality(Seeded) \in Nat
  <2>1. Seeded \in SUBSET Keys
    BY DEF Seeded
  <2> QED
    BY <2>1, KeysAssumption, FS_Subset, FS_CardinalityType
<1>2. Stored = Seeded /\ Invalid = {}
  BY DEF KeysInit, Stored, Invalid, Seeded, Fresh, Absent
<1>3. KeysTypeOK
  BY <1>1, KeysAssumption DEF KeysInit, KeysTypeOK, RecordType, Fresh, Absent, Seeded
<1>4. IndexExact
  BY DEF KeysInit, IndexExact, Fresh, Absent
<1>5. CountsBounded
  BY <1>1, <1>2, FS_EmptySet DEF KeysInit, CountsBounded
<1> QED
  BY <1>3, <1>4, <1>5 DEF KeysInv

\* CreateKey keeps the invariant.
LEMMA CreateInv ==
    ASSUME KeysInv, NEW k \in Keys, CreateKey(k)
    PROVE  KeysInv'
<1> USE DEF KeysInv
<1>1. Stored' = Stored \cup {k} /\ k \notin Stored /\ Invalid' = Invalid
  BY DEF CreateKey, KeysTypeOK, RecordType, Stored, Invalid, Fresh
<1>2. KeysTypeOK'
  BY KeysAssumption DEF CreateKey, KeysTypeOK, RecordType, Fresh
<1>3. IndexExact'
  BY DEF CreateKey, KeysTypeOK, RecordType, IndexExact, Fresh
<1>4. CountsBounded'
  <2>1. Cardinality(Stored') = Cardinality(Stored) + 1
    BY <1>1, CountedSets, FS_AddElement
  <2> QED
    BY <1>1, <2>1 DEF CreateKey, CountsBounded
<1> QED
  BY <1>2, <1>3, <1>4

\* DeleteKey keeps the invariant.
LEMMA DeleteInv ==
    ASSUME KeysInv, NEW k \in Keys, DeleteKey(k)
    PROVE  KeysInv'
<1> USE DEF KeysInv
<1>1. /\ Stored' = Stored \ {k} /\ k \in Stored
      /\ Invalid' = Invalid \ {k} /\ (k \in Invalid <=> record[k].invalid)
  BY DEF DeleteKey, KeysTypeOK, RecordType, Stored, Invalid, Absent
<1>2. keyCount' \in Nat /\ keyCount' = Cardinality(Stored')
  BY <1>1, CountedSets, Reduced DEF DeleteKey, CountsBounded, KeysTypeOK
<1>3. invalidCount' \in Nat /\ invalidCount' <= Cardinality(Invalid')
  <2>1. CASE record[k].invalid
    BY <1>1, <2>1, CountedSets, Reduced DEF DeleteKey, CountsBounded, KeysTypeOK
  <2>2. CASE ~record[k].invalid
    <3>1. Invalid' = Invalid
      BY <1>1, <2>2
    <3> QED
      BY <2>2, <3>1 DEF DeleteKey, CountsBounded, KeysTypeOK
  <2> QED
    BY <2>1, <2>2
<1>4. KeysTypeOK'
  BY <1>2, <1>3, KeysAssumption DEF DeleteKey, KeysTypeOK, RecordType, Absent
<1>5. IndexExact'
  BY DEF DeleteKey, KeysTypeOK, RecordType, IndexExact, Absent
<1> QED
  BY <1>2, <1>3, <1>4, <1>5 DEF CountsBounded

\* UpdateKey keeps the invariant.
LEMMA UpdateInv ==
    ASSUME KeysInv, NEW k \in Keys, NEW e \in BOOLEAN, UpdateKey(k, e)
    PROVE  KeysInv'
<1> USE DEF KeysInv
<1>1. CASE e /\ record[k].invalid
  <2>1. /\ record' = [record EXCEPT ![k] = Fresh]
        /\ invalidCount' = OneLess(invalidCount)
        /\ available' = available \cup {k}
        /\ UNCHANGED <<position, nextPosition, keyCount>>
    BY <1>1 DEF UpdateKey, Usable, Fresh
  <2>2. Stored' = Stored /\ Invalid' = Invalid \ {k} /\ k \in Invalid
    BY <1>1, <2>1 DEF UpdateKey, KeysTypeOK, RecordType, Stored, Invalid, Fresh
  <2>3. invalidCount' \in Nat /\ invalidCount' <= Cardinality(Invalid')
    BY <2>1, <2>2, CountedSets, Reduced DEF CountsBounded, KeysTypeOK
  <2>4. KeysTypeOK'
    BY <2>1, <2>3 DEF KeysTypeOK, RecordType, Fresh
  <2>5. IndexExact'
    BY <2>1 DEF KeysTypeOK, RecordType, IndexExact, Fresh
  <2> QED
    BY <2>1, <2>2, <2>3, <2>4, <2>5 DEF CountsBounded
<1>2. CASE ~(e /\ record[k].invalid)
  <2>1. /\ record' = [record EXCEPT ![k] = [record[k] EXCEPT !.enabled = e]]
        /\ UNCHANGED <<position, nextPosition, keyCount, invalidCount>>
    BY <1>2 DEF UpdateKey
  <2>2. Stored' = Stored /\ Invalid' = Invalid
    BY <2>1 DEF UpdateKey, KeysTypeOK, RecordType, Stored, Invalid
  <2>3. /\ e => k \in available'
        /\ available' \subseteq available \cup {k}
        /\ \A j \in Keys \ {k} : j \in available' <=> j \in available
    BY <1>2 DEF UpdateKey, KeysTypeOK, RecordType, IndexExact, Usable
  <2>4. KeysTypeOK'
    BY <2>1, <2>3 DEF KeysTypeOK, RecordType
  <2>5. IndexExact'
    BY <1>2, <2>1, <2>3 DEF KeysTypeOK, RecordType, IndexExact
  <2> QED
    BY <2>1, <2>2, <2>4, <2>5 DEF CountsBounded
<1> QED
  BY <1>1, <1>2

\* SwapKeys keeps the invariant.
LEMMA SwapInv ==
    ASSUME KeysInv, NEW j \in Keys, NEW k \in Keys, SwapKeys(j, k)
    PROVE  KeysInv'
BY DEF KeysInv, SwapKeys, KeysTypeOK, IndexExact, CountsBounded, Stored, Invalid

\* MarkInvalid keeps the invariant.
LEMMA MarkInvalidInv ==
    ASSUME KeysInv, NEW k \in Keys, MarkInvalid(k)
    PROVE  KeysInv'
<1> USE DEF KeysInv
<1>1. CASE ~record[k].stored
  BY <1>1 DEF MarkInvalid, KeysTypeOK, IndexExact, CountsBounded, Stored, Invalid
<1>2. CASE record[k].stored
  <2>0. /\ record' \in [Keys -> RecordType]
        /\ \A j \in Keys : j # k => record'[j] = record[j]
        /\ record'[k].stored /\ record'[k].invalid
        /\ record'[k].enabled = record[k].enabled
    <3>1. /\ Flagged(k, TRUE) \in RecordType
          /\ Flagged(k, TRUE).stored = record[k].stored
          /\ Flagged(k, TRUE).enabled = record[k].enabled
          /\ Flagged(k, TRUE).invalid = TRUE
      BY DEF Flagged, KeysTypeOK, RecordType
    <3>2. record' = [record EXCEPT ![k] = Flagged(k, TRUE)]
      BY <1>2 DEF MarkInvalid
    <3> QED
      BY <1>2, <3>1, <3>2 DEF KeysTypeOK
  <2>1. Stored' = Stored /\ Invalid' = Invalid \cup {k}
    BY <1>2, <2>0 DEF Stored, Invalid
  <2>2. invalidCount' \in Nat /\ invalidCount' <= Cardinality(Invalid')
    <3>1. CASE Usable(k)
      <4>1. k \notin Invalid
        BY <3>1 DEF Usable, Invalid
      <4>2. Cardinality(Invalid') = Cardinality(Invalid) + 1
        BY <2>1, <4>1, CountedSets, FS_AddElement
      <4> QED
        BY <1>2, <3>1, <4>2, CountedSets DEF MarkInvalid, KeysTypeOK, CountsBounded
    <3>2. CASE ~Usable(k)
      <4>1. Cardinality(Invalid') >= Cardinality(Invalid) /\ Cardinality(Invalid') \in Nat
        <5>1. IsFiniteSet(Invalid \cup {k})
          BY CountedSets, FS_AddElement
        <5>2. Cardinality(Invalid) <= Cardinality(Invalid \cup {k})
          BY <5>1, FS_Subset
        <5> QED
          BY <2>1, <5>1, <5>2, CountedSets, FS_CardinalityType
      <4> QED
        BY <1>2, <3>2, <4>1, CountedSets DEF MarkInvalid, KeysTypeOK, CountsBounded
    <3> QED
      BY <3>1, <3>2
  <2>3. KeysTypeOK'
    BY <1>2, <2>0, <2>2 DEF MarkInvalid, KeysTypeOK
  <2>4. IndexExact'
    BY <1>2, <2>0 DEF MarkInvalid, KeysTypeOK, IndexExact, Usable
  <2> QED
    BY <2>1, <2>2, <2>3, <2>4 DEF MarkInvalid, CountsBounded
<1> QED
  BY <1>1, <1>2

\* MarkUsed keeps the invariant.
LEMMA MarkUsedInv ==
    ASSUME KeysInv, NEW k \in Keys, MarkUsed(k)
    PROVE  KeysInv'
<1> USE DEF KeysInv
<1>1. CASE ~(record[k].stored /\ record[k].invalid)
  BY <1>1 DEF MarkUsed, KeysTypeOK, IndexExact, CountsBounded, Stored, Invalid
<1>2. CASE record[k].stored /\ record[k].invalid
  <2>0. /\ record' \in [Keys -> RecordType]
        /\ \A j \in Keys : j # k => record'[j] = record[j]
        /\ record'[k].stored /\ ~record'[k].invalid
        /\ record'[k].enabled = record[k].enabled
    <3>1. /\ Flagged(k, FALSE) \in RecordType
          /\ Flagged(k, FALSE).stored = record[k].stored
          /\ Flagged(k, FALSE).enabled = record[k].enabled
          /\ Flagged(k, FALSE).invalid = FALSE
      BY DEF Flagged, KeysTypeOK, RecordType
    <3>2. record' = [record EXCEPT ![k] = Flagged(k, FALSE)]
      BY <1>2 DEF MarkUsed
    <3> QED
      BY <1>2, <3>1, <3>2 DEF KeysTypeOK
  <2>1. Stored' = Stored /\ Invalid' = Invalid \ {k} /\ k \in Invalid
    BY <1>2, <2>0 DEF Stored, Invalid
  <2>2. invalidCount' \in Nat /\ invalidCount' <= Cardinality(Invalid')
    <3>1. invalidCount' = OneLess(invalidCount)
      BY <1>2 DEF MarkUsed
    <3> QED
      BY <2>1, <3>1, CountedSets, Reduced DEF CountsBounded, KeysTypeOK
  <2>3. KeysTypeOK'
    BY <1>2, <2>0, <2>2 DEF MarkUsed, KeysTypeOK
  <2>4. IndexExact'
    <3>1. available' = available \cup {k}
      BY <1>2 DEF MarkUsed
    <3>2. SUFFICES ASSUME NEW j \in Keys, record'[j].stored, record'[j].enabled
                   PROVE  j \in available' <=> ~record'[j].invalid
      BY <3>2 DEF IndexExact
    <3>3. CASE j = k
      BY <3>1, <3>3, <2>0
    <3>4. CASE j # k
      <4>1. record'[j] = record[j]
        BY <3>4, <2>0
      <4>2. j \in available <=> ~record[j].invalid
        BY <4>1, <3>2 DEF IndexExact
      <4> QED
        BY <4>1, <4>2, <3>1, <3>4
    <3> QED
      BY <3>3, <3>4
  <2> QED
    BY <2>1, <2>2, <2>3, <2>4 DEF MarkUsed, CountsBounded
<1> QED
  BY <1>1, <1>2

\* CoolDown keeps the invariant.
LEMMA CoolDownInv ==
    ASSUME KeysInv, NEW k \in Keys, CoolDown(k)
    PROVE  KeysInv'
<1> USE DEF KeysInv
<1>1. Stored' = Stored /\ Invalid' = Invalid
  BY DEF CoolDown, KeysTypeOK, RecordType, Stored, Invalid
<1>2. KeysTypeOK'
  BY DEF CoolDown, KeysTypeOK, RecordType
<1>3. IndexExact'
  BY DEF CoolDown, KeysTypeOK, RecordType, IndexExact
<1> QED
  BY <1>1, <1>2, <1>3 DEF CoolDown, CountsBounded

\* Every step keeps the invariant.
LEMMA KeysStepInv == KeysInv /\ [KeysNext]_keyVars => KeysInv'
<1> SUFFICES ASSUME KeysInv, [KeysNext]_keyVars PROVE KeysInv'
  OBVIOUS
<1>1. CASE UNCHANGED keyVars
  BY <1>1 DEF keyVars, KeysInv, KeysTypeOK, IndexExact, CountsBounded, Stored, Invalid
<1>2. CASE AdminStep
  BY <1>2, CreateInv, DeleteInv, UpdateInv, SwapInv DEF AdminStep
<1>3. CASE \E k \in Keys : MarkInvalid(k) \/ MarkUsed(k) \/ CoolDown(k)
  BY <1>3, MarkInvalidInv, MarkUsedInv, CoolDownInv
<1> QED
  BY <1>1, <1>2, <1>3 DEF KeysNext

-----------------------------------------------------------------------------

\* The stored keys keep their types, the availability index is exact for the
\* enabled keys, and the counters are bounded by the records, whatever order
\* the administrator's changes and the requests' reports come in.
THEOREM KeysCorrect == KeysSpec => [](KeysTypeOK /\ IndexExact /\ CountsBounded)
<1>1. KeysSpec => []KeysInv
  BY KeysInitInv, KeysStepInv, PTL DEF KeysSpec
<1> QED
  BY <1>1, PTL DEF KeysInv

\* A request that uses a key holds one of the provider's.
KeyHeld ==
    /\ {"pc", "key"} \subseteq DOMAIN req
    /\ req.pc \in {"publish", "try"} => req.key \in Keys

\* The key a request reports on is a key id, not None (Reject, Served).
LEMMA KeyHeldInv == Spec => []KeyHeld
<1>1. Init => KeyHeld
  BY DEF Init, KeyHeld, Idle
<1>2. KeyHeld /\ [Next]_vars => KeyHeld'
  <2> SUFFICES ASSUME KeyHeld, [Next]_vars PROVE KeyHeld'
    OBVIOUS
  <2>1. CASE ScanFinds
    <3> DEFINE c == NextPass(req.cursor)
               first == req.starting /\ strategy = "round_robin"
               moved(k) == [c EXCEPT !.after = position[k],
                                     !.stop = IF first THEN position[k] ELSE @]
               pc == IF first THEN "publish" ELSE "try"
    <3>1. PICK k \in Hits(c) :
            req' = [req EXCEPT !.pc = pc, !.key = k, !.starting = FALSE, !.cursor = moved(k)]
      BY <2>1 DEF ScanFinds
    <3> HIDE DEF c, pc, moved
    <3>2. k \in Keys
      BY <3>1 DEF Hits, Reached, Page, Beyond, Stored
    <3> QED
      BY <3>1, <3>2 DEF KeyHeld
  <2>2. CASE UNCHANGED req
    BY <2>2 DEF KeyHeld
  <2>3. CASE Begin \/ Served \/ Leave
    <3>1. {"pc", "key"} \subseteq DOMAIN Idle /\ Idle.pc = "idle"
      BY DEF Idle
    <3>2. CASE req' = Idle
      BY <3>1, <3>2 DEF KeyHeld
    <3>3. CASE Begin
      BY <3>1, <3>3 DEF Begin, KeyHeld
    <3> QED
      BY <2>3, <3>2, <3>3 DEF Served, Leave, Over
  <2>4. CASE ScanMisses \/ Publish \/ Reject \/ Rotate \/ UsedThenRotate
    BY <2>4 DEF ScanMisses, Publish, Reject, Rotate, UsedThenRotate, KeyHeld
  <2>5. CASE ScanEnds
    BY <2>5 DEF ScanEnds, Idle, KeyHeld
  <2>6. CASE Change \/ Time \/ \E p \in {0} \cup {position[k] : k \in Stored} : MovePosition(p)
    BY <2>2, <2>6 DEF Change, Time, MovePosition
  <2> QED
    BY <2>1, <2>2, <2>3, <2>4, <2>5, <2>6 DEF Next, Step, vars
<1> QED
  BY <1>1, <1>2, PTL DEF Spec

\* A rotation touches the stored keys only through their own transactions:
\* KeyRotation implements ProviderKeys.
THEOREM RotationImplementsKeys == Spec => KeysSpec
<1>1. Init => KeysInit
  BY DEF Init
<1>2. KeyHeld /\ [Next]_vars => [KeysNext]_keyVars
  <2> SUFFICES ASSUME KeyHeld, [Next]_vars PROVE [KeysNext]_keyVars
    OBVIOUS
  <2>0. CASE UNCHANGED vars
    BY <2>0 DEF vars, keyVars
  <2>1. CASE UNCHANGED keyVars
    BY <2>1
  <2>2. CASE Begin \/ ScanFinds \/ ScanMisses \/ ScanEnds \/ Publish \/ Rotate \/ Leave
    BY <2>1, <2>2 DEF Begin, ScanFinds, ScanMisses, ScanEnds, Publish, Rotate, Leave
  <2>3. CASE Reject \/ UsedThenRotate \/ Served
    <3>1. req.key \in Keys
      BY <2>3 DEF KeyHeld, Reject, UsedThenRotate, Served
    <3> QED
      BY <2>3, <3>1 DEF Reject, UsedThenRotate, Served, KeysNext
  <2>4. CASE Change \/ Time
    BY <2>4 DEF Change, Time, KeysNext
  <2>5. CASE \E p \in {0} \cup {position[k] : k \in Stored} : MovePosition(p)
    BY <2>1, <2>5 DEF MovePosition
  <2> QED
    BY <2>0, <2>2, <2>3, <2>4, <2>5 DEF Next, Step
<1> QED
  BY <1>1, <1>2, KeyHeldInv, PTL DEF Spec, KeysSpec

\* What the theorem above brings to the rotation: index and counters agree
\* with the keys whatever requests and administrator do to each other.
THEOREM RotationKeys == Spec => [](IndexExact /\ CountsBounded)
BY KeysCorrect, RotationImplementsKeys, PTL

---------------------------------------------------------------------------
(***************************************************************************)
(* The log of requests, its indexes and its pages.                         *)
(*                                                                         *)
(* Keys are totally ordered, so that an index has one listing, by rank     *)
(* (DescendingLists).  What a client was shown lies behind its cursor for  *)
(* good, since new rows are newer than every cursor and ids are not used   *)
(* twice; what it is due was shown or lies ahead of the cursor             *)
(* (ListingInv).                                                           *)
(***************************************************************************)

(* The order of the log keys, and ranks in a finite set of them. *)

Pairs == Nat \X Nat
RankOf(keys, k) == Cardinality({o \in keys : Before(k, o)})

\* Keys are ordered strictly and totally.
LEMMA BeforeOrder ==
  /\ \A a \in Pairs : ~Before(a, a)
  /\ \A a, b, c \in Pairs : Before(a, b) /\ Before(b, c) => Before(a, c)
  /\ \A a, b \in Pairs : a = b \/ Before(a, b) \/ Before(b, a)
<1>1. \A a \in Pairs : ~Before(a, a)
  BY DEF Pairs, Before
<1>2. \A a, b, c \in Pairs : Before(a, b) /\ Before(b, c) => Before(a, c)
  BY DEF Pairs, Before
<1>3. \A a, b \in Pairs : a = b \/ Before(a, b) \/ Before(b, a)
  BY DEF Pairs, Before
<1> QED BY <1>1, <1>2, <1>3

\* An older key has more keys after it, and none has all.
LEMMA RankDescends ==
  ASSUME NEW R \in SUBSET Pairs, IsFiniteSet(R), NEW k \in R
  PROVE  /\ RankOf(R, k) \in Nat /\ RankOf(R, k) < Cardinality(R) /\ Cardinality(R) \in Nat
         /\ \A l \in R : Before(k, l) => RankOf(R, l) < RankOf(R, k)
<1> DEFINE After(j) == {o \in R : Before(j, o)}
<1>1. \A j \in R : IsFiniteSet(After(j)) /\ Cardinality(After(j)) \in Nat
  BY FS_Subset, FS_CardinalityType
<1>2. Cardinality(R) \in Nat /\ Cardinality(R \ {k}) = Cardinality(R) - 1 /\ IsFiniteSet(R \ {k})
  BY FS_CardinalityType, FS_RemoveElement
<1>3. After(k) \in SUBSET (R \ {k})
  BY BeforeOrder
<1>4. Cardinality(After(k)) <= Cardinality(R) - 1
  BY <1>2, <1>3, FS_Subset
<1>5. ASSUME NEW l \in R, Before(k, l)
      PROVE  Cardinality(After(l)) < Cardinality(After(k))
  <2>1. l \in After(k) /\ After(l) \in SUBSET (After(k) \ {l})
    BY <1>5, BeforeOrder
  <2>2. /\ IsFiniteSet(After(k) \ {l})
        /\ Cardinality(After(k) \ {l}) = Cardinality(After(k)) - 1
    BY <1>1, <2>1, FS_RemoveElement
  <2>3. Cardinality(After(l)) <= Cardinality(After(k) \ {l})
    BY <2>1, <2>2, FS_Subset
  <2> QED BY <1>1, <2>2, <2>3
<1> QED BY <1>1, <1>2, <1>4, <1>5 DEF RankOf

\* No two keys have one rank.
LEMMA RankUnique ==
  ASSUME NEW R \in SUBSET Pairs, IsFiniteSet(R), NEW k \in R, NEW l \in R,
         RankOf(R, k) = RankOf(R, l)
  PROVE  k = l
<1>1. RankOf(R, k) \in Nat /\ RankOf(R, l) \in Nat
  BY RankDescends
<1>2. ~Before(k, l) /\ ~Before(l, k)
  BY <1>1, RankDescends
<1> QED BY <1>2, BeforeOrder

\* Every rank below the number of keys is taken.
LEMMA RankTaken ==
  ASSUME NEW R \in SUBSET Pairs, IsFiniteSet(R), NEW n \in Nat, n < Cardinality(R)
  PROVE  \E k \in R : RankOf(R, k) = n
<1> DEFINE c == Cardinality(R)
           f == [k \in R |-> RankOf(R, k)]
<1>1. c \in Nat
  BY FS_CardinalityType
<1>2. IsFiniteSet(0..(c - 1)) /\ Cardinality(0..(c - 1)) = c
  <2> HIDE DEF c
  <2>1. 0 \in Int /\ c - 1 \in Int
    BY <1>1
  <2>2. /\ IsFiniteSet(0..(c - 1))
        /\ Cardinality(0..(c - 1)) = IF 0 > c - 1 THEN 0 ELSE (c - 1) - 0 + 1
    BY <2>1, FS_Interval
  <2>3. (IF 0 > c - 1 THEN 0 ELSE (c - 1) - 0 + 1) = c
    BY <1>1
  <2> QED BY <2>2, <2>3
<1>3. f \in [R -> 0..(c - 1)]
  BY <1>1, RankDescends
<1>4. f \in Injection(R, 0..(c - 1))
  BY <1>3, RankUnique DEF Injection, IsInjective
<1>5. f \in Surjection(R, 0..(c - 1))
  BY <1>2, <1>4, FS_Injection
<1>6. n \in 0..(c - 1)
  BY <1>1
<1> QED BY <1>5, <1>6 DEF Surjection

\* Descending lists the ids of the keys by rank.
LEMMA DescendingLists ==
  ASSUME NEW R \in SUBSET Pairs, IsFiniteSet(R)
  PROVE  /\ Descending(R) \in Seq({k[2] : k \in R}) /\ Len(Descending(R)) = Cardinality(R)
         /\ \A n \in 1..Cardinality(R) : \E k \in R : RankOf(R, k) = n - 1 /\ Descending(R)[n] = k[2]
         /\ \A k \in R : RankOf(R, k) + 1 \in 1..Cardinality(R) /\ Descending(R)[RankOf(R, k) + 1] = k[2]
<1>0. Cardinality(R) \in Nat
  BY FS_CardinalityType
<1> DEFINE at(n) == CHOOSE k \in R : RankOf(R, k) = n - 1
<1>1. ASSUME NEW n \in 1..Cardinality(R)
      PROVE  at(n) \in R /\ RankOf(R, at(n)) = n - 1 /\ Descending(R)[n] = at(n)[2]
  <2>1. n - 1 \in Nat /\ n - 1 < Cardinality(R)
    BY <1>0
  <2>2. \E k \in R : RankOf(R, k) = n - 1
    BY <2>1, RankTaken
  <2>3. at(n) \in R /\ RankOf(R, at(n)) = n - 1
    BY <2>2
  <2>4. Descending(R)[n] = at(n)[2]
    BY DEF Descending, RankOf
  <2> QED BY <2>3, <2>4
<1> HIDE DEF at
<1>2. ASSUME NEW k \in R
      PROVE  RankOf(R, k) + 1 \in 1..Cardinality(R) /\ Descending(R)[RankOf(R, k) + 1] = k[2]
  <2>1. RankOf(R, k) \in Nat /\ RankOf(R, k) < Cardinality(R)
    BY RankDescends
  <2>2. RankOf(R, k) + 1 \in 1..Cardinality(R) /\ (RankOf(R, k) + 1) - 1 = RankOf(R, k)
    BY <1>0, <2>1
  <2>3. at(RankOf(R, k) + 1) = k
    BY <1>1, <2>2, RankUnique
  <2> QED BY <1>1, <2>2, <2>3
<1>3. DOMAIN Descending(R) = 1..Cardinality(R)
  BY DEF Descending
<1>4. Descending(R) = [n \in 1..Cardinality(R) |-> Descending(R)[n]]
  BY DEF Descending
<1>5. \A n \in 1..Cardinality(R) : Descending(R)[n] \in {k[2] : k \in R}
  BY <1>1
<1>6. Descending(R) \in [1..Cardinality(R) -> {k[2] : k \in R}]
  BY <1>4, <1>5
<1>7. Descending(R) \in Seq({k[2] : k \in R}) /\ Len(Descending(R)) = Cardinality(R)
  BY <1>0, <1>3, <1>6
<1> QED BY <1>1, <1>2, <1>7

---------------------------------------------------------------------------
(* Rows and indexes. *)

LogKeys == {Key(i) : i \in Present}
LogRows == [at : Nat, ok : BOOLEAN, ms : Nat]

HistTyped ==
    /\ row \in [LogIds -> LogRows] /\ now \in 1..MaxTime
    /\ \A i \in LogIds : row[i].at <= now
    /\ started \in BOOLEAN

IndexInv ==
    /\ byTime \subseteq LogKeys /\ (byDesc = {} \/ byDesc = byTime)
    /\ started => byTime = LogKeys /\ byDesc = LogKeys /\ rowCount = Cardinality(Present)

Listings == [on : BOOLEAN, filter : {"all", "success"}, cursor : Pairs, seen : Seq(LogIds),
             due : SUBSET LogIds]
SeenIds == {listing.seen[n] : n \in 1..Len(listing.seen)}

\* What was shown lies behind the cursor for good, what is due was shown or
\* lies ahead of it.
ListingInv ==
    /\ listing \in Listings
    /\ \A m, n \in 1..Len(listing.seen) : listing.seen[m] = listing.seen[n] => m = n
    /\ ~started => listing = NotListing
    /\ listing.on => started
    /\ listing.on => \A i \in SeenIds :
          ~Before(<<now, i>>, listing.cursor) /\ (i \in Present => ~Before(Key(i), listing.cursor))
    /\ listing.on => \A i \in listing.due :
          /\ i \in Present /\ Matches(i, listing.filter)
          /\ i \in SeenIds \/ Before(Key(i), listing.cursor)
    /\ started /\ ~listing.on /\ listing.seen # <<>> => listing.due \subseteq SeenIds

HistInv == HistTyped /\ IndexInv /\ ListingInv

\* A table of rows has one key for each of its rows.
LEMMA KeysOfTable ==
  ASSUME NEW t \in [LogIds -> LogRows]
  PROVE  LET ids == {i \in LogIds : t[i].at > 0}
             keys == {<<t[i].at, i>> : i \in ids}
         IN /\ IsFiniteSet(ids) /\ IsFiniteSet(keys) /\ keys \in SUBSET Pairs
            /\ Cardinality(keys) = Cardinality(ids)
<1> DEFINE ids == {i \in LogIds : t[i].at > 0}
           keys == {<<t[i].at, i>> : i \in ids}
           f == [i \in ids |-> <<t[i].at, i>>]
<1>1. ids \in SUBSET LogIds /\ IsFiniteSet(ids)
  BY HistoryAssumption, FS_Subset
<1>2. \A i \in ids : <<t[i].at, i>> \in Pairs
  BY HistoryAssumption DEF LogRows, Pairs
<1>3. f \in Bijection(ids, keys)
  <2>1. f \in [ids -> keys]
    OBVIOUS
  <2>2. \A i, j \in ids : f[i] = f[j] => i = j
    OBVIOUS
  <2>3. \A k \in keys : \E i \in ids : f[i] = k
    OBVIOUS
  <2> QED BY <2>1, <2>2, <2>3 DEF Bijection, Injection, Surjection, IsInjective
<1>4. IsFiniteSet(keys) /\ Cardinality(keys) = Cardinality(ids)
  BY <1>1, <1>3, FS_Bijection DEF ExistsBijection
<1> QED BY <1>1, <1>2, <1>4

\* The keys of the rows are pairs, one for each row.
LEMMA KeysOfRows ==
  ASSUME HistTyped
  PROVE  /\ LogKeys \in SUBSET Pairs /\ IsFiniteSet(LogKeys) /\ IsFiniteSet(Present)
         /\ Cardinality(LogKeys) = Cardinality(Present)
         /\ \A k \in LogKeys : k[2] \in Present /\ k = Key(k[2])
         /\ \A i \in Present : Key(i) \in LogKeys /\ Key(i)[2] = i /\ Key(i)[1] = row[i].at
<1>1. /\ IsFiniteSet(Present) /\ IsFiniteSet(LogKeys) /\ LogKeys \in SUBSET Pairs
      /\ Cardinality(LogKeys) = Cardinality(Present)
  BY KeysOfTable DEF HistTyped, LogKeys, Present, Key
<1> QED BY <1>1 DEF LogKeys, Key

\* The first state: any environment of an earlier version.
LEMMA HistInitInv == ASSUME HistInit PROVE HistInv
<1>1. NoLog \in LogRows /\ [NoLog EXCEPT !.at = 1] \in LogRows
  BY DEF NoLog, LogRows
<1>2. NoLog.at = 0 /\ [NoLog EXCEPT !.at = 1].at = 1
  BY DEF NoLog
<1>3. now \in 1..MaxTime /\ now = 1
  BY HistoryAssumption DEF HistInit
<1>4. row \in [LogIds -> {NoLog, [NoLog EXCEPT !.at = 1]}]
  BY DEF HistInit
<1>5. \A i \in LogIds : row[i] = NoLog \/ row[i] = [NoLog EXCEPT !.at = 1]
  BY <1>4
<1>6. HistTyped
  <2>1. row \in [LogIds -> LogRows]
    BY <1>1, <1>4, <1>5
  <2>2. \A i \in LogIds : row[i].at = 0 \/ row[i].at = 1
    BY <1>2, <1>5
  <2>3. \A i \in LogIds : row[i].at <= now
    BY <1>3, <2>2
  <2> QED BY <1>3, <2>1, <2>3 DEF HistInit, HistTyped
<1>7. IndexInv
  BY DEF HistInit, IndexInv, LogKeys
<1>8. NotListing \in Listings /\ NotListing.seen = <<>> /\ NotListing.on = FALSE
  BY DEF NotListing, Listings, Pairs
<1>9. ListingInv
  BY <1>8 DEF HistInit, ListingInv
<1> QED BY <1>6, <1>7, <1>9 DEF HistInv

\* The listing depends on nothing else but the rows it has shown or owes.
LEMMA ListingKept ==
  ASSUME HistInv, HistTyped', started' = started,
         listing' = [listing EXCEPT !.due = listing'.due], listing'.due \subseteq listing.due,
         now' >= now,
         \A i \in listing'.due : i \in Present => row'[i] = row[i],
         \A i \in LogIds : row'[i] = row[i] \/ row'[i].at = now \/ row'[i].at = 0
  PROVE  ListingInv'
<1>1. /\ listing \in Listings /\ now \in Nat /\ now' \in Nat
      /\ row \in [LogIds -> LogRows] /\ row' \in [LogIds -> LogRows]
  BY HistoryAssumption DEF HistInv, HistTyped, ListingInv
<1>2. /\ listing' \in Listings /\ listing'.on = listing.on /\ listing'.filter = listing.filter
      /\ listing'.cursor = listing.cursor /\ listing'.seen = listing.seen
  <2>1. listing'.due \in SUBSET LogIds
    BY <1>1 DEF Listings
  <2> QED BY <1>1, <2>1 DEF Listings
<1>3. SeenIds' = SeenIds /\ SeenIds \subseteq LogIds
  BY <1>1, <1>2 DEF SeenIds, Listings
<1>4. \A i \in LogIds : i \in Nat
  BY HistoryAssumption
<1>5. listing.cursor \in Pairs
  BY <1>1 DEF Listings
<1>6. ASSUME listing.on, NEW i \in SeenIds
      PROVE  ~Before(<<now', i>>, listing.cursor) /\ (i \in Present' => ~Before(Key(i)', listing.cursor))
  <2>1. i \in Nat /\ i \in LogIds /\ ~Before(<<now, i>>, listing.cursor)
    BY <1>3, <1>4, <1>6 DEF HistInv, ListingInv
  <2>2. ~Before(<<now', i>>, listing.cursor)
    BY <1>1, <1>5, <2>1 DEF Before, Pairs
  <2>3. ASSUME i \in Present'
        PROVE  ~Before(Key(i)', listing.cursor)
    <3>1. CASE row'[i] = row[i]
      BY <1>6, <2>1, <2>3, <3>1 DEF HistInv, ListingInv, Present, Key
    <3>2. CASE row'[i].at = now
      BY <2>1, <3>2 DEF Key
    <3> QED BY <2>1, <2>3, <3>1, <3>2 DEF Present
  <2> QED BY <2>2, <2>3
<1>7. ASSUME listing.on, NEW i \in listing'.due
      PROVE  /\ i \in Present' /\ Matches(i, listing.filter)'
             /\ i \in SeenIds \/ Before(Key(i)', listing.cursor)
  <2>1. /\ i \in Present /\ Matches(i, listing.filter)
        /\ i \in SeenIds \/ Before(Key(i), listing.cursor)
    BY <1>7 DEF HistInv, ListingInv
  <2>2. row'[i] = row[i] /\ i \in LogIds
    BY <2>1 DEF Present
  <2> QED BY <1>2, <2>1, <2>2 DEF Present, Key, Matches
<1>8. (listing'.on => started') /\ (~started' => listing' = NotListing)
  <2>1. CASE started
    BY <2>1
  <2>2. CASE ~started
    <3>1. listing = NotListing /\ listing.due = {}
      BY <2>2 DEF HistInv, ListingInv, NotListing
    <3>2. listing'.due = {} /\ listing.on = FALSE
      BY <3>1 DEF NotListing
    <3>3. listing' = [NotListing EXCEPT !.due = {}]
      BY <3>1, <3>2
    <3> QED BY <1>2, <3>2, <3>3 DEF NotListing
  <2> QED BY <2>1, <2>2
<1>9. \A m, n \in 1..Len(listing'.seen) : listing'.seen[m] = listing'.seen[n] => m = n
  BY <1>2 DEF HistInv, ListingInv
<1>10. started' /\ ~listing'.on /\ listing'.seen # <<>> => listing'.due \subseteq SeenIds'
  BY <1>2, <1>3 DEF HistInv, ListingInv
<1> QED BY <1>2, <1>3, <1>6, <1>7, <1>8, <1>9, <1>10 DEF ListingInv

\* The indexes are repaired before anything else runs.
LEMMA HistRepair == ASSUME HistInv, Repair PROVE HistInv'
<1>1. row' = row /\ now' = now /\ listing' = listing /\ ~started /\ started' = TRUE
  BY DEF Repair
<1>2. HistTyped' /\ Present' = Present /\ LogKeys' = LogKeys
  BY <1>1 DEF HistInv, HistTyped, Present, LogKeys, Key
<1>3. byTime' = LogKeys /\ byDesc' = LogKeys /\ rowCount' = Cardinality(Present)
  <2>1. CASE byTime' = LogKeys /\ byDesc' = LogKeys /\ rowCount' = Cardinality(Present)
    BY <2>1
  <2>2. CASE ~NeedsRepair /\ UNCHANGED <<byTime, byDesc, rowCount>>
    <3>1. /\ byTime' = byTime /\ byDesc' = byDesc /\ rowCount' = rowCount
          /\ rowCount = Cardinality(Present) /\ Cardinality(byTime) = Cardinality(Present)
          /\ Cardinality(byDesc) = Cardinality(Present)
      BY <2>2 DEF NeedsRepair
    <3>2. IsFiniteSet(LogKeys) /\ Cardinality(LogKeys) = Cardinality(Present)
      BY KeysOfRows DEF HistInv
    <3>3. byTime \in SUBSET LogKeys /\ byDesc \in SUBSET LogKeys
      BY DEF HistInv, IndexInv
    <3>4. byTime = LogKeys /\ byDesc = LogKeys
      BY <3>1, <3>2, <3>3, FS_Subset
    <3> QED BY <3>1, <3>4
  <2> QED BY <2>1, <2>2 DEF Repair, LogKeys
<1>4. IndexInv'
  BY <1>1, <1>2, <1>3 DEF IndexInv
<1>5. ListingInv'
  <2>1. listing = NotListing
    BY <1>1 DEF HistInv, ListingInv
  <2>2. NotListing \in Listings /\ NotListing.seen = <<>> /\ NotListing.on = FALSE
    BY DEF NotListing, Listings, Pairs
  <2> QED BY <1>1, <2>1, <2>2 DEF ListingInv
<1> QED BY <1>2, <1>4, <1>5 DEF HistInv

\* A row is inserted.
LEMMA HistInsert ==
  ASSUME HistInv, NEW i \in LogIds, NEW ok \in BOOLEAN, NEW ms \in Nat, InsertLog(i, ok, ms)
  PROVE  HistInv'
<1> DEFINE x == [at |-> now, ok |-> ok, ms |-> ms]
<1>1. /\ started /\ row[i].at = 0 /\ row' = [row EXCEPT ![i] = x]
      /\ byTime' = byTime \cup {<<now, i>>} /\ byDesc' = byDesc \cup {<<now, i>>}
      /\ rowCount' = rowCount + 1 /\ started' = started /\ now' = now /\ listing' = listing
  BY DEF InsertLog
<1>2. row \in [LogIds -> LogRows] /\ now \in Nat /\ now >= 1 /\ now \in 1..MaxTime
  BY HistoryAssumption DEF HistInv, HistTyped
<1>3. x \in LogRows /\ x.at = now
  BY <1>2 DEF LogRows
<1> HIDE DEF x
<1>4. /\ row' \in [LogIds -> LogRows] /\ row'[i].at = now
      /\ \A j \in LogIds \ {i} : row'[j] = row[j]
  BY <1>1, <1>2, <1>3
<1>5. HistTyped'
  BY <1>1, <1>2, <1>4 DEF HistInv, HistTyped
<1>6. Present' = Present \cup {i} /\ i \notin Present
  BY <1>1, <1>2, <1>4 DEF Present
<1>7. LogKeys' = LogKeys \cup {<<now, i>>}
  <2>1. Key(i)' = <<now, i>> /\ \A j \in Present : Key(j)' = Key(j)
    BY <1>4, <1>6 DEF Key, Present
  <2> QED BY <1>6, <2>1 DEF LogKeys
<1>8. rowCount' = Cardinality(Present')
  <2>1. IsFiniteSet(Present) /\ rowCount = Cardinality(Present)
    BY <1>1, KeysOfRows DEF HistInv, IndexInv
  <2>2. Cardinality(Present \cup {i}) = Cardinality(Present) + 1
    BY <1>6, <2>1, FS_AddElement
  <2> QED BY <1>1, <1>6, <2>1, <2>2
<1>9. IndexInv'
  BY <1>1, <1>7, <1>8 DEF HistInv, IndexInv
<1>10. ListingInv'
  <2>1. listing' = [listing EXCEPT !.due = listing'.due]
    BY <1>1 DEF HistInv, ListingInv, Listings
  <2>2. \A j \in listing'.due : j \in Present => row'[j] = row[j]
    BY <1>4, <1>6 DEF Present
  <2> QED BY <1>1, <1>2, <1>4, <1>5, <2>1, <2>2, ListingKept
<1> QED BY <1>5, <1>9, <1>10 DEF HistInv

\* Rows go: those of the keys `gone`.
LEMMA HistRemove ==
  ASSUME HistInv, started, NEW gone \in SUBSET LogKeys, NEW ids \in SUBSET LogIds,
         row' = [i \in LogIds |-> IF Key(i) \in gone THEN NoLog ELSE row[i]],
         byTime' = byTime \ gone, byDesc' = byDesc \ gone,
         rowCount' = rowCount - Cardinality(gone), Forgotten(ids),
         {k[2] : k \in gone} \subseteq ids,
         started' = started, now' = now
  PROVE  HistInv'
<1>1. row \in [LogIds -> LogRows] /\ now \in Nat /\ now \in 1..MaxTime
  BY HistoryAssumption DEF HistInv, HistTyped
<1>2. NoLog \in LogRows /\ NoLog.at = 0
  BY DEF NoLog, LogRows
<1>3. HistTyped'
  BY <1>1, <1>2 DEF HistInv, HistTyped
<1>4. \A k \in LogKeys : k[2] \in Present /\ k = Key(k[2])
  BY KeysOfRows DEF HistInv
<1>5. Present' = {i \in Present : Key(i) \notin gone}
  BY <1>1, <1>2 DEF Present
<1>6. LogKeys' = LogKeys \ gone
  <2>1. \A j \in Present' : Key(j)' = Key(j)
    BY <1>5 DEF Key, Present
  <2> QED BY <1>5, <2>1 DEF LogKeys
<1>7. rowCount' = Cardinality(Present')
  <2>1. /\ IsFiniteSet(LogKeys) /\ rowCount = Cardinality(LogKeys) /\ Cardinality(LogKeys) \in Nat
    BY KeysOfRows, FS_CardinalityType DEF HistInv, IndexInv
  <2>2. /\ IsFiniteSet(gone) /\ IsFiniteSet(LogKeys \ gone)
        /\ Cardinality(gone) \in Nat /\ Cardinality(LogKeys \ gone) \in Nat
    BY <2>1, FS_Subset, FS_CardinalityType
  <2>3. Cardinality(LogKeys \ gone) = Cardinality(LogKeys) - Cardinality(LogKeys \cap gone)
    BY <2>1, <2>2, FS_Difference
  <2>4. LogKeys \cap gone = gone
    OBVIOUS
  <2>5. Cardinality(LogKeys') = Cardinality(Present')
    BY <1>3, KeysOfTable DEF HistTyped, LogKeys, Present, Key
  <2> QED BY <1>6, <2>1, <2>2, <2>3, <2>4, <2>5
<1>8. IndexInv'
  BY <1>6, <1>7 DEF HistInv, IndexInv
<1>9. ListingInv'
  <2>0. listing \in Listings
    BY DEF HistInv, ListingInv
  <2>1. listing' = [listing EXCEPT !.due = listing'.due] /\ listing'.due = listing.due \ ids
    BY <2>0 DEF Forgotten, Listings
  <2>2. ASSUME NEW j \in listing'.due, j \in Present
        PROVE  row'[j] = row[j]
    <3>1. Key(j) \notin gone
      BY <2>1, <2>2, KeysOfRows DEF HistInv
    <3> QED BY <2>2, <3>1 DEF Present
  <2>3. \A j \in LogIds : row'[j] = row[j] \/ row'[j].at = 0
    BY <1>2
  <2> QED BY <1>1, <1>3, <2>1, <2>2, <2>3, ListingKept
<1> QED BY <1>3, <1>8, <1>9 DEF HistInv

\* The retention worker, and deleting everything.
LEMMA HistPrune == ASSUME HistInv, Prune \/ ClearLogs PROVE HistInv'
<1>1. \A k \in LogKeys : k[2] \in Present /\ k = Key(k[2])
  BY KeysOfRows DEF HistInv
<1>2. Present \subseteq LogIds
  BY DEF Present
<1>3. CASE Prune
  <2> DEFINE gone == PruneSet
  <2>1. started /\ gone \in SUBSET LogKeys
    BY <1>3 DEF Prune, PruneSet, Oldest, HistInv, IndexInv
  <2>2. /\ row' = [i \in LogIds |-> IF Key(i) \in gone THEN NoLog ELSE row[i]]
        /\ byTime' = byTime \ gone /\ byDesc' = byDesc \ gone
        /\ rowCount' = rowCount - Cardinality(gone) /\ Forgotten({k[2] : k \in gone})
        /\ started' = started /\ now' = now
    BY <1>3 DEF Prune, DescAfterPrune
  <2> HIDE DEF gone
  <2>3. {k[2] : k \in gone} \in SUBSET LogIds
    BY <1>1, <1>2, <2>1
  <2> QED BY <2>1, <2>2, <2>3, HistRemove
<1>4. CASE ClearLogs
  <2>1. /\ started /\ byTime = LogKeys /\ byDesc = LogKeys /\ rowCount = Cardinality(LogKeys)
    BY <1>4, KeysOfRows DEF ClearLogs, HistInv, IndexInv
  <2>2. row \in [LogIds -> LogRows] /\ started' = started /\ now' = now /\ row' = [i \in LogIds |-> NoLog]
        /\ byTime' = {} /\ byDesc' = {} /\ rowCount' = 0 /\ Forgotten(LogIds)
    BY <1>4 DEF ClearLogs, HistInv, HistTyped
  <2>3. HistTyped'
    BY <2>2 DEF HistInv, HistTyped, NoLog, LogRows
  <2>4. Present' = {} /\ LogKeys' = {}
    BY <2>2 DEF Present, LogKeys, NoLog
  <2>5. IndexInv'
    BY <2>2, <2>4, FS_EmptySet DEF IndexInv
  <2>6. listing \in Listings /\ now \in 1..MaxTime
    BY DEF HistInv, HistTyped, ListingInv
  <2>7. listing' = [listing EXCEPT !.due = listing'.due] /\ listing'.due = {}
    BY <2>2, <2>6 DEF Forgotten, Listings
  <2>8. \A i \in LogIds : row'[i].at = 0
    BY <2>2 DEF NoLog
  <2>9. now' >= now
    BY <2>2, <2>6
  <2>10. ListingInv'
    BY <2>2, <2>3, <2>7, <2>8, <2>9, ListingKept
  <2> QED BY <2>3, <2>5, <2>10 DEF HistInv
<1> QED BY <1>3, <1>4

\* The clock, and the worker's sleep.
LEMMA HistQuiet ==
  ASSUME HistInv, HistTick \/ PrunerWakes \/ UNCHANGED histVars
  PROVE  HistInv'
<1>1. /\ row' = row /\ byTime' = byTime /\ byDesc' = byDesc /\ rowCount' = rowCount
      /\ started' = started /\ listing' = listing
  BY DEF HistTick, PrunerWakes, histVars
<1>2. now \in 1..MaxTime /\ now' \in 1..MaxTime /\ now' >= now
  BY HistoryAssumption DEF HistTick, PrunerWakes, histVars, HistInv, HistTyped
<1>3. HistTyped'
  <2>1. \A i \in LogIds : row[i].at \in Nat /\ row[i].at <= now
    BY DEF HistInv, HistTyped, LogRows
  <2> QED BY <1>1, <1>2, <2>1 DEF HistInv, HistTyped
<1>4. IndexInv'
  BY <1>1 DEF HistInv, IndexInv, LogKeys, Present, Key
<1>5. listing' = [listing EXCEPT !.due = listing'.due]
  BY <1>1 DEF HistInv, ListingInv, Listings
<1>6. ListingInv'
  BY <1>1, <1>2, <1>3, <1>5, ListingKept
<1> QED BY <1>3, <1>4, <1>6 DEF HistInv

\* The process dies: the listing is gone, the data stays.
LEMMA HistRestarts == ASSUME HistInv, HistRestart PROVE HistInv'
<1>1. /\ row' = row /\ byTime' = byTime /\ byDesc' = byDesc /\ now' = now
      /\ started' = FALSE /\ listing' = NotListing
  BY DEF HistRestart
<1>2. HistTyped' /\ IndexInv'
  BY <1>1 DEF HistInv, HistTyped, IndexInv, LogKeys, Present, Key
<1>3. NotListing \in Listings /\ NotListing.seen = <<>> /\ NotListing.on = FALSE
  BY DEF NotListing, Listings, Pairs
<1>4. ListingInv'
  BY <1>1, <1>3 DEF ListingInv
<1> QED BY <1>2, <1>4 DEF HistInv

---------------------------------------------------------------------------
(* Turning the pages. *)

Distinct(s) == \A m, n \in 1..Len(s) : s[m] = s[n] => m = n
Shown(s) == {s[n] : n \in 1..Len(s)}

\* A page appended to what was shown.
LEMMA AppendPage ==
  ASSUME NEW S, NEW s \in Seq(S), NEW p \in Seq(S), Distinct(s), Distinct(p),
         \A n \in 1..Len(p) : p[n] \notin Shown(s)
  PROVE  s \o p \in Seq(S) /\ Distinct(s \o p) /\ Shown(s \o p) = Shown(s) \cup Shown(p)
<1> DEFINE q == s \o p
<1>1. /\ q \in Seq(S) /\ Len(q) = Len(s) + Len(p) /\ Len(s) \in Nat /\ Len(p) \in Nat
      /\ \A i \in 1..(Len(s) + Len(p)) : q[i] = IF i <= Len(s) THEN s[i] ELSE p[i - Len(s)]
  BY ConcatProperties
<1> HIDE DEF q
<1>2. \A i \in 1..Len(q) : \/ i \in 1..Len(s) /\ q[i] = s[i]
                           \/ i - Len(s) \in 1..Len(p) /\ i > Len(s) /\ q[i] = p[i - Len(s)]
  BY <1>1
<1>3. Distinct(q)
  <2>1. SUFFICES ASSUME NEW m \in 1..Len(q), NEW n \in 1..Len(q), q[m] = q[n]
                 PROVE  m = n
    BY DEF Distinct
  <2>2. CASE m \in 1..Len(s) /\ q[m] = s[m]
    <3>1. s[m] \in Shown(s)
      BY <2>2 DEF Shown
    <3>2. n \in 1..Len(s) /\ q[n] = s[n]
      BY <1>2, <2>1, <2>2, <3>1
    <3> QED BY <2>1, <2>2, <3>2 DEF Distinct
  <2>3. CASE m - Len(s) \in 1..Len(p) /\ m > Len(s) /\ q[m] = p[m - Len(s)]
    <3>1. q[m] \notin Shown(s)
      BY <2>3
    <3>2. n - Len(s) \in 1..Len(p) /\ n > Len(s) /\ q[n] = p[n - Len(s)]
      BY <1>2, <2>1, <3>1 DEF Shown
    <3>3. m - Len(s) = n - Len(s)
      BY <2>1, <2>3, <3>2 DEF Distinct
    <3> QED BY <1>1, <3>3
  <2> QED BY <1>2, <2>2, <2>3
<1>4. Shown(q) = Shown(s) \cup Shown(p)
  <2>1. \A i \in 1..Len(s) : i \in 1..Len(q) /\ q[i] = s[i]
    BY <1>1
  <2>2. ASSUME NEW i \in 1..Len(p)
        PROVE  i + Len(s) \in 1..Len(q) /\ q[i + Len(s)] = p[i]
    <3>1. i + Len(s) \in 1..(Len(s) + Len(p)) /\ ~(i + Len(s) <= Len(s)) /\ (i + Len(s)) - Len(s) = i
      BY <1>1
    <3> QED BY <1>1, <3>1
  <2>3. Shown(s) \subseteq Shown(q)
    BY <2>1 DEF Shown
  <2>4. Shown(p) \subseteq Shown(q)
    BY <2>2 DEF Shown
  <2>5. Shown(q) \subseteq Shown(s) \cup Shown(p)
    BY <1>2 DEF Shown
  <2> QED BY <2>3, <2>4, <2>5
<1> QED BY <1>1, <1>3, <1>4 DEF q

\* A client asks for the first page.
LEMMA HistBegin ==
  ASSUME HistInv, NEW filter \in {"all", "success"}, BeginListing(filter)
  PROVE  HistInv'
<1>1. /\ row' = row /\ byTime' = byTime /\ byDesc' = byDesc /\ rowCount' = rowCount
      /\ started' = started /\ now' = now /\ started
  BY DEF BeginListing
<1>2. HistTyped' /\ IndexInv'
  BY <1>1 DEF HistInv, HistTyped, IndexInv, LogKeys, Present, Key
<1> DEFINE owed == {i \in Present : Matches(i, filter)}
<1>3. /\ listing' \in Listings /\ listing'.on = TRUE /\ listing'.filter = filter
      /\ listing'.cursor = <<MaxTime + 1, 0>> /\ listing'.seen = <<>> /\ listing'.due = owed
  <2>1. owed \in SUBSET LogIds /\ <<MaxTime + 1, 0>> \in Pairs
    BY HistoryAssumption DEF Present, Pairs
  <2> QED BY <2>1 DEF BeginListing, Listings
<1>4. \A i \in Present : Before(Key(i), <<MaxTime + 1, 0>>)
  <2>1. \A i \in Present : row[i].at \in Nat /\ row[i].at <= now /\ now <= MaxTime
    BY DEF HistInv, HistTyped, LogRows, Present
  <2> QED BY <2>1, HistoryAssumption DEF HistInv, HistTyped, Before, Key
<1>5. Present' = Present /\ \A i \in Present : Key(i)' = Key(i) /\ (Matches(i, filter)' <=> Matches(i, filter))
  BY <1>1 DEF Present, Key, Matches
<1>6. ListingInv'
  <2>1. SeenIds' = {} /\ \A m, n \in 1..Len(listing'.seen) : listing'.seen[m] = listing'.seen[n] => m = n
    BY <1>3 DEF SeenIds
  <2>2. \A i \in listing'.due : i \in Present' /\ Matches(i, listing.filter)' /\ Before(Key(i)', listing'.cursor)
    BY <1>1, <1>3, <1>4, <1>5 DEF Matches
  <2> QED BY <1>1, <1>3, <2>1, <2>2 DEF ListingInv
<1> QED BY <1>2, <1>6 DEF HistInv

\* The next page: the newest rows behind the cursor, at most PageLimit.
LEMMA HistPage == ASSUME HistInv, NextPage PROVE HistInv'
<1> DEFINE R == {k \in byTime : Before(k, listing.cursor) /\ Matches(k[2], listing.filter)}
           found == Descending(R)
           c == Cardinality(R)
<1>1. /\ row' = row /\ byTime' = byTime /\ byDesc' = byDesc /\ rowCount' = rowCount
      /\ started' = started /\ now' = now /\ listing.on
  BY DEF NextPage
<1>2. HistTyped' /\ IndexInv'
  BY <1>1 DEF HistInv, HistTyped, IndexInv, LogKeys, Present, Key
<1>3. started /\ byTime = LogKeys /\ listing \in Listings /\ PageLimit \in Nat \ {0}
  BY <1>1, HistoryAssumption DEF HistInv, IndexInv, ListingInv
<1>4. R \in SUBSET Pairs /\ IsFiniteSet(R) /\ R \in SUBSET LogKeys
  BY <1>3, KeysOfRows, FS_Subset DEF HistInv
<1>5. c \in Nat /\ Len(found) = c /\ found \in Seq({k[2] : k \in R})
  BY <1>4, FS_CardinalityType, DescendingLists
<1>6. \A k \in R : k[2] \in Present /\ k[2] \in LogIds /\ k = Key(k[2])
  BY <1>4, KeysOfRows DEF HistInv, Present
<1>7. found \in Seq(LogIds)
  BY <1>5, <1>6
<1>8. ASSUME NEW n \in 1..c
      PROVE  /\ found[n] \in Present /\ Key(found[n]) \in R /\ RankOf(R, Key(found[n])) = n - 1
             /\ Before(Key(found[n]), listing.cursor)
  <2>1. PICK k \in R : RankOf(R, k) = n - 1 /\ found[n] = k[2]
    BY <1>4, DescendingLists
  <2> QED BY <1>6, <2>1
<1>9. Distinct(found)
  <2>1. ASSUME NEW m \in 1..c, NEW n \in 1..c, found[m] = found[n]
        PROVE  m = n
    <3>1. m - 1 = n - 1
      BY <1>8, <2>1
    <3> QED BY <1>5, <3>1
  <2> QED BY <1>5, <2>1 DEF Distinct
<1>10. \A n \in 1..c : found[n] \notin SeenIds
  BY <1>1, <1>8 DEF HistInv, ListingInv
<1>11. ASSUME NEW i \in listing.due, i \notin SeenIds
       PROVE  Key(i) \in R /\ RankOf(R, Key(i)) + 1 \in 1..c /\ found[RankOf(R, Key(i)) + 1] = i
  <2>1. i \in Present /\ Matches(i, listing.filter) /\ Before(Key(i), listing.cursor)
    BY <1>1, <1>11 DEF HistInv, ListingInv
  <2>2. Key(i) \in LogKeys /\ Key(i)[2] = i
    BY <2>1, KeysOfRows DEF HistInv
  <2>3. Key(i) \in R
    BY <1>3, <2>1, <2>2
  <2> QED BY <1>4, <2>2, <2>3, DescendingLists
<1>12. listing.seen \in Seq(LogIds) /\ Distinct(listing.seen) /\ Shown(listing.seen) = SeenIds
  BY <1>3 DEF HistInv, ListingInv, Listings, Distinct, Shown, SeenIds
<1>13. Present' = Present /\ \A i : Key(i)' = Key(i)
  BY <1>1 DEF Present, Key
<1>14. CASE Len(found) > PageLimit
  <2> DEFINE page == SubSeq(found, 1, PageLimit)
             last == Key(found[PageLimit])
  <2>1. listing' = [listing EXCEPT !.cursor = last, !.seen = listing.seen \o page]
    BY <1>14 DEF NextPage, NextCursor
  <2>2. /\ page \in Seq(LogIds) /\ Len(page) = PageLimit /\ \A n \in 1..PageLimit : page[n] = found[n]
        /\ PageLimit \in 1..c
    <3> HIDE DEF R, found, c
    <3>1. PageLimit \in 1..Len(found) /\ PageLimit \in 1..c
      BY <1>3, <1>5, <1>14
    <3>2. /\ page \in Seq(LogIds) /\ Len(page) = (IF 1 <= PageLimit THEN PageLimit - 1 + 1 ELSE 0)
          /\ \A n \in 1..(PageLimit - 1 + 1) : page[n] = found[1 + n - 1]
      BY <1>3, <1>7, <3>1, SubSeqProperties
    <3> QED BY <1>3, <3>1, <3>2
  <2>3. last \in R /\ last \in Pairs /\ RankOf(R, last) = PageLimit - 1 /\ Before(last, listing.cursor)
    BY <1>4, <1>8, <2>2
  <2> HIDE DEF R, found, c, page, last
  <2>4. Distinct(page) /\ \A n \in 1..Len(page) : page[n] \notin Shown(listing.seen)
    <3>1. \A n \in 1..PageLimit : n \in 1..c
      BY <1>5, <2>2
    <3> QED BY <1>5, <1>9, <1>10, <1>12, <2>2, <3>1 DEF Distinct
  <2>5. /\ listing.seen \o page \in Seq(LogIds) /\ Distinct(listing.seen \o page)
        /\ Shown(listing.seen \o page) = SeenIds \cup Shown(page)
    BY <1>12, <2>2, <2>4, AppendPage
  <2>6. /\ listing' \in Listings /\ listing'.on = TRUE /\ listing'.filter = listing.filter
        /\ listing'.cursor = last /\ listing'.seen = listing.seen \o page /\ listing'.due = listing.due
    BY <1>1, <1>3, <2>1, <2>3, <2>5 DEF Listings
  <2>7. SeenIds' = SeenIds \cup Shown(page)
    BY <2>5, <2>6 DEF SeenIds, Shown
  <2>8. /\ listing.cursor \in Pairs /\ now \in Nat /\ SeenIds \subseteq LogIds
        /\ \A i \in LogIds : i \in Nat /\ row[i].at \in Nat /\ row[i].at <= now
    BY <1>3, HistoryAssumption DEF Listings, HistInv, HistTyped, LogRows, SeenIds
  <2>9. ASSUME NEW i \in SeenIds
        PROVE  ~Before(<<now, i>>, last) /\ (i \in Present => ~Before(Key(i), last))
    <3>1. ~Before(<<now, i>>, listing.cursor) /\ (i \in Present => ~Before(Key(i), listing.cursor))
      BY <1>1, <2>9 DEF HistInv, ListingInv
    <3>2. <<now, i>> \in Pairs /\ (i \in Present => Key(i) \in Pairs)
      BY <2>8, <2>9 DEF Pairs, Key
    <3> QED BY <2>3, <2>8, <3>1, <3>2, BeforeOrder
  <2>10. ASSUME NEW i \in Shown(page)
         PROVE  ~Before(<<now, i>>, last) /\ ~Before(Key(i), last)
    <3>1. PICK n \in 1..PageLimit : i = found[n]
      BY <2>2, <2>10 DEF Shown
    <3>2. n \in 1..c /\ n <= PageLimit
      BY <1>5, <2>2, <3>1
    <3>3. i \in Present /\ Key(i) \in R /\ RankOf(R, Key(i)) = n - 1
      BY <1>8, <3>1, <3>2
    <3>4. ~(RankOf(R, last) < RankOf(R, Key(i)))
      BY <1>3, <2>3, <3>2, <3>3
    <3>5. ~Before(Key(i), last)
      BY <1>4, <2>3, <3>3, <3>4, RankDescends
    <3>6. i \in LogIds /\ Key(i) \in Pairs /\ <<now, i>> \in Pairs
      BY <1>4, <2>8, <3>3 DEF Present, Pairs
    <3>7. Key(i) = <<now, i>> \/ Before(Key(i), <<now, i>>)
      BY <2>8, <3>6 DEF Key, Before
    <3> QED BY <2>3, <3>5, <3>6, <3>7, BeforeOrder
  <2>11. ASSUME NEW i \in listing.due
         PROVE  /\ i \in Present /\ Matches(i, listing.filter)
                /\ i \in SeenIds' \/ Before(Key(i), last)
    <3>1. i \in Present /\ Matches(i, listing.filter)
      BY <1>1, <2>11 DEF HistInv, ListingInv
    <3>2. CASE i \in SeenIds
      BY <2>7, <3>1, <3>2
    <3>3. CASE i \notin SeenIds
      <4> DEFINE r == RankOf(R, Key(i))
      <4>1. Key(i) \in R /\ r + 1 \in 1..c /\ found[r + 1] = i /\ r \in Nat
        BY <1>4, <1>11, <3>3, RankDescends
      <4>2. CASE r + 1 <= PageLimit
        <5>1. r + 1 \in 1..PageLimit
          BY <1>3, <4>1, <4>2
        <5>2. i = page[r + 1]
          BY <2>2, <4>1, <5>1
        <5> QED BY <2>2, <2>7, <3>1, <5>1, <5>2 DEF Shown
      <4>3. CASE ~(r + 1 <= PageLimit)
        <5>1. ~(r < RankOf(R, last)) /\ r # RankOf(R, last)
          BY <1>3, <2>3, <4>1, <4>3
        <5>2. ~Before(last, Key(i)) /\ last # Key(i)
          BY <1>4, <2>3, <4>1, <5>1, RankDescends
        <5> QED BY <1>4, <2>3, <3>1, <4>1, <5>2, BeforeOrder
      <4> QED BY <4>2, <4>3
    <3> QED BY <3>2, <3>3
  <2>12. ListingInv'
    <3>1. \A i \in SeenIds' : ~Before(<<now', i>>, listing'.cursor)
                              /\ (i \in Present' => ~Before(Key(i)', listing'.cursor))
      BY <1>1, <1>13, <2>6, <2>7, <2>9, <2>10
    <3>2. \A i \in listing'.due : /\ i \in Present' /\ Matches(i, listing.filter)'
                                  /\ i \in SeenIds' \/ Before(Key(i)', listing'.cursor)
      BY <1>1, <1>13, <2>6, <2>11 DEF Matches
    <3>3. \A m, n \in 1..Len(listing'.seen) : listing'.seen[m] = listing'.seen[n] => m = n
      BY <2>5, <2>6 DEF Distinct
    <3> QED BY <1>1, <1>3, <2>6, <3>1, <3>2, <3>3 DEF ListingInv
  <2> QED BY <1>2, <2>12 DEF HistInv
<1>15. CASE ~(Len(found) > PageLimit)
  <2>1. listing' = [listing EXCEPT !.on = FALSE, !.seen = listing.seen \o found]
    BY <1>15 DEF NextPage
  <2> HIDE DEF R, found, c
  <2>2. /\ listing.seen \o found \in Seq(LogIds) /\ Distinct(listing.seen \o found)
        /\ Shown(listing.seen \o found) = SeenIds \cup Shown(found)
    BY <1>5, <1>7, <1>9, <1>10, <1>12, AppendPage
  <2>3. /\ listing' \in Listings /\ listing'.on = FALSE
        /\ listing'.seen = listing.seen \o found /\ listing'.due = listing.due
    BY <1>3, <2>1, <2>2 DEF Listings
  <2>4. SeenIds' = SeenIds \cup Shown(found)
    BY <2>2, <2>3 DEF SeenIds, Shown
  <2>5. ASSUME NEW i \in listing.due
        PROVE  i \in SeenIds'
    <3>1. CASE i \in SeenIds
      BY <2>4, <3>1
    <3>2. CASE i \notin SeenIds
      BY <1>5, <1>11, <2>4, <3>2 DEF Shown
    <3> QED BY <3>1, <3>2
  <2>6. ListingInv'
    <3>1. \A m, n \in 1..Len(listing'.seen) : listing'.seen[m] = listing'.seen[n] => m = n
      BY <2>2, <2>3 DEF Distinct
    <3> QED BY <1>1, <1>3, <2>3, <2>5, <3>1 DEF ListingInv
  <2> QED BY <1>2, <2>6 DEF HistInv
<1> QED BY <1>14, <1>15

---------------------------------------------------------------------------
(* The figures of one reverse pass. *)

\* A set of numbers that is not empty has a least one.
LEMMA LeastNumber ==
  ASSUME NEW S \in SUBSET Nat, S # {}
  PROVE  \E n \in S : \A m \in S : n <= m
<1>1. IsWellFoundedOn(OpToRel(<, Nat), Nat)
  BY NatLessThanWellFounded
<1>2. PICK n \in S : \A m \in S : <<m, n>> \notin OpToRel(<, Nat)
  BY <1>1, WFMin
<1>3. \A m \in S : ~(m < n)
  BY <1>2 DEF OpToRel
<1> QED BY <1>3

\* The bucket of a latency: at or below bound b exactly when the latency is.
LEMMA BucketOfLatency ==
  ASSUME NEW ms \in Nat
  PROVE  /\ LatencyBucket(ms) \in Buckets
         /\ \A b \in 1..Len(LatencyBounds) : LatencyBucket(ms) <= b <=> ms <= LatencyBounds[b]
<1> DEFINE L == Len(LatencyBounds)
           Fits(b) == /\ b <= L => ms <= LatencyBounds[b]
                      /\ \A c \in 1..(b - 1) : ms > LatencyBounds[c]
           S == {b \in Buckets : b <= L => ms <= LatencyBounds[b]}
           x == LatencyBucket(ms)
<1>1. L \in Nat /\ \A b \in 1..L : LatencyBounds[b] \in Nat
  BY HistoryAssumption
<1>2. S \in SUBSET Nat /\ L + 1 \in S
  BY <1>1 DEF Buckets
<1>3. PICK b \in S : \A m \in S : b <= m
  BY <1>2, LeastNumber
<1>4. \A c \in 1..(b - 1) : c \notin S /\ c \in Buckets /\ c \in 1..L
  BY <1>1, <1>3 DEF Buckets
<1>5. b \in Buckets /\ Fits(b)
  BY <1>1, <1>3, <1>4
<1>6. x = CHOOSE y \in Buckets : Fits(y)
  BY DEF LatencyBucket
<1>7. x \in Buckets /\ Fits(x)
  BY <1>5, <1>6
<1> HIDE DEF x
<1>8. ASSUME NEW c \in 1..L
      PROVE  x <= c <=> ms <= LatencyBounds[c]
  <2>1. x \in Nat /\ x >= 1
    BY <1>1, <1>7 DEF Buckets
  <2>2. CASE x <= c
    <3>1. x \in 1..L /\ ms <= LatencyBounds[x]
      BY <1>1, <1>7, <2>1, <2>2
    <3>2. LatencyBounds[x] <= LatencyBounds[c]
      <4>1. CASE x = c
        BY <1>1, <4>1
      <4>2. CASE x < c
        BY <3>1, <4>2, HistoryAssumption
      <4> QED BY <1>1, <2>1, <2>2, <4>1, <4>2
    <3> QED BY <1>1, <2>2, <3>1, <3>2
  <2>3. CASE ~(x <= c)
    <3>1. c \in 1..(x - 1)
      BY <1>1, <2>1, <2>3
    <3>2. ms > LatencyBounds[c]
      BY <1>7, <3>1
    <3> QED BY <1>1, <2>3, <3>2
  <2> QED BY <2>2, <2>3
<1> QED BY <1>7, <1>8 DEF x

\* The scan is complete unless it says that it stopped.
LEMMA CoverComplete ==
  ASSUME HistInv, started, NEW from \in 1..MaxTime, ~ScanTruncated(from)
  PROVE  Covered(from) = InRange(from)
<1>1. byTime \in SUBSET Pairs /\ IsFiniteSet(byTime) /\ Cardinality(byTime) \in Nat /\ ScanRows \in Nat
  BY KeysOfRows, HistoryAssumption, FS_CardinalityType DEF HistInv, IndexInv
<1>2. \A k \in byTime : k \in Newest(ScanRows) <=> RankOf(byTime, k) < ScanRows
  BY DEF Newest, RankOf
<1>3. \A k \in byTime : RankOf(byTime, k) \in Nat /\ RankOf(byTime, k) < Cardinality(byTime)
  BY <1>1, RankDescends
<1>4. CASE ~(Cardinality(byTime) >= ScanRows)
  BY <1>1, <1>2, <1>3, <1>4 DEF Covered, InRange
<1>5. CASE ~(Newest(ScanRows) \subseteq InRange(from))
  <2>1. PICK o \in byTime : o \in Newest(ScanRows) /\ ~(o[1] >= from)
    BY <1>5 DEF Newest, InRange
  <2>2. ASSUME NEW k \in InRange(from)
        PROVE  k \in Newest(ScanRows)
    <3>1. k \in byTime /\ k[1] >= from /\ k[1] \in Nat /\ o[1] \in Nat /\ from \in Nat
      BY <1>1, <2>1, <2>2 DEF InRange, Pairs
    <3>2. Before(o, k)
      BY <2>1, <3>1 DEF Before
    <3>3. RankOf(byTime, k) < RankOf(byTime, o)
      BY <1>1, <2>1, <3>1, <3>2, RankDescends
    <3> QED BY <1>1, <1>2, <1>3, <2>1, <3>1, <3>3
  <2> QED BY <2>2 DEF Covered
<1> QED BY <1>4, <1>5 DEF ScanTruncated

\* A percentile is the bound of its bucket, or marked as a floor.
LEMMA PercentileHonest ==
  ASSUME HistInv, started, NEW from \in 1..MaxTime, Covered(from) # {}, NEW percent \in {50, 99}
  PROVE  LET below == {k \in Covered(from) : row[k[2]].ms <= PercentileMs(from, percent)}
         IN IF IsFloor(from, percent)
            THEN Cardinality(below) < Rank(from, percent)
            ELSE Cardinality(below) >= Rank(from, percent)
<1> DEFINE C == Covered(from)
           L == Len(LatencyBounds)
           n == Cardinality(C)
           r == Rank(from, percent)
           ms(k) == row[k[2]].ms
           Upto(v) == {k \in C : ms(k) <= v}
           p == PercentileBucket(from, percent)
<1>1. L \in Nat /\ L >= 1 /\ \A b \in 1..L : LatencyBounds[b] \in Nat
  BY HistoryAssumption, EmptySeq
<1>2. IsFiniteSet(C) /\ \A k \in C : ms(k) \in Nat
  <2>1. byTime = LogKeys /\ IsFiniteSet(LogKeys) /\ \A k \in LogKeys : k[2] \in Present
    BY KeysOfRows DEF HistInv, IndexInv
  <2>2. C \in SUBSET LogKeys
    BY <2>1 DEF Covered, InRange
  <2>3. \A k \in C : k[2] \in LogIds
    BY <2>1, <2>2 DEF Present
  <2>4. IsFiniteSet(C)
    BY <2>1, <2>2, FS_Subset
  <2> QED BY <2>3, <2>4 DEF HistInv, HistTyped, LogRows
<1>3. n \in Nat /\ n >= 1
  BY <1>2, FS_CardinalityType, FS_EmptySet
<1>4. r \in Nat /\ r >= 1 /\ r <= n
  <2> HIDE DEF n
  <2>1. CASE percent = 50
    BY <1>3, <2>1 DEF Rank, n
  <2>2. CASE percent = 99
    BY <1>3, <2>2 DEF Rank, n
  <2> QED BY <2>1, <2>2
<1>5. \A v \in Nat : Cardinality(Upto(v)) \in Nat
  BY <1>2, FS_Subset, FS_CardinalityType
<1>6. \A b \in 1..L : Samples(from, b) = Cardinality(Upto(LatencyBounds[b]))
  <2>1. ASSUME NEW b \in 1..L
        PROVE  {k \in C : LatencyBucket(ms(k)) <= b} = Upto(LatencyBounds[b])
    BY <1>2, <2>1, BucketOfLatency
  <2> QED BY <2>1 DEF Samples
<1>7. Samples(from, L + 1) = n
  <2>1. ASSUME NEW k \in C
        PROVE  LatencyBucket(ms(k)) <= L + 1
    <3>1. LatencyBucket(ms(k)) \in Buckets
      BY <1>2, BucketOfLatency
    <3> HIDE DEF C
    <3> QED BY <1>1, <3>1 DEF Buckets
  <2>2. {k \in C : LatencyBucket(ms(k)) <= L + 1} = C
    BY <2>1
  <2> QED BY <2>2 DEF Samples
<1>8. p \in Buckets /\ Samples(from, p) >= r /\ \A c \in 1..(p - 1) : Samples(from, c) < r
  <2> DEFINE S == {b \in Buckets : Samples(from, b) >= r}
             Fits(b) == Samples(from, b) >= r /\ \A c \in 1..(b - 1) : Samples(from, c) < r
  <2>1. S \in SUBSET Nat /\ L + 1 \in S
    BY <1>1, <1>3, <1>4, <1>7 DEF Buckets
  <2>2. PICK b \in S : \A m \in S : b <= m
    BY <2>1, LeastNumber
  <2>3. b \in 1..(L + 1)
    BY <2>2 DEF Buckets
  <2>4. ASSUME NEW c \in 1..(b - 1)
        PROVE  Samples(from, c) < r
    <3>1. c \notin S /\ c \in Buckets /\ c \in 1..L
      BY <1>1, <2>2, <2>3, <2>4 DEF Buckets
    <3>2. Samples(from, c) \in Nat
      <4>1. LatencyBounds[c] \in Nat
        BY <1>1, <3>1
      <4>2. Cardinality(Upto(LatencyBounds[c])) \in Nat
        BY <1>5, <4>1
      <4> QED BY <1>6, <3>1, <4>2
    <3> QED BY <1>4, <3>1, <3>2
  <2>5. b \in Buckets /\ Fits(b)
    BY <2>2, <2>4
  <2>6. p = CHOOSE y \in Buckets : Fits(y)
    BY DEF PercentileBucket
  <2> HIDE DEF p
  <2> QED BY <2>5, <2>6
<1> HIDE DEF p, r, n
<1>9. PercentileMs(from, percent) = LatencyBounds[IF p > L THEN p - 1 ELSE p]
  BY DEF PercentileMs, p
<1>10. IsFloor(from, percent) <=> Samples(from, L) < r
  BY DEF IsFloor, r
<1>11. CASE p <= L
  <2>1. p \in 1..L /\ PercentileMs(from, percent) = LatencyBounds[p]
    BY <1>1, <1>8, <1>9, <1>11 DEF Buckets
  <2>2. Cardinality(Upto(LatencyBounds[p])) >= r
    BY <1>6, <1>8, <2>1
  <2>3. Cardinality(Upto(LatencyBounds[L])) >= Cardinality(Upto(LatencyBounds[p]))
    <3>1. LatencyBounds[p] <= LatencyBounds[L]
      <4>1. CASE p = L
        BY <1>1, <4>1
      <4>2. CASE p < L
        <5>1. L \in 1..L
          BY <1>1
        <5>2. \A b, c \in 1..L : b < c => LatencyBounds[b] <= LatencyBounds[c]
          BY HistoryAssumption
        <5> QED BY <2>1, <4>2, <5>1, <5>2
      <4> QED BY <1>1, <2>1, <4>1, <4>2
    <3>2. Upto(LatencyBounds[p]) \in SUBSET Upto(LatencyBounds[L])
      BY <1>1, <1>2, <2>1, <3>1
    <3>3. IsFiniteSet(Upto(LatencyBounds[L]))
      BY <1>2, FS_Subset
    <3> QED BY <3>2, <3>3, FS_Subset, FS_CardinalityType
  <2>4. ~IsFloor(from, percent)
    <3>1. L \in 1..L /\ LatencyBounds[L] \in Nat /\ LatencyBounds[p] \in Nat
      BY <1>1, <2>1
    <3>2. /\ Cardinality(Upto(LatencyBounds[L])) \in Nat
          /\ Cardinality(Upto(LatencyBounds[p])) \in Nat
      <4> HIDE DEF Upto
      <4> QED BY <1>5, <3>1
    <3>3. Samples(from, L) = Cardinality(Upto(LatencyBounds[L]))
      BY <1>6, <3>1
    <3> QED BY <1>4, <1>10, <2>2, <2>3, <3>2, <3>3
  <2> QED BY <2>1, <2>2, <2>4 DEF r
<1>12. CASE ~(p <= L)
  <2>1. p = L + 1 /\ L \in 1..(p - 1) /\ L \in 1..L
    BY <1>1, <1>8, <1>12 DEF Buckets
  <2>2. PercentileMs(from, percent) = LatencyBounds[L]
    BY <1>1, <1>9, <2>1
  <2>3. Samples(from, L) < r
    BY <1>8, <2>1
  <2>4. Cardinality(Upto(LatencyBounds[L])) < r
    BY <1>6, <2>1, <2>3
  <2> QED BY <1>10, <2>2, <2>3, <2>4 DEF r
<1> QED BY <1>11, <1>12

---------------------------------------------------------------------------
(* The invariant, and what it says. *)

\* Every step keeps it.
LEMMA HistInvStep == ASSUME HistInv, [HistNext]_histVars PROVE HistInv'
<1>1. CASE Repair
  BY <1>1, HistRepair
<1>2. CASE Prune \/ ClearLogs
  BY <1>2, HistPrune
<1>3. CASE PrunerWakes \/ HistTick \/ UNCHANGED histVars
  BY <1>3, HistQuiet
<1>4. CASE NextPage
  BY <1>4, HistPage
<1>5. CASE HistRestart
  BY <1>5, HistRestarts
<1>6. CASE \E i \in LogIds : InsertLog(i, TRUE, 2) \/ InsertLog(i, FALSE, 1)
  <2>1. PICK i \in LogIds : InsertLog(i, TRUE, 2) \/ InsertLog(i, FALSE, 1)
    BY <1>6
  <2>2. CASE InsertLog(i, TRUE, 2)
    BY <2>2, HistInsert
  <2>3. CASE InsertLog(i, FALSE, 1)
    BY <2>3, HistInsert
  <2> QED BY <2>1, <2>2, <2>3
<1>7. CASE \E filter \in {"all", "success"} : BeginListing(filter)
  BY <1>7, HistBegin
<1> QED BY <1>1, <1>2, <1>3, <1>4, <1>5, <1>6, <1>7 DEF HistNext

\* What was shown, counted.
LEMMA ShownCounted ==
  ASSUME NEW S, NEW s \in Seq(S), Distinct(s)
  PROVE  Cardinality(Shown(s)) = Len(s)
<1> DEFINE f == [n \in 1..Len(s) |-> s[n]]
<1>1. Len(s) \in Nat
  BY LenProperties
<1>2. f \in Bijection(1..Len(s), Shown(s))
  <2>1. f \in [1..Len(s) -> Shown(s)]
    BY DEF Shown
  <2>2. \A m, n \in 1..Len(s) : f[m] = f[n] => m = n
    BY DEF Distinct
  <2>3. \A x \in Shown(s) : \E n \in 1..Len(s) : f[n] = x
    BY DEF Shown
  <2> QED BY <2>1, <2>2, <2>3 DEF Bijection, Injection, Surjection, IsInjective
<1>3. IsFiniteSet(1..Len(s)) /\ Cardinality(1..Len(s)) = Len(s)
  <2>1. 1 \in Int /\ Len(s) \in Int
    BY <1>1
  <2>2. IsFiniteSet(1..Len(s)) /\ Cardinality(1..Len(s)) = IF 1 > Len(s) THEN 0 ELSE Len(s) - 1 + 1
    BY <2>1, FS_Interval
  <2> QED BY <1>1, <2>2
<1> QED BY <1>2, <1>3, FS_Bijection DEF ExistsBijection

\* The invariant says what the runs check.
LEMMA HistInvSound == ASSUME HistInv PROVE HistorySound
<1>1. LogIndexAgrees
  BY DEF HistInv, IndexInv, LogKeys, LogIndexAgrees
<1>2. PagingComplete
  <2>1. listing.seen \in Seq(LogIds) /\ Distinct(listing.seen) /\ Shown(listing.seen) = SeenIds
    BY DEF HistInv, ListingInv, Listings, Distinct, Shown, SeenIds
  <2>2. Cardinality(SeenIds) = Len(listing.seen)
    BY <2>1, ShownCounted
  <2> QED BY <2>2 DEF HistInv, ListingInv, SeenIds, PagingComplete
<1>3. FiguresHonest
  BY CoverComplete, PercentileHonest DEF FiguresHonest
<1> QED BY <1>1, <1>2, <1>3 DEF HistorySound

\* Whatever environment was opened: rows, indexes and counter agree, pages
\* miss and repeat nothing that stayed, and figures from an incomplete scan
\* or beyond the last bucket say so.
THEOREM HistoryIsSound == HistSpec => []HistorySound
<1>1. HistInit => HistInv
  BY HistInitInv
<1>2. HistInv /\ [HistNext]_histVars => HistInv'
  BY HistInvStep
<1>3. HistInv => HistorySound
  BY HistInvSound
<1> QED BY <1>1, <1>2, <1>3, PTL DEF HistSpec

---------------------------------------------------------------------------
(***************************************************************************)
(* One turn of the workspace chat.                                         *)
(*                                                                         *)
(* Told is everything the dashboard received or will, in order.  The       *)
(* reader knows of the frames it took how many texts and how many thoughts  *)
(* they had and whether one ended the answer (ReaderInv); an outcome is    *)
(* the last event told and says "done" exactly when the answer ended       *)
(* (OutcomeInv); and it reads for a dashboard, or for one that left before *)
(* it was shown anything (BridgeInv).                                      *)
(***************************************************************************)

(* Frames of one kind, counted. *)

CountIn(w, s, i) == Cardinality({k \in 1..i : s[k] = w})

\* One frame more.
LEMMA CountNext ==
  ASSUME NEW w, NEW s, NEW i \in Nat
  PROVE  /\ CountIn(w, s, i) \in Nat
         /\ s[i + 1] = w => CountIn(w, s, i + 1) = CountIn(w, s, i) + 1
         /\ s[i + 1] # w => CountIn(w, s, i + 1) = CountIn(w, s, i)
<1> DEFINE A == {k \in 1..i : s[k] = w}
           B == {k \in 1..(i + 1) : s[k] = w}
<1>1. IsFiniteSet(1..i)
  BY FS_Interval
<1>2. IsFiniteSet(A) /\ Cardinality(A) \in Nat
  BY <1>1, FS_Subset, FS_CardinalityType
<1>3. i + 1 \notin A
  OBVIOUS
<1>4. ASSUME s[i + 1] = w PROVE B = A \cup {i + 1}
  BY <1>4
<1>5. ASSUME s[i + 1] # w PROVE B = A
  BY <1>5
<1>6. Cardinality(A \cup {i + 1}) = Cardinality(A) + 1
  BY <1>2, <1>3, FS_AddElement
<1> QED BY <1>2, <1>4, <1>5, <1>6 DEF CountIn

\* More frames have no fewer of a kind, and the frames up to one decide.
LEMMA CountGrow ==
  ASSUME NEW w, NEW s, NEW i \in Nat, NEW j \in Nat, i <= j
  PROVE  CountIn(w, s, i) <= CountIn(w, s, j)
<1> DEFINE A == {k \in 1..i : s[k] = w}
           B == {k \in 1..j : s[k] = w}
<1>1. IsFiniteSet(1..j)
  BY FS_Interval
<1>2. B \in SUBSET (1..j) /\ A \in SUBSET B
  OBVIOUS
<1>3. IsFiniteSet(B)
  BY <1>1, <1>2, FS_Subset
<1> QED BY <1>2, <1>3, FS_Subset DEF CountIn

\* Frames with one beginning have as many of a kind in it.
LEMMA CountSame ==
  ASSUME NEW w, NEW s, NEW t, NEW i \in Nat, \A k \in 1..i : s[k] = t[k]
  PROVE  CountIn(w, s, i) = CountIn(w, t, i)
<1>1. {k \in 1..i : s[k] = w} = {k \in 1..i : t[k] = w}
  OBVIOUS
<1> QED BY <1>1 DEF CountIn

---------------------------------------------------------------------------
(* What the dashboard has received and what is on its way to it. *)

Kinds == {"text", "end", "broken", "other", "last", "thought", "marker", "failed", "usage"}
Frames == [kind : Kinds, no : Nat]
Events == [kind : {"text", "reasoning", "done", "error"}, no : Nat]
Outcome(e) == e.kind \in {"done", "error"}

Pumps == [step : {"none", "reading", "ending", "over"}, buffer : Seq(Frames), texts : Nat, thoughts : Nat,
          terminal : BOOLEAN, failed : BOOLEAN, paused : BOOLEAN]
Early == {"form", "prepared", "resolved", "refused", "answered"}

ChatTyped ==
    /\ chat \in [stage : Early \cup {"streaming", "ended", "left", "unread"}, protocol : Protocols, streamed : BOOLEAN]
    /\ upstream \in [state : {"none", "open", "released"}, sent : Seq(Kinds)]
    /\ pump \in Pumps /\ pipe \in Seq(Events)
    /\ screen \in [got : Seq(Events), open : BOOLEAN]

\* Every event, in the order of the dashboard.
Told == screen.got \o pipe

\* The number of frames the reader has taken.
Taken == Len(upstream.sent) - Len(pump.buffer)

\* The reader: its buffer is what it has not taken, and it knows of what it
\* has taken how many texts and thoughts there were and whether the answer was ended.
ReaderInv ==
    pump.step = "reading" =>
        /\ Taken \in Nat
        /\ \A n \in 1..Len(pump.buffer) :
              pump.buffer[n].kind = upstream.sent[Taken + n] /\ pump.buffer[n].no = Taken + n
        /\ \A k \in 1..Taken : upstream.sent[k] # "broken"
        /\ pump.texts = CountIn("text", upstream.sent, Taken) /\ pump.texts <= MaxReplyTexts
        /\ pump.thoughts = CountIn("thought", upstream.sent, Taken) /\ pump.thoughts <= MaxReplyTexts
        /\ pump.terminal <=> \E k \in 1..Taken : Concludes(upstream.sent[k])
        /\ pump.paused => pump.terminal
        /\ \A n \in 1..Len(Told) : Told[n].no <= Taken

\* The outcome comes last, once nothing more can be sent, and is earned.
OutcomeInv ==
    /\ pump.step = "none" <=> chat.stage \in Early
    /\ pump.step = "none" => Told = <<>> /\ upstream.sent = <<>> /\ upstream.state = "none"
    /\ pump.step \in {"ending", "over"} => upstream.state = "released"
    /\ pump.step = "ending" => (pump.terminal <=> AnswerEnded)
    /\ \A n \in 1..Len(Told) : Outcome(Told[n]) =>
          n = Len(Told) /\ pump.step = "over" /\ (Told[n].kind = "done" <=> AnswerEnded)
    /\ \A i, j \in 1..Len(Told) : i < j /\ ~Outcome(Told[j]) => Told[i].no < Told[j].no

ChatInv == ChatTyped /\ ReaderInv /\ OutcomeInv

\* What the extraction makes of a frame.
LEMMA DeltaOf ==
  ASSUME NEW kind \in Kinds
  PROVE  /\ Delta(kind) = "text" <=> kind = "text"
         /\ Delta(kind) = "reasoning" <=> kind = "thought"
         /\ Delta(kind) = "terminal" <=> Concludes(kind)
         /\ Delta(kind) \in {"text", "reasoning", "terminal", "none"}
BY DEF Kinds, Delta, Concludes

\* The events told: an event enters at the end, the first of the channel
\* moves to the screen, and the screen shows a prefix.
LEMMA ToldGrows ==
  ASSUME NEW S, NEW s \in Seq(S), NEW p \in Seq(S), NEW e \in S
  PROVE  /\ s \o Append(p, e) \in Seq(S) /\ Len(s \o Append(p, e)) = Len(s \o p) + 1
         /\ Len(s \o p) \in Nat
         /\ \A n \in 1..Len(s \o p) : (s \o Append(p, e))[n] = (s \o p)[n]
         /\ (s \o Append(p, e))[Len(s \o p) + 1] = e
<1> DEFINE q == Append(p, e)
<1>1. /\ q \in Seq(S) /\ Len(q) = Len(p) + 1 /\ q[Len(p) + 1] = e
      /\ \A n \in 1..Len(p) : q[n] = p[n]
  OBVIOUS
<1>2. Len(s) \in Nat /\ Len(p) \in Nat
  OBVIOUS
<1> HIDE DEF q
<1>3. /\ s \o q \in Seq(S) /\ Len(s \o q) = Len(s) + Len(q)
      /\ \A n \in 1..(Len(s) + Len(q)) : (s \o q)[n] = IF n <= Len(s) THEN s[n] ELSE q[n - Len(s)]
  BY <1>1, ConcatProperties
<1>4. /\ s \o p \in Seq(S) /\ Len(s \o p) = Len(s) + Len(p)
      /\ \A n \in 1..(Len(s) + Len(p)) : (s \o p)[n] = IF n <= Len(s) THEN s[n] ELSE p[n - Len(s)]
  BY ConcatProperties
<1>5. ASSUME NEW n \in 1..Len(s \o p)
      PROVE  (s \o q)[n] = (s \o p)[n]
  <2>1. n \in 1..(Len(s) + Len(p)) /\ n \in 1..(Len(s) + Len(q))
    BY <1>1, <1>2, <1>4
  <2>2. CASE n <= Len(s)
    BY <1>3, <1>4, <2>1, <2>2
  <2>3. CASE ~(n <= Len(s))
    <3>1. n - Len(s) \in 1..Len(p)
      BY <1>2, <2>1, <2>3
    <3> QED BY <1>1, <1>3, <1>4, <2>1, <2>3, <3>1
  <2> QED BY <2>2, <2>3
<1>6. (s \o q)[Len(s \o p) + 1] = e
  <2>1. /\ Len(s) + Len(p) + 1 \in 1..(Len(s) + Len(q)) /\ ~(Len(s) + Len(p) + 1 <= Len(s))
        /\ (Len(s) + Len(p) + 1) - Len(s) = Len(p) + 1
    BY <1>1, <1>2
  <2> QED BY <1>1, <1>3, <1>4, <2>1
<1> QED BY <1>1, <1>2, <1>3, <1>4, <1>5, <1>6 DEF q

\* t is s with one event more.
OneMore(s, t, e) ==
    /\ Len(t) = Len(s) + 1 /\ Len(s) \in Nat /\ t[Len(s) + 1] = e
    /\ \A n \in 1..Len(s) : t[n] = s[n]

\* An event that enters the channel is told last.
LEMMA ToldOneMore ==
  ASSUME NEW g \in Seq(Events), NEW p \in Seq(Events), NEW e \in Events
  PROVE  OneMore(g \o p, g \o Append(p, e), e)
<1> DEFINE s == g \o p
           t == g \o Append(p, e)
<1>1. /\ Len(t) = Len(s) + 1 /\ Len(s) \in Nat /\ t[Len(s) + 1] = e
      /\ \A n \in 1..Len(s) : t[n] = s[n]
  BY ToldGrows
<1> QED BY <1>1 DEF OneMore

\* An event that moves from the channel to the screen is told where it was.
LEMMA ToldMoves ==
  ASSUME NEW S, NEW s \in Seq(S), NEW p \in Seq(S), p # <<>>
  PROVE  Append(s, Head(p)) \o Tail(p) = s \o p
<1> DEFINE a == Append(s, Head(p))
           t == Tail(p)
<1>1. /\ a \in Seq(S) /\ Len(a) = Len(s) + 1 /\ a[Len(s) + 1] = p[1]
      /\ \A n \in 1..Len(s) : a[n] = s[n]
  BY HeadTailProperties
<1>2. t \in Seq(S) /\ Len(t) = Len(p) - 1 /\ \A n \in 1..Len(t) : t[n] = p[n + 1]
  BY HeadTailProperties
<1>3. Len(s) \in Nat /\ Len(p) \in Nat /\ Len(p) >= 1
  BY EmptySeq
<1> HIDE DEF a, t
<1>4. /\ a \o t \in Seq(S) /\ Len(a \o t) = Len(a) + Len(t)
      /\ \A n \in 1..(Len(a) + Len(t)) : (a \o t)[n] = IF n <= Len(a) THEN a[n] ELSE t[n - Len(a)]
  BY <1>1, <1>2, ConcatProperties
<1>5. /\ s \o p \in Seq(S) /\ Len(s \o p) = Len(s) + Len(p)
      /\ \A n \in 1..(Len(s) + Len(p)) : (s \o p)[n] = IF n <= Len(s) THEN s[n] ELSE p[n - Len(s)]
  BY ConcatProperties
<1>6. Len(a \o t) = Len(s \o p) /\ Len(a) + Len(t) = Len(s) + Len(p)
  BY <1>1, <1>2, <1>3, <1>4, <1>5
<1>7. ASSUME NEW n \in 1..Len(s \o p)
      PROVE  (a \o t)[n] = (s \o p)[n]
  <2>1. n \in 1..(Len(s) + Len(p)) /\ n \in 1..(Len(a) + Len(t))
    BY <1>5, <1>6
  <2>2. CASE n <= Len(s)
    <3>1. n <= Len(a) /\ n \in 1..Len(s)
      BY <1>1, <1>3, <2>1, <2>2
    <3> QED BY <1>1, <1>4, <1>5, <2>1, <2>2, <3>1
  <2>3. CASE n = Len(s) + 1
    <3>1. n <= Len(a) /\ ~(n <= Len(s)) /\ n - Len(s) = 1
      BY <1>1, <1>3, <2>3
    <3> QED BY <1>1, <1>4, <1>5, <2>1, <2>3, <3>1
  <2>4. CASE n > Len(s) + 1
    <3>1. ~(n <= Len(a)) /\ ~(n <= Len(s)) /\ n - Len(a) \in 1..Len(t) /\ (n - Len(a)) + 1 = n - Len(s)
      BY <1>1, <1>2, <1>3, <2>1, <2>4
    <3> QED BY <1>2, <1>4, <1>5, <2>1, <3>1
  <2> QED BY <1>3, <2>1, <2>2, <2>3, <2>4
<1>8. a \o t = s \o p
  BY <1>4, <1>5, <1>6, <1>7, SeqEqual
<1> QED BY <1>8 DEF a, t

\* The screen shows the first of the events told.
LEMMA ToldPrefix ==
  ASSUME ChatTyped
  PROVE  /\ Told \in Seq(Events) /\ Len(Told) \in Nat /\ Len(screen.got) \in Nat
         /\ Len(screen.got) <= Len(Told) /\ \A n \in 1..Len(screen.got) : Told[n] = screen.got[n]
<1>1. screen.got \in Seq(Events) /\ pipe \in Seq(Events)
  BY DEF ChatTyped
<1>2. /\ Told \in Seq(Events) /\ Len(Told) = Len(screen.got) + Len(pipe)
      /\ \A n \in 1..(Len(screen.got) + Len(pipe)) :
            Told[n] = IF n <= Len(screen.got) THEN screen.got[n] ELSE pipe[n - Len(screen.got)]
  BY <1>1, ConcatProperties DEF Told
<1>3. Len(screen.got) \in Nat /\ Len(pipe) \in Nat
  BY <1>1
<1> QED BY <1>2, <1>3

---------------------------------------------------------------------------
(* The steps. *)

\* Nothing was sent in the first state.
LEMMA ChatInitInv == ASSUME ChatInit PROVE ChatInv
<1>1. ChatTyped
  BY DEF ChatInit, ChatTyped, Early, Protocols, NoPump, Pumps
<1>2. pump.step = "none" /\ chat.stage \in Early /\ upstream.sent = <<>> /\ upstream.state = "none"
  BY DEF ChatInit, NoPump, Early
<1>3. Told = <<>>
  BY DEF ChatInit, Told
<1>4. ReaderInv
  BY <1>2 DEF ReaderInv
<1>5. OutcomeInv
  BY <1>2, <1>3 DEF OutcomeInv
<1> QED BY <1>1, <1>4, <1>5 DEF ChatInv

\* Before the stream, and beside it.
LEMMA ChatQuiet ==
  ASSUME ChatInv, upstream' = upstream, pump' = pump, pipe' = pipe, screen' = screen, ChatTyped',
         chat.stage \in Early <=> chat'.stage \in Early
  PROVE  ChatInv'
<1>1. Told' = Told /\ Taken' = Taken /\ (AnswerEnded' <=> AnswerEnded)
  BY DEF Told, Taken, AnswerEnded
<1>2. ReaderInv'
  BY <1>1 DEF ChatInv, ReaderInv
<1>3. OutcomeInv'
  BY <1>1 DEF ChatInv, OutcomeInv
<1> QED BY <1>2, <1>3 DEF ChatInv

\* A turn before its stream, or one that is refused.
LEMMA ChatEarly ==
  ASSUME ChatInv,
         \/ \E bad \in SUBSET FormParts, streamed \in BOOLEAN, p \in Protocols : PrepareTurn(bad, p, streamed)
         \/ ResolveTurn \/ (\E ok \in BOOLEAN : RelayOnce(ok) \/ (OpenStream(ok) /\ ~ok))
         \/ (\E src \in Sources : ChangeSource(src)) \/ UNCHANGED chatVars
  PROVE  ChatInv'
<1>1. upstream' = upstream /\ pump' = pump /\ pipe' = pipe /\ screen' = screen
  BY DEF PrepareTurn, ResolveTurn, RelayOnce, OpenStream, ChangeSource, chatVars
<1>2. chat \in [stage : Early \cup {"streaming", "ended", "left", "unread"}, protocol : Protocols, streamed : BOOLEAN]
  BY DEF ChatInv, ChatTyped
<1>3. \/ chat' = chat
      \/ /\ chat' \in [stage : Early, protocol : Protocols, streamed : BOOLEAN]
         /\ chat.stage \in Early
  <2>1. CASE \E bad \in SUBSET FormParts, streamed \in BOOLEAN, p \in Protocols : PrepareTurn(bad, p, streamed)
    <3>1. PICK bad \in SUBSET FormParts, streamed \in BOOLEAN, p \in Protocols : PrepareTurn(bad, p, streamed)
      BY <2>1
    <3> QED BY <1>2, <3>1 DEF PrepareTurn, AtStage, Early
  <2>2. CASE ResolveTurn
    BY <1>2, <2>2 DEF ResolveTurn, AtStage, ToStage, Early
  <2>3. CASE \E ok \in BOOLEAN : RelayOnce(ok) \/ (OpenStream(ok) /\ ~ok)
    BY <1>2, <2>3 DEF RelayOnce, OpenStream, AtStage, ToStage, Early
  <2>4. CASE (\E src \in Sources : ChangeSource(src)) \/ UNCHANGED chatVars
    BY <2>4 DEF ChangeSource, chatVars
  <2> QED BY <2>1, <2>2, <2>3, <2>4
<1>4. /\ chat' \in [stage : Early \cup {"streaming", "ended", "left", "unread"}, protocol : Protocols, streamed : BOOLEAN]
      /\ chat.stage \in Early <=> chat'.stage \in Early
  BY <1>2, <1>3 DEF Early
<1>5. ChatTyped'
  BY <1>1, <1>4 DEF ChatInv, ChatTyped
<1> QED BY <1>1, <1>4, <1>5, ChatQuiet

\* The reader starts with nothing taken.
LEMMA ChatOpens == ASSUME ChatInv, OpenStream(TRUE) PROVE ChatInv'
<1>1. /\ chat' = [chat EXCEPT !.stage = "streaming"] /\ chat.stage = "resolved"
      /\ upstream' = [upstream EXCEPT !.state = "open"] /\ pump' = [NoPump EXCEPT !.step = "reading"]
      /\ pipe' = pipe /\ screen' = screen
  BY DEF OpenStream, AtStage, ToStage
<1>2. Told = <<>> /\ upstream.sent = <<>>
  BY <1>1 DEF ChatInv, OutcomeInv, Early
<1>3. /\ pump' \in Pumps /\ pump'.step = "reading" /\ pump'.buffer = <<>> /\ pump'.texts = 0 /\ pump'.thoughts = 0
      /\ pump'.terminal = FALSE /\ pump'.paused = FALSE
  <2>1. pump' = [step |-> "reading", buffer |-> <<>>, texts |-> 0, thoughts |-> 0, terminal |-> FALSE, failed |-> FALSE,
                 paused |-> FALSE]
    BY <1>1 DEF NoPump
  <2>2. pump' \in Pumps
    BY <2>1 DEF Pumps
  <2> QED BY <2>1, <2>2
<1>4. /\ upstream' \in [state : {"none", "open", "released"}, sent : Seq(Kinds)]
      /\ upstream'.sent = <<>> /\ upstream'.state = "open"
  BY <1>1, <1>2 DEF ChatInv, ChatTyped
<1>5. chat' \in [stage : Early \cup {"streaming", "ended", "left", "unread"}, protocol : Protocols, streamed : BOOLEAN]
      /\ chat'.stage \notin Early
  BY <1>1 DEF ChatInv, ChatTyped, Early
<1>6. ChatTyped'
  BY <1>1, <1>3, <1>4, <1>5 DEF ChatInv, ChatTyped
<1>7. Told' = <<>> /\ Taken' = 0
  BY <1>1, <1>2, <1>3, <1>4 DEF Told, Taken
<1>8. CountIn("text", upstream'.sent, 0) = 0 /\ CountIn("thought", upstream'.sent, 0) = 0
  <2>1. \A w : {k \in 1..0 : upstream'.sent[k] = w} = {}
    OBVIOUS
  <2> QED BY <2>1, FS_EmptySet DEF CountIn
<1>9. ReaderInv'
  <2>1. MaxReplyTexts \in Nat
    BY ChatAssumption
  <2> QED BY <1>3, <1>7, <1>8, <2>1 DEF ReaderInv
<1>10. OutcomeInv'
  BY <1>3, <1>5, <1>7 DEF OutcomeInv
<1> QED BY <1>6, <1>9, <1>10 DEF ChatInv

\* A frame arrives behind the ones that wait.
LEMMA ChatProvides ==
  ASSUME ChatInv, NEW kind \in FramesOf(chat.protocol), Provide(kind)
  PROVE  ChatInv'
<1> DEFINE u == upstream.sent
           b == pump.buffer
           f == [kind |-> kind, no |-> Len(u) + 1]
<1>1. /\ upstream.state = "open" /\ upstream' = [upstream EXCEPT !.sent = Append(u, kind)]
      /\ pump' = [pump EXCEPT !.buffer = Append(b, f), !.paused = FALSE]
      /\ chat' = chat /\ pipe' = pipe /\ screen' = screen
  BY DEF Provide
<1>2. kind \in Kinds
  BY DEF FramesOf, Kinds
<1>3. upstream \in [state : {"none", "open", "released"}, sent : Seq(Kinds)] /\ pump \in Pumps
      /\ u \in Seq(Kinds) /\ b \in Seq(Frames) /\ Len(u) \in Nat /\ Len(b) \in Nat
  BY DEF ChatInv, ChatTyped, Pumps
<1>4. f \in Frames /\ f.kind = kind /\ f.no = Len(u) + 1
  BY <1>2, <1>3 DEF Frames
<1> HIDE DEF f
<1>5. pump.step = "reading"
  BY <1>1, <1>3 DEF ChatInv, OutcomeInv, Pumps
<1>6. /\ upstream' \in [state : {"none", "open", "released"}, sent : Seq(Kinds)]
      /\ upstream'.sent = Append(u, kind) /\ upstream'.state = "open"
  <2>1. Append(u, kind) \in Seq(Kinds)
    BY <1>2, <1>3
  <2> HIDE DEF u
  <2> QED BY <1>1, <1>3, <2>1
<1>7. /\ pump' \in Pumps /\ pump'.step = "reading" /\ pump'.buffer = Append(b, f)
      /\ pump'.texts = pump.texts /\ pump'.thoughts = pump.thoughts
      /\ pump'.terminal = pump.terminal /\ pump'.paused = FALSE
  <2>1. Append(b, f) \in Seq(Frames)
    BY <1>3, <1>4
  <2> DEFINE c == Append(b, f)
  <2> HIDE DEF c
  <2>2. pump' = [pump EXCEPT !.buffer = c, !.paused = FALSE] /\ c \in Seq(Frames)
    BY <1>1, <2>1 DEF c
  <2>3. pump' \in Pumps
    BY <1>3, <2>2 DEF Pumps
  <2>4. /\ pump'.step = "reading" /\ pump'.buffer = c
        /\ pump'.texts = pump.texts /\ pump'.thoughts = pump.thoughts
    BY <1>3, <1>5, <2>2 DEF Pumps
  <2>5. pump'.terminal = pump.terminal /\ pump'.paused = FALSE
    BY <1>3, <2>2 DEF Pumps
  <2> QED BY <2>3, <2>4, <2>5 DEF c
<1>8. ChatTyped'
  BY <1>1, <1>6, <1>7 DEF ChatInv, ChatTyped
<1>9. /\ Len(upstream'.sent) = Len(u) + 1 /\ Len(pump'.buffer) = Len(b) + 1
      /\ \A k \in 1..Len(u) : upstream'.sent[k] = u[k]
      /\ upstream'.sent[Len(u) + 1] = kind
      /\ \A k \in 1..Len(b) : pump'.buffer[k] = b[k]
      /\ pump'.buffer[Len(b) + 1] = f
  BY <1>2, <1>3, <1>4, <1>6, <1>7
<1> HIDE DEF u, b
<1>10. /\ Taken \in Nat /\ Taken = Len(u) - Len(b)
       /\ \A n \in 1..Len(b) : b[n].kind = u[Taken + n] /\ b[n].no = Taken + n
       /\ \A k \in 1..Taken : u[k] # "broken"
       /\ pump.texts = CountIn("text", u, Taken) /\ pump.texts <= MaxReplyTexts
       /\ pump.thoughts = CountIn("thought", u, Taken) /\ pump.thoughts <= MaxReplyTexts
       /\ pump.terminal <=> \E k \in 1..Taken : Concludes(u[k])
       /\ \A n \in 1..Len(Told) : Told[n].no <= Taken
  BY <1>5 DEF ChatInv, ReaderInv, Taken, u, b
<1>11. Taken' = Taken /\ Told' = Told
  <2>1. Len(upstream'.sent) - Len(pump'.buffer) = Len(u) - Len(b)
    BY <1>3, <1>9
  <2> QED BY <1>1, <1>10, <2>1 DEF Taken, Told
<1>12. \A k \in 1..Taken : k \in 1..Len(u) /\ upstream'.sent[k] = u[k]
  BY <1>3, <1>9, <1>10
<1>13. /\ CountIn("text", upstream'.sent, Taken) = CountIn("text", u, Taken)
       /\ CountIn("thought", upstream'.sent, Taken) = CountIn("thought", u, Taken)
  <2> DEFINE longer == upstream'.sent
  <2>1. Taken \in Nat /\ \A k \in 1..Taken : longer[k] = u[k]
    BY <1>10, <1>12
  <2> HIDE DEF longer
  <2>2. CountIn("text", longer, Taken) = CountIn("text", u, Taken)
    BY <2>1, CountSame
  <2>3. CountIn("thought", longer, Taken) = CountIn("thought", u, Taken)
    BY <2>1, CountSame
  <2> QED BY <2>2, <2>3 DEF longer
<1>14. ASSUME NEW n \in 1..Len(pump'.buffer)
       PROVE  pump'.buffer[n].kind = upstream'.sent[Taken + n] /\ pump'.buffer[n].no = Taken + n
  <2>1. CASE n \in 1..Len(b)
    <3>1. Taken + n \in 1..Len(u)
      BY <1>3, <1>10, <2>1
    <3> QED BY <1>9, <1>10, <2>1, <3>1
  <2>2. CASE n = Len(b) + 1
    <3>1. Taken + n = Len(u) + 1
      BY <1>3, <1>10, <2>2
    <3> QED BY <1>4, <1>9, <2>2, <3>1
  <2> QED BY <1>3, <1>9, <2>1, <2>2
<1>15. ReaderInv'
  <2>1. pump'.terminal <=> \E k \in 1..Taken : Concludes(upstream'.sent[k])
    BY <1>7, <1>10, <1>12
  <2>2. \A k \in 1..Taken : upstream'.sent[k] # "broken"
    BY <1>10, <1>12
  <2> QED BY <1>7, <1>10, <1>11, <1>13, <1>14, <2>1, <2>2 DEF ReaderInv
<1>16. OutcomeInv'
  <2>1. \A n \in 1..Len(Told) : ~Outcome(Told[n])
    BY <1>5 DEF ChatInv, OutcomeInv
  <2> QED BY <1>1, <1>5, <1>7, <1>11, <2>1 DEF ChatInv, OutcomeInv
<1> QED BY <1>8, <1>15, <1>16 DEF ChatInv

\* What the reader knows is what there is to know of the frames it took.
LEMMA ReaderKnows ==
  ASSUME ChatInv, pump.step = "reading", pump.terminal
  PROVE  AnswerEnded
<1> DEFINE u == upstream.sent
<1>1. /\ Taken \in Nat /\ Taken <= Len(u) /\ Len(u) \in Nat
      /\ pump.texts = CountIn("text", u, Taken) /\ pump.texts <= MaxReplyTexts
      /\ pump.thoughts = CountIn("thought", u, Taken) /\ pump.thoughts <= MaxReplyTexts
      /\ \A k \in 1..Taken : u[k] # "broken"
  <2>1. Len(u) \in Nat /\ Len(pump.buffer) \in Nat
    BY DEF ChatInv, ChatTyped, Pumps
  <2>2. /\ Taken \in Nat
        /\ pump.texts = CountIn("text", u, Taken) /\ pump.texts <= MaxReplyTexts
        /\ pump.thoughts = CountIn("thought", u, Taken) /\ pump.thoughts <= MaxReplyTexts
        /\ \A k \in 1..Taken : u[k] # "broken"
    BY DEF ChatInv, ReaderInv
  <2>3. Taken <= Len(u)
    <3>1. Taken = Len(u) - Len(pump.buffer)
      BY DEF Taken
    <3> HIDE DEF u
    <3> QED BY <2>1, <3>1
  <2> QED BY <2>1, <2>2, <2>3
<1>2. PICK k \in 1..Taken : Concludes(u[k])
  BY DEF ChatInv, ReaderInv
<1>3. \A w : CountIn(w, u, k) <= CountIn(w, u, Taken) /\ CountIn(w, u, k) \in Nat /\ CountIn(w, u, Taken) \in Nat
  BY <1>1, <1>2, CountGrow, CountNext
<1>4. MaxReplyTexts \in Nat /\ CountIn("text", u, k) <= MaxReplyTexts /\ CountIn("thought", u, k) <= MaxReplyTexts
  BY <1>1, <1>3, ChatAssumption
<1>5. k \in 1..Len(u) /\ \A j \in 1..k : u[j] # "broken"
  BY <1>1, <1>2
<1> QED BY <1>2, <1>4, <1>5 DEF AnswerEnded, CountIn

\* The loop is left: nothing more is sent, and the reader knows.
LEMMA ChatStops ==
  ASSUME ChatInv, pump.step = "reading", NEW failed \in BOOLEAN, StopReading(failed),
         chat' = chat, pipe' = pipe, screen' = screen, AnswerEnded => pump.terminal
  PROVE  ChatInv'
<1>1. /\ pump' = [pump EXCEPT !.step = "ending", !.failed = failed, !.buffer = <<>>]
      /\ upstream' = [upstream EXCEPT !.state = "released"]
  BY DEF StopReading
<1>2. pump \in Pumps /\ upstream \in [state : {"none", "open", "released"}, sent : Seq(Kinds)]
  BY DEF ChatInv, ChatTyped
<1>3. /\ upstream' \in [state : {"none", "open", "released"}, sent : Seq(Kinds)]
      /\ upstream'.sent = upstream.sent /\ upstream'.state = "released"
  BY <1>1, <1>2
<1>4. pump' \in Pumps
  <2>1. <<>> \in Seq(Frames)
    OBVIOUS
  <2> QED BY <1>1, <1>2, <2>1 DEF Pumps
<1>5. pump'.step = "ending"
  BY <1>1, <1>2 DEF Pumps
<1>6. pump'.terminal = pump.terminal
  BY <1>1, <1>2 DEF Pumps
<1>7. ChatTyped'
  BY <1>3, <1>4 DEF ChatInv, ChatTyped
<1>8. Told' = Told /\ (AnswerEnded' <=> AnswerEnded)
  BY <1>3 DEF Told, AnswerEnded
<1>9. pump.terminal <=> AnswerEnded
  BY ReaderKnows
<1>10. ReaderInv'
  BY <1>5 DEF ReaderInv
<1>11. OutcomeInv'
  <2>1. \A n \in 1..Len(Told) : ~Outcome(Told[n])
    BY DEF ChatInv, OutcomeInv
  <2> QED BY <1>3, <1>5, <1>6, <1>8, <1>9, <2>1 DEF ChatInv, OutcomeInv
<1> QED BY <1>7, <1>10, <1>11 DEF ChatInv

\* The next frame is taken, and what it says is passed on.
LEMMA ChatTakes ==
  ASSUME ChatInv, pump.step = "reading", pump.buffer # <<>>,
         chat' = chat, upstream' = upstream, screen' = screen,
         pump' \in Pumps, pump'.step = "reading", pump'.buffer = Tail(pump.buffer),
         LET f == Head(pump.buffer)
         IN /\ f.kind # "broken"
            /\ pump'.terminal <=> pump.terminal \/ Concludes(f.kind)
            /\ IF f.kind = "text" THEN pump'.texts = pump.texts + 1 /\ pump.texts < MaxReplyTexts
               ELSE pump'.texts = pump.texts
            /\ IF f.kind = "thought" THEN pump'.thoughts = pump.thoughts + 1 /\ pump.thoughts < MaxReplyTexts
               ELSE pump'.thoughts = pump.thoughts
            /\ \/ pipe' = pipe
               \/ \E w \in {"text", "reasoning"} : pipe' = Append(pipe, [kind |-> w, no |-> f.no]),
         pump'.paused => pump'.terminal
  PROVE  ChatInv'
<1> DEFINE u == upstream.sent
           b == pump.buffer
           f == Head(b)
<1>1. /\ pump \in Pumps /\ b \in Seq(Frames) /\ u \in Seq(Kinds) /\ pipe \in Seq(Events)
      /\ screen.got \in Seq(Events)
      /\ Len(u) \in Nat /\ Len(b) \in Nat /\ Len(b) >= 1
  <2>1. b \in Seq(Frames) /\ u \in Seq(Kinds)
    BY DEF ChatInv, ChatTyped, Pumps
  <2>2. Len(b) >= 1 /\ Len(b) \in Nat /\ Len(u) \in Nat
    BY <2>1, EmptySeq
  <2> QED BY <2>1, <2>2 DEF ChatInv, ChatTyped
<1>2. /\ Tail(b) \in Seq(Frames) /\ Len(Tail(b)) = Len(b) - 1 /\ f = b[1]
      /\ \A n \in 1..(Len(b) - 1) : Tail(b)[n] = b[n + 1]
  BY <1>1, HeadTailProperties
<1>3. /\ Taken \in Nat /\ Taken = Len(u) - Len(b)
      /\ \A n \in 1..Len(b) : b[n].kind = u[Taken + n] /\ b[n].no = Taken + n
      /\ \A k \in 1..Taken : u[k] # "broken"
      /\ pump.texts = CountIn("text", u, Taken) /\ pump.texts <= MaxReplyTexts
      /\ pump.thoughts = CountIn("thought", u, Taken) /\ pump.thoughts <= MaxReplyTexts
      /\ pump.terminal <=> \E k \in 1..Taken : Concludes(u[k])
      /\ \A n \in 1..Len(Told) : Told[n].no <= Taken
  BY DEF ChatInv, ReaderInv, Taken
<1>4. f.kind = u[Taken + 1] /\ f.no = Taken + 1
  <2>1. 1 \in 1..Len(b)
    BY <1>1
  <2> HIDE DEF u, b, f
  <2> QED BY <1>2, <1>3, <2>1
<1> DEFINE x == f.kind
           y == f.no
<1>5. /\ x # "broken" /\ (pump'.terminal <=> pump.terminal \/ Concludes(x))
      /\ IF x = "text" THEN pump'.texts = pump.texts + 1 /\ pump.texts < MaxReplyTexts
         ELSE pump'.texts = pump.texts
      /\ IF x = "thought" THEN pump'.thoughts = pump.thoughts + 1 /\ pump.thoughts < MaxReplyTexts
         ELSE pump'.thoughts = pump.thoughts
      /\ \/ pipe' = pipe
         \/ \E w \in {"text", "reasoning"} : pipe' = Append(pipe, [kind |-> w, no |-> y])
  OBVIOUS
<1> HIDE DEF x, y
<1>6. x = u[Taken + 1] /\ y = Taken + 1
  BY <1>4 DEF x, y
<1> HIDE DEF u, b, f
<1>7. Taken' = Taken + 1
  <2>1. Len(u) - (Len(b) - 1) = Len(u) - Len(b) + 1
    BY <1>1
  <2>2. Taken' = Len(u) - Len(Tail(b))
    BY DEF Taken, u, b
  <2> QED BY <1>2, <1>3, <2>1, <2>2
<1>8. \A k \in 1..(Taken + 1) : k \in 1..Taken \/ k = Taken + 1
  BY <1>3
<1>9. \A w : /\ CountIn(w, u, Taken) \in Nat
             /\ w = x => CountIn(w, u, Taken + 1) = CountIn(w, u, Taken) + 1
             /\ w # x => CountIn(w, u, Taken + 1) = CountIn(w, u, Taken)
  <2>1. u[Taken + 1] = x /\ Taken \in Nat
    BY <1>3, <1>6
  <2> HIDE DEF Taken
  <2> QED BY <2>1, CountNext
<1>18. /\ pump'.texts = CountIn("text", u, Taken + 1) /\ pump'.texts <= MaxReplyTexts
       /\ pump'.thoughts = CountIn("thought", u, Taken + 1) /\ pump'.thoughts <= MaxReplyTexts
  BY <1>3, <1>5, <1>9, ChatAssumption
<1>10. pump'.terminal <=> \E k \in 1..(Taken + 1) : Concludes(u[k])
  <2>1. Taken + 1 \in 1..(Taken + 1) /\ \A k \in 1..Taken : k \in 1..(Taken + 1)
    BY <1>3
  <2> QED BY <1>3, <1>5, <1>6, <1>8, <2>1
<1>11. \A k \in 1..(Taken + 1) : u[k] # "broken"
  BY <1>3, <1>5, <1>6, <1>8
<1>12. ASSUME NEW n \in 1..Len(Tail(b))
       PROVE  Tail(b)[n].kind = u[(Taken + 1) + n] /\ Tail(b)[n].no = (Taken + 1) + n
  <2>1. n \in 1..(Len(b) - 1) /\ n + 1 \in 1..Len(b) /\ Taken + (n + 1) = (Taken + 1) + n
    BY <1>1, <1>2, <1>3
  <2> QED BY <1>2, <1>3, <2>1
<1>13. \A n \in 1..Len(Told) : ~Outcome(Told[n])
  BY DEF ChatInv, OutcomeInv
<1>14. /\ pipe' \in Seq(Events)
       /\ \A n \in 1..Len(Told') : Told'[n].no <= Taken + 1 /\ ~Outcome(Told'[n])
       /\ \A i, j \in 1..Len(Told') : i < j /\ ~Outcome(Told'[j]) => Told'[i].no < Told'[j].no
  <2>0. Told \in Seq(Events) /\ Len(Told) \in Nat /\ \A n \in 1..Len(Told) : Told[n] \in Events /\ Told[n].no \in Nat
    <3>1. Told \in Seq(Events) /\ Len(Told) \in Nat
      BY ToldPrefix DEF ChatInv
    <3>2. \A n \in 1..Len(Told) : Told[n] \in Events
      BY <3>1
    <3> QED BY <3>1, <3>2 DEF Events
  <2>1. CASE pipe' = pipe
    <3>1. Told' = Told
      BY <2>1 DEF Told
    <3>2. \A n \in 1..Len(Told) : Told[n].no <= Taken + 1
      BY <1>3, <2>0
    <3> QED BY <1>1, <1>13, <2>1, <3>1, <3>2 DEF ChatInv, OutcomeInv
  <2>2. CASE \E w \in {"text", "reasoning"} : pipe' = Append(pipe, [kind |-> w, no |-> y])
    <3>1. PICK w \in {"text", "reasoning"} : pipe' = Append(pipe, [kind |-> w, no |-> y])
      BY <2>2
    <3> DEFINE e == [kind |-> w, no |-> y]
    <3>2. e \in Events /\ ~Outcome(e) /\ e.no = Taken + 1
      BY <1>3, <1>6, <3>1 DEF Events, Outcome
    <3>3. Told' = screen.got \o Append(pipe, e)
      BY <3>1 DEF Told
    <3> HIDE DEF e
    <3>4. /\ Len(Told') = Len(Told) + 1 /\ Told'[Len(Told) + 1] = e
          /\ \A n \in 1..Len(Told) : Told'[n] = Told[n]
      <4>1. Told = screen.got \o pipe
        BY DEF Told
      <4>2. OneMore(Told, Told', e)
        BY <1>1, <3>2, <3>3, <4>1, ToldOneMore
      <4> QED BY <4>2 DEF OneMore
    <3>5. pipe' \in Seq(Events)
      BY <1>1, <3>1, <3>2 DEF e
    <3>6. \A n \in 1..Len(Told') : n \in 1..Len(Told) \/ n = Len(Told) + 1
      BY <2>0, <3>4
    <3>7. \A n \in 1..Len(Told) : Told[n].no < Taken + 1
      BY <1>3, <2>0
    <3>8. \A n \in 1..Len(Told') : Told'[n].no <= Taken + 1 /\ ~Outcome(Told'[n])
      <4>1. ASSUME NEW n \in 1..Len(Told)
            PROVE  Told'[n].no <= Taken + 1 /\ ~Outcome(Told'[n])
        BY <1>3, <1>13, <2>0, <3>4, <3>7
      <4>2. Told'[Len(Told) + 1].no <= Taken + 1 /\ ~Outcome(Told'[Len(Told) + 1])
        BY <1>3, <3>2, <3>4
      <4> QED BY <3>6, <4>1, <4>2
    <3>9. ASSUME NEW i \in 1..Len(Told'), NEW j \in 1..Len(Told'), i < j
          PROVE  Told'[i].no < Told'[j].no
      <4>1. i \in 1..Len(Told)
        BY <2>0, <3>4, <3>9
      <4>2. CASE j \in 1..Len(Told)
        <5>1. Told[i].no < Told[j].no
          BY <1>13, <3>9, <4>1, <4>2 DEF ChatInv, OutcomeInv
        <5> QED BY <3>4, <4>1, <4>2, <5>1
      <4>3. CASE j = Len(Told) + 1
        BY <3>2, <3>4, <3>7, <4>1, <4>3
      <4> QED BY <3>6, <4>2, <4>3
    <3> QED BY <3>5, <3>8, <3>9
  <2> QED BY <1>5, <2>1, <2>2
<1>15. ChatTyped'
  BY <1>14 DEF ChatInv, ChatTyped
<1>16. ReaderInv'
  <2>1. upstream'.sent = u /\ pump'.buffer = Tail(b) /\ Taken + 1 \in Nat
    BY <1>3 DEF u, b
  <2>2. \A n \in 1..Len(pump'.buffer) :
          pump'.buffer[n].kind = upstream'.sent[Taken' + n] /\ pump'.buffer[n].no = Taken' + n
    BY <1>7, <1>12, <2>1
  <2>3. /\ pump'.texts = CountIn("text", upstream'.sent, Taken') /\ pump'.texts <= MaxReplyTexts
        /\ pump'.thoughts = CountIn("thought", upstream'.sent, Taken') /\ pump'.thoughts <= MaxReplyTexts
    BY <1>7, <1>18, <2>1
  <2>4. pump'.terminal <=> \E k \in 1..Taken' : Concludes(upstream'.sent[k])
    BY <1>7, <1>10, <2>1
  <2>5. \A k \in 1..Taken' : upstream'.sent[k] # "broken"
    BY <1>7, <1>11, <2>1
  <2>6. \A n \in 1..Len(Told') : Told'[n].no <= Taken'
    BY <1>7, <1>14
  <2> QED BY <1>7, <2>1, <2>2, <2>3, <2>4, <2>5, <2>6 DEF ReaderInv
<1>17. OutcomeInv'
  <2>1. AnswerEnded' <=> AnswerEnded
    BY DEF AnswerEnded
  <2> QED BY <1>14 DEF ChatInv, OutcomeInv
<1> QED BY <1>15, <1>16, <1>17 DEF ChatInv

\* One frame of the buffer.
LEMMA ChatDrains == ASSUME ChatInv, DrainFrames PROVE ChatInv'
<1> DEFINE f == Head(pump.buffer)
           out == Delta(f.kind)
           rest == [pump EXCEPT !.buffer = Tail(pump.buffer), !.paused = (f.kind = "marker")]
<1>1. pump.step = "reading" /\ pump.buffer # <<>> /\ chat' = chat /\ screen' = screen
  BY DEF DrainFrames, Reading
<1>2. pump \in Pumps /\ pump.buffer \in Seq(Frames) /\ Len(pump.buffer) \in Nat
  BY DEF ChatInv, ChatTyped, Pumps
<1>3. f \in Frames /\ f = pump.buffer[1] /\ Tail(pump.buffer) \in Seq(Frames) /\ 1 \in 1..Len(pump.buffer)
  BY <1>1, <1>2, HeadTailProperties
<1>4. f.kind \in Kinds
  BY <1>3 DEF Frames
<1>5. /\ out = "text" <=> f.kind = "text"
      /\ out = "terminal" <=> Concludes(f.kind)
      /\ out = "reasoning" <=> f.kind = "thought"
  BY <1>4, DeltaOf
<1>6. \/ /\ f.kind = "broken" \/ Overflows(out)
         /\ StopReading(TRUE) /\ pipe' = pipe
      \/ /\ out = "text" /\ pump.texts # MaxReplyTexts
         /\ pump' = [rest EXCEPT !.texts = rest.texts + 1]
         /\ pipe' = pipe \/ pipe' = Append(pipe, [kind |-> "text", no |-> f.no])
         /\ upstream' = upstream
      \/ /\ out = "reasoning" /\ pump.thoughts # MaxReplyTexts
         /\ pump' = [rest EXCEPT !.thoughts = rest.thoughts + 1]
         /\ pipe' = pipe \/ pipe' = Append(pipe, [kind |-> "reasoning", no |-> f.no])
         /\ upstream' = upstream
      \/ /\ f.kind # "broken" /\ out \in {"terminal", "none"}
         /\ pump' = [rest EXCEPT !.terminal = (rest.terminal \/ out = "terminal")]
         /\ upstream' = upstream /\ pipe' = pipe
  BY DEF DrainFrames, Overflows, Sent
<1>7. rest \in Pumps
  <2>1. (f.kind = "marker") \in BOOLEAN
    OBVIOUS
  <2> QED BY <1>2, <1>3, <2>1 DEF Pumps
<1>8. /\ rest.step = "reading" /\ rest.buffer = Tail(pump.buffer) /\ rest.texts = pump.texts
      /\ rest.thoughts = pump.thoughts
  BY <1>1, <1>2 DEF Pumps
<1>9. rest.terminal = pump.terminal /\ rest.paused = (f.kind = "marker")
  BY <1>2 DEF Pumps
<1>14. /\ pump.texts \in Nat /\ pump.texts <= MaxReplyTexts
       /\ pump.thoughts \in Nat /\ pump.thoughts <= MaxReplyTexts
  BY <1>1, <1>2 DEF ChatInv, ReaderInv, Pumps
<1> HIDE DEF rest, out
<1>10. CASE /\ f.kind = "broken" \/ Overflows(out)
            /\ StopReading(TRUE) /\ pipe' = pipe
  <2> DEFINE u == upstream.sent
  <2>1. /\ Taken \in Nat /\ Len(u) \in Nat /\ f.kind = u[Taken + 1]
        /\ pump.texts = CountIn("text", u, Taken) /\ pump.thoughts = CountIn("thought", u, Taken)
        /\ (pump.terminal <=> \E k \in 1..Taken : Concludes(u[k]))
    <3>1. Len(u) \in Nat
      BY DEF ChatInv, ChatTyped
    <3> QED BY <1>1, <1>3, <3>1 DEF ChatInv, ReaderInv
  <2>2. ASSUME AnswerEnded PROVE pump.terminal
    <3>1. PICK i \in 1..Len(u) : /\ Concludes(u[i]) /\ (\A k \in 1..i : u[k] # "broken")
                                 /\ \A w \in {"text", "thought"} : CountIn(w, u, i) <= MaxReplyTexts
      BY <2>2 DEF AnswerEnded, CountIn
    <3>2. CASE i <= Taken
      BY <2>1, <3>1, <3>2
    <3>3. CASE ~(i <= Taken)
      <4>1. Taken + 1 \in 1..i /\ Taken + 1 <= i /\ Taken + 1 \in Nat /\ i \in Nat
        BY <2>1, <3>1, <3>3
      <4>2. f.kind # "broken"
        BY <2>1, <3>1, <4>1
      <4>3. PICK w \in {"text", "thought"} : u[Taken + 1] = w /\ CountIn(w, u, Taken) = MaxReplyTexts
        BY <1>5, <1>10, <2>1, <4>2 DEF Overflows
      <4>4. CountIn(w, u, Taken + 1) = MaxReplyTexts + 1 /\ MaxReplyTexts \in Nat
        <5>1. CountIn(w, u, Taken + 1) = CountIn(w, u, Taken) + 1
          BY <2>1, <4>3, CountNext
        <5> QED BY <4>3, <5>1, ChatAssumption
      <4>5. CountIn(w, u, Taken + 1) <= CountIn(w, u, i) /\ CountIn(w, u, i) \in Nat
        BY <4>1, CountGrow, CountNext
      <4> QED BY <3>1, <4>4, <4>5
    <3> QED BY <3>2, <3>3
  <2> QED BY <1>1, <1>10, <2>2, ChatStops
<1>11. CASE /\ out = "text" /\ pump.texts # MaxReplyTexts
            /\ pump' = [rest EXCEPT !.texts = rest.texts + 1]
            /\ pipe' = pipe \/ pipe' = Append(pipe, [kind |-> "text", no |-> f.no])
            /\ upstream' = upstream
  <2>1. f.kind = "text" /\ ~Concludes(f.kind)
    BY <1>5, <1>11 DEF Concludes
  <2>2. pump' \in Pumps
    <3>1. rest.texts + 1 \in Nat
      BY <1>7 DEF Pumps
    <3> DEFINE n == rest.texts + 1
    <3>2. pump' = [rest EXCEPT !.texts = n] /\ n \in Nat
      BY <1>11, <3>1
    <3> HIDE DEF n
    <3> QED BY <1>7, <3>2 DEF Pumps
  <2>3. /\ pump'.step = "reading" /\ pump'.buffer = Tail(pump.buffer)
        /\ pump'.texts = pump.texts + 1 /\ pump'.thoughts = pump.thoughts
    BY <1>7, <1>8, <1>11 DEF Pumps
  <2>4. pump'.terminal = rest.terminal /\ pump'.paused = rest.paused
    BY <1>7, <1>11 DEF Pumps
  <2>5. (pump'.terminal <=> pump.terminal) /\ ~pump'.paused
    BY <1>9, <2>1, <2>4
  <2>6. pump.texts < MaxReplyTexts
    BY <1>14, <1>11, ChatAssumption
  <2> QED BY <1>1, <1>11, <2>1, <2>2, <2>3, <2>5, <2>6, ChatTakes
<1>12. CASE /\ out = "reasoning" /\ pump.thoughts # MaxReplyTexts
            /\ pump' = [rest EXCEPT !.thoughts = rest.thoughts + 1]
            /\ pipe' = pipe \/ pipe' = Append(pipe, [kind |-> "reasoning", no |-> f.no])
            /\ upstream' = upstream
  <2>1. f.kind = "thought" /\ ~Concludes(f.kind)
    BY <1>5, <1>12 DEF Concludes
  <2>2. pump' \in Pumps
    <3>1. rest.thoughts + 1 \in Nat
      BY <1>7 DEF Pumps
    <3> DEFINE n == rest.thoughts + 1
    <3>2. pump' = [rest EXCEPT !.thoughts = n] /\ n \in Nat
      BY <1>12, <3>1
    <3> HIDE DEF n
    <3> QED BY <1>7, <3>2 DEF Pumps
  <2>3. /\ pump'.step = "reading" /\ pump'.buffer = Tail(pump.buffer)
        /\ pump'.thoughts = pump.thoughts + 1 /\ pump'.texts = pump.texts
    BY <1>7, <1>8, <1>12 DEF Pumps
  <2>4. pump'.terminal = rest.terminal /\ pump'.paused = rest.paused
    BY <1>7, <1>12 DEF Pumps
  <2>5. (pump'.terminal <=> pump.terminal) /\ ~pump'.paused
    BY <1>9, <2>1, <2>4
  <2>6. pump.thoughts < MaxReplyTexts
    BY <1>14, <1>12, ChatAssumption
  <2> QED BY <1>1, <1>12, <2>1, <2>2, <2>3, <2>5, <2>6, ChatTakes
<1>13. CASE /\ f.kind # "broken" /\ out \in {"terminal", "none"}
            /\ pump' = [rest EXCEPT !.terminal = (rest.terminal \/ out = "terminal")]
            /\ upstream' = upstream /\ pipe' = pipe
  <2>1. /\ f.kind # "text" /\ f.kind # "thought" /\ (out = "terminal" <=> Concludes(f.kind))
        /\ (f.kind = "marker" => Concludes(f.kind))
    BY <1>5, <1>13 DEF Concludes
  <2> DEFINE z == rest.terminal \/ out = "terminal"
  <2>2. z \in BOOLEAN
    OBVIOUS
  <2>3. pump' = [rest EXCEPT !.terminal = z]
    BY <1>13
  <2>4. z <=> (pump.terminal \/ Concludes(f.kind))
    BY <1>9, <2>1
  <2> HIDE DEF z
  <2>5. pump' \in Pumps
    BY <1>7, <2>2, <2>3 DEF Pumps
  <2>6. /\ pump'.step = "reading" /\ pump'.buffer = Tail(pump.buffer)
        /\ pump'.texts = pump.texts /\ pump'.thoughts = pump.thoughts
    BY <1>7, <1>8, <2>3 DEF Pumps
  <2>7. pump'.terminal = z /\ pump'.paused = rest.paused
    BY <1>7, <2>3 DEF Pumps
  <2>8. (pump'.terminal <=> pump.terminal \/ Concludes(f.kind)) /\ (pump'.paused => pump'.terminal)
    BY <1>9, <2>1, <2>4, <2>7
  <2> QED BY <1>1, <1>13, <2>1, <2>5, <2>6, <2>8, ChatTakes
<1> QED BY <1>6, <1>10, <1>11, <1>12, <1>13

\* The reader waits for the next chunk and there is none.
LEMMA ChatEnds == ASSUME ChatInv, BodyOver \/ Interrupted PROVE ChatInv'
<1>1. /\ pump.step = "reading" /\ (pump.buffer = <<>> \/ pump.paused)
      /\ chat' = chat /\ pipe' = pipe /\ screen' = screen
      /\ \E failed \in BOOLEAN : StopReading(failed)
  BY DEF BodyOver, Interrupted, AwaitsChunk, Reading
<1>2. ASSUME AnswerEnded PROVE pump.terminal
  <2>1. CASE pump.paused
    BY <1>1, <2>1 DEF ChatInv, ReaderInv
  <2>2. CASE pump.buffer = <<>>
    <3>1. Taken = Len(upstream.sent)
      <4>1. Len(upstream.sent) \in Nat
        BY DEF ChatInv, ChatTyped
      <4> QED BY <2>2, <4>1 DEF Taken
    <3> QED BY <1>1, <1>2, <3>1 DEF AnswerEnded, ChatInv, ReaderInv
  <2> QED BY <1>1, <2>1, <2>2
<1> QED BY <1>1, <1>2, ChatStops

\* The outcome is sent.
LEMMA ChatReports == ASSUME ChatInv, ReportEnd PROVE ChatInv'
<1> DEFINE e == [kind |-> VerdictOf, no |-> 0]
<1>1. /\ pump.step = "ending" /\ (pipe' = pipe \/ pipe' = Append(pipe, e)) /\ pump' = [NoPump EXCEPT !.step = "over"]
      /\ chat' = chat /\ upstream' = upstream /\ screen' = screen
  BY DEF ReportEnd, Sent
<1>2. pump' \in Pumps /\ pump'.step = "over"
  <2>1. pump' = [step |-> "over", buffer |-> <<>>, texts |-> 0, thoughts |-> 0, terminal |-> FALSE, failed |-> FALSE,
                 paused |-> FALSE]
    BY <1>1 DEF NoPump
  <2>2. pump' \in Pumps
    BY <2>1 DEF Pumps
  <2> QED BY <2>1, <2>2
<1>3. e \in Events /\ Outcome(e) /\ e.no = 0 /\ (e.kind = "done" <=> AnswerEnded)
  <2>1. VerdictOf \in {"done", "error"} /\ (VerdictOf = "done" <=> pump.terminal)
    BY DEF VerdictOf
  <2>2. pump.terminal <=> AnswerEnded
    BY <1>1 DEF ChatInv, OutcomeInv
  <2>3. e \in Events /\ Outcome(e) /\ e.no = 0 /\ e.kind = VerdictOf
    BY <2>1 DEF Events, Outcome
  <2> QED BY <2>1, <2>2, <2>3
<1> HIDE DEF e
<1>4. pipe \in Seq(Events) /\ screen.got \in Seq(Events) /\ Told = screen.got \o pipe
      /\ Told' = screen.got \o pipe'
  BY <1>1 DEF ChatInv, ChatTyped, Told
<1>5. \A n \in 1..Len(Told) : ~Outcome(Told[n])
  BY <1>1 DEF ChatInv, OutcomeInv
<1>6. ChatTyped'
  <2>1. CASE pipe' = pipe
    BY <1>1, <1>2, <2>1 DEF ChatInv, ChatTyped
  <2>2. CASE pipe' = Append(pipe, e)
    <3>1. pipe' \in Seq(Events)
      BY <1>3, <1>4, <2>2
    <3> QED BY <1>1, <1>2, <3>1 DEF ChatInv, ChatTyped
  <2> QED BY <1>1, <2>1, <2>2
<1>7. ReaderInv'
  BY <1>2 DEF ReaderInv
<1>8. AnswerEnded' <=> AnswerEnded
  BY <1>1 DEF AnswerEnded
<1>9. CASE pipe' = pipe
  <2>1. Told' = Told
    BY <1>4, <1>9
  <2>2. OutcomeInv'
    BY <1>1, <1>2, <1>5, <1>8, <2>1 DEF ChatInv, OutcomeInv
  <2> QED BY <1>6, <1>7, <2>2 DEF ChatInv
<1>10. CASE pipe' = Append(pipe, e)
  <2>1. /\ Len(Told') = Len(Told) + 1 /\ Told'[Len(Told) + 1] = e /\ Len(Told) \in Nat
        /\ \A n \in 1..Len(Told) : Told'[n] = Told[n]
    <3>1. OneMore(Told, Told', e)
      BY <1>3, <1>4, <1>10, ToldOneMore
    <3> QED BY <3>1 DEF OneMore
  <2>2. \A n \in 1..Len(Told') : n \in 1..Len(Told) \/ n = Len(Told')
    BY <2>1
  <2>3. \A n \in 1..Len(Told') : Outcome(Told'[n]) =>
          n = Len(Told') /\ (Told'[n].kind = "done" <=> AnswerEnded)
    BY <1>3, <1>5, <2>1, <2>2
  <2>4. ASSUME NEW i \in 1..Len(Told'), NEW j \in 1..Len(Told'), i < j, ~Outcome(Told'[j])
        PROVE  Told'[i].no < Told'[j].no
    <3>1. j \in 1..Len(Told)
      BY <1>3, <2>1, <2>2, <2>4
    <3>2. i \in 1..Len(Told)
      BY <2>1, <2>4, <3>1
    <3>3. Told[i].no < Told[j].no
      BY <1>5, <2>4, <3>1, <3>2 DEF ChatInv, OutcomeInv
    <3> QED BY <2>1, <3>1, <3>2, <3>3
  <2>5. OutcomeInv'
    BY <1>1, <1>2, <1>8, <2>3, <2>4 DEF ChatInv, OutcomeInv
  <2> QED BY <1>6, <1>7, <2>5 DEF ChatInv
<1> QED BY <1>1, <1>9, <1>10

\* The dashboard reads an event: what it is told is the same.
LEMMA ChatShows == ASSUME ChatInv, Show PROVE ChatInv'
<1>1. /\ chat.stage = "streaming" /\ pipe # <<>> /\ screen' = [screen EXCEPT !.got = Append(screen.got, Head(pipe))]
      /\ pipe' = Tail(pipe) /\ upstream' = upstream /\ pump' = pump
      /\ chat' = chat \/ chat' = [chat EXCEPT !.stage = "ended"]
  BY DEF Show, AtStage, ToStage
<1>2. /\ screen \in [got : Seq(Events), open : BOOLEAN] /\ pipe \in Seq(Events)
      /\ screen.got \in Seq(Events)
      /\ chat \in [stage : Early \cup {"streaming", "ended", "left", "unread"}, protocol : Protocols, streamed : BOOLEAN]
  BY DEF ChatInv, ChatTyped
<1>3. Head(pipe) \in Events /\ Tail(pipe) \in Seq(Events)
  BY <1>1, <1>2, HeadTailProperties
<1>4. Append(screen.got, Head(pipe)) \in Seq(Events)
  BY <1>2, <1>3
<1>5. screen' \in [got : Seq(Events), open : BOOLEAN] /\ screen'.got = Append(screen.got, Head(pipe))
  BY <1>1, <1>2, <1>4
<1>6. /\ chat' \in [stage : Early \cup {"streaming", "ended", "left", "unread"}, protocol : Protocols, streamed : BOOLEAN]
      /\ chat.stage \notin Early /\ chat'.stage \notin Early
  BY <1>1, <1>2 DEF Early
<1>7. ChatTyped'
  BY <1>1, <1>3, <1>5, <1>6 DEF ChatInv, ChatTyped
<1>8. Told' = Told
  <2>1. Append(screen.got, Head(pipe)) \o Tail(pipe) = screen.got \o pipe
    BY <1>1, <1>2, ToldMoves
  <2> QED BY <1>1, <1>5, <2>1 DEF Told
<1>9. Taken' = Taken /\ (AnswerEnded' <=> AnswerEnded)
  BY <1>1 DEF Taken, AnswerEnded
<1>10. ReaderInv'
  BY <1>1, <1>8, <1>9 DEF ChatInv, ReaderInv
<1>11. OutcomeInv'
  BY <1>1, <1>6, <1>8, <1>9 DEF ChatInv, OutcomeInv
<1> QED BY <1>7, <1>10, <1>11 DEF ChatInv

\* The dashboard goes away: what it was told is a part of what was sent.
LEMMA ChatLeaves == ASSUME ChatInv, Disconnect PROVE ChatInv'
<1>1. /\ chat.stage = "streaming" /\ screen' = [screen EXCEPT !.open = FALSE]
      /\ chat' = [chat EXCEPT !.stage = "left"]
      /\ pump' = [NoPump EXCEPT !.step = "over"] /\ pipe' = <<>>
      /\ upstream' = [upstream EXCEPT !.state = "released"]
  BY DEF Disconnect, Leaves, AtStage, ToStage
<1>2. /\ screen \in [got : Seq(Events), open : BOOLEAN] /\ screen.got \in Seq(Events)
      /\ upstream \in [state : {"none", "open", "released"}, sent : Seq(Kinds)]
      /\ chat \in [stage : Early \cup {"streaming", "ended", "left", "unread"}, protocol : Protocols, streamed : BOOLEAN]
  BY DEF ChatInv, ChatTyped
<1>3. pump' \in Pumps /\ pump'.step = "over"
  <2>1. pump' = [step |-> "over", buffer |-> <<>>, texts |-> 0, thoughts |-> 0, terminal |-> FALSE, failed |-> FALSE,
                 paused |-> FALSE]
    BY <1>1 DEF NoPump
  <2>2. pump' \in Pumps
    BY <2>1 DEF Pumps
  <2> QED BY <2>1, <2>2
<1>4. screen' \in [got : Seq(Events), open : BOOLEAN] /\ screen'.got = screen.got
  BY <1>1, <1>2
<1>5. /\ upstream' \in [state : {"none", "open", "released"}, sent : Seq(Kinds)]
      /\ upstream'.sent = upstream.sent /\ upstream'.state = "released"
  BY <1>1, <1>2
<1>6. /\ chat' \in [stage : Early \cup {"streaming", "ended", "left", "unread"}, protocol : Protocols, streamed : BOOLEAN]
      /\ chat'.stage \notin Early
  BY <1>1, <1>2 DEF Early
<1>7. ChatTyped'
  BY <1>1, <1>3, <1>4, <1>5, <1>6 DEF ChatTyped
<1>8. Told' = screen.got
  BY <1>1, <1>2, <1>4 DEF Told
<1>9. /\ Len(Told) \in Nat /\ Len(screen.got) \in Nat
      /\ Len(screen.got) <= Len(Told) /\ \A n \in 1..Len(screen.got) : Told[n] = screen.got[n]
  BY ToldPrefix DEF ChatInv
<1>10. \A n \in 1..Len(screen.got) : n \in 1..Len(Told)
  BY <1>9
<1>11. AnswerEnded' <=> AnswerEnded
  BY <1>5 DEF AnswerEnded
<1>12. ReaderInv'
  BY <1>3 DEF ReaderInv
<1>13. OutcomeInv'
  <2>1. \A n \in 1..Len(Told') : Outcome(Told'[n]) =>
          n = Len(Told') /\ (Told'[n].kind = "done" <=> AnswerEnded)
    <3>1. ASSUME NEW n \in 1..Len(screen.got), Outcome(screen.got[n])
          PROVE  n = Len(screen.got) /\ (screen.got[n].kind = "done" <=> AnswerEnded)
      <4>1. Outcome(Told[n]) /\ n \in 1..Len(Told)
        BY <1>9, <1>10, <3>1
      <4>2. n = Len(Told) /\ (Told[n].kind = "done" <=> AnswerEnded)
        BY <4>1 DEF ChatInv, OutcomeInv
      <4> QED BY <1>9, <3>1, <4>2
    <3> QED BY <1>8, <3>1
  <2>2. \A i, j \in 1..Len(Told') : i < j /\ ~Outcome(Told'[j]) => Told'[i].no < Told'[j].no
    BY <1>8, <1>9, <1>10 DEF ChatInv, OutcomeInv
  <2> QED BY <1>3, <1>5, <1>6, <1>11, <2>1, <2>2 DEF OutcomeInv
<1> QED BY <1>7, <1>12, <1>13 DEF ChatInv

\* The dashboard leaves before the bridge was polled: nothing was told.
LEMMA ChatUnread == ASSUME ChatInv, LeaveUnread PROVE ChatInv'
<1>1. /\ chat.stage = "streaming" /\ screen.got = <<>> /\ screen' = [screen EXCEPT !.open = FALSE]
      /\ chat' = [chat EXCEPT !.stage = "unread"] /\ pipe' = <<>>
      /\ upstream' = upstream /\ pump' = pump
  BY DEF LeaveUnread, Leaves, AtStage, ToStage
<1>2. /\ screen \in [got : Seq(Events), open : BOOLEAN]
      /\ chat \in [stage : Early \cup {"streaming", "ended", "left", "unread"}, protocol : Protocols, streamed : BOOLEAN]
  BY DEF ChatInv, ChatTyped
<1>3. screen' \in [got : Seq(Events), open : BOOLEAN] /\ screen'.got = <<>>
  BY <1>1, <1>2
<1>4. /\ chat' \in [stage : Early \cup {"streaming", "ended", "left", "unread"}, protocol : Protocols, streamed : BOOLEAN]
      /\ chat.stage \notin Early /\ chat'.stage \notin Early
  BY <1>1, <1>2 DEF Early
<1>5. ChatTyped'
  BY <1>1, <1>3, <1>4 DEF ChatInv, ChatTyped
<1>6. Told' = <<>> /\ Taken' = Taken /\ (AnswerEnded' <=> AnswerEnded)
  BY <1>1, <1>3 DEF Told, Taken, AnswerEnded
<1>7. ReaderInv'
  BY <1>1, <1>6 DEF ChatInv, ReaderInv
<1>8. OutcomeInv'
  BY <1>1, <1>4, <1>6 DEF ChatInv, OutcomeInv
<1> QED BY <1>5, <1>7, <1>8 DEF ChatInv

\* Every step keeps the invariant.
LEMMA ChatInvStep == ASSUME ChatInv, [ChatNext]_chatVars PROVE ChatInv'
<1>1. CASE \/ \E bad \in SUBSET FormParts, streamed \in BOOLEAN, p \in Protocols : PrepareTurn(bad, p, streamed)
           \/ ResolveTurn \/ (\E ok \in BOOLEAN : RelayOnce(ok) \/ (OpenStream(ok) /\ ~ok))
           \/ (\E src \in Sources : ChangeSource(src)) \/ UNCHANGED chatVars
  BY <1>1, ChatEarly
<1>2. CASE OpenStream(TRUE)
  BY <1>2, ChatOpens
<1>3. CASE \E kind \in FramesOf(chat.protocol) : Provide(kind)
  BY <1>3, ChatProvides
<1>4. CASE DrainFrames
  BY <1>4, ChatDrains
<1>5. CASE BodyOver \/ Interrupted
  BY <1>5, ChatEnds
<1>6. CASE ReportEnd
  BY <1>6, ChatReports
<1>7. CASE Show
  BY <1>7, ChatShows
<1>8. CASE Disconnect
  BY <1>8, ChatLeaves
<1>10. CASE LeaveUnread
  BY <1>10, ChatUnread
<1>9. ASSUME NEW ok \in BOOLEAN, OpenStream(ok)
      PROVE  OpenStream(TRUE) \/ (OpenStream(FALSE) /\ ~FALSE)
  <2>1. CASE ok
    <3>1. ok = TRUE
      BY <2>1
    <3> QED BY <1>9, <3>1
  <2>2. CASE ~ok
    <3>1. ok = FALSE
      BY <2>2
    <3> QED BY <1>9, <3>1
  <2> QED BY <2>1, <2>2
<1> QED BY <1>1, <1>2, <1>3, <1>4, <1>5, <1>6, <1>7, <1>8, <1>9, <1>10 DEF ChatNext

\* Whom the reader reads for.
BridgeInv ==
    /\ chat.stage \in Early => screen.open
    /\ pump.step = "reading" => screen.open \/ (chat.stage = "unread" /\ screen.got = <<>>)

\* The dashboard that leaves takes the reader with it, or was shown nothing.
LEMMA BridgeStep == ASSUME ChatInv, BridgeInv, [ChatNext]_chatVars PROVE BridgeInv'
<1>1. chat \in [stage : Early \cup {"streaming", "ended", "left", "unread"}, protocol : Protocols, streamed : BOOLEAN]
      /\ screen \in [got : Seq(Events), open : BOOLEAN] /\ pump \in Pumps
  BY DEF ChatInv, ChatTyped
<1>2. CASE UNCHANGED chatVars
  BY <1>2 DEF chatVars, BridgeInv
<1>3. ASSUME NEW bad \in SUBSET FormParts, NEW streamed \in BOOLEAN, NEW p \in Protocols, PrepareTurn(bad, p, streamed)
      PROVE  BridgeInv'
  <2>1. screen' = screen /\ pump' = pump /\ chat.stage = "form"
    BY <1>3 DEF PrepareTurn, AtStage
  <2>2. pump.step = "none"
    BY <2>1 DEF ChatInv, OutcomeInv, Early
  <2> QED BY <2>1, <2>2 DEF BridgeInv, Early
<1>4. CASE ResolveTurn \/ (\E ok \in BOOLEAN : RelayOnce(ok) \/ OpenStream(ok))
  <2>1. screen' = screen /\ chat.stage \in Early
    BY <1>4 DEF ResolveTurn, RelayOnce, OpenStream, AtStage, Early
  <2> QED BY <2>1 DEF BridgeInv
<1>5. CASE \E src \in Sources : ChangeSource(src)
  BY <1>5 DEF ChangeSource, BridgeInv
<1>6. CASE (\E kind \in FramesOf(chat.protocol) : Provide(kind)) \/ DrainFrames \/ BodyOver \/ Interrupted \/ ReportEnd
  <2>1. chat' = chat /\ screen' = screen
    BY <1>6 DEF Provide, DrainFrames, BodyOver, Interrupted, ReportEnd
  <2>2. pump'.step = "reading" => pump.step = "reading"
    <3>1. CASE \E kind \in FramesOf(chat.protocol) : Provide(kind)
      BY <1>1, <3>1 DEF Provide, Pumps
    <3>2. CASE DrainFrames \/ BodyOver \/ Interrupted
      BY <3>2 DEF DrainFrames, BodyOver, Interrupted, AwaitsChunk, Reading
    <3>3. CASE ReportEnd
      BY <3>3 DEF ReportEnd, NoPump
    <3> QED BY <1>6, <3>1, <3>2, <3>3
  <2> QED BY <2>1, <2>2 DEF BridgeInv
<1>7. CASE Show
  <2>1. screen.open /\ screen' = [screen EXCEPT !.got = Append(screen.got, Head(pipe))]
    BY <1>7 DEF Show
  <2>2. screen'.open
    BY <1>1, <2>1
  <2> QED BY <2>2 DEF BridgeInv
<1>8. CASE Disconnect
  <2>1. pump'.step = "over" /\ chat' = [chat EXCEPT !.stage = "left"]
    BY <1>8 DEF Disconnect, Leaves, ToStage, NoPump
  <2>2. chat'.stage = "left"
    BY <1>1, <2>1
  <2> QED BY <2>1, <2>2 DEF BridgeInv, Early
<1>9. CASE LeaveUnread
  <2>1. screen.got = <<>> /\ screen' = [screen EXCEPT !.open = FALSE] /\ chat' = [chat EXCEPT !.stage = "unread"]
    BY <1>9 DEF LeaveUnread, Leaves, ToStage
  <2>2. screen'.got = <<>> /\ chat'.stage = "unread"
    BY <1>1, <2>1
  <2> QED BY <2>2 DEF BridgeInv, Early
<1> QED BY <1>2, <1>3, <1>4, <1>5, <1>6, <1>7, <1>8, <1>9 DEF ChatNext

\* The invariant says what the runs check.
LEMMA ChatInvSound == ASSUME ChatInv, BridgeInv PROVE ChatSound
<1>1. /\ Len(Told) \in Nat /\ Len(screen.got) \in Nat
      /\ Len(screen.got) <= Len(Told) /\ \A n \in 1..Len(screen.got) : Told[n] = screen.got[n]
  BY ToldPrefix DEF ChatInv
<1>2. \A n \in 1..Len(screen.got) : n \in 1..Len(Told)
  BY <1>1
<1>3. \A n \in Verdicts : /\ n \in 1..Len(screen.got) /\ Outcome(Told[n]) /\ n = Len(Told)
                           /\ (screen.got[n].kind = "done" <=> AnswerEnded)
  BY <1>1, <1>2 DEF Verdicts, Outcome, ChatInv, OutcomeInv
<1>4. \A n \in Verdicts : n = Len(screen.got)
  BY <1>1, <1>3
<1>5. \A i, j \in 1..Len(screen.got) : (i < j /\ j \notin Verdicts) => screen.got[i].no < screen.got[j].no
  BY <1>1, <1>2 DEF Verdicts, Outcome, ChatInv, OutcomeInv
<1>6. ConnectionOwned
  <2>1. upstream.state = "open" => pump.step = "reading"
    BY DEF ChatInv, ChatTyped, Pumps, OutcomeInv
  <2> QED BY <2>1 DEF BridgeInv, ConnectionOwned, Reading, AtStage
<1> QED BY <1>3, <1>4, <1>5, <1>6 DEF ChatSound, OneOrderlyAnswer, VerdictEarned

\* Whatever the provider sends, wherever the reading is cut and whenever the
\* dashboard reads or leaves: one outcome, last and earned, the texts in
\* order, and no connection held for a dashboard that was shown something
\* and left.
THEOREM ChatIsSound == ChatSpec => []ChatSound
<1> DEFINE TurnInv == ChatInv /\ BridgeInv
<1>1. ChatInit => TurnInv
  <2>1. ChatInit => BridgeInv
    BY DEF ChatInit, BridgeInv, NoPump
  <2> QED BY <2>1, ChatInitInv
<1>2. TurnInv /\ [ChatNext]_chatVars => TurnInv'
  BY ChatInvStep, BridgeStep
<1>3. TurnInv => ChatSound
  BY ChatInvSound
<1> HIDE DEF TurnInv
<1> QED BY <1>1, <1>2, <1>3, PTL DEF ChatSpec
=============================================================================
