----------------------- MODULE ProviderCatalogProofs -----------------------
(***************************************************************************)
(* For any providers, prefixes, models, keys and page size: the tables     *)
(* agree after every transaction, a model added by hand stays, and the     *)
(* paged deletion implements the atomic one of ProviderDirectory.          *)
(*                                                                         *)
(* CatalogSound is not inductive: while a deletion empties table after     *)
(* table nothing in it says what the earlier phases have removed, nor that *)
(* the rows of one kind agree with each other in a provider that is not    *)
(* live.  Drained says the first, RowsAgree the second; both are what the  *)
(* checks of ensure_provider_not_deleting in every handler protect.        *)
(*                                                                         *)
(* For any windows, models, page, batch and queue sizes, in the second     *)
(* part: the statistics are what happened (TelemetrySound).  A window is a *)
(* sum over the rows its cursor has not passed, and a sum here is the size *)
(* of a set, so that adding a batch, taking off a page and summing by      *)
(* model are facts about disjoint sets.  TelInv adds to what the run       *)
(* checks the account of every event (in the queue, in the batch, stored,  *)
(* or dropped and counted), the place of the lock in every step that holds *)
(* it, and the order of the cursors: none before that of a longer window,  *)
(* also between the windows of one pass.                                   *)
(***************************************************************************)
EXTENDS ProviderCatalog, Telemetry, FiniteSetTheorems, WellFoundedInduction, TLAPS

Strategies == {"priority", "round_robin"}
Record == [stored : BOOLEAN, deleting : BOOLEAN, phase : Phases \cup {None},
           prefix : ModelPrefixes \cup {None}, strategy : Strategies,
           keyCount : Nat, modelCount : Nat]
KeyTable == [record : SUBSET Keys, disabled : SUBSET Keys, invalid : SUBSET Keys,
             order : SUBSET Keys, available : SUBSET Keys, created : SUBSET Keys]

\* What the handlers hold between their read and their transaction.
WorkOK ==
    /\ update = None \/ update \in [p : Providers, prefix : ModelPrefixes]
    /\ import = None \/ import \in [p : Providers, models : SUBSET Models, pruned : BOOLEAN]
    /\ save = None \/ save \subseteq Providers \X Models

\* What a record can be: none, live with a prefix, or a tombstone with a phase.
RecordShape(p) ==
    /\ ~provider[p].stored => provider[p] = NoProvider
    /\ provider[p].stored => provider[p].prefix \in ModelPrefixes
    /\ provider[p].deleting => provider[p].stored /\ provider[p].phase \in Phases

\* The rows of one kind agree with each other, live provider or not.  (Of a
\* deleted key an entry may stay in the availability index.)
RowsAgree(p) ==
    /\ keyRows[p].order = keyRows[p].record /\ keyRows[p].created = keyRows[p].record
    /\ keyRows[p].disabled \subseteq keyRows[p].record
    /\ keyRows[p].invalid \subseteq keyRows[p].record
    /\ modelIndex[p] = Stored(p)

\* The phases of a deletion after the one that empties the table.
Gone(p, phases) == ~provider[p].stored \/ (provider[p].deleting /\ provider[p].phase \in phases)

\* What the earlier phases of a deletion have removed stays removed.
Drained(p) ==
    /\ Gone(p, Phases \ {"route_targets"}) => \A t \in targets : t[1] # p
    /\ Gone(p, Phases \ {"route_targets", "api_keys"}) => keyRows[p].record = {}
    /\ Gone(p, Phases \ {"route_targets", "api_keys", "api_key_availability"})
          => keyRows[p].available = {}
    /\ Gone(p, {"model_indexes", "finish"}) => Stored(p) = {}

\* The counters in the record of a live provider.
Counted(p) ==
    Live(p) => /\ provider[p].keyCount = Cardinality(keyRows[p].record)
               /\ provider[p].modelCount = Cardinality(Stored(p))

LiveProviders == {p \in Providers : Live(p)}

\* The inductive invariant, one provider at a time where it can be.
CatInv ==
    /\ CatTypeOK /\ WorkOK
    /\ targetIndex = targets
    /\ \A p \in Providers : RecordShape(p) /\ RowsAgree(p) /\ Drained(p) /\ Counted(p)
    /\ DeletionResumable
    /\ providerCount = Cardinality(LiveProviders)
    /\ PrefixIndexSound

PInv(p) == RecordShape(p) /\ RowsAgree(p) /\ Drained(p) /\ Counted(p)

-----------------------------------------------------------------------------
(* Records and rows.                                                       *)

\* The parts of the type invariant, by the names of this module.
LEMMA Types ==
    ASSUME CatTypeOK
    PROVE  /\ provider \in [Providers -> Record] /\ keyRows \in [Providers -> KeyTable]
           /\ modelRows \in [Providers -> [Models -> {None, "import", "manual"}]]
           /\ modelIndex \in [Providers -> SUBSET Models]
           /\ prefixIndex \in [ModelPrefixes -> Providers \cup {None}]
           /\ providerCount \in Nat /\ deletingIndex \subseteq Providers
           /\ targets \subseteq Providers \X Models /\ targetIndex \subseteq Providers \X Models
BY DEF CatTypeOK, Record, KeyTable, Strategies

\* A record with one group of fields replaced.
LEMMA Strategized ==
    ASSUME NEW r \in Record, NEW s \in Strategies, NEW w, w = [r EXCEPT !.strategy = s]
    PROVE  /\ w \in Record /\ w.stored = r.stored /\ w.deleting = r.deleting /\ w.phase = r.phase
           /\ w.prefix = r.prefix /\ w.strategy = s
           /\ w.keyCount = r.keyCount /\ w.modelCount = r.modelCount
BY DEF Record

\* The record of a provider that was just created.
LEMMA Created ==
    ASSUME NEW x, NEW n, NEW w, w = [NoProvider EXCEPT !.stored = TRUE, !.prefix = x, !.keyCount = n]
    PROVE  w = [stored |-> TRUE, deleting |-> FALSE, phase |-> None, prefix |-> x,
                strategy |-> "priority", keyCount |-> n, modelCount |-> 0]
BY DEF NoProvider

\* A page moves a deletion to its next phase when it was the last of its kind.
LEMMA AfterPageRecord ==
    ASSUME NEW r \in Record, NEW e \in BOOLEAN, r.phase \in Phases
    PROVE  LET w == AfterPage(r, e)
           IN /\ w \in Record /\ w.stored = r.stored /\ w.deleting = r.deleting
              /\ w.prefix = r.prefix /\ w.strategy = r.strategy /\ w.phase \in Phases
              /\ w.phase = IF e THEN NextPhase(r.phase) ELSE r.phase
BY DEF Record, AfterPage, NextPhase, Phases

\* Storing a record or a row of one provider leaves the others alone.
LEMMA Put ==
    ASSUME NEW S, NEW T, NEW f \in [S -> T], NEW p \in S, NEW r \in T
    PROVE  /\ [f EXCEPT ![p] = r] \in [S -> T] /\ [f EXCEPT ![p] = r][p] = r
           /\ \A q \in S \ {p} : [f EXCEPT ![p] = r][q] = f[q]
OBVIOUS

\* A provider whose rows a step leaves alone keeps its part of the invariant.
LEMMA Untouched ==
    ASSUME NEW q \in Providers, PInv(q), provider'[q] = provider[q], keyRows'[q] = keyRows[q],
           modelRows'[q] = modelRows[q], modelIndex'[q] = modelIndex[q],
           \A t \in targets' : t[1] = q => t \in targets
    PROVE  PInv(q)'
<1>1. Stored(q)' = Stored(q)
  BY DEF Stored
<1> QED
  BY <1>1 DEF PInv, RecordShape, RowsAgree, Drained, Gone, Counted, Live

\* A step that leaves the prefixes and the states of the records alone keeps
\* the indexes and the number of providers right.
LEMMA IndexesKept ==
    ASSUME CatInv, UNCHANGED <<prefixIndex, deletingIndex, providerCount>>,
           \A q \in Providers : /\ provider'[q].stored = provider[q].stored
                                /\ provider'[q].deleting = provider[q].deleting
                                /\ provider'[q].prefix = provider[q].prefix
    PROVE  /\ DeletionResumable' /\ PrefixIndexSound'
           /\ providerCount' = Cardinality(LiveProviders')
<1>1. \A q \in Providers : Live(q)' <=> Live(q)
  BY DEF Live
<1>2. LiveProviders' = LiveProviders
  BY <1>1 DEF LiveProviders
<1>3. DeletionResumable'
  BY DEF CatInv, DeletionResumable
<1>4. PrefixIndexSound'
  BY <1>1 DEF CatInv, PrefixIndexSound, CatTypeOK
<1> QED
  BY <1>2, <1>3, <1>4 DEF CatInv

-----------------------------------------------------------------------------
(* Cardinalities.                                                          *)

\* What is stored of one provider can be counted.
LEMMA RowsFinite ==
    ASSUME CatTypeOK, NEW p \in Providers
    PROVE  /\ IsFiniteSet(Stored(p)) /\ Cardinality(Stored(p)) \in Nat
           /\ IsFiniteSet(keyRows[p].record) /\ Cardinality(keyRows[p].record) \in Nat
           /\ IsFiniteSet(keyRows[p].order)
           /\ IsFiniteSet({t \in targetIndex : t[1] = p})
<1>1. Stored(p) \in SUBSET Models /\ keyRows[p].record \in SUBSET Keys
      /\ keyRows[p].order \in SUBSET Keys
  BY DEF CatTypeOK, Stored
<1>2. {t \in targetIndex : t[1] = p} \in SUBSET (Providers \X Models)
  BY DEF CatTypeOK
<1>3. IsFiniteSet(Providers \X Models)
  BY CatalogAssumption, FS_Product
<1> QED
  BY <1>1, <1>2, <1>3, CatalogAssumption, FS_Subset, FS_CardinalityType

\* The last page takes every row that is left.
LEMMA LastPage ==
    ASSUME NEW rows, IsFiniteSet(rows), NEW page \in Pages(rows)
    PROVE  page \subseteq rows /\ (Exhausted(rows) => page = rows)
<1>1. page \in SUBSET rows
  BY DEF Pages
<1>2. Exhausted(rows) => Cardinality(page) = Cardinality(rows)
  BY DEF Pages, Exhausted
<1> QED
  BY <1>1, <1>2, FS_Subset

-----------------------------------------------------------------------------
(* One lemma per handler: its transaction keeps CatInv.                    *)

\* create_provider
LEMMA CreateStep ==
    ASSUME CatInv, NEW p \in Providers, NEW x \in ModelPrefixes, NEW ks \in SUBSET KeysFor(p),
           CreateProvider(p, x, ks)
    PROVE  CatInv'
<1> DEFINE r == [stored |-> TRUE, deleting |-> FALSE, phase |-> None, prefix |-> x,
                 strategy |-> "priority", keyCount |-> Cardinality(ks), modelCount |-> 0]
           w == [record |-> ks, disabled |-> {}, invalid |-> {},
                 order |-> ks, available |-> ks, created |-> ks]
<1>1. CatTypeOK /\ WorkOK /\ targetIndex = targets
  BY DEF CatInv
<1>2. PInv(p) /\ ~provider[p].stored
  BY DEF CatInv, PInv, CreateProvider
<1>3. ks \in SUBSET Keys /\ IsFiniteSet(ks) /\ Cardinality(ks) \in Nat
  <2>1. ks \in SUBSET Keys
    BY DEF KeysFor
  <2> QED
    BY <2>1, CatalogAssumption, FS_Subset, FS_CardinalityType
<1>4. /\ Stored(p) = {} /\ Cardinality(Stored(p)) = 0
      /\ keyRows[p].record = {} /\ keyRows[p].available = {}
  <2>1. Stored(p) = {} /\ keyRows[p].record = {} /\ keyRows[p].available = {}
    BY <1>2 DEF PInv, Drained, Gone
  <2> QED
    BY <2>1, FS_EmptySet
<1>5. provider' = [provider EXCEPT ![p] = r]
  <2>1. [NoProvider EXCEPT !.stored = TRUE, !.prefix = x, !.keyCount = Cardinality(ks)] = r
    BY Created
  <2> QED
    BY <2>1 DEF CreateProvider
<1>6. keyRows' = [keyRows EXCEPT ![p] = w]
  <2>1. /\ keyRows[p] \in KeyTable /\ keyRows[p].record = {} /\ keyRows[p].order = {}
        /\ keyRows[p].available = {} /\ keyRows[p].created = {}
        /\ keyRows[p].disabled = {} /\ keyRows[p].invalid = {}
    BY <1>1, <1>2, <1>4, Types DEF PInv, RowsAgree
  <2>2. WithKeys(keyRows[p], ks) = w
    <3>1. keyRows[p] = NoKeys
      BY <2>1 DEF KeyTable, NoKeys
    <3>2. {} \cup ks = ks
      OBVIOUS
    <3>3. WithKeys(NoKeys, ks) = [NoKeys EXCEPT !.record = ks, !.order = ks, !.available = ks,
                                                !.created = ks]
      BY <3>2 DEF WithKeys, NoKeys
    <3> QED
      BY <3>1, <3>3 DEF NoKeys
  <2> QED
    BY <2>2 DEF CreateProvider
<1>7. r \in Record /\ w \in KeyTable
  BY <1>3 DEF Record, KeyTable, Strategies
<1>8. /\ provider' \in [Providers -> Record] /\ provider'[p] = r
      /\ \A q \in Providers \ {p} : provider'[q] = provider[q]
  BY <1>1, <1>5, <1>7, Types, Put
<1>9. /\ keyRows' \in [Providers -> KeyTable] /\ keyRows'[p] = w
      /\ \A q \in Providers \ {p} : keyRows'[q] = keyRows[q]
  BY <1>1, <1>6, <1>7, Types, Put
<1>10. /\ prefixIndex' \in [ModelPrefixes -> Providers \cup {None}] /\ prefixIndex'[x] = p
       /\ \A y \in ModelPrefixes \ {x} : prefixIndex'[y] = prefixIndex[y]
  BY <1>1, Types, Put DEF CreateProvider
<1>11. /\ providerCount' = providerCount + 1 /\ deletingIndex' = deletingIndex
       /\ modelRows' = modelRows /\ modelIndex' = modelIndex /\ targets' = targets
       /\ targetIndex' = targetIndex /\ update' = update /\ import' = import /\ save' = save
  BY DEF CreateProvider
<1>12. CatTypeOK' /\ WorkOK'
  BY <1>1, <1>8, <1>9, <1>10, <1>11, Types DEF CatTypeOK, Record, KeyTable, Strategies, WorkOK
<1>13. PInv(p)'
  <2>1. Stored(p)' = Stored(p)
    BY <1>11 DEF Stored
  <2> QED
    BY <1>2, <1>4, <1>8, <1>9, <1>11, <2>1
       DEF PInv, RecordShape, RowsAgree, Drained, Gone, Counted, Live
<1>14. ASSUME NEW q \in Providers, q # p
       PROVE  PInv(q)'
  BY <1>8, <1>9, <1>11, <1>14, Untouched DEF CatInv, PInv
<1>15. DeletionResumable' /\ PrefixIndexSound'
  <2>1. DeletionResumable'
    <3>1. ~provider[p].deleting
      BY <1>2, <1>1, Types DEF PInv, RecordShape
    <3> QED
      BY <1>2, <1>8, <1>11, <3>1 DEF CatInv, DeletionResumable
  <2>2. \A y \in ModelPrefixes : prefixIndex[y] # p
    BY <1>2, CatalogAssumption DEF CatInv, PrefixIndexSound, Live
  <2>3. ASSUME NEW y \in ModelPrefixes, prefixIndex'[y] # None
        PROVE  Live(prefixIndex[y])' /\ provider'[prefixIndex'[y]].prefix = y
    <3>1. CASE y = x
      BY <1>8, <1>10, <3>1 DEF Live
    <3>2. CASE y # x
      BY <1>1, <1>8, <1>10, <2>2, <2>3, <3>2, Types DEF CatInv, PrefixIndexSound, Live
    <3> QED
      BY <3>1, <3>2
  <2> QED
    BY <2>1, <2>3 DEF PrefixIndexSound
<1>16. providerCount' = Cardinality(LiveProviders')
  <2>1. LiveProviders' = LiveProviders \cup {p} /\ p \notin LiveProviders
    BY <1>2, <1>8 DEF LiveProviders, Live
  <2>2. IsFiniteSet(LiveProviders)
    BY CatalogAssumption, FS_Subset DEF LiveProviders
  <2> QED
    BY <1>11, <2>1, <2>2, FS_AddElement DEF CatInv
<1> QED
  BY <1>1, <1>11, <1>12, <1>13, <1>14, <1>15, <1>16 DEF CatInv, PInv

\* A handler that only reads, one that is refused, and a restart.
LEMMA ReadStep ==
    ASSUME CatInv, WorkOK',
           UNCHANGED <<provider, prefixIndex, deletingIndex, providerCount, keyRows, modelRows,
                       modelIndex, targets, targetIndex>>
    PROVE  CatInv'
<1>1. CatTypeOK'
  BY DEF CatInv, CatTypeOK
<1>2. \A q \in Providers : PInv(q)'
  BY Untouched DEF CatInv, PInv
<1>3. DeletionResumable' /\ PrefixIndexSound' /\ providerCount' = Cardinality(LiveProviders')
  BY IndexesKept
<1> QED
  BY <1>1, <1>2, <1>3 DEF CatInv, PInv

\* update_provider reads a live record.
LEMMA UpdateReadStep ==
    ASSUME CatInv, NEW p \in Providers, NEW x \in ModelPrefixes \cup {None}, UpdateRead(p, x)
    PROVE  CatInv'
<1>1. provider[p].prefix \in ModelPrefixes
  BY DEF CatInv, RecordShape, UpdateRead, Live
<1>2. WorkOK'
  BY <1>1 DEF CatInv, WorkOK, UpdateRead
<1> QED
  BY <1>2, ReadStep DEF UpdateRead

\* update_provider_key_strategy
LEMMA StrategyStep ==
    ASSUME CatInv, NEW p \in Providers, NEW s \in Strategies, SetKeyStrategy(p, s)
    PROVE  CatInv'
<1> DEFINE r == [provider[p] EXCEPT !.strategy = s]
<1>1. CatTypeOK /\ WorkOK /\ PInv(p) /\ Live(p)
  BY DEF CatInv, PInv, SetKeyStrategy
<1>2. provider[p] \in Record
  BY <1>1, Types
<1>3. /\ r \in Record /\ r.stored = provider[p].stored /\ r.deleting = provider[p].deleting
      /\ r.phase = provider[p].phase /\ r.prefix = provider[p].prefix
      /\ r.keyCount = provider[p].keyCount /\ r.modelCount = provider[p].modelCount
  BY <1>2, Strategized
<1>4. provider' = [provider EXCEPT ![p] = r]
  BY DEF SetKeyStrategy
<1> HIDE DEF r
<1>5. /\ provider' \in [Providers -> Record] /\ provider'[p] = r
      /\ \A q \in Providers \ {p} : provider'[q] = provider[q]
  BY <1>1, <1>3, <1>4, Types, Put
<1>6. /\ UNCHANGED <<prefixIndex, deletingIndex, providerCount>>
      /\ keyRows' = keyRows /\ modelRows' = modelRows /\ modelIndex' = modelIndex
      /\ targets' = targets /\ targetIndex' = targetIndex
      /\ update' = update /\ import' = import /\ save' = save
  BY DEF SetKeyStrategy
<1>7. CatTypeOK' /\ WorkOK'
  BY <1>1, <1>5, <1>6, Types DEF CatTypeOK, Record, Strategies, WorkOK
<1>8. PInv(p)'
  <2>1. Stored(p)' = Stored(p)
    BY <1>6 DEF Stored
  <2> QED
    BY <1>1, <1>3, <1>5, <1>6, <2>1
       DEF PInv, RecordShape, RowsAgree, Drained, Gone, Counted, Live
<1>9. ASSUME NEW q \in Providers, q # p
      PROVE  PInv(q)'
  BY <1>5, <1>6, <1>9, Untouched DEF CatInv, PInv
<1>10. DeletionResumable' /\ PrefixIndexSound' /\ providerCount' = Cardinality(LiveProviders')
  BY <1>3, <1>5, <1>6, IndexesKept
<1> QED
  BY <1>6, <1>7, <1>8, <1>9, <1>10 DEF CatInv, PInv

\* What a recovery, a rejection and a switch leave alone.
LEMMA KeyStays ==
    ASSUME NEW r \in KeyTable, NEW k \in r.record, r.disabled \subseteq r.record,
           r.invalid \subseteq r.record, NEW w,
           \/ w = Recovered(r, k) \/ w = Rejected(r, k)
           \/ \E on \in BOOLEAN : w = Switched(r, k, on)
    PROVE  /\ w \in KeyTable /\ w.record = r.record /\ w.order = r.order /\ w.created = r.created
           /\ w.disabled \subseteq r.record /\ w.invalid \subseteq r.record
<1>1. k \in Keys
  BY DEF KeyTable
<1>2. PICK d \in SUBSET r.record, i \in SUBSET r.record, a \in SUBSET Keys :
         w = [r EXCEPT !.disabled = d, !.invalid = i, !.available = a]
  <2> DEFINE more == r.available \cup {k}
             less == r.available \ {k}
  <2>1. more \in SUBSET Keys /\ less \in SUBSET Keys /\ r.available \in SUBSET Keys
    BY <1>1 DEF KeyTable
  <2>2. r = [r EXCEPT !.disabled = r.disabled, !.invalid = r.invalid, !.available = r.available]
    BY DEF KeyTable
  <2>3. \A i \in SUBSET r.record, a \in SUBSET Keys :
           [r EXCEPT !.invalid = i, !.available = a]
              = [r EXCEPT !.disabled = r.disabled, !.invalid = i, !.available = a]
    BY DEF KeyTable
  <2>4. \A d \in SUBSET r.record, a \in SUBSET Keys :
           [r EXCEPT !.disabled = d, !.available = a]
              = [r EXCEPT !.disabled = d, !.invalid = r.invalid, !.available = a]
    BY DEF KeyTable
  <2>5. CASE w = Recovered(r, k)
    <3>1. CASE k \notin r.invalid
      <4>1. w = [r EXCEPT !.disabled = r.disabled, !.invalid = r.invalid, !.available = r.available]
        BY <2>2, <2>5, <3>1 DEF Recovered
      <4> QED
        BY <2>1, <4>1
    <3>2. CASE k \in r.invalid
      <4>1. w = [r EXCEPT !.invalid = r.invalid \ {k}, !.available = more]
        BY <2>5, <3>2 DEF Recovered
      <4>2. r.invalid \ {k} \in SUBSET r.record
        OBVIOUS
      <4>3. w = [r EXCEPT !.disabled = r.disabled, !.invalid = r.invalid \ {k}, !.available = more]
        BY <2>1, <2>3, <4>1, <4>2
      <4> QED
        BY <2>1, <4>2, <4>3
    <3> QED
      BY <3>1, <3>2
  <2>6. CASE w = Rejected(r, k)
    <3>1. w = [r EXCEPT !.invalid = r.invalid \cup {k},
                        !.available = IF k \in UsableKeys(r) THEN less ELSE r.available]
      BY <2>6 DEF Rejected
    <3>2. r.invalid \cup {k} \in SUBSET r.record
      OBVIOUS
    <3>3. (IF k \in UsableKeys(r) THEN less ELSE r.available) \in SUBSET Keys
      BY <2>1
    <3> QED
      BY <2>3, <3>1, <3>2, <3>3
  <2>7. ASSUME NEW on \in BOOLEAN, w = Switched(r, k, on)
        PROVE  \E d \in SUBSET r.record, i \in SUBSET r.record, a \in SUBSET Keys :
                  w = [r EXCEPT !.disabled = d, !.invalid = i, !.available = a]
    <3>1. CASE on
      <4>1. w = [r EXCEPT !.disabled = r.disabled \ {k}, !.invalid = r.invalid \ {k},
                          !.available = IF k \in UsableKeys(r) THEN r.available ELSE more]
        BY <2>7, <3>1 DEF Switched
      <4>2. /\ r.disabled \ {k} \in SUBSET r.record /\ r.invalid \ {k} \in SUBSET r.record
            /\ (IF k \in UsableKeys(r) THEN r.available ELSE more) \in SUBSET Keys
        BY <2>1
      <4> QED
        BY <4>1, <4>2
    <3>2. CASE ~on
      <4> DEFINE a == IF k \in UsableKeys(r) THEN less ELSE r.available
                 d == r.disabled \cup {k}
      <4>1. w = [r EXCEPT !.disabled = d, !.available = a]
        BY <2>7, <3>2 DEF Switched
      <4>2. d \in SUBSET r.record /\ a \in SUBSET Keys
        BY <2>1
      <4> HIDE DEF a, d
      <4>3. w = [r EXCEPT !.disabled = d, !.invalid = r.invalid, !.available = a]
        BY <2>4, <4>1, <4>2
      <4> QED
        BY <4>2, <4>3
    <3> QED
      BY <3>1, <3>2
  <2> QED
    BY <2>5, <2>6, <2>7
<1>3. /\ w.record = r.record /\ w.order = r.order /\ w.created = r.created
      /\ w.disabled = d /\ w.invalid = i /\ w.available = a
  BY <1>2 DEF KeyTable
<1>4. w \in KeyTable
  BY <1>2 DEF KeyTable
<1> QED
  BY <1>2, <1>3, <1>4

\* The key rows of a live provider change, and their number with them.
LEMMA KeysChanged ==
    ASSUME CatInv, NEW p \in Providers, Live(p),
           NEW w \in KeyTable, w.order = w.record, w.created = w.record,
           w.disabled \subseteq w.record, w.invalid \subseteq w.record,
           NEW n \in Nat, n = Cardinality(w.record),
           keyRows' = [keyRows EXCEPT ![p] = w],
           provider' = [provider EXCEPT ![p] = [provider[p] EXCEPT !.keyCount = n]],
           UNCHANGED <<prefixIndex, deletingIndex, providerCount, modelRows, modelIndex,
                       targets, targetIndex, update, import, save>>
    PROVE  CatInv'
<1> DEFINE r == [provider[p] EXCEPT !.keyCount = n]
<1>1. CatTypeOK /\ WorkOK /\ PInv(p) /\ provider[p] \in Record
  BY Types DEF CatInv, PInv
<1>2. /\ r \in Record /\ r.stored = provider[p].stored /\ r.deleting = provider[p].deleting
      /\ r.phase = provider[p].phase /\ r.prefix = provider[p].prefix
      /\ r.keyCount = n /\ r.modelCount = provider[p].modelCount
  BY <1>1 DEF Record
<1>3. provider' = [provider EXCEPT ![p] = r]
  OBVIOUS
<1> HIDE DEF r
<1>4. /\ provider' \in [Providers -> Record] /\ provider'[p] = r
      /\ \A q \in Providers \ {p} : provider'[q] = provider[q]
  <2>1. provider \in [Providers -> Record]
    BY <1>1, Types
  <2> QED
    BY <1>2, <1>3, <2>1
<1>5. /\ keyRows' \in [Providers -> KeyTable] /\ keyRows'[p] = w
      /\ \A q \in Providers \ {p} : keyRows'[q] = keyRows[q]
  BY <1>1, Types, Put
<1>6. CatTypeOK' /\ WorkOK'
  BY <1>1, <1>4, <1>5, Types DEF CatTypeOK, Record, KeyTable, Strategies, WorkOK
<1>7. PInv(p)'
  <2>1. Stored(p)' = Stored(p)
    BY DEF Stored
  <2>2. RecordShape(p)' /\ RowsAgree(p)'
    BY <1>1, <1>2, <1>4, <1>5, <2>1 DEF PInv, RecordShape, RowsAgree, Live
  <2>3. Drained(p)' /\ Counted(p)'
    BY <1>1, <1>2, <1>4, <1>5, <2>1 DEF PInv, Drained, Gone, Counted, Live
  <2> QED
    BY <2>2, <2>3 DEF PInv
<1>8. ASSUME NEW q \in Providers, q # p
      PROVE  PInv(q)'
  BY <1>4, <1>5, <1>8, Untouched DEF CatInv, PInv
<1>9. DeletionResumable' /\ PrefixIndexSound' /\ providerCount' = Cardinality(LiveProviders')
  BY <1>2, <1>4, IndexesKept
<1> QED
  BY <1>6, <1>7, <1>8, <1>9 DEF CatInv, PInv

\* A request reports on a key that is still stored, or the administrator
\* switches one.
LEMMA ReportStep ==
    ASSUME CatInv, NEW p \in Providers, NEW k \in Keys,
           \/ \E usable \in BOOLEAN : ReportKey(p, k, usable)
           \/ \E on \in BOOLEAN : SwitchKey(p, k, on)
    PROVE  CatInv'
<1> DEFINE old == keyRows[p]
<1>1. /\ CatTypeOK /\ PInv(p) /\ old \in KeyTable /\ provider \in [Providers -> Record]
      /\ provider[p] \in Record
  BY Types DEF CatInv, PInv
<1>2. PICK w : /\ w = Recovered(old, k) \/ w = Rejected(old, k)
                     \/ \E on \in BOOLEAN : w = Switched(old, k, on)
               /\ KeyChanged(p, k, w) /\ provider' = provider
  BY DEF ReportKey, SwitchKey
<1>3. /\ Live(p) /\ k \in old.record /\ keyRows' = [keyRows EXCEPT ![p] = w]
      /\ UNCHANGED <<prefixIndex, deletingIndex, providerCount, modelRows, modelIndex,
                     targets, targetIndex, update, import, save>>
  BY <1>2 DEF KeyChanged
<1>4. /\ old.order = old.record /\ old.created = old.record
      /\ old.disabled \subseteq old.record /\ old.invalid \subseteq old.record
  BY <1>1 DEF PInv, RowsAgree
<1> HIDE DEF old
<1>5. /\ w \in KeyTable /\ w.record = old.record /\ w.order = old.order
      /\ w.created = old.created /\ w.disabled \subseteq old.record /\ w.invalid \subseteq old.record
  BY <1>1, <1>2, <1>3, <1>4, KeyStays
<1>6. /\ provider[p].keyCount \in Nat /\ provider[p].keyCount = Cardinality(w.record)
      /\ [provider[p] EXCEPT !.keyCount = provider[p].keyCount] = provider[p]
  BY <1>1, <1>3, <1>5 DEF PInv, Counted, Record, old
<1>7. provider' = [provider EXCEPT ![p] = [provider[p] EXCEPT !.keyCount = provider[p].keyCount]]
  BY <1>1, <1>2, <1>6
<1> QED
  BY <1>3, <1>4, <1>5, <1>6, <1>7, KeysChanged

\* delete_provider_key: one record and one key fewer.
LEMMA RemovedKey ==
    ASSUME NEW r \in KeyTable, NEW k
    PROVE  LET w == Removed(r, k)
           IN /\ w \in KeyTable /\ w.record = r.record \ {k} /\ w.order = r.order \ {k}
              /\ w.created = r.created \ {k} /\ w.disabled = r.disabled \ {k}
              /\ w.invalid = r.invalid \ {k}
<1> DEFINE a == IF k \in UsableKeys(r) THEN r.available \ {k} ELSE r.available
<1>1. Removed(r, k) = [r EXCEPT !.record = r.record \ {k}, !.disabled = r.disabled \ {k},
                                !.invalid = r.invalid \ {k}, !.order = r.order \ {k},
                                !.created = r.created \ {k}, !.available = a]
  BY DEF Removed
<1>2. a \in SUBSET Keys
  BY DEF KeyTable
<1> HIDE DEF a
<1> QED
  BY <1>1, <1>2 DEF KeyTable

LEMMA DeleteKeyStep ==
    ASSUME CatInv, NEW p \in Providers, NEW k \in Keys, DeleteKey(p, k)
    PROVE  CatInv'
<1> DEFINE old == keyRows[p]
           w == Removed(old, k)
           n == IF provider[p].keyCount > 1 THEN provider[p].keyCount - 1 ELSE 0
<1>1. /\ CatTypeOK /\ PInv(p) /\ old \in KeyTable /\ provider \in [Providers -> Record]
      /\ provider[p] \in Record
  BY Types DEF CatInv, PInv
<1>2. /\ Live(p) /\ k \in old.record /\ keyRows' = [keyRows EXCEPT ![p] = w]
      /\ provider' = [provider EXCEPT ![p] = [provider[p] EXCEPT !.keyCount = n]]
      /\ UNCHANGED <<prefixIndex, deletingIndex, providerCount, modelRows, modelIndex,
                     targets, targetIndex, update, import, save>>
  BY <1>1 DEF DeleteKey, KeyChanged, FewerKeys
<1>3. /\ w \in KeyTable /\ w.record = old.record \ {k} /\ w.order = old.order \ {k}
      /\ w.created = old.created \ {k} /\ w.disabled = old.disabled \ {k}
      /\ w.invalid = old.invalid \ {k}
  BY <1>1, RemovedKey
<1>4. /\ old.order = old.record /\ old.created = old.record
      /\ old.disabled \subseteq old.record /\ old.invalid \subseteq old.record
  BY <1>1 DEF PInv, RowsAgree
<1>5. n \in Nat /\ n = Cardinality(w.record)
  <2>1. IsFiniteSet(old.record) /\ Cardinality(old.record) \in Nat
    BY <1>1, RowsFinite
  <2>2. Cardinality(old.record \ {k}) = Cardinality(old.record) - 1
        /\ Cardinality(old.record \ {k}) \in Nat
    BY <1>2, <2>1, FS_RemoveElement, FS_CardinalityType, FS_Subset
  <2>3. provider[p].keyCount = Cardinality(old.record)
    BY <1>1, <1>2 DEF PInv, Counted
  <2> HIDE DEF w, old
  <2> QED
    BY <1>3, <2>1, <2>2, <2>3
<1> HIDE DEF w, n, old
<1> QED
  BY <1>2, <1>3, <1>4, <1>5, KeysChanged

\* The transaction of update_provider: the prefix moves and new keys are added.
LEMMA UpdateWriteStep ==
    ASSUME CatInv, NEW ks \in SUBSET Keys, UpdateWrite(ks)
    PROVE  CatInv'
<1>1. CatTypeOK /\ WorkOK /\ update # None
  BY DEF CatInv, UpdateWrite
<1>2. PICK p \in Providers, x \in ModelPrefixes : update.p = p /\ update.prefix = x
  BY <1>1 DEF WorkOK
<1> DEFINE new == (ks \cap KeysFor(p)) \ (keyRows[p].record \cup keyRows[p].available)
           n == provider[p].keyCount + Cardinality(new)
           r == [provider[p] EXCEPT !.prefix = x, !.keyCount = n]
           w == WithKeys(keyRows[p], new)
<1>3. WorkOK'
  BY <1>1 DEF WorkOK, UpdateWrite
<1>4. CASE ~(Live(p) /\ prefixIndex[x] \in {None, p})
  BY <1>2, <1>3, <1>4, ReadStep DEF UpdateWrite
<1>5. CASE Live(p) /\ prefixIndex[x] \in {None, p}
  <2>1. /\ provider' = [provider EXCEPT ![p].prefix = x, ![p].keyCount = @ + Cardinality(new)]
        /\ prefixIndex' = [prefixIndex EXCEPT ![provider[p].prefix] = None, ![x] = p]
        /\ keyRows' = [keyRows EXCEPT ![p] = w]
        /\ deletingIndex' = deletingIndex /\ providerCount' = providerCount
        /\ modelRows' = modelRows /\ modelIndex' = modelIndex
        /\ targets' = targets /\ targetIndex' = targetIndex
    BY <1>2, <1>5 DEF UpdateWrite
  <2>2. PInv(p) /\ provider[p] \in Record /\ keyRows[p] \in KeyTable
    BY <1>1, <1>2, Types DEF CatInv, PInv
  <2>3. /\ new \in SUBSET Keys /\ IsFiniteSet(new) /\ Cardinality(new) \in Nat
        /\ new \cap keyRows[p].record = {}
    <3>1. new \in SUBSET Keys /\ new \cap keyRows[p].record = {}
      OBVIOUS
    <3> QED
      BY <3>1, CatalogAssumption, FS_Subset, FS_CardinalityType
  <2>4. n \in Nat
    BY <2>2, <2>3 DEF Record
  <2>5. provider' = [provider EXCEPT ![p] = r]
    <3>1. provider \in [Providers -> Record]
      BY <1>1, Types
    <3> HIDE DEF new
    <3> QED
      BY <2>1, <3>1
  <2>6. /\ r \in Record /\ r.stored = provider[p].stored /\ r.deleting = provider[p].deleting
        /\ r.phase = provider[p].phase /\ r.prefix = x
        /\ r.keyCount = n /\ r.modelCount = provider[p].modelCount
    <3>1. r = [provider[p] EXCEPT !.prefix = x, !.keyCount = n]
      OBVIOUS
    <3> HIDE DEF r, n
    <3> QED
      BY <2>2, <2>4, <3>1 DEF Record
  <2>7. /\ w \in KeyTable /\ w.record = keyRows[p].record \cup new
        /\ w.order = keyRows[p].order \cup new /\ w.created = keyRows[p].created \cup new
        /\ w.available = keyRows[p].available \cup new
        /\ w.disabled = keyRows[p].disabled /\ w.invalid = keyRows[p].invalid
    <3> HIDE DEF new
    <3> QED
      BY <2>2, <2>3 DEF WithKeys, KeyTable
  <2> HIDE DEF r, w, new, n
  <2>8. /\ provider' \in [Providers -> Record] /\ provider'[p] = r
        /\ \A q \in Providers \ {p} : provider'[q] = provider[q]
    BY <1>1, <1>2, <2>5, <2>6, Types, Put
  <2>9. /\ keyRows' \in [Providers -> KeyTable] /\ keyRows'[p] = w
        /\ \A q \in Providers \ {p} : keyRows'[q] = keyRows[q]
    BY <1>1, <1>2, <2>1, <2>7, Types, Put
  <2>10. provider[p].prefix \in ModelPrefixes
    BY <1>5, <2>2 DEF PInv, RecordShape, Live
  <2>11. /\ prefixIndex' \in [ModelPrefixes -> Providers \cup {None}] /\ prefixIndex'[x] = p
         /\ \A y \in ModelPrefixes \ {x} :
               prefixIndex'[y] = IF y = provider[p].prefix THEN None ELSE prefixIndex[y]
    BY <1>1, <1>2, <2>1, <2>10, Types
  <2>12. CatTypeOK'
    BY <1>1, <2>1, <2>8, <2>9, <2>11, Types DEF CatTypeOK, Record, KeyTable, Strategies
  <2>13. PInv(p)'
    <3>1. Stored(p)' = Stored(p)
      BY <2>1 DEF Stored
    <3>2. Cardinality(w.record) = Cardinality(keyRows[p].record) + Cardinality(new)
      <4>1. IsFiniteSet(keyRows[p].record)
        BY <1>1, <1>2, RowsFinite
      <4>2. keyRows[p].record \cap new = {}
        BY <2>3
      <4>3. Cardinality(keyRows[p].record \cup new)
              = Cardinality(keyRows[p].record) + Cardinality(new) - Cardinality(keyRows[p].record \cap new)
        BY <2>3, <4>1, FS_Union
      <4>4. Cardinality(keyRows[p].record) \in Nat /\ Cardinality(keyRows[p].record \cap new) = 0
        BY <4>1, <4>2, FS_EmptySet, FS_CardinalityType
      <4> QED
        BY <2>3, <2>7, <4>3, <4>4
    <3>3. RecordShape(p)' /\ RowsAgree(p)'
      <4>1. RecordShape(p)'
        BY <1>2, <1>5, <2>6, <2>8 DEF RecordShape, Live
      <4>2. RowsAgree(p)'
        BY <2>1, <2>2, <2>7, <2>9, <3>1 DEF PInv, RowsAgree
      <4> QED
        BY <4>1, <4>2
    <3>4. ~Gone(p, Phases)' /\ Live(p)'
      BY <1>5, <2>6, <2>8 DEF Gone, Live
    <3>5. Drained(p)'
      BY <3>4 DEF Drained, Gone, Phases
    <3>6. Counted(p)'
      <4>1. /\ provider'[p].keyCount = provider[p].keyCount + Cardinality(new)
            /\ provider'[p].modelCount = provider[p].modelCount /\ keyRows'[p] = w
        BY <2>6, <2>8, <2>9 DEF n
      <4> QED
        BY <1>5, <2>2, <3>1, <3>2, <4>1 DEF PInv, Counted
    <3> QED
      BY <3>3, <3>5, <3>6 DEF PInv
  <2>14. ASSUME NEW q \in Providers, q # p
         PROVE  PInv(q)'
    BY <2>1, <2>8, <2>9, <2>14, Untouched DEF CatInv, PInv
  <2>15. \A q \in Providers : Live(q)' <=> Live(q)
    BY <2>6, <2>8 DEF Live
  <2>16. DeletionResumable'
    BY <2>1, <2>6, <2>8 DEF CatInv, DeletionResumable
  <2>17. PrefixIndexSound'
    <3>1. ASSUME NEW y \in ModelPrefixes, prefixIndex'[y] # None
          PROVE  Live(prefixIndex[y])' /\ provider'[prefixIndex'[y]].prefix = y
      <4>1. CASE y = x
        BY <1>2, <1>5, <2>6, <2>8, <2>11, <2>15, <4>1
      <4>2. CASE y # x
        <5>1. y # provider[p].prefix /\ prefixIndex'[y] = prefixIndex[y]
          BY <2>11, <3>1, <4>2
        <5>2. prefixIndex[y] \in Providers /\ Live(prefixIndex[y])
              /\ provider[prefixIndex[y]].prefix = y
          BY <1>1, <3>1, <5>1, Types DEF CatInv, PrefixIndexSound
        <5>3. prefixIndex[y] # p
          BY <5>1, <5>2
        <5>4. Live(prefixIndex[y])'
          BY <2>8, <5>1, <5>2, <5>3 DEF Live
        <5> QED
          BY <2>8, <5>1, <5>2, <5>3, <5>4
      <4> QED
        BY <4>1, <4>2
    <3> QED
      BY <3>1 DEF PrefixIndexSound
  <2>18. LiveProviders' = LiveProviders
    BY <2>15 DEF LiveProviders
  <2> QED
    BY <1>3, <2>1, <2>12, <2>13, <2>14, <2>16, <2>17, <2>18 DEF CatInv, PInv
<1> QED
  BY <1>4, <1>5

\* The catalog of a live provider is replaced, its index and count with it.
LEMMA CatalogReplaced ==
    ASSUME CatInv, NEW p \in Providers, Live(p), WorkOK',
           NEW rows \in [Models -> {None, "import", "manual"}],
           modelRows' = [modelRows EXCEPT ![p] = rows],
           modelIndex' = [modelIndex EXCEPT ![p] = {m \in Models : rows[m] # None}],
           provider' = [provider EXCEPT ![p].modelCount = Cardinality({m \in Models : rows[m] # None})],
           UNCHANGED <<prefixIndex, deletingIndex, providerCount, keyRows, targets, targetIndex>>
    PROVE  CatInv'
<1> DEFINE staying == {m \in Models : rows[m] # None}
           r == [provider[p] EXCEPT !.modelCount = Cardinality(staying)]
<1>1. CatTypeOK /\ PInv(p) /\ provider[p] \in Record
  BY Types DEF CatInv, PInv
<1>2. staying \in SUBSET Models /\ Cardinality(staying) \in Nat
  <2>1. staying \in SUBSET Models
    OBVIOUS
  <2> QED
    BY <2>1, CatalogAssumption, FS_Subset, FS_CardinalityType
<1>3. modelIndex' = [modelIndex EXCEPT ![p] = staying]
  OBVIOUS
<1>4. provider' = [provider EXCEPT ![p] = r]
  <2>1. provider' = [provider EXCEPT ![p].modelCount = Cardinality(staying)]
    OBVIOUS
  <2> HIDE DEF staying
  <2> QED
    BY <2>1
<1>5. Stored(p)' = staying
  BY <1>1, Types DEF Stored
<1> HIDE DEF staying
<1>6. /\ r \in Record /\ r.stored = provider[p].stored /\ r.deleting = provider[p].deleting
      /\ r.phase = provider[p].phase /\ r.prefix = provider[p].prefix
      /\ r.keyCount = provider[p].keyCount /\ r.modelCount = Cardinality(staying)
  BY <1>1, <1>2 DEF Record
<1> HIDE DEF r
<1>7. /\ provider' \in [Providers -> Record] /\ provider'[p] = r
      /\ \A q \in Providers \ {p} : provider'[q] = provider[q]
  <2>1. provider \in [Providers -> Record]
    BY <1>1, Types
  <2> QED
    BY <1>4, <1>6, <2>1
<1>8. /\ modelRows' \in [Providers -> [Models -> {None, "import", "manual"}]]
      /\ \A q \in Providers \ {p} : modelRows'[q] = modelRows[q]
  BY <1>1, Types, Put
<1>9. /\ modelIndex' \in [Providers -> SUBSET Models] /\ modelIndex'[p] = staying
      /\ \A q \in Providers \ {p} : modelIndex'[q] = modelIndex[q]
  BY <1>1, <1>2, <1>3, Types, Put
<1>10. CatTypeOK'
  BY <1>1, <1>7, <1>8, <1>9, Types DEF CatTypeOK, Record, Strategies
<1>11. PInv(p)'
  <2>1. RecordShape(p)'
    BY <1>1, <1>6, <1>7 DEF PInv, RecordShape, Live
  <2>2. RowsAgree(p)'
    BY <1>1, <1>5, <1>9 DEF PInv, RowsAgree
  <2>3. Drained(p)'
    BY <1>6, <1>7 DEF Drained, Gone, Live
  <2>4. Counted(p)'
    BY <1>1, <1>5, <1>6, <1>7 DEF PInv, Counted, Live
  <2> QED
    BY <2>1, <2>2, <2>3, <2>4 DEF PInv
<1>12. ASSUME NEW q \in Providers, q # p
       PROVE  PInv(q)'
  BY <1>7, <1>8, <1>9, <1>12, Untouched DEF CatInv, PInv
<1>13. DeletionResumable' /\ PrefixIndexSound' /\ providerCount' = Cardinality(LiveProviders')
  BY <1>6, <1>7, IndexesKept
<1> QED
  BY <1>10, <1>11, <1>12, <1>13 DEF CatInv, PInv

\* store_provider_models, for the manual model and for the import.
LEMMA StoreStep ==
    ASSUME CatInv, NEW p \in Providers, Live(p), WorkOK', NEW ms \in SUBSET Models,
           NEW source \in {"import", "manual"}, NEW authoritative \in BOOLEAN,
           StoreModels(p, MergedModels(p, ms, source, authoritative)),
           UNCHANGED <<prefixIndex, deletingIndex, providerCount, keyRows, targets, targetIndex>>
    PROVE  CatInv'
<1> DEFINE rows == MergedModels(p, ms, source, authoritative)
<1>1. rows \in [Models -> {None, "import", "manual"}]
  BY Types DEF CatInv, MergedModels
<1>2. StoreModels(p, rows)
  OBVIOUS
<1> HIDE DEF rows
<1> QED
  BY <1>1, <1>2, CatalogReplaced DEF StoreModels

\* delete_provider_model
LEMMA DeleteModelStep ==
    ASSUME CatInv, NEW p \in Providers, NEW m \in Models, DeleteModel(p, m)
    PROVE  CatInv'
<1> DEFINE rows == [modelRows[p] EXCEPT ![m] = None]
           staying == {n \in Models : rows[n] # None}
<1>1. /\ CatTypeOK /\ PInv(p) /\ Live(p) /\ m \in Stored(p)
      /\ modelRows[p] \in [Models -> {None, "import", "manual"}]
      /\ modelIndex[p] = Stored(p)
  BY Types DEF CatInv, PInv, DeleteModel, RowsAgree
<1>2. rows \in [Models -> {None, "import", "manual"}]
  BY <1>1
<1>3. staying = Stored(p) \ {m}
  BY <1>1 DEF Stored
<1>4. /\ Cardinality(staying) = Cardinality(Stored(p)) - 1
      /\ Cardinality(Stored(p)) \in Nat /\ Cardinality(staying) \in Nat
  <2>1. IsFiniteSet(Stored(p)) /\ Cardinality(Stored(p)) \in Nat
    BY <1>1, RowsFinite
  <2> QED
    BY <1>1, <1>3, <2>1, FS_RemoveElement, FS_CardinalityType
<1>5. provider[p].modelCount = Cardinality(Stored(p))
  BY <1>1 DEF PInv, Counted
<1>6. modelRows' = [modelRows EXCEPT ![p] = rows]
  BY DEF DeleteModel
<1>7. modelIndex' = [modelIndex EXCEPT ![p] = staying]
  BY <1>1, <1>3 DEF DeleteModel
<1>8. provider' = [provider EXCEPT ![p].modelCount = Cardinality(staying)]
  <2> HIDE DEF staying
  <2>1. (IF provider[p].modelCount > 0 THEN provider[p].modelCount - 1 ELSE 0) = Cardinality(staying)
    BY <1>4, <1>5
  <2> QED
    BY <2>1 DEF DeleteModel
<1>9. /\ WorkOK'
      /\ UNCHANGED <<prefixIndex, deletingIndex, providerCount, keyRows, targets, targetIndex>>
  BY DEF DeleteModel, CatInv, WorkOK
<1> HIDE DEF rows
<1> QED
  BY <1>1, <1>2, <1>6, <1>7, <1>8, <1>9, CatalogReplaced

\* import_provider_models drops imported rows that no combo uses.
LEMMA PruneStep ==
    ASSUME CatInv, ImportPrune
    PROVE  CatInv'
<1>1. CatTypeOK /\ WorkOK /\ import # None
  BY DEF CatInv, ImportPrune
<1>2. PICK p \in Providers : import.p = p /\ import \in [p : Providers, models : SUBSET Models, pruned : BOOLEAN]
  BY <1>1 DEF WorkOK
<1>3. PICK gone \in SUBSET PrunableModels(p, import.models) : PruneModels(p, gone)
  BY <1>2 DEF ImportPrune
<1> DEFINE rows == [m \in Models |-> IF m \in gone THEN None ELSE modelRows[p][m]]
           staying == {n \in Models : rows[n] # None}
<1>4. /\ PInv(p) /\ Live(p) /\ modelRows[p] \in [Models -> {None, "import", "manual"}]
      /\ modelIndex[p] = Stored(p)
  BY <1>1, <1>2, Types DEF CatInv, PInv, ImportPrune, RowsAgree
<1>5. rows \in [Models -> {None, "import", "manual"}]
  BY <1>4
<1>6. staying = Stored(p) \ gone /\ gone \subseteq Stored(p)
  BY <1>3, <1>4 DEF Stored, PrunableModels
<1>7. /\ Cardinality(staying) = Cardinality(Stored(p)) - Cardinality(gone)
      /\ Cardinality(Stored(p)) \in Nat /\ Cardinality(staying) \in Nat /\ Cardinality(gone) \in Nat
  <2>1. IsFiniteSet(Stored(p)) /\ Cardinality(Stored(p)) \in Nat
    BY <1>1, RowsFinite
  <2>2. Stored(p) \cap gone = gone
    BY <1>6
  <2>3. IsFiniteSet(gone) /\ Cardinality(gone) \in Nat
    BY <1>6, <2>1, FS_Subset, FS_CardinalityType
  <2>4. /\ IsFiniteSet(Stored(p) \ gone)
        /\ Cardinality(Stored(p) \ gone) = Cardinality(Stored(p)) - Cardinality(Stored(p) \cap gone)
    BY <2>1, FS_Difference
  <2> QED
    BY <1>6, <2>1, <2>2, <2>3, <2>4, FS_CardinalityType
<1>8. provider[p].modelCount = Cardinality(Stored(p))
  BY <1>4 DEF PInv, Counted
<1>9. /\ modelRows' = [modelRows EXCEPT ![p] = rows]
      /\ modelIndex' = [modelIndex EXCEPT ![p] = staying]
  BY <1>3, <1>4, <1>6 DEF PruneModels
<1>10. provider' = [provider EXCEPT ![p].modelCount = Cardinality(staying)]
  <2> HIDE DEF staying
  <2>1. (IF provider[p].modelCount > Cardinality(gone)
         THEN provider[p].modelCount - Cardinality(gone) ELSE 0) = Cardinality(staying)
    BY <1>7, <1>8
  <2> QED
    BY <1>3, <2>1 DEF PruneModels
<1>11. /\ WorkOK'
       /\ UNCHANGED <<prefixIndex, deletingIndex, providerCount, keyRows, targets, targetIndex>>
  BY <1>1, <1>2 DEF ImportPrune, WorkOK
<1> HIDE DEF rows
<1> QED
  BY <1>4, <1>5, <1>9, <1>10, <1>11, CatalogReplaced

\* The transaction of import_provider_models.
LEMMA ImportStep ==
    ASSUME CatInv, NEW authoritative \in BOOLEAN, ImportStore(authoritative)
    PROVE  CatInv'
<1>1. WorkOK /\ import # None /\ WorkOK'
  BY DEF CatInv, ImportStore, WorkOK
<1>2. PICK p \in Providers, ms \in SUBSET Models : import.p = p /\ import.models = ms
  BY <1>1 DEF WorkOK
<1>3. CASE Live(p)
  BY <1>1, <1>2, <1>3, StoreStep DEF ImportStore
<1>4. CASE ~Live(p)
  BY <1>1, <1>2, <1>4, ReadStep DEF ImportStore
<1> QED
  BY <1>3, <1>4

\* create_manual_model
LEMMA ManualStep ==
    ASSUME CatInv, NEW p \in Providers, NEW m \in Models, AddManualModel(p, m)
    PROVE  CatInv'
<1>1. WorkOK' /\ {m} \in SUBSET Models
  BY DEF AddManualModel, CatInv, WorkOK
<1> QED
  BY <1>1, StoreStep DEF AddManualModel

\* save_combo replaces its rows when every provider it names is live.
LEMMA SaveStep ==
    ASSUME CatInv, SaveTargets
    PROVE  CatInv'
<1>1. CatTypeOK /\ WorkOK /\ save # None /\ WorkOK'
  BY DEF CatInv, SaveTargets, WorkOK
<1>2. CASE ~(\A t \in save : Live(t[1]))
  BY <1>1, <1>2, ReadStep DEF SaveTargets
<1>3. CASE \A t \in save : Live(t[1])
  <2>1. /\ targets' = save /\ targetIndex' = save /\ provider' = provider /\ keyRows' = keyRows
        /\ modelRows' = modelRows /\ modelIndex' = modelIndex
        /\ UNCHANGED <<prefixIndex, deletingIndex, providerCount>>
    BY <1>3 DEF SaveTargets
  <2>2. CatTypeOK'
    BY <1>1, <2>1 DEF CatTypeOK, WorkOK
  <2>3. ASSUME NEW q \in Providers
        PROVE  PInv(q)'
    <3>1. PInv(q) /\ Stored(q)' = Stored(q) /\ Live(q)' = Live(q)
      BY <2>1 DEF CatInv, PInv, Stored, Live
    <3>2. ~Live(q) => \A t \in targets' : t[1] # q
      BY <1>3, <2>1
    <3> QED
      BY <2>1, <3>1, <3>2 DEF PInv, RecordShape, RowsAgree, Drained, Gone, Counted, Live
  <2>4. DeletionResumable' /\ PrefixIndexSound' /\ providerCount' = Cardinality(LiveProviders')
    BY <2>1, IndexesKept
  <2> QED
    BY <1>1, <2>1, <2>2, <2>3, <2>4 DEF CatInv, PInv
<1> QED
  BY <1>2, <1>3

-----------------------------------------------------------------------------
(* Deletion.                                                               *)

\* delete_provider writes the tombstone.
LEMMA MarkStep ==
    ASSUME CatInv, NEW p \in Providers, MarkDeleting(p)
    PROVE  CatInv'
<1> DEFINE r == [provider[p] EXCEPT !.deleting = TRUE, !.phase = "route_targets"]
<1>1. CatTypeOK /\ WorkOK /\ PInv(p) /\ Live(p) /\ provider[p] \in Record
  BY Types DEF CatInv, PInv, MarkDeleting
<1>2. /\ r \in Record /\ r.stored /\ r.deleting /\ r.phase = "route_targets"
      /\ r.prefix = provider[p].prefix /\ r.keyCount = provider[p].keyCount
      /\ r.modelCount = provider[p].modelCount
  BY <1>1 DEF Record, Phases, Live
<1>3. provider' = [provider EXCEPT ![p] = r]
  <2>1. provider \in [Providers -> Record]
    BY <1>1, Types
  <2> QED
    BY <2>1 DEF MarkDeleting
<1> HIDE DEF r
<1>4. /\ provider' \in [Providers -> Record] /\ provider'[p] = r
      /\ \A q \in Providers \ {p} : provider'[q] = provider[q]
  BY <1>1, <1>2, <1>3, Types, Put
<1>5. /\ keyRows' = keyRows /\ modelRows' = modelRows /\ modelIndex' = modelIndex
      /\ targets' = targets /\ targetIndex' = targetIndex
      /\ update' = update /\ import' = import /\ save' = save
      /\ deletingIndex' = deletingIndex \cup {p}
      /\ providerCount' = IF providerCount > 0 THEN providerCount - 1 ELSE 0
  BY DEF MarkDeleting
<1>6. provider[p].prefix \in ModelPrefixes
  BY <1>1 DEF PInv, RecordShape, Live
<1>7. /\ prefixIndex' \in [ModelPrefixes -> Providers \cup {None}]
      /\ prefixIndex'[provider[p].prefix] = None
      /\ \A y \in ModelPrefixes \ {provider[p].prefix} : prefixIndex'[y] = prefixIndex[y]
  BY <1>1, <1>6, Types, Put DEF MarkDeleting
<1>8. /\ LiveProviders' = LiveProviders \ {p} /\ p \in LiveProviders
      /\ providerCount' = Cardinality(LiveProviders') /\ providerCount' \in Nat
  <2>1. LiveProviders' = LiveProviders \ {p} /\ p \in LiveProviders
    BY <1>1, <1>2, <1>4 DEF LiveProviders, Live
  <2>2. IsFiniteSet(LiveProviders)
    BY CatalogAssumption, FS_Subset DEF LiveProviders
  <2>3. /\ Cardinality(LiveProviders \ {p}) = Cardinality(LiveProviders) - 1
        /\ Cardinality(LiveProviders) \in Nat /\ Cardinality(LiveProviders \ {p}) \in Nat
    BY <2>1, <2>2, FS_RemoveElement, FS_CardinalityType
  <2>4. providerCount = Cardinality(LiveProviders)
    BY DEF CatInv
  <2> QED
    BY <1>5, <2>1, <2>3, <2>4
<1>9. CatTypeOK' /\ WorkOK'
  BY <1>1, <1>4, <1>5, <1>7, <1>8, Types DEF CatTypeOK, Record, Strategies, WorkOK
<1>10. PInv(p)'
  <2>1. Stored(p)' = Stored(p)
    BY <1>5 DEF Stored
  <2> QED
    BY <1>1, <1>2, <1>4, <1>5, <1>6, <2>1
       DEF PInv, RecordShape, RowsAgree, Drained, Gone, Counted, Live, Phases
<1>11. ASSUME NEW q \in Providers, q # p
       PROVE  PInv(q)'
  BY <1>4, <1>5, <1>11, Untouched DEF CatInv, PInv
<1>12. DeletionResumable'
  BY <1>1, <1>2, <1>4, <1>5 DEF CatInv, DeletionResumable
<1>13. PrefixIndexSound'
  <2>1. ASSUME NEW y \in ModelPrefixes, prefixIndex'[y] # None
        PROVE  Live(prefixIndex[y])' /\ provider'[prefixIndex'[y]].prefix = y
    <3>1. y # provider[p].prefix /\ prefixIndex'[y] = prefixIndex[y]
      BY <1>7, <2>1
    <3>2. prefixIndex[y] \in Providers /\ Live(prefixIndex[y]) /\ provider[prefixIndex[y]].prefix = y
      BY <1>1, <2>1, <3>1, Types DEF CatInv, PrefixIndexSound
    <3>3. prefixIndex[y] # p
      BY <3>1, <3>2
    <3>4. Live(prefixIndex[y])'
      BY <1>4, <3>1, <3>2, <3>3 DEF Live
    <3> QED
      BY <1>4, <3>1, <3>2, <3>3, <3>4
  <2> QED
    BY <2>1 DEF PrefixIndexSound
<1> QED
  BY <1>5, <1>8, <1>9, <1>10, <1>11, <1>12, <1>13 DEF CatInv, PInv

\* The last transaction of a deletion removes the record.
LEMMA FinishStep ==
    ASSUME CatInv, NEW p \in Providers, Finish(p)
    PROVE  CatInv'
<1>1. CatTypeOK /\ WorkOK /\ PInv(p) /\ provider[p] \in Record
  BY Types DEF CatInv, PInv
<1>2. provider[p].deleting /\ provider[p].stored /\ provider[p].phase = "finish"
      /\ provider[p].prefix \in ModelPrefixes
  BY <1>1 DEF Finish, Removing, PInv, RecordShape
<1>3. NoProvider \in Record /\ ~NoProvider.stored /\ ~NoProvider.deleting
  BY DEF NoProvider, Record, Strategies
<1>4. /\ provider' \in [Providers -> Record] /\ provider'[p] = NoProvider
      /\ \A q \in Providers \ {p} : provider'[q] = provider[q]
  BY <1>1, <1>3, Types, Put DEF Finish
<1>5. /\ keyRows' = keyRows /\ modelRows' = modelRows /\ modelIndex' = modelIndex
      /\ targets' = targets /\ targetIndex' = targetIndex
      /\ update' = update /\ import' = import /\ save' = save
      /\ deletingIndex' = deletingIndex \ {p} /\ providerCount' = providerCount
  BY DEF Finish
<1>6. /\ prefixIndex' \in [ModelPrefixes -> Providers \cup {None}]
      /\ prefixIndex'[provider[p].prefix] = None
      /\ \A y \in ModelPrefixes \ {provider[p].prefix} : prefixIndex'[y] = prefixIndex[y]
  BY <1>1, <1>2, Types, Put DEF Finish
<1>7. CatTypeOK' /\ WorkOK'
  BY <1>1, <1>4, <1>5, <1>6, Types DEF CatTypeOK, Record, Strategies, WorkOK
<1>8. PInv(p)'
  <2>1. Stored(p)' = Stored(p)
    BY <1>5 DEF Stored
  <2>2. /\ Stored(p) = {} /\ keyRows[p].record = {} /\ keyRows[p].available = {}
        /\ \A t \in targets : t[1] # p
    BY <1>1, <1>2 DEF PInv, Drained, Gone, Phases
  <2> QED
    BY <1>1, <1>3, <1>4, <1>5, <2>1, <2>2
       DEF PInv, RecordShape, RowsAgree, Drained, Gone, Counted, Live
<1>9. ASSUME NEW q \in Providers, q # p
      PROVE  PInv(q)'
  BY <1>4, <1>5, <1>9, Untouched DEF CatInv, PInv
<1>10. \A q \in Providers : Live(q)' <=> Live(q)
  BY <1>2, <1>3, <1>4 DEF Live
<1>11. LiveProviders' = LiveProviders
  BY <1>10 DEF LiveProviders
<1>12. DeletionResumable'
  BY <1>2, <1>3, <1>4, <1>5 DEF CatInv, DeletionResumable
<1>13. PrefixIndexSound'
  <2>1. ASSUME NEW y \in ModelPrefixes, prefixIndex'[y] # None
        PROVE  Live(prefixIndex[y])' /\ provider'[prefixIndex'[y]].prefix = y
    <3>1. prefixIndex'[y] = prefixIndex[y]
      BY <1>6, <2>1
    <3>2. prefixIndex[y] \in Providers /\ Live(prefixIndex[y]) /\ provider[prefixIndex[y]].prefix = y
      BY <1>1, <2>1, <3>1, Types DEF CatInv, PrefixIndexSound
    <3>3. prefixIndex[y] # p
      BY <1>2, <3>2 DEF Live
    <3>4. Live(prefixIndex[y])'
      BY <1>4, <3>1, <3>2, <3>3 DEF Live
    <3> QED
      BY <1>4, <3>1, <3>2, <3>3, <3>4
  <2> QED
    BY <2>1 DEF PrefixIndexSound
<1> QED
  BY <1>5, <1>7, <1>8, <1>9, <1>11, <1>12, <1>13 DEF CatInv, PInv

\* What a page of any table has in common: the record stays a tombstone, and
\* its phase moves on when the table is exhausted.
LEMMA PageStep ==
    ASSUME CatInv, NEW p \in Providers, NEW r \in Record, NEW e \in BOOLEAN,
           provider[p].deleting, r.phase = provider[p].phase, r.stored = provider[p].stored,
           r.deleting = provider[p].deleting, r.prefix = provider[p].prefix,
           r.strategy = provider[p].strategy,
           provider' = [provider EXCEPT ![p] = AfterPage(r, e)],
           keyRows' \in [Providers -> KeyTable],
           modelRows' \in [Providers -> [Models -> {None, "import", "manual"}]],
           modelIndex' \in [Providers -> SUBSET Models],
           targets' \subseteq targets, targetIndex' = targets',
           \A q \in Providers \ {p} : /\ keyRows'[q] = keyRows[q] /\ modelRows'[q] = modelRows[q]
                                      /\ modelIndex'[q] = modelIndex[q],
           RowsAgree(p)', keyRows'[p].record \subseteq keyRows[p].record,
           keyRows'[p].available \subseteq keyRows[p].available,
           Stored(p)' \subseteq Stored(p),
           e /\ r.phase = "route_targets" => \A t \in targets' : t[1] # p,
           e /\ r.phase = "api_keys" => keyRows'[p].record = {},
           e /\ r.phase = "api_key_availability" => keyRows'[p].available = {},
           e /\ r.phase = "models" => Stored(p)' = {},
           UNCHANGED <<prefixIndex, deletingIndex, providerCount, update, import, save>>
    PROVE  CatInv'
<1> DEFINE w == AfterPage(r, e)
<1>1. CatTypeOK /\ WorkOK /\ PInv(p) /\ provider[p].stored /\ provider[p].phase \in Phases
  BY DEF CatInv, PInv, RecordShape
<1>2. /\ w \in Record /\ w.stored /\ w.deleting /\ w.prefix = provider[p].prefix /\ w.phase \in Phases
      /\ w.phase = IF e THEN NextPhase(provider[p].phase) ELSE provider[p].phase
  BY <1>1, AfterPageRecord
<1>3. provider' = [provider EXCEPT ![p] = w]
  OBVIOUS
<1> HIDE DEF w
<1>4. /\ provider' \in [Providers -> Record] /\ provider'[p] = w
      /\ \A q \in Providers \ {p} : provider'[q] = provider[q]
  BY <1>1, <1>2, <1>3, Types, Put
<1>5. CatTypeOK' /\ WorkOK'
  BY <1>1, <1>4, Types DEF CatTypeOK, Record, KeyTable, Strategies, WorkOK
<1>6. PInv(p)'
  <2>1. RecordShape(p)' /\ Counted(p)'
    BY <1>1, <1>2, <1>4 DEF PInv, RecordShape, Counted, Live
  <2>2. Drained(p)'
    <3>1. ASSUME w.phase # "route_targets"
          PROVE  \A t \in targets' : t[1] # p
      <4>1. CASE provider[p].phase = "route_targets"
        BY <1>2, <3>1, <4>1
      <4>2. CASE provider[p].phase # "route_targets"
        BY <1>1, <4>2 DEF PInv, Drained, Gone
      <4> QED
        BY <4>1, <4>2
    <3>2. ASSUME w.phase \notin {"route_targets", "api_keys"}
          PROVE  keyRows'[p].record = {}
      <4>1. CASE provider[p].phase = "route_targets"
        BY <1>2, <3>2, <4>1 DEF NextPhase
      <4>2. CASE provider[p].phase = "api_keys"
        BY <1>2, <3>2, <4>2
      <4>3. CASE provider[p].phase \notin {"route_targets", "api_keys"}
        BY <1>1, <4>3 DEF PInv, Drained, Gone
      <4> QED
        BY <4>1, <4>2, <4>3
    <3>4. ASSUME w.phase \notin {"route_targets", "api_keys", "api_key_availability"}
          PROVE  keyRows'[p].available = {}
      <4>1. CASE provider[p].phase \in {"route_targets", "api_keys"}
        BY <1>2, <3>4, <4>1 DEF NextPhase
      <4>2. CASE provider[p].phase = "api_key_availability"
        BY <1>2, <3>4, <4>2
      <4>3. CASE provider[p].phase \notin {"route_targets", "api_keys", "api_key_availability"}
        BY <1>1, <4>3 DEF PInv, Drained, Gone
      <4> QED
        BY <4>1, <4>2, <4>3
    <3>3. ASSUME w.phase \in {"model_indexes", "finish"}
          PROVE  Stored(p)' = {}
      <4>1. CASE provider[p].phase = "models"
        BY <1>2, <3>3, <4>1
      <4>2. CASE provider[p].phase \in {"model_indexes", "finish"}
        BY <1>1, <4>2 DEF PInv, Drained, Gone
      <4>3. CASE provider[p].phase \notin {"models", "model_indexes", "finish"}
        BY <1>1, <1>2, <3>3, <4>3 DEF NextPhase, Phases
      <4> QED
        BY <4>1, <4>2, <4>3
    <3> QED
      BY <1>2, <1>4, <3>1, <3>2, <3>3, <3>4 DEF Drained, Gone
  <2> QED
    BY <2>1, <2>2 DEF PInv
<1>7. ASSUME NEW q \in Providers, q # p
      PROVE  PInv(q)'
  BY <1>4, <1>7, Untouched DEF CatInv, PInv
<1>8. DeletionResumable' /\ PrefixIndexSound' /\ providerCount' = Cardinality(LiveProviders')
  BY <1>1, <1>2, <1>4, IndexesKept
<1> QED
  BY <1>5, <1>6, <1>7, <1>8 DEF CatInv, PInv

\* The pages of the combo targets.
LEMMA TargetsStep ==
    ASSUME CatInv, NEW p \in Providers, DrainTargets(p),
           UNCHANGED <<prefixIndex, deletingIndex, providerCount, update, import, save>>
    PROVE  CatInv'
<1> DEFINE rows == {t \in targetIndex : t[1] = p}
<1>1. CatTypeOK /\ PInv(p) /\ provider[p] \in Record /\ targetIndex = targets
  BY Types DEF CatInv, PInv
<1>2. PICK page \in Pages(rows) : targets' = targets \ page /\ targetIndex' = targetIndex \ page
  BY DEF DrainTargets
<1>3. page \subseteq rows /\ (Exhausted(rows) => page = rows)
  <2>1. IsFiniteSet(rows)
    BY <1>1, RowsFinite
  <2> HIDE DEF rows
  <2> QED
    BY <1>2, <2>1, LastPage
<1>4. /\ provider[p].deleting /\ provider[p].phase = "route_targets"
      /\ provider' = [provider EXCEPT ![p] = AfterPage(provider[p], Exhausted(rows))]
      /\ keyRows' = keyRows /\ modelRows' = modelRows /\ modelIndex' = modelIndex
  BY DEF DrainTargets, Removing
<1>5. Stored(p)' = Stored(p) /\ RowsAgree(p)'
  BY <1>1, <1>4 DEF Stored, PInv, RowsAgree
<1>6. Exhausted(rows) => \A t \in targets' : t[1] # p
  BY <1>1, <1>2, <1>3
<1>7. Exhausted(rows) \in BOOLEAN
  BY DEF Exhausted
<1>8. targets' \subseteq targets /\ targetIndex' = targets'
  BY <1>1, <1>2
<1> HIDE DEF rows
<1> QED
  BY <1>1, <1>4, <1>5, <1>6, <1>7, <1>8, PageStep, Types

\* The pages of the keys, by creation order.
LEMMA KeysStep ==
    ASSUME CatInv, NEW p \in Providers, DrainKeys(p),
           UNCHANGED <<prefixIndex, deletingIndex, providerCount, update, import, save>>
    PROVE  CatInv'
<1> DEFINE rows == keyRows[p].order
<1>1. /\ CatTypeOK /\ PInv(p) /\ provider[p] \in Record /\ keyRows[p] \in KeyTable
      /\ provider \in [Providers -> Record] /\ keyRows \in [Providers -> KeyTable]
      /\ targetIndex = targets
  BY Types DEF CatInv, PInv
<1>2. PICK page \in Pages(rows) :
         /\ keyRows' = [keyRows EXCEPT ![p] =
               [record |-> @.record \ page, disabled |-> @.disabled \ page,
                invalid |-> @.invalid \ page, order |-> @.order \ page,
                available |-> @.available \ page, created |-> @.created \ page]]
         /\ provider' = [provider EXCEPT ![p] =
               AfterPage(FewerKeys(@, Cardinality(page)), Exhausted(rows))]
  BY DEF DrainKeys
<1>3. /\ page \subseteq rows /\ (Exhausted(rows) => page = rows) /\ Cardinality(page) \in Nat
      /\ Exhausted(rows) \in BOOLEAN
  <2>1. IsFiniteSet(rows)
    BY <1>1, RowsFinite
  <2>2. page \in SUBSET rows
    BY <1>2, <2>1, LastPage
  <2> QED
    BY <1>2, <2>1, <2>2, LastPage, FS_Subset, FS_CardinalityType DEF Exhausted
<1> DEFINE w == [record |-> keyRows[p].record \ page, disabled |-> keyRows[p].disabled \ page,
                 invalid |-> keyRows[p].invalid \ page, order |-> keyRows[p].order \ page,
                 available |-> keyRows[p].available \ page, created |-> keyRows[p].created \ page]
           n == IF provider[p].keyCount > Cardinality(page)
                THEN provider[p].keyCount - Cardinality(page) ELSE 0
           r == FewerKeys(provider[p], Cardinality(page))
<1>4. n \in Nat
  BY <1>1, <1>3 DEF Record
<1>5. /\ r \in Record /\ r.phase = provider[p].phase /\ r.stored = provider[p].stored
      /\ r.deleting = provider[p].deleting /\ r.prefix = provider[p].prefix
      /\ r.strategy = provider[p].strategy
  <2>1. r = [provider[p] EXCEPT !.keyCount = n]
    BY DEF FewerKeys
  <2> HIDE DEF n, r
  <2> QED
    BY <1>1, <1>4, <2>1 DEF Record
<1>6. provider' = [provider EXCEPT ![p] = AfterPage(r, Exhausted(rows))]
  BY <1>2
<1>7. w \in KeyTable /\ keyRows' = [keyRows EXCEPT ![p] = w]
  BY <1>1, <1>2 DEF KeyTable
<1>8. /\ keyRows' \in [Providers -> KeyTable] /\ keyRows'[p] = w
      /\ \A q \in Providers \ {p} : keyRows'[q] = keyRows[q]
  <2> HIDE DEF w
  <2> QED
    BY <1>1, <1>7, Put
<1>9. /\ provider[p].deleting /\ provider[p].phase = "api_keys"
      /\ modelRows' = modelRows /\ modelIndex' = modelIndex
      /\ targets' = targets /\ targetIndex' = targetIndex
  BY DEF DrainKeys, Removing
<1>10. Stored(p)' = Stored(p) /\ RowsAgree(p)'
  BY <1>1, <1>8, <1>9 DEF Stored, PInv, RowsAgree
<1>11. /\ keyRows'[p].record \subseteq keyRows[p].record
       /\ keyRows'[p].available \subseteq keyRows[p].available
       /\ Exhausted(rows) => keyRows'[p].record = {}
  BY <1>1, <1>3, <1>8 DEF PInv, RowsAgree
<1> HIDE DEF rows, r, w, n
<1> QED
  BY <1>1, <1>3, <1>5, <1>6, <1>8, <1>9, <1>10, <1>11, PageStep, Types

\* The pages of the two key indexes: what deleted keys left in the first.
LEMMA KeyIndexStep ==
    ASSUME CatInv, NEW p \in Providers,
           \/ DrainKeyIndex(p, "api_key_availability", "available")
           \/ DrainKeyIndex(p, "api_key_created", "created"),
           UNCHANGED <<prefixIndex, deletingIndex, providerCount, update, import, save>>
    PROVE  CatInv'
<1>1. /\ CatTypeOK /\ PInv(p) /\ provider[p] \in Record /\ keyRows[p] \in KeyTable
      /\ keyRows \in [Providers -> KeyTable] /\ targetIndex = targets
  BY Types DEF CatInv, PInv
<1>2. /\ provider[p].deleting /\ provider[p].phase \in {"api_key_availability", "api_key_created"}
      /\ modelRows' = modelRows /\ modelIndex' = modelIndex
      /\ targets' = targets /\ targetIndex' = targetIndex
  BY DEF DrainKeyIndex, Removing
<1>3. /\ keyRows[p].record = {} /\ keyRows[p].order = {} /\ keyRows[p].created = {}
      /\ keyRows[p].disabled = {} /\ keyRows[p].invalid = {}
  BY <1>1, <1>2 DEF PInv, Drained, Gone, Phases, RowsAgree
<1>4. PICK a \in SUBSET keyRows[p].available, e \in BOOLEAN :
         /\ keyRows' = [keyRows EXCEPT ![p] = [keyRows[p] EXCEPT !.available = a]]
         /\ provider' = [provider EXCEPT ![p] = AfterPage(provider[p], e)]
         /\ e /\ provider[p].phase = "api_key_availability" => a = {}
  <2>1. CASE DrainKeyIndex(p, "api_key_availability", "available")
    <3> DEFINE rows == keyRows[p].available
    <3>1. PICK page \in Pages(rows) : keyRows' = [keyRows EXCEPT ![p]["available"] = @ \ page]
      BY <2>1 DEF DrainKeyIndex
    <3>2. /\ provider' = [provider EXCEPT ![p] = AfterPage(provider[p], Exhausted(rows))]
          /\ Exhausted(rows) \in BOOLEAN
      BY <2>1 DEF DrainKeyIndex, Exhausted
    <3>3. IsFiniteSet(rows)
      BY <1>1, CatalogAssumption, FS_Subset DEF KeyTable
    <3>4. Exhausted(rows) => rows \ page = {}
      <4> HIDE DEF rows
      <4> QED
        BY <3>1, <3>3, LastPage
    <3>5. keyRows' = [keyRows EXCEPT ![p] = [keyRows[p] EXCEPT !.available = rows \ page]]
      BY <1>1, <3>1
    <3>6. rows \ page \in SUBSET keyRows[p].available
      OBVIOUS
    <3> HIDE DEF rows
    <3> QED
      BY <3>2, <3>4, <3>5, <3>6
  <2>2. CASE DrainKeyIndex(p, "api_key_created", "created")
    <3>1. PICK page \in Pages(keyRows[p]["created"]) :
              keyRows' = [keyRows EXCEPT ![p]["created"] = @ \ page]
      BY <2>2 DEF DrainKeyIndex
    <3>2. page = {} /\ provider[p].phase = "api_key_created"
      BY <1>3, <2>2, <3>1 DEF Pages, DrainKeyIndex, Removing
    <3>3. [keyRows[p] EXCEPT !["created"] = keyRows[p]["created"] \ page]
             = [keyRows[p] EXCEPT !.available = keyRows[p].available]
      BY <1>1, <1>3, <3>2 DEF KeyTable
    <3>4. keyRows' = [keyRows EXCEPT ![p] = [keyRows[p] EXCEPT !.available = keyRows[p].available]]
      BY <1>1, <3>1, <3>3
    <3>5. Exhausted(keyRows[p]["created"]) \in BOOLEAN
      BY DEF Exhausted
    <3> QED
      BY <2>2, <3>2, <3>4, <3>5 DEF DrainKeyIndex
  <2> QED
    BY <2>1, <2>2
<1> DEFINE w == [keyRows[p] EXCEPT !.available = a]
<1>5. /\ w \in KeyTable /\ w.record = keyRows[p].record /\ w.order = keyRows[p].order
      /\ w.created = keyRows[p].created /\ w.available = a
      /\ w.disabled = keyRows[p].disabled /\ w.invalid = keyRows[p].invalid
  BY <1>1, <1>4 DEF KeyTable
<1>6. keyRows' = [keyRows EXCEPT ![p] = w]
  BY <1>4
<1> HIDE DEF w
<1>7. /\ keyRows' \in [Providers -> KeyTable] /\ keyRows'[p] = w
      /\ \A q \in Providers \ {p} : keyRows'[q] = keyRows[q]
  BY <1>1, <1>5, <1>6, Put
<1>8. Stored(p)' = Stored(p) /\ RowsAgree(p)'
  BY <1>1, <1>2, <1>3, <1>5, <1>7 DEF Stored, PInv, RowsAgree
<1> QED
  BY <1>1, <1>2, <1>3, <1>4, <1>5, <1>7, <1>8, PageStep, Types

\* The pages of the models.
LEMMA ModelsStep ==
    ASSUME CatInv, NEW p \in Providers, DrainModels(p),
           UNCHANGED <<prefixIndex, deletingIndex, providerCount, update, import, save>>
    PROVE  CatInv'
<1> DEFINE rows == Stored(p)
<1>1. /\ CatTypeOK /\ PInv(p) /\ provider[p] \in Record /\ targetIndex = targets
      /\ modelRows \in [Providers -> [Models -> {None, "import", "manual"}]]
      /\ modelIndex \in [Providers -> SUBSET Models]
  BY Types DEF CatInv, PInv
<1>2. PICK page \in Pages(rows) :
         /\ modelRows' = [modelRows EXCEPT ![p] = [m \in Models |-> IF m \in page THEN None ELSE @[m]]]
         /\ modelIndex' = [modelIndex EXCEPT ![p] = @ \ page]
  BY DEF DrainModels
<1>3. page \subseteq rows /\ (Exhausted(rows) => page = rows) /\ Exhausted(rows) \in BOOLEAN
  <2>1. IsFiniteSet(rows)
    BY <1>1, RowsFinite
  <2> QED
    BY <1>2, <2>1, LastPage DEF Exhausted
<1> DEFINE w == [m \in Models |-> IF m \in page THEN None ELSE modelRows[p][m]]
<1>4. /\ w \in [Models -> {None, "import", "manual"}] /\ modelRows' = [modelRows EXCEPT ![p] = w]
      /\ {m \in Models : w[m] # None} = Stored(p) \ page
  BY <1>1, <1>2 DEF Stored
<1> HIDE DEF w
<1>5. /\ modelRows' \in [Providers -> [Models -> {None, "import", "manual"}]] /\ modelRows'[p] = w
      /\ \A q \in Providers \ {p} : modelRows'[q] = modelRows[q]
  BY <1>1, <1>4, Put
<1>6. /\ modelIndex' \in [Providers -> SUBSET Models] /\ modelIndex'[p] = modelIndex[p] \ page
      /\ \A q \in Providers \ {p} : modelIndex'[q] = modelIndex[q]
  BY <1>1, <1>2
<1>7. /\ provider[p].deleting /\ provider[p].phase = "models"
      /\ provider' = [provider EXCEPT ![p] = AfterPage(provider[p], Exhausted(rows))]
      /\ keyRows' = keyRows /\ targets' = targets /\ targetIndex' = targetIndex
  BY DEF DrainModels, Removing
<1>8. Stored(p)' = Stored(p) \ page
  BY <1>4, <1>5 DEF Stored
<1>9. RowsAgree(p)'
  BY <1>1, <1>6, <1>7, <1>8 DEF PInv, RowsAgree
<1>10. Stored(p)' \subseteq Stored(p) /\ (Exhausted(rows) => Stored(p)' = {})
  BY <1>3, <1>8
<1> HIDE DEF rows
<1> QED
  BY <1>1, <1>3, <1>5, <1>6, <1>7, <1>9, <1>10, PageStep, Types

\* The pages of the model index are empty for the same reason.
LEMMA ModelIndexStep ==
    ASSUME CatInv, NEW p \in Providers, DrainModelIndex(p),
           UNCHANGED <<prefixIndex, deletingIndex, providerCount, update, import, save>>
    PROVE  CatInv'
<1>1. /\ CatTypeOK /\ PInv(p) /\ provider[p] \in Record /\ targetIndex = targets
      /\ modelIndex \in [Providers -> SUBSET Models]
  BY Types DEF CatInv, PInv
<1>2. /\ provider[p].deleting /\ provider[p].phase = "model_indexes"
      /\ provider' = [provider EXCEPT ![p] = AfterPage(provider[p], Exhausted(modelIndex[p]))]
      /\ keyRows' = keyRows /\ modelRows' = modelRows
      /\ targets' = targets /\ targetIndex' = targetIndex
  BY DEF DrainModelIndex, Removing
<1>3. modelIndex[p] = {} /\ Stored(p) = {}
  BY <1>1, <1>2 DEF PInv, Drained, Gone, RowsAgree
<1>4. modelIndex' = modelIndex
  <2>1. PICK page \in Pages(modelIndex[p]) : modelIndex' = [modelIndex EXCEPT ![p] = @ \ page]
    BY DEF DrainModelIndex
  <2>2. page = {}
    BY <1>3, <2>1 DEF Pages
  <2> QED
    BY <1>1, <1>3, <2>1, <2>2
<1>5. Stored(p)' = Stored(p) /\ RowsAgree(p)' /\ Exhausted(modelIndex[p]) \in BOOLEAN
  BY <1>1, <1>2, <1>4 DEF Stored, PInv, RowsAgree, Exhausted
<1> QED
  BY <1>1, <1>2, <1>4, <1>5, PageStep, Types

-----------------------------------------------------------------------------
(* The invariant.                                                          *)

\* An empty catalogue satisfies the invariant.
LEMMA CatInvInit == CatInit => CatInv
<1> SUFFICES ASSUME CatInit PROVE CatInv
  OBVIOUS
<1>1. NoProvider \in Record /\ ~NoProvider.stored /\ ~NoProvider.deleting
  BY DEF NoProvider, Record, Strategies
<1>2. NoKeys \in KeyTable
  BY DEF NoKeys, KeyTable
<1>3. provider \in [Providers -> Record] /\ keyRows \in [Providers -> KeyTable]
  BY <1>1, <1>2 DEF CatInit
<1>4. CatTypeOK /\ WorkOK
  BY <1>3 DEF CatInit, CatTypeOK, WorkOK, Record, KeyTable, Strategies
<1>5. ASSUME NEW p \in Providers
      PROVE  /\ provider[p] = NoProvider /\ keyRows[p] = NoKeys /\ Stored(p) = {}
             /\ ~Live(p)
  BY <1>1 DEF CatInit, Stored, Live
<1>6. \A p \in Providers : RecordShape(p) /\ RowsAgree(p) /\ Drained(p) /\ Counted(p)
  BY <1>1, <1>5 DEF CatInit, RecordShape, RowsAgree, Drained, Counted, NoKeys
<1>7. DeletionResumable /\ PrefixIndexSound
  BY <1>1, <1>5 DEF CatInit, DeletionResumable, PrefixIndexSound
<1>8. providerCount = Cardinality(LiveProviders)
  <2>1. LiveProviders = {}
    BY <1>5 DEF LiveProviders
  <2> QED
    BY <2>1, FS_EmptySet DEF CatInit
<1> QED
  BY <1>4, <1>6, <1>7, <1>8 DEF CatInit, CatInv

\* Every step of the administration, an import, a deletion page or a restart keeps it.
LEMMA CatInvNext == CatInv /\ [CatNext]_catVars => CatInv'
<1> SUFFICES ASSUME CatInv, [CatNext]_catVars PROVE CatInv'
  OBVIOUS
<1>1. CASE UNCHANGED catVars
  <2>1. WorkOK'
    BY <1>1 DEF CatInv, WorkOK, catVars
  <2> QED
    BY <1>1, <2>1, ReadStep DEF catVars
<1>2. CASE \E p \in Providers, x \in ModelPrefixes : \E ks \in SUBSET KeysFor(p) : CreateProvider(p, x, ks)
  BY <1>2, CreateStep
<1>3. CASE \E p \in Providers, x \in ModelPrefixes \cup {None} : UpdateRead(p, x)
  BY <1>3, UpdateReadStep
<1>4. CASE \E ks \in SUBSET Keys : UpdateWrite(ks)
  BY <1>4, UpdateWriteStep
<1>5. CASE \E p \in Providers, s \in {"priority", "round_robin"} : SetKeyStrategy(p, s)
  BY <1>5, StrategyStep DEF Strategies
<1>6. CASE \/ \E p \in Providers, k \in ChangingKeys, usable \in BOOLEAN : ReportKey(p, k, usable)
           \/ \E p \in Providers, k \in ChangingKeys, on \in BOOLEAN : SwitchKey(p, k, on)
           \/ \E p \in Providers, k \in ChangingKeys : DeleteKey(p, k)
  BY <1>6, ReportStep, DeleteKeyStep, CatalogAssumption
<1>7. CASE \E p \in Providers, m \in Models : AddManualModel(p, m) \/ DeleteModel(p, m)
  BY <1>7, ManualStep, DeleteModelStep
<1>8. CASE \E p \in Providers, ms \in SUBSET Models : ImportRead(p, ms)
  <2>1. PICK p \in Providers, ms \in SUBSET Models : ImportRead(p, ms)
    BY <1>8
  <2>2. WorkOK'
    BY <2>1 DEF CatInv, WorkOK, ImportRead
  <2> QED
    BY <2>1, <2>2, ReadStep DEF ImportRead
<1>9. CASE ImportPrune
  BY <1>9, PruneStep
<1>10. CASE \E authoritative \in BOOLEAN : ImportStore(authoritative)
  BY <1>10, ImportStep
<1>11. CASE \E t \in Providers \X Models : ValidateTargets({t})
  <2>1. PICK t \in Providers \X Models : ValidateTargets({t})
    BY <1>11
  <2>2. WorkOK'
    BY <2>1 DEF CatInv, WorkOK, ValidateTargets
  <2> QED
    BY <2>1, <2>2, ReadStep DEF ValidateTargets
<1>12. CASE SaveTargets
  BY <1>12, SaveStep
<1>13. CASE \E p \in Providers : MarkDeleting(p) \/ DeletionStep(p)
  <2>1. PICK p \in Providers : MarkDeleting(p) \/ DeletionStep(p)
    BY <1>13
  <2>2. CASE Drain(p)
    BY <2>2, TargetsStep, KeysStep, KeyIndexStep, ModelsStep, ModelIndexStep DEF Drain
  <2> QED
    BY <2>1, <2>2, MarkStep, FinishStep DEF DeletionStep
<1>14. CASE Restart
  <2>1. WorkOK'
    BY <1>14 DEF CatInv, WorkOK, Restart
  <2> QED
    BY <1>14, <2>1, ReadStep DEF Restart
<1> QED
  BY <1>1, <1>2, <1>3, <1>4, <1>5, <1>6, <1>7, <1>8, <1>9, <1>10, <1>11, <1>12, <1>13, <1>14
     DEF CatNext

\* CatInv is inductive.
LEMMA CatInvariant == CatSpec => []CatInv
BY CatInvInit, CatInvNext, PTL DEF CatSpec

\* Whatever the number of providers, keys and models and the size of a page,
\* in every order of handlers, worker and restarts: no row outlives its
\* provider, tombstones are found, counters are exact and prefixes resolve.
THEOREM CatalogIsSound == CatSpec => []CatalogSound
<1>1. CatInv => CatalogSound
  <2> SUFFICES ASSUME CatInv PROVE CatalogSound
    OBVIOUS
  <2>1. CatTypeOK /\ DeletionResumable /\ PrefixIndexSound
    BY DEF CatInv
  <2>2. ASSUME NEW p \in Providers, ~provider[p].stored
        PROVE  /\ keyRows[p] = NoKeys /\ Stored(p) = {} /\ modelIndex[p] = {}
               /\ \A t \in targets \cup targetIndex : t[1] # p
    <3>1. /\ keyRows[p] \in KeyTable /\ keyRows[p].record = {} /\ keyRows[p].order = {}
          /\ keyRows[p].available = {} /\ keyRows[p].created = {}
          /\ keyRows[p].disabled = {} /\ keyRows[p].invalid = {}
      BY <2>1, <2>2, Types DEF CatInv, RowsAgree, Drained, Gone
    <3>2. keyRows[p] = NoKeys
      BY <3>1 DEF KeyTable, NoKeys
    <3> QED
      BY <2>2, <3>2 DEF CatInv, RowsAgree, Drained, Gone
  <2>3. CountsExact
    BY DEF CatInv, CountsExact, Counted, RowsAgree, LiveProviders
  <2> QED
    BY <2>1, <2>2, <2>3 DEF CatalogSound, NoOrphans
<1> QED
  BY <1>1, CatInvariant, PTL

-----------------------------------------------------------------------------
(* Models added by hand.                                                   *)

\* A model the operator added by hand goes only by delete_provider_model or
\* with its provider, however late an import stores its catalog.
THEOREM ManualModelsStay == CatSpec => ManualModelsKept
<1>1. ASSUME CatInv, CatNext, NEW p \in Providers, NEW m \in Models,
             modelRows[p][m] = "manual", modelRows'[p][m] # "manual"
      PROVE  DeleteModel(p, m) \/ DrainModels(p)
  <2>1. /\ modelRows \in [Providers -> [Models -> {None, "import", "manual"}]]
        /\ modelIndex[p] = Stored(p) /\ m \in modelIndex[p]
    BY <1>1, CatalogAssumption, Types DEF CatInv, RowsAgree, Stored
  <2>2. ASSUME NEW q \in Providers, NEW ms \in SUBSET Models,
               NEW source \in {"import", "manual"}, NEW authoritative \in BOOLEAN,
               StoreModels(q, MergedModels(q, ms, source, authoritative))
        PROVE  FALSE
    <3>1. MergedModels(p, ms, source, authoritative)[m] = "manual"
      <4>1. modelRows[p][m] = "manual" /\ m \in modelIndex[p]
        BY <1>1, <2>1
      <4> QED
        BY <4>1 DEF MergedModels
    <3>2. modelRows' = [modelRows EXCEPT ![q] = MergedModels(q, ms, source, authoritative)]
      BY <2>2 DEF StoreModels
    <3>3. CASE q = p
      BY <1>1, <2>1, <3>1, <3>2, <3>3
    <3>4. CASE q # p
      BY <1>1, <2>1, <3>2, <3>4
    <3> QED
      BY <3>3, <3>4
  <2>3. modelRows' # modelRows
    BY <1>1
  <2>4. CASE \E q \in Providers, n \in Models : AddManualModel(q, n) \/ DeleteModel(q, n)
    <3>1. PICK q \in Providers, n \in Models : AddManualModel(q, n) \/ DeleteModel(q, n)
      BY <2>4
    <3>2. DeleteModel(q, n)
      BY <2>2, <3>1 DEF AddManualModel
    <3>3. modelRows' = [modelRows EXCEPT ![q][n] = None]
      BY <3>2 DEF DeleteModel
    <3>4. q = p /\ n = m
      BY <1>1, <2>1, <3>3
    <3> QED
      BY <3>2, <3>4
  <2>5. CASE ImportPrune
    <3>1. PICK q \in Providers : import.p = q
      BY <1>1, <2>5 DEF CatInv, WorkOK, ImportPrune
    <3>2. PICK gone \in SUBSET PrunableModels(q, import.models) : PruneModels(q, gone)
      BY <2>5, <3>1 DEF ImportPrune
    <3>3. modelRows' = [modelRows EXCEPT ![q] = [n \in Models |-> IF n \in gone THEN None ELSE modelRows[q][n]]]
      BY <3>2 DEF PruneModels
    <3>4. q = p => m \notin gone
      BY <1>1, <3>2 DEF PrunableModels
    <3> QED
      BY <1>1, <2>1, <3>3, <3>4
  <2>6. CASE \E authoritative \in BOOLEAN : ImportStore(authoritative)
    <3>1. PICK authoritative \in BOOLEAN : ImportStore(authoritative)
      BY <2>6
    <3>2. PICK q \in Providers, ms \in SUBSET Models : import.p = q /\ import.models = ms
      BY <1>1, <3>1 DEF CatInv, WorkOK, ImportStore
    <3> QED
      BY <2>2, <2>3, <3>1, <3>2 DEF ImportStore
  <2>7. CASE \E q \in Providers : MarkDeleting(q) \/ DeletionStep(q)
    <3>1. PICK q \in Providers : MarkDeleting(q) \/ DeletionStep(q)
      BY <2>7
    <3>2. DrainModels(q)
      BY <2>3, <3>1 DEF MarkDeleting, DeletionStep, Finish, Drain, DrainTargets, DrainKeys,
                        DrainKeyIndex, DrainModelIndex
    <3>3. PICK page : modelRows' = [modelRows EXCEPT ![q] =
                                      [n \in Models |-> IF n \in page THEN None ELSE modelRows[q][n]]]
      BY <3>2 DEF DrainModels
    <3>4. q = p
      BY <1>1, <2>1, <3>3
    <3> QED
      BY <3>2, <3>4
  <2> QED
    BY <1>1, <2>3, <2>4, <2>5, <2>6, <2>7
       DEF CatNext, CreateProvider, UpdateRead, UpdateWrite, SetKeyStrategy, ReportKey, SwitchKey,
           DeleteKey, KeyChanged, ImportRead,
           ValidateTargets, SaveTargets, Restart
<1>2. CatInv /\ [CatNext]_catVars
        => [\A p \in Providers, m \in Models :
              modelRows[p][m] = "manual" /\ modelRows'[p][m] # "manual"
                => DeleteModel(p, m) \/ DrainModels(p)]_catVars
  BY <1>1
<1> QED
  BY <1>2, CatInvariant, PTL DEF CatSpec, ManualModelsKept

-----------------------------------------------------------------------------
(* The refinement.                                                         *)

\* The entry of p in the directory, and the directory.
View(p) ==
    IF Live(p) THEN [keys |-> keyRows[p].record, models |-> Stored(p), strategy |-> provider[p].strategy]
    ELSE None
Dir == [p \in Providers |-> View(p)]

\* A live provider has an entry.
LEMMA ViewIsEntry ==
    ASSUME CatTypeOK, NEW p \in Providers, Live(p)
    PROVE  /\ Dir[p] # None /\ Dir[p].keys = keyRows[p].record /\ Dir[p].models = Stored(p)
           /\ Dir[p].strategy = provider[p].strategy
           /\ Dir[p] \in [keys : SUBSET Keys, models : SUBSET Models, strategy : {"priority", "round_robin"}]
<1>1. /\ keyRows[p].record \in SUBSET Keys /\ Stored(p) \in SUBSET Models
      /\ provider[p].strategy \in {"priority", "round_robin"}
  BY Types DEF KeyTable, Record, Strategies, Stored
<1>2. Dir[p] = [keys |-> keyRows[p].record, models |-> Stored(p), strategy |-> provider[p].strategy]
  BY DEF Dir, View
<1> QED
  BY <1>1, <1>2, CatalogAssumption

\* A step that changes the entry of p only.
LEMMA DirPut ==
    ASSUME NEW p \in Providers, NEW e, View(p)' = e, \A q \in Providers \ {p} : View(q)' = View(q)
    PROVE  Dir' = [Dir EXCEPT ![p] = e]
BY DEF Dir

\* What a provider's entry does not depend on.
LEMMA ViewKept ==
    ASSUME NEW q \in Providers, provider'[q].stored = provider[q].stored,
           provider'[q].deleting = provider[q].deleting,
           Live(q) => /\ provider'[q].strategy = provider[q].strategy
                      /\ keyRows'[q].record = keyRows[q].record
                      /\ modelRows'[q] = modelRows[q]
    PROVE  View(q)' = View(q)
<1>1. Live(q)' <=> Live(q)
  BY DEF Live
<1> QED
  BY <1>1 DEF View, Stored

\* A creation is one: the provider had no entry, and starts without models.
LEMMA CreateMaps ==
    ASSUME CatInv, NEW p \in Providers, NEW x \in ModelPrefixes, NEW ks \in SUBSET KeysFor(p),
           CreateProvider(p, x, ks)
    PROVE  Directory!Create(p, ks)
<1> DEFINE r == [stored |-> TRUE, deleting |-> FALSE, phase |-> None, prefix |-> x,
                 strategy |-> "priority", keyCount |-> Cardinality(ks), modelCount |-> 0]
<1>1. /\ ~provider[p].stored /\ Stored(p) = {} /\ keyRows[p].record = {}
      /\ provider \in [Providers -> Record] /\ keyRows \in [Providers -> KeyTable]
  BY Types DEF CatInv, CreateProvider, Drained, Gone
<1>2. provider' = [provider EXCEPT ![p] = r]
  <2>1. [NoProvider EXCEPT !.stored = TRUE, !.prefix = x, !.keyCount = Cardinality(ks)] = r
    BY Created
  <2> QED
    BY <2>1 DEF CreateProvider
<1>3. /\ keyRows' = [keyRows EXCEPT ![p] = WithKeys(keyRows[p], ks)]
      /\ WithKeys(keyRows[p], ks).record = ks /\ modelRows' = modelRows
  BY <1>1 DEF CreateProvider, WithKeys
<1>4. View(p)' = [keys |-> ks, models |-> {}, strategy |-> "priority"]
  <2>1. Live(p)' /\ provider'[p].strategy = "priority"
    BY <1>1, <1>2 DEF Live
  <2>2. keyRows'[p].record = ks /\ Stored(p)' = {}
    BY <1>1, <1>3 DEF Stored
  <2> QED
    BY <2>1, <2>2 DEF View
<1>5. \A q \in Providers \ {p} : View(q)' = View(q)
  BY <1>1, <1>2, <1>3, ViewKept
<1>6. Dir' = [Dir EXCEPT ![p] = [keys |-> ks, models |-> {}, strategy |-> "priority"]]
  BY <1>4, <1>5, DirPut
<1>7. Dir[p] = None
  BY <1>1 DEF Dir, View, Live
<1> QED
  BY <1>6, <1>7 DEF Directory!Create, Dir, View

\* The transaction of update_provider adds keys, or is refused.
LEMMA UpdateMaps ==
    ASSUME CatInv, NEW ks \in SUBSET Keys, UpdateWrite(ks)
    PROVE  Dir' = Dir \/ \E p \in Providers, new \in SUBSET Keys : Directory!AddKeys(p, new)
<1>1. PICK p \in Providers, x \in ModelPrefixes : update.p = p /\ update.prefix = x
  BY DEF CatInv, WorkOK, UpdateWrite
<1>0. PICK new \in SUBSET Keys :
          new = (ks \cap KeysFor(p)) \ (keyRows[p].record \cup keyRows[p].available)
  OBVIOUS
<1>2. /\ provider \in [Providers -> Record] /\ keyRows \in [Providers -> KeyTable] /\ CatTypeOK
  BY Types DEF CatInv
<1>3. CASE ~(Live(p) /\ prefixIndex[x] \in {None, p})
  BY <1>1, <1>3, ViewKept DEF UpdateWrite, Dir
<1>4. CASE Live(p) /\ prefixIndex[x] \in {None, p}
  <2>1. /\ provider' = [provider EXCEPT ![p].prefix = x, ![p].keyCount = @ + Cardinality(new)]
        /\ keyRows' = [keyRows EXCEPT ![p] = WithKeys(keyRows[p], new)] /\ modelRows' = modelRows
    BY <1>0, <1>1, <1>4 DEF UpdateWrite
  <2>2. /\ \A q \in Providers \ {p} : provider'[q] = provider[q] /\ keyRows'[q] = keyRows[q]
        /\ keyRows'[p].record = keyRows[p].record \cup new
    BY <1>2, <2>1 DEF WithKeys
  <2>3. /\ provider'[p].stored = provider[p].stored /\ provider'[p].deleting = provider[p].deleting
        /\ provider'[p].strategy = provider[p].strategy
    <3> DEFINE n == provider[p].keyCount + Cardinality(new)
               r == [provider[p] EXCEPT !.prefix = x, !.keyCount = n]
    <3>1. provider'[p] = r
      BY <1>2, <2>1
    <3>2. provider[p] \in Record
      BY <1>2
    <3> HIDE DEF n
    <3> QED
      BY <3>1, <3>2 DEF Record
  <2>4. View(p)' = [Dir[p] EXCEPT !.keys = Dir[p].keys \cup new]
    <3>1. Live(p)' /\ Stored(p)' = Stored(p)
      BY <1>4, <2>1, <2>3 DEF Live, Stored
    <3>2. Dir[p] = [keys |-> keyRows[p].record, models |-> Stored(p), strategy |-> provider[p].strategy]
      BY <1>4 DEF Dir, View
    <3>3. View(p)' = [keys |-> keyRows[p].record \cup new, models |-> Stored(p),
                      strategy |-> provider[p].strategy]
      BY <2>2, <2>3, <3>1 DEF View
    <3> QED
      BY <3>2, <3>3
  <2>5. \A q \in Providers \ {p} : View(q)' = View(q)
    BY <2>1, <2>2, ViewKept
  <2>6. Dir' = [Dir EXCEPT ![p] = [Dir[p] EXCEPT !.keys = Dir[p].keys \cup new]]
    BY <2>4, <2>5, DirPut
  <2>7. Dir[p] # None
    BY <1>2, <1>4, ViewIsEntry
  <2>8. Directory!AddKeys(p, new)
    BY <2>6, <2>7 DEF Directory!AddKeys, Dir, View
  <2> QED
    BY <1>0, <1>1, <2>8
<1> QED
  BY <1>3, <1>4

\* A deleted key is one fewer.
LEMMA DeleteKeyMaps ==
    ASSUME CatInv, NEW p \in Providers, NEW k \in Keys, DeleteKey(p, k)
    PROVE  Directory!RemoveKey(p, k)
<1> DEFINE n == IF provider[p].keyCount > 1 THEN provider[p].keyCount - 1 ELSE 0
           r == [provider[p] EXCEPT !.keyCount = n]
           w == Removed(keyRows[p], k)
<1>1. /\ provider \in [Providers -> Record] /\ keyRows \in [Providers -> KeyTable]
      /\ provider[p] \in Record /\ CatTypeOK /\ Live(p) /\ modelRows' = modelRows
      /\ provider' = [provider EXCEPT ![p] = r] /\ keyRows' = [keyRows EXCEPT ![p] = w]
  BY Types DEF CatInv, DeleteKey, KeyChanged, FewerKeys
<1>2. r.stored = provider[p].stored /\ r.deleting = provider[p].deleting
      /\ r.strategy = provider[p].strategy
  <2> HIDE DEF n
  <2> QED
    BY <1>1 DEF Record
<1>3. w.record = keyRows[p].record \ {k}
  BY <1>1, RemovedKey
<1> HIDE DEF r, w
<1>4. View(p)' = [Dir[p] EXCEPT !.keys = Dir[p].keys \ {k}]
  <2>1. Live(p)' /\ Stored(p)' = Stored(p) /\ provider'[p].strategy = provider[p].strategy
    BY <1>1, <1>2 DEF Live, Stored
  <2>2. Dir[p] = [keys |-> keyRows[p].record, models |-> Stored(p), strategy |-> provider[p].strategy]
    BY <1>1 DEF Dir, View
  <2>3. View(p)' = [keys |-> keyRows[p].record \ {k}, models |-> Stored(p),
                    strategy |-> provider[p].strategy]
    BY <1>1, <1>3, <2>1 DEF View
  <2> QED
    BY <2>2, <2>3
<1>5. \A q \in Providers \ {p} : View(q)' = View(q)
  BY <1>1, ViewKept
<1>6. Dir' = [Dir EXCEPT ![p] = [Dir[p] EXCEPT !.keys = Dir[p].keys \ {k}]]
  BY <1>4, <1>5, DirPut
<1>7. Dir[p] # None
  BY <1>1, ViewIsEntry
<1> QED
  BY <1>6, <1>7 DEF Directory!RemoveKey, Dir, View

\* A saved key strategy is one.
LEMMA StrategyMaps ==
    ASSUME CatInv, NEW p \in Providers, NEW s \in Strategies, SetKeyStrategy(p, s)
    PROVE  Directory!SetStrategy(p, s)
<1>1. /\ provider \in [Providers -> Record] /\ provider[p] \in Record /\ CatTypeOK /\ Live(p)
      /\ keyRows' = keyRows /\ modelRows' = modelRows
  BY Types DEF CatInv, SetKeyStrategy
<1> DEFINE r == [provider[p] EXCEPT !.strategy = s]
<1>2. provider' = [provider EXCEPT ![p] = r]
  BY DEF SetKeyStrategy
<1>3. r.stored = provider[p].stored /\ r.deleting = provider[p].deleting /\ r.strategy = s
  BY <1>1 DEF Record
<1> HIDE DEF r
<1>4. View(p)' = [Dir[p] EXCEPT !.strategy = s]
  <2>1. Live(p)' /\ Stored(p)' = Stored(p) /\ provider'[p].strategy = s
    BY <1>1, <1>2, <1>3 DEF Live, Stored
  <2>2. Dir[p] = [keys |-> keyRows[p].record, models |-> Stored(p), strategy |-> provider[p].strategy]
    BY <1>1 DEF Dir, View
  <2>3. View(p)' = [keys |-> keyRows[p].record, models |-> Stored(p), strategy |-> s]
    BY <1>1, <2>1 DEF View
  <2> QED
    BY <2>2, <2>3
<1>5. \A q \in Providers \ {p} : View(q)' = View(q)
  BY <1>1, <1>2, ViewKept
<1>6. Dir' = [Dir EXCEPT ![p] = [Dir[p] EXCEPT !.strategy = s]]
  BY <1>4, <1>5, DirPut
<1>7. Dir[p] # None
  BY <1>1, ViewIsEntry
<1> QED
  BY <1>6, <1>7 DEF Directory!SetStrategy, Dir, View

\* Every change of a live catalog sets its models.
LEMMA ModelsMap ==
    ASSUME CatInv, NEW p \in Providers, Live(p), NEW n \in Nat, NEW rows,
           provider' = [provider EXCEPT ![p].modelCount = n],
           modelRows' = [modelRows EXCEPT ![p] = rows], keyRows' = keyRows
    PROVE  \E ms \in SUBSET Models : Directory!SetModels(p, ms)
<1>1. /\ provider \in [Providers -> Record] /\ provider[p] \in Record /\ CatTypeOK
      /\ modelRows \in [Providers -> [Models -> {None, "import", "manual"}]]
  BY Types DEF CatInv
<1> DEFINE r == [provider[p] EXCEPT !.modelCount = n]
           ms == {m \in Models : rows[m] # None}
<1>2. provider' = [provider EXCEPT ![p] = r]
  OBVIOUS
<1>3. r.stored = provider[p].stored /\ r.deleting = provider[p].deleting
      /\ r.strategy = provider[p].strategy
  BY <1>1 DEF Record
<1> HIDE DEF r
<1>4. View(p)' = [Dir[p] EXCEPT !.models = ms]
  <2>1. Live(p)' /\ provider'[p].strategy = provider[p].strategy
    BY <1>1, <1>2, <1>3 DEF Live
  <2>2. Stored(p)' = ms
    BY <1>1 DEF Stored
  <2>3. Dir[p] = [keys |-> keyRows[p].record, models |-> Stored(p), strategy |-> provider[p].strategy]
    BY <1>1 DEF Dir, View
  <2>4. View(p)' = [keys |-> keyRows[p].record, models |-> ms, strategy |-> provider[p].strategy]
    BY <1>1, <2>1, <2>2 DEF View
  <2> QED
    BY <2>3, <2>4
<1>5. \A q \in Providers \ {p} : View(q)' = View(q)
  BY <1>1, <1>2, ViewKept
<1>6. ms \in SUBSET Models
  OBVIOUS
<1> HIDE DEF ms
<1>7. Dir' = [Dir EXCEPT ![p] = [Dir[p] EXCEPT !.models = ms]]
  BY <1>4, <1>5, DirPut
<1>8. Dir[p] # None
  BY <1>1, ViewIsEntry
<1>9. Directory!SetModels(p, ms)
  BY <1>7, <1>8 DEF Directory!SetModels, Dir, View
<1> QED
  BY <1>6, <1>9

\* The tombstone is the deletion.
LEMMA MarkMaps ==
    ASSUME CatInv, NEW p \in Providers, MarkDeleting(p)
    PROVE  Directory!Delete(p)
<1>1. /\ provider \in [Providers -> Record] /\ provider[p] \in Record /\ CatTypeOK /\ Live(p)
      /\ keyRows' = keyRows /\ modelRows' = modelRows
  BY Types DEF CatInv, MarkDeleting
<1>2. provider'[p].deleting /\ \A q \in Providers \ {p} : provider'[q] = provider[q]
  <2> DEFINE r == [provider[p] EXCEPT !.deleting = TRUE, !.phase = "route_targets"]
  <2>1. provider'[p] = r /\ \A q \in Providers \ {p} : provider'[q] = provider[q]
    BY <1>1 DEF MarkDeleting
  <2> QED
    BY <1>1, <2>1 DEF Record
<1>3. View(p)' = None
  BY <1>2 DEF View, Live
<1>4. \A q \in Providers \ {p} : View(q)' = View(q)
  BY <1>1, <1>2, ViewKept
<1>5. Dir' = [Dir EXCEPT ![p] = None] /\ Dir[p] # None
  BY <1>1, <1>3, <1>4, DirPut, ViewIsEntry
<1> QED
  BY <1>5 DEF Directory!Delete, Dir, View

\* The pages behind the tombstone, and the end of the record, can not be seen.
LEMMA PagesHidden ==
    ASSUME CatInv, NEW p \in Providers, DeletionStep(p)
    PROVE  Dir' = Dir
<1>1. /\ provider \in [Providers -> Record] /\ provider[p] \in Record /\ CatTypeOK
      /\ keyRows \in [Providers -> KeyTable]
      /\ modelRows \in [Providers -> [Models -> {None, "import", "manual"}]]
      /\ provider[p].deleting /\ provider[p].phase \in Phases
  BY Types DEF CatInv, RecordShape, DeletionStep, Drain, Finish, DrainTargets, DrainKeys,
               DrainKeyIndex, DrainModels, DrainModelIndex, Removing
<1>2. \A q \in Providers \ {p} : /\ provider'[q] = provider[q]
                                 /\ keyRows'[q] = keyRows[q] /\ modelRows'[q] = modelRows[q]
  <2> TAKE q \in Providers \ {p}
  <2>1. provider'[q] = provider[q]
    BY <1>1 DEF DeletionStep, Drain, Finish, DrainTargets, DrainKeys, DrainKeyIndex, DrainModels,
                DrainModelIndex
  <2>2. keyRows'[q] = keyRows[q]
    BY <1>1 DEF DeletionStep, Drain, Finish, DrainTargets, DrainKeys, DrainKeyIndex, DrainModels,
                DrainModelIndex
  <2>3. modelRows'[q] = modelRows[q]
    BY <1>1 DEF DeletionStep, Drain, Finish, DrainTargets, DrainKeys, DrainKeyIndex, DrainModels,
                DrainModelIndex
  <2> QED
    BY <2>1, <2>2, <2>3
<1>3. ~Live(p)'
  <2>1. CASE Finish(p)
    BY <1>1, <2>1 DEF Finish, NoProvider, Live
  <2>2. CASE Drain(p)
    <3>1. \E r \in Record, e \in BOOLEAN :
             /\ r.deleting /\ r.phase \in Phases /\ provider' = [provider EXCEPT ![p] = AfterPage(r, e)]
      <4>1. CASE DrainKeys(p)
        <5>1. PICK page \in Pages(keyRows[p].order) :
                 provider' = [provider EXCEPT ![p] =
                    AfterPage(FewerKeys(@, Cardinality(page)), Exhausted(keyRows[p].order))]
          BY <4>1 DEF DrainKeys
        <5>2. Cardinality(page) \in Nat
          <6>1. IsFiniteSet(keyRows[p].order)
            BY <1>1, RowsFinite
          <6>2. page \in SUBSET keyRows[p].order
            BY <5>1 DEF Pages
          <6> QED
            BY <6>1, <6>2, FS_Subset, FS_CardinalityType
        <5> DEFINE n == IF provider[p].keyCount > Cardinality(page)
                        THEN provider[p].keyCount - Cardinality(page) ELSE 0
                   r == FewerKeys(provider[p], Cardinality(page))
        <5>3. n \in Nat /\ r = [provider[p] EXCEPT !.keyCount = n]
          BY <1>1, <5>2 DEF FewerKeys, Record
        <5> HIDE DEF n, r
        <5>4. r \in Record /\ r.deleting /\ r.phase \in Phases
          BY <1>1, <5>3 DEF Record
        <5>5. provider' = [provider EXCEPT ![p] = AfterPage(r, Exhausted(keyRows[p].order))]
              /\ Exhausted(keyRows[p].order) \in BOOLEAN
          BY <5>1 DEF r, Exhausted
        <5> QED
          BY <5>4, <5>5
      <4>2. CASE ~DrainKeys(p)
        <5>1. \E e \in BOOLEAN : provider' = [provider EXCEPT ![p] = AfterPage(@, e)]
          <6>1. \A rows : Exhausted(rows) \in BOOLEAN
            BY DEF Exhausted
          <6>2. CASE DrainTargets(p)
            BY <6>1, <6>2 DEF DrainTargets
          <6>3. ASSUME NEW ph, NEW index, DrainKeyIndex(p, ph, index)
                PROVE  \E e \in BOOLEAN : provider' = [provider EXCEPT ![p] = AfterPage(@, e)]
            BY <6>1, <6>3 DEF DrainKeyIndex
          <6>4. CASE DrainModels(p)
            BY <6>1, <6>4 DEF DrainModels
          <6>5. CASE DrainModelIndex(p)
            BY <6>1, <6>5 DEF DrainModelIndex
          <6> QED
            BY <2>2, <4>2, <6>2, <6>3, <6>4, <6>5 DEF Drain
        <5> QED
          BY <1>1, <5>1
      <4> QED
        BY <4>1, <4>2
    <3>2. PICK r \in Record, e \in BOOLEAN :
             /\ r.deleting /\ r.phase \in Phases /\ provider' = [provider EXCEPT ![p] = AfterPage(r, e)]
      BY <3>1
    <3>3. AfterPage(r, e).deleting
      BY <3>2, AfterPageRecord
    <3> QED
      BY <1>1, <3>2, <3>3 DEF Live
  <2> QED
    BY <2>1, <2>2 DEF DeletionStep
<1>4. View(p)' = None /\ View(p) = None
  BY <1>1, <1>3 DEF View, Live
<1>5. \A q \in Providers \ {p} : View(q)' = View(q)
  BY <1>2, ViewKept
<1>6. \A q \in Providers : View(q)' = View(q)
  BY <1>4, <1>5
<1> QED
  BY <1>6 DEF Dir

\* Every step of the catalog is a step of the directory or leaves it alone.
LEMMA DirectoryStep ==
    ASSUME CatInv, CatNext
    PROVE  Directory!Next \/ Dir' = Dir
<1>1. CASE \E p \in Providers, x \in ModelPrefixes : \E ks \in SUBSET KeysFor(p) : CreateProvider(p, x, ks)
  <2>0. PICK p \in Providers, x \in ModelPrefixes : \E ks \in SUBSET KeysFor(p) : CreateProvider(p, x, ks)
    BY <1>1
  <2>1. PICK ks \in SUBSET KeysFor(p) : CreateProvider(p, x, ks)
    BY <2>0
  <2>2. Directory!Create(p, ks) /\ ks \in SUBSET Keys
    BY <2>0, <2>1, CreateMaps DEF KeysFor
  <2> QED
    BY <2>0, <2>2 DEF Directory!Next
<1>2. CASE \E ks \in SUBSET Keys : UpdateWrite(ks)
  BY <1>2, UpdateMaps DEF Directory!Next
<1>3. CASE \E p \in Providers, s \in {"priority", "round_robin"} : SetKeyStrategy(p, s)
  BY <1>3, StrategyMaps DEF Directory!Next, Strategies
<1>4. ASSUME NEW p \in Providers, Live(p), NEW ms \in SUBSET Models, NEW source, NEW authoritative,
             StoreModels(p, MergedModels(p, ms, source, authoritative)), keyRows' = keyRows
      PROVE  Directory!Next
  <2> DEFINE rows == MergedModels(p, ms, source, authoritative)
             staying == {m \in Models : rows[m] # None}
  <2>1. Cardinality(staying) \in Nat
    <3>1. staying \in SUBSET Models
      OBVIOUS
    <3> QED
      BY <3>1, CatalogAssumption, FS_Subset, FS_CardinalityType
  <2>2. StoreModels(p, rows)
    BY <1>4
  <2> HIDE DEF rows
  <2>3. /\ provider' = [provider EXCEPT ![p].modelCount = Cardinality(staying)]
        /\ modelRows' = [modelRows EXCEPT ![p] = rows]
    BY <2>2 DEF StoreModels
  <2>4. \E kinds \in SUBSET Models : Directory!SetModels(p, kinds)
    BY <1>4, <2>1, <2>3, ModelsMap
  <2> QED
    BY <1>4, <2>4 DEF Directory!Next
<1>5. CASE \E p \in Providers, m \in Models : AddManualModel(p, m) \/ DeleteModel(p, m)
  <2>1. PICK p \in Providers, m \in Models : AddManualModel(p, m) \/ DeleteModel(p, m)
    BY <1>5
  <2>2. CASE AddManualModel(p, m)
    BY <1>4, <2>1, <2>2 DEF AddManualModel
  <2>3. CASE DeleteModel(p, m)
    <3> DEFINE n == IF provider[p].modelCount > 0 THEN provider[p].modelCount - 1 ELSE 0
               rows == [modelRows[p] EXCEPT ![m] = None]
    <3>1. n \in Nat
      BY <2>1, Types DEF CatInv, Record
    <3>2. /\ Live(p) /\ keyRows' = keyRows /\ provider' = [provider EXCEPT ![p].modelCount = n]
          /\ modelRows' = [modelRows EXCEPT ![p] = rows]
      BY <2>3 DEF DeleteModel
    <3> HIDE DEF n, rows
    <3>3. \E kinds \in SUBSET Models : Directory!SetModels(p, kinds)
      BY <2>1, <3>1, <3>2, ModelsMap
    <3> QED
      BY <2>1, <3>3 DEF Directory!Next
  <2> QED
    BY <2>1, <2>2, <2>3
<1>6. CASE ImportPrune
  <2>1. PICK p \in Providers : import.p = p
    BY <1>6 DEF CatInv, WorkOK, ImportPrune
  <2>2. PICK gone \in SUBSET PrunableModels(p, import.models) : PruneModels(p, gone)
    BY <1>6, <2>1 DEF ImportPrune
  <2>3. Cardinality(gone) \in Nat
    <3>1. gone \in SUBSET Models
      BY <2>1, <2>2, Types DEF CatInv, PrunableModels
    <3> QED
      BY <3>1, CatalogAssumption, FS_Subset, FS_CardinalityType
  <2> DEFINE n == IF provider[p].modelCount > Cardinality(gone)
                  THEN provider[p].modelCount - Cardinality(gone) ELSE 0
             rows == [m \in Models |-> IF m \in gone THEN None ELSE modelRows[p][m]]
  <2>4. n \in Nat
    BY <2>1, <2>3, Types DEF CatInv, Record
  <2>5. /\ Live(p) /\ keyRows' = keyRows /\ provider' = [provider EXCEPT ![p].modelCount = n]
        /\ modelRows' = [modelRows EXCEPT ![p] = rows]
    BY <1>6, <2>1, <2>2 DEF ImportPrune, PruneModels
  <2> HIDE DEF n, rows
  <2>6. \E kinds \in SUBSET Models : Directory!SetModels(p, kinds)
    BY <2>1, <2>4, <2>5, ModelsMap
  <2> QED
    BY <2>1, <2>6 DEF Directory!Next
<1>7. CASE \E authoritative \in BOOLEAN : ImportStore(authoritative)
  <2>1. PICK authoritative \in BOOLEAN : ImportStore(authoritative)
    BY <1>7
  <2>2. PICK p \in Providers, ms \in SUBSET Models : import.p = p /\ import.models = ms
    BY <2>1 DEF CatInv, WorkOK, ImportStore
  <2>3. CASE Live(p)
    BY <1>4, <2>1, <2>2, <2>3 DEF ImportStore
  <2>4. CASE ~Live(p)
    <3>1. provider' = provider /\ keyRows' = keyRows /\ modelRows' = modelRows
      BY <2>1, <2>2, <2>4 DEF ImportStore
    <3> QED
      BY <3>1, ViewKept DEF Dir
  <2> QED
    BY <2>3, <2>4
<1>8. CASE \E p \in Providers : MarkDeleting(p) \/ DeletionStep(p)
  BY <1>8, MarkMaps, PagesHidden DEF Directory!Next
<1>9. CASE \/ \E p \in Providers, k \in ChangingKeys, usable \in BOOLEAN : ReportKey(p, k, usable)
           \/ \E p \in Providers, k \in ChangingKeys, on \in BOOLEAN : SwitchKey(p, k, on)
  <2>1. PICK p \in Providers, k \in ChangingKeys :
           \/ \E usable \in BOOLEAN : ReportKey(p, k, usable)
           \/ \E on \in BOOLEAN : SwitchKey(p, k, on)
    BY <1>9
  <2> DEFINE old == keyRows[p]
  <2>2. PICK w : /\ w = Recovered(old, k) \/ w = Rejected(old, k)
                       \/ \E on \in BOOLEAN : w = Switched(old, k, on)
                 /\ KeyChanged(p, k, w) /\ provider' = provider
    BY <2>1 DEF ReportKey, SwitchKey
  <2>3. /\ keyRows \in [Providers -> KeyTable] /\ old \in KeyTable /\ k \in old.record
        /\ old.disabled \subseteq old.record /\ old.invalid \subseteq old.record
        /\ keyRows' = [keyRows EXCEPT ![p] = w] /\ modelRows' = modelRows
    BY <2>2, Types DEF CatInv, RowsAgree, KeyChanged
  <2> HIDE DEF old
  <2>4. w.record = old.record
    BY <2>2, <2>3, KeyStays
  <2>5. \A q \in Providers : keyRows'[q].record = keyRows[q].record
    BY <2>3, <2>4 DEF old
  <2> QED
    BY <2>2, <2>3, <2>5, ViewKept DEF Dir
<1>11. CASE \E p \in Providers, k \in ChangingKeys : DeleteKey(p, k)
  BY <1>11, DeleteKeyMaps, CatalogAssumption DEF Directory!Next
<1>10. CASE \/ \E p \in Providers, x \in ModelPrefixes \cup {None} : UpdateRead(p, x)
            \/ \E p \in Providers, ms \in SUBSET Models : ImportRead(p, ms)
            \/ \E t \in Providers \X Models : ValidateTargets({t})
            \/ SaveTargets \/ Restart
  <2>1. provider' = provider /\ keyRows' = keyRows /\ modelRows' = modelRows
    BY <1>10 DEF UpdateRead, ImportRead, ValidateTargets, SaveTargets, Restart
  <2> QED
    BY <2>1, ViewKept DEF Dir
<1> QED
  BY <1>1, <1>2, <1>3, <1>5, <1>6, <1>7, <1>8, <1>9, <1>10, <1>11 DEF CatNext

\* Seen through its live records the catalog is the directory in which a
\* deletion is one step: no page, worker, restart or late handler shows.
THEOREM DeletionImplementsAtomic == CatSpec => DeletionIsAtomic
<1>1. CatInit => Directory!Init
  <2> SUFFICES ASSUME CatInit PROVE Directory!Init
    OBVIOUS
  <2>1. \A p \in Providers : ~Live(p)
    BY DEF CatInit, NoProvider, Live
  <2> QED
    BY <2>1 DEF Directory!Init
<1>2. CatInv /\ [CatNext]_catVars => [Directory!Next]_Dir
  <2> SUFFICES ASSUME CatInv, [CatNext]_catVars PROVE Directory!Next \/ Dir' = Dir
    OBVIOUS
  <2>1. CASE UNCHANGED catVars
    BY <2>1, ViewKept DEF catVars, Dir
  <2> QED
    BY <2>1, DirectoryStep
<1> QED
  BY <1>1, <1>2, CatInvariant, PTL DEF CatSpec, DeletionIsAtomic, Directory!Spec, Dir, View

-----------------------------------------------------------------------------
(* Sums as numbers of pairs.                                               *)
Units(f) == UNION {{k} \X (1..f[k]) : k \in DOMAIN f}

\* A sum of finitely many numbers is the number of its units.
LEMMA SumType ==
    ASSUME NEW K, IsFiniteSet(K), NEW f \in [K -> Nat]
    PROVE  /\ IsFiniteSet(Units(f)) /\ SumOf(f) = Cardinality(Units(f)) /\ SumOf(f) \in Nat
           /\ \A u : u \in Units(f) <=> \E k \in K : \E n \in 1..f[k] : u = <<k, n>>
<1> DEFINE column == [k \in K |-> {k} \X (1..f[k])]
           columns == {column[k] : k \in K}
<1>1. column \in Surjection(K, columns)
  BY Zenon DEF Surjection
<1>2. IsFiniteSet(columns)
  <2> HIDE DEF column, columns
  <2> QED
    BY <1>1, FS_Surjection
<1>3. \A k \in K : IsFiniteSet({k} \X (1..f[k]))
  <2> TAKE k \in K
  <2>1. f[k] \in Int /\ 1 \in Int
    OBVIOUS
  <2>2. IsFiniteSet(1..f[k])
    BY <2>1, FS_Interval
  <2>3. IsFiniteSet({k})
    BY FS_Singleton
  <2> QED
    BY <2>2, <2>3, FS_Product
<1>4. IsFiniteSet(UNION columns)
  <2>1. \A T \in columns : IsFiniteSet(T)
    BY <1>3
  <2> HIDE DEF columns
  <2> QED
    BY <1>2, <2>1, FS_UNION
<1>5. UNION columns = Units(f)
  BY Zenon DEF Units
<1>6. SumOf(f) = Cardinality(Units(f))
  BY Zenon DEF Units, SumOf
<1>7. \A u : u \in Units(f) <=> \E k \in K : \E n \in 1..f[k] : u = <<k, n>>
  BY DEF Units
<1> QED
  BY <1>4, <1>5, <1>6, <1>7, FS_CardinalityType

\* Disjoint sets have together as many elements as the sum of their sizes.
LEMMA SumOfParts ==
    ASSUME NEW K, IsFiniteSet(K), NEW f \in [K -> Nat], NEW part,
           \A k \in K : IsFiniteSet(part[k]) /\ Cardinality(part[k]) = f[k],
           \A j, k \in K : \A x : x \in part[j] /\ x \in part[k] => j = k,
           NEW whole, \A x : x \in whole <=> \E k \in K : x \in part[k]
    PROVE  IsFiniteSet(whole) /\ SumOf(f) = Cardinality(whole)
<1> DEFINE list == [k \in K |-> CHOOSE g : g \in Bijection(1..f[k], part[k])]
           at == [u \in Units(f) |-> list[u[1]][u[2]]]
<1>1. ASSUME NEW k \in K PROVE list[k] \in Bijection(1..f[k], part[k])
  <2>1. ExistsBijection(1..f[k], part[k])
    BY FS_CardinalityType
  <2>2. \E g : g \in Bijection(1..f[k], part[k])
    BY <2>1 DEF ExistsBijection
  <2> QED
    BY <2>2
<1>2. ASSUME NEW k \in K
      PROVE  /\ \A n \in 1..f[k] : list[k][n] \in part[k]
             /\ \A n, m \in 1..f[k] : list[k][n] = list[k][m] => n = m
             /\ \A x \in part[k] : \E n \in 1..f[k] : list[k][n] = x
  <2> HIDE DEF list
  <2> QED
    BY <1>1 DEF Bijection, Injection, Surjection, IsInjective
<1> HIDE DEF list
<1>3. \A u \in Units(f) : u[1] \in K /\ u[2] \in 1..f[u[1]] /\ u = <<u[1], u[2]>>
  BY SumType
<1>4. \A k \in K : \A n \in 1..f[k] : <<k, n>> \in Units(f)
  BY SumType
<1>5. at \in [Units(f) -> whole]
  <2>1. \A u \in Units(f) : list[u[1]][u[2]] \in part[u[1]]
    BY <1>2, <1>3
  <2> QED
    BY <1>3, <2>1
<1>6. ASSUME NEW u \in Units(f), NEW v \in Units(f), at[u] = at[v] PROVE u = v
  <2>1. list[u[1]][u[2]] \in part[u[1]] /\ list[v[1]][v[2]] \in part[v[1]]
    BY <1>2, <1>3
  <2>2. list[u[1]][u[2]] = list[v[1]][v[2]]
    BY <1>6
  <2>3. u[1] = v[1]
    BY <1>3, <2>1, <2>2
  <2>4. u[2] = v[2]
    BY <1>2, <1>3, <2>2, <2>3
  <2> QED
    BY <1>3, <2>3, <2>4
<1>7. ASSUME NEW x \in whole PROVE \E u \in Units(f) : at[u] = x
  <2>1. PICK k \in K : x \in part[k]
    BY <1>7
  <2>2. PICK n \in 1..f[k] : list[k][n] = x
    BY <1>2, <2>1
  <2>3. at[<<k, n>>] = x
    BY <1>4, <2>2
  <2> QED
    BY <1>4, <2>3
<1>8. at \in Bijection(Units(f), whole)
  <2> HIDE DEF at
  <2> QED
    BY <1>5, <1>6, <1>7 DEF Bijection, Injection, Surjection, IsInjective
<1>9. ExistsBijection(Units(f), whole)
  <2> HIDE DEF at
  <2> QED
    BY <1>8 DEF ExistsBijection
<1>10. IsFiniteSet(whole) /\ Cardinality(whole) = Cardinality(Units(f))
  <2> QED
    BY <1>9, SumType, FS_Bijection
<1> QED
  BY <1>10, SumType

\* The sum of sums, key by key.
LEMMA SumAdd ==
    ASSUME NEW K, IsFiniteSet(K), NEW f \in [K -> Nat], NEW g \in [K -> Nat]
    PROVE  SumOf([k \in K |-> f[k] + g[k]]) = SumOf(f) + SumOf(g)
<1> DEFINE h == [k \in K |-> f[k] + g[k]]
           part == [k \in K |-> {k} \X ((f[k] + 1)..(f[k] + g[k]))]
           upper == UNION {part[k] : k \in K}
<1>1. h \in [K -> Nat]
  OBVIOUS
<1>2. ASSUME NEW k \in K PROVE IsFiniteSet(part[k]) /\ Cardinality(part[k]) = g[k]
  <2> DEFINE up == (f[k] + 1)..(f[k] + g[k])
  <2>1. IsFiniteSet(up) /\ Cardinality(up) = g[k]
    <3>1. f[k] \in Nat /\ g[k] \in Nat
      OBVIOUS
    <3>2. /\ IsFiniteSet(up)
          /\ Cardinality(up) = IF f[k] + 1 > f[k] + g[k] THEN 0 ELSE (f[k] + g[k]) - (f[k] + 1) + 1
      <4>1. f[k] + 1 \in Int /\ f[k] + g[k] \in Int
        BY <3>1
      <4> QED
        BY <4>1, FS_Interval
    <3> QED
      BY <3>1, <3>2
  <2>2. IsFiniteSet({k}) /\ Cardinality({k}) = 1
    BY FS_Singleton
  <2> HIDE DEF up
  <2>3. IsFiniteSet({k} \X up) /\ Cardinality({k} \X up) = Cardinality({k}) * Cardinality(up)
    BY <2>1, <2>2, FS_Product
  <2>4. part[k] = {k} \X up
    BY DEF up
  <2>5. g[k] \in Nat /\ 1 * g[k] = g[k]
    OBVIOUS
  <2> HIDE DEF part
  <2> QED
    BY <2>1, <2>2, <2>3, <2>4, <2>5
<1>3. \A j, k \in K : \A x : x \in part[j] /\ x \in part[k] => j = k
  OBVIOUS
<1>4. IsFiniteSet(upper) /\ SumOf(g) = Cardinality(upper)
  <2>1. \A x : x \in upper <=> \E k \in K : x \in part[k]
    OBVIOUS
  <2> HIDE DEF part, upper
  <2>2. \A k \in K : IsFiniteSet(part[k]) /\ Cardinality(part[k]) = g[k]
    BY <1>2
  <2> QED
    BY <1>3, <2>1, <2>2, SumOfParts
<1>5. \A u : u \in upper <=> \E k \in K : \E n \in (f[k] + 1)..(f[k] + g[k]) : u = <<k, n>>
  OBVIOUS
<1> HIDE DEF upper, part
<1>6. Units(h) = Units(f) \cup upper
  <2>1. ASSUME NEW u \in Units(h) PROVE u \in Units(f) \cup upper
    <3>1a. PICK k \in K : \E n \in 1..h[k] : u = <<k, n>>
      BY <1>1, <2>1, SumType
    <3>1. PICK n \in 1..h[k] : u = <<k, n>>
      BY <3>1a
    <3>2. n \in 1..f[k] \/ n \in (f[k] + 1)..(f[k] + g[k])
      BY <3>1
    <3> QED
      BY <3>1, <3>2, <1>5, SumType
  <2>2. ASSUME NEW u \in Units(f) PROVE u \in Units(h)
    <3>1a. PICK k \in K : \E n \in 1..f[k] : u = <<k, n>>
      BY <2>2, SumType
    <3>1. PICK n \in 1..f[k] : u = <<k, n>>
      BY <3>1a
    <3>2. n \in 1..h[k]
      BY <3>1
    <3> HIDE DEF h
    <3> QED
      BY <3>1, <3>2, <1>1, SumType
  <2>3. ASSUME NEW u \in upper PROVE u \in Units(h)
    <3>1a. PICK k \in K : \E n \in (f[k] + 1)..(f[k] + g[k]) : u = <<k, n>>
      BY <2>3, <1>5
    <3>1. PICK n \in (f[k] + 1)..(f[k] + g[k]) : u = <<k, n>>
      BY <3>1a
    <3>2. n \in 1..h[k]
      BY <3>1
    <3> HIDE DEF h
    <3> QED
      BY <3>1, <3>2, <1>1, SumType
  <2> QED
    BY <2>1, <2>2, <2>3
<1>7. Units(f) \cap upper = {}
  <2> SUFFICES ASSUME NEW u \in Units(f), u \in upper PROVE FALSE
    OBVIOUS
  <2>1a. PICK k \in K : \E n \in 1..f[k] : u = <<k, n>>
    BY SumType
  <2>1. PICK n \in 1..f[k] : u = <<k, n>>
    BY <2>1a
  <2>2a. PICK j \in K : \E m \in (f[j] + 1)..(f[j] + g[j]) : u = <<j, m>>
    BY <1>5
  <2>2. PICK m \in (f[j] + 1)..(f[j] + g[j]) : u = <<j, m>>
    BY <2>2a
  <2>3. j = k /\ m = n
    BY <2>1, <2>2
  <2> QED
    BY <2>1, <2>2, <2>3
<1>8. Cardinality(Units(f) \cup upper) = Cardinality(Units(f)) + Cardinality(upper) - Cardinality({})
  BY <1>4, <1>7, SumType, FS_Union
<1>9. Cardinality(upper) \in Nat
  BY <1>4, FS_CardinalityType
<1>10. SumOf(h) = Cardinality(Units(h)) /\ SumOf(f) = Cardinality(Units(f)) /\ SumOf(f) \in Nat
  <2> HIDE DEF h
  <2> QED
    BY <1>1, SumType
<1> HIDE DEF h
<1>11. SumOf(h) = SumOf(f) + SumOf(g)
  BY <1>4, <1>6, <1>8, <1>9, <1>10, FS_EmptySet
<1> QED
  BY <1>11 DEF h

\* The sum over two disjoint sets of keys.
LEMMA SumSplit ==
    ASSUME NEW A, NEW B, IsFiniteSet(A), IsFiniteSet(B), A \cap B = {}, NEW f \in [A \cup B -> Nat]
    PROVE  SumOf(f) = SumOf([k \in A |-> f[k]]) + SumOf([k \in B |-> f[k]])
<1> DEFINE g == [k \in A |-> f[k]]
           h == [k \in B |-> f[k]]
<1>1. IsFiniteSet(A \cup B) /\ g \in [A -> Nat] /\ h \in [B -> Nat]
  BY FS_Union
<1>2. \A k \in A : g[k] = f[k]
  OBVIOUS
<1>3. \A k \in B : h[k] = f[k]
  OBVIOUS
<1> HIDE DEF g, h
<1>4. \A u : u \in Units(f) <=> \E k \in A \cup B : \E n \in 1..f[k] : u = <<k, n>>
  BY <1>1, SumType
<1>5. \A u : u \in Units(g) <=> \E k \in A : \E n \in 1..g[k] : u = <<k, n>>
  BY <1>1, SumType
<1>6. \A u : u \in Units(h) <=> \E k \in B : \E n \in 1..h[k] : u = <<k, n>>
  BY <1>1, SumType
<1>7. Units(f) = Units(g) \cup Units(h)
  BY <1>2, <1>3, <1>4, <1>5, <1>6
<1>8. Units(g) \cap Units(h) = {}
  <2> SUFFICES ASSUME NEW u \in Units(g), u \in Units(h) PROVE FALSE
    OBVIOUS
  <2>1a. PICK k \in A : \E n \in 1..g[k] : u = <<k, n>>
    BY <1>5
  <2>1. PICK n \in 1..g[k] : u = <<k, n>>
    BY <2>1a
  <2>2a. PICK j \in B : \E m \in 1..h[j] : u = <<j, m>>
    BY <1>6
  <2>2. PICK m \in 1..h[j] : u = <<j, m>>
    BY <2>2a
  <2> QED
    BY <2>1, <2>2
<1>9. /\ SumOf(f) = Cardinality(Units(f)) /\ SumOf(g) = Cardinality(Units(g)) /\ SumOf(h) = Cardinality(Units(h))
      /\ SumOf(g) \in Nat /\ SumOf(h) \in Nat
      /\ IsFiniteSet(Units(g)) /\ IsFiniteSet(Units(h))
  BY <1>1, SumType
<1>10. Cardinality(Units(g) \cup Units(h)) = Cardinality(Units(g)) + Cardinality(Units(h)) - Cardinality({})
  BY <1>8, <1>9, FS_Union
<1>11. SumOf(f) = SumOf(g) + SumOf(h)
  BY <1>7, <1>9, <1>10, FS_EmptySet
<1> QED
  BY <1>11 DEF g, h

\* Keys whose value is zero add nothing.
LEMMA SumZero ==
    ASSUME NEW K, IsFiniteSet(K), NEW f \in [K -> Nat], \A k \in K : f[k] = 0
    PROVE  SumOf(f) = 0
<1>1. Units(f) = {}
  BY SumType
<1> QED
  BY <1>1, SumType, FS_EmptySet

\* The keys with a value carry the whole sum.
LEMMA SumSupport ==
    ASSUME NEW K, IsFiniteSet(K), NEW f \in [K -> Nat], NEW A \in SUBSET K,
           \A k \in K \ A : f[k] = 0
    PROVE  SumOf(f) = SumOf([k \in A |-> f[k]])
<1> DEFINE B == K \ A
           g == [k \in A |-> f[k]]
           h == [k \in B |-> f[k]]
<1>1. IsFiniteSet(A) /\ IsFiniteSet(B) /\ A \cup B = K /\ A \cap B = {}
  BY FS_Subset
<1>2. h \in [B -> Nat] /\ (\A k \in B : h[k] = 0) /\ g \in [A -> Nat]
  OBVIOUS
<1>3. SumOf(f) = SumOf(g) + SumOf(h)
  <2> HIDE DEF B
  <2> QED
    BY <1>1, SumSplit
<1> HIDE DEF B, g, h
<1>4. SumOf(h) = 0 /\ SumOf(g) \in Nat
  BY <1>1, <1>2, SumZero, SumType
<1> QED
  BY <1>3, <1>4 DEF g

\* Counting by groups.
LEMMA SumGroups ==
    ASSUME NEW K, IsFiniteSet(K), NEW T, IsFiniteSet(T), NEW of \in [T -> K], NEW f,
           f = [k \in K |-> Cardinality({t \in T : of[t] = k})]
    PROVE  f \in [K -> Nat] /\ SumOf(f) = Cardinality(T)
<1> DEFINE part == [k \in K |-> {t \in T : of[t] = k}]
<1>1. \A k \in K : IsFiniteSet(part[k]) /\ Cardinality(part[k]) = f[k] /\ f[k] \in Nat
  <2> TAKE k \in K
  <2>1. part[k] \in SUBSET T
    OBVIOUS
  <2>2. IsFiniteSet(part[k])
    <3> HIDE DEF part
    <3> QED
      BY <2>1, FS_Subset
  <2>3. Cardinality(part[k]) = f[k]
    OBVIOUS
  <2> HIDE DEF part
  <2> QED
    BY <2>2, <2>3, FS_CardinalityType
<1>2. \A j, k \in K : \A x : x \in part[j] /\ x \in part[k] => j = k
  OBVIOUS
<1>3. \A x : x \in T <=> \E k \in K : x \in part[k]
  OBVIOUS
<1>4. f \in [K -> Nat]
  <2> HIDE DEF part
  <2> QED
    BY <1>1
<1> HIDE DEF part
<1>5. \A k \in K : IsFiniteSet(part[k]) /\ Cardinality(part[k]) = f[k]
  BY <1>1
<1>6. SumOf(f) = Cardinality(T)
  <2>1. \E g : g = f
    OBVIOUS
  <2>2. PICK g : g = f
    BY <2>1
  <2>3. g \in [K -> Nat]
    BY <1>4, <2>2
  <2>4. \A k \in K : IsFiniteSet(part[k]) /\ Cardinality(part[k]) = g[k]
    BY <1>5, <2>2
  <2>5. SumOf(g) = Cardinality(T)
    BY <1>2, <1>3, <2>3, <2>4, SumOfParts
  <2> QED
    BY <2>2, <2>5
<1> QED
  BY <1>4, <1>6

\* A sum does not depend on the names of the keys.
LEMMA SumRenamed ==
    ASSUME NEW K, IsFiniteSet(K), NEW A, IsFiniteSet(A), NEW b \in [K -> A],
           \A j, k \in K : b[j] = b[k] => j = k, \A a \in A : \E k \in K : b[k] = a,
           NEW f \in [A -> Nat], NEW g \in [K -> Nat], \A k \in K : g[k] = f[b[k]]
    PROVE  SumOf(g) = SumOf(f)
<1> DEFINE part == [k \in K |-> {b[k]} \X (1..f[b[k]])]
<1>1. ASSUME NEW k \in K PROVE IsFiniteSet(part[k]) /\ Cardinality(part[k]) = g[k]
  <2> DEFINE n == f[b[k]]
             x == b[k]
  <2>1. n \in Nat /\ g[k] = n
    OBVIOUS
  <2>2. part[k] = {x} \X (1..n)
    OBVIOUS
  <2> HIDE DEF n, x, part
  <2>3. IsFiniteSet(1..n) /\ Cardinality(1..n) = n
    BY <2>1, FS_Interval
  <2>4. IsFiniteSet({x}) /\ Cardinality({x}) = 1
    BY FS_Singleton
  <2>5. IsFiniteSet({x} \X (1..n)) /\ Cardinality({x} \X (1..n)) = Cardinality({x}) * Cardinality(1..n)
    BY <2>3, <2>4, FS_Product
  <2>6. 1 * n = n
    BY <2>1
  <2> QED
    BY <2>1, <2>2, <2>3, <2>4, <2>5, <2>6
<1>2. \A j, k \in K : \A x : x \in part[j] /\ x \in part[k] => j = k
  OBVIOUS
<1>3. \A x : x \in Units(f) <=> \E k \in K : x \in part[k]
  <2>1. \A u : u \in Units(f) <=> \E a \in A : \E n \in 1..f[a] : u = <<a, n>>
    BY SumType
  <2>2. \A u : (\E k \in K : u \in part[k]) <=> \E k \in K : \E n \in 1..f[b[k]] : u = <<b[k], n>>
    OBVIOUS
  <2> HIDE DEF part
  <2> QED
    BY <2>1, <2>2
<1> HIDE DEF part
<1>4. \A k \in K : IsFiniteSet(part[k]) /\ Cardinality(part[k]) = g[k]
  BY <1>1
<1>5. SumOf(g) = Cardinality(Units(f))
  BY <1>2, <1>3, <1>4, SumOfParts
<1> QED
  BY <1>5, SumType

\* A table has one sum, by rows or by columns.
LEMMA SumExchange ==
    ASSUME NEW M, IsFiniteSet(M), NEW D, IsFiniteSet(D), NEW c \in [M -> [D -> Nat]]
    PROVE  SumOf([m \in M |-> SumOf(c[m])]) = SumOf([d \in D |-> SumOf([m \in M |-> c[m][d]])])
<1> DEFINE row == [m \in M |-> SumOf(c[m])]
           col == [d \in D |-> SumOf([m \in M |-> c[m][d]])]
           cells == {x \in M \X (D \X Nat) : x[2][2] \in 1..c[x[1]][x[2][1]]}
           inRow == [m \in M |-> {m} \X Units(c[m])]
           inCol == [d \in D |-> {x \in cells : x[2][1] = d}]
<1>1. row \in [M -> Nat] /\ \A m \in M : IsFiniteSet(Units(c[m])) /\ row[m] = Cardinality(Units(c[m])) /\ row[m] \in Nat
  BY SumType
<1>2. col \in [D -> Nat]
  <2> SUFFICES ASSUME NEW d \in D PROVE SumOf([m \in M |-> c[m][d]]) \in Nat
    OBVIOUS
  <2>1. [m \in M |-> c[m][d]] \in [M -> Nat]
    OBVIOUS
  <2> QED
    BY <2>1, SumType
<1>3. ASSUME NEW m \in M PROVE IsFiniteSet(inRow[m]) /\ Cardinality(inRow[m]) = row[m]
  <2> DEFINE us == Units(c[m])
  <2>1. IsFiniteSet({m}) /\ Cardinality({m}) = 1
    BY FS_Singleton
  <2>2. inRow[m] = {m} \X us /\ row[m] = Cardinality(us) /\ IsFiniteSet(us) /\ row[m] \in Nat
    BY <1>1
  <2> HIDE DEF us, inRow, row
  <2>3. IsFiniteSet({m} \X us) /\ Cardinality({m} \X us) = Cardinality({m}) * Cardinality(us)
    BY <2>1, <2>2, FS_Product
  <2>4. 1 * Cardinality(us) = Cardinality(us)
    BY <2>2
  <2> QED
    BY <2>1, <2>2, <2>3, <2>4
<1>4. \A x : x \in cells <=> \E m \in M : x \in inRow[m]
  <2>1. \A m \in M : \A u : u \in Units(c[m]) <=> \E d \in D : \E n \in 1..c[m][d] : u = <<d, n>>
    BY SumType
  <2>2. ASSUME NEW x, \E m \in M : x \in inRow[m] PROVE x \in cells
    <3>1. PICK m \in M : x \in {m} \X Units(c[m])
      BY <2>2
    <3>2a. PICK d \in D : \E n \in 1..c[m][d] : x = <<m, <<d, n>> >>
      BY <2>1, <3>1
    <3>2. PICK n \in 1..c[m][d] : x = <<m, <<d, n>> >>
      BY <3>2a
    <3>3. n \in Nat
      BY <3>2
    <3> QED
      BY <3>2, <3>3
  <2>3. ASSUME NEW x \in cells PROVE \E m \in M : x \in inRow[m]
    <3>1. x = <<x[1], x[2]>> /\ x[1] \in M /\ x[2] = <<x[2][1], x[2][2]>> /\ x[2][1] \in D /\ x[2][2] \in 1..c[x[1]][x[2][1]]
      BY <2>3
    <3>2. x[2] \in Units(c[x[1]])
      BY <2>1, <3>1
    <3> QED
      BY <3>1, <3>2
  <2> QED
    BY <2>2, <2>3
<1>5. \A j, k \in M : \A x : x \in inRow[j] /\ x \in inRow[k] => j = k
  OBVIOUS
<1>6. IsFiniteSet(cells) /\ SumOf(row) = Cardinality(cells)
  <2> HIDE DEF row, cells, inRow
  <2>1. \A m \in M : IsFiniteSet(inRow[m]) /\ Cardinality(inRow[m]) = row[m]
    BY <1>3
  <2>2. row \in [M -> Nat]
    BY <1>1
  <2> QED
    BY <1>4, <1>5, <2>1, <2>2, SumOfParts
<1>7. ASSUME NEW d \in D PROVE IsFiniteSet(inCol[d]) /\ Cardinality(inCol[d]) = col[d]
  <2> DEFINE f == [m \in M |-> c[m][d]]
             part == [m \in M |-> {m} \X ({d} \X (1..c[m][d]))]
  <2>1. f \in [M -> Nat]
    OBVIOUS
  <2>2. ASSUME NEW m \in M PROVE IsFiniteSet(part[m]) /\ Cardinality(part[m]) = f[m]
    <3> DEFINE n == c[m][d]
    <3>1. n \in Nat /\ f[m] = n /\ part[m] = {m} \X ({d} \X (1..n))
      OBVIOUS
    <3> HIDE DEF n, f, part
    <3>2. IsFiniteSet(1..n) /\ Cardinality(1..n) = n
      BY <3>1, FS_Interval
    <3>3. IsFiniteSet({d}) /\ Cardinality({d}) = 1 /\ IsFiniteSet({m}) /\ Cardinality({m}) = 1
      BY FS_Singleton
    <3>4. /\ IsFiniteSet({d} \X (1..n))
          /\ Cardinality({d} \X (1..n)) = Cardinality({d}) * Cardinality(1..n)
      BY <3>2, <3>3, FS_Product
    <3>5. /\ IsFiniteSet({m} \X ({d} \X (1..n)))
          /\ Cardinality({m} \X ({d} \X (1..n))) = Cardinality({m}) * Cardinality({d} \X (1..n))
      BY <3>3, <3>4, FS_Product
    <3>6. 1 * n = n
      BY <3>1
    <3> QED
      BY <3>1, <3>2, <3>3, <3>4, <3>5, <3>6
  <2>3. \A j, k \in M : \A x : x \in part[j] /\ x \in part[k] => j = k
    OBVIOUS
  <2>4. \A x : x \in inCol[d] <=> \E m \in M : x \in part[m]
    <3>1. ASSUME NEW x, \E m \in M : x \in part[m] PROVE x \in inCol[d]
      <4>1. PICK m \in M : \E n \in 1..c[m][d] : x = <<m, <<d, n>> >>
        BY <3>1
      <4> QED
        BY <4>1
    <3>2. ASSUME NEW x \in inCol[d] PROVE \E m \in M : x \in part[m]
      <4>1. x = <<x[1], <<d, x[2][2]>> >> /\ x[1] \in M /\ x[2][2] \in 1..c[x[1]][d]
        BY <3>2
      <4> QED
        BY <4>1
    <3> QED
      BY <3>1, <3>2
  <2>5. col[d] = SumOf(f)
    OBVIOUS
  <2> HIDE DEF f, part, inCol, col
  <2>6. \A m \in M : IsFiniteSet(part[m]) /\ Cardinality(part[m]) = f[m]
    BY <2>2
  <2>7. IsFiniteSet(inCol[d]) /\ SumOf(f) = Cardinality(inCol[d])
    <3> DEFINE all == inCol[d]
    <3>1. \A x : x \in all <=> \E m \in M : x \in part[m]
      BY <2>4
    <3> HIDE DEF all, row, cells, inRow
    <3>2. IsFiniteSet(all) /\ SumOf(f) = Cardinality(all)
      <4>1. \E g, p, t : g = f /\ p = part /\ t = all
        OBVIOUS
      <4>2. PICK g, p, t : g = f /\ p = part /\ t = all
        BY <4>1
      <4>3. g \in [M -> Nat]
        BY <2>1, <4>2
      <4>4. \A m \in M : IsFiniteSet(p[m]) /\ Cardinality(p[m]) = g[m]
        BY <2>6, <4>2
      <4>5. \A j, k \in M : \A x : x \in p[j] /\ x \in p[k] => j = k
        BY <2>3, <4>2
      <4>6. \A x : x \in t <=> \E m \in M : x \in p[m]
        BY <3>1, <4>2
      <4>7. IsFiniteSet(t) /\ SumOf(g) = Cardinality(t)
        BY <4>3, <4>4, <4>5, <4>6, SumOfParts
      <4> QED
        BY <4>2, <4>7
    <3> QED
      BY <3>2 DEF all
  <2> QED
    BY <2>5, <2>7
<1>8. \A x : x \in cells <=> \E d \in D : x \in inCol[d]
  OBVIOUS
<1>9. \A j, k \in D : \A x : x \in inCol[j] /\ x \in inCol[k] => j = k
  OBVIOUS
<1>10. SumOf(col) = Cardinality(cells)
  <2> HIDE DEF col, cells, inCol
  <2>1. \A d \in D : IsFiniteSet(inCol[d]) /\ Cardinality(inCol[d]) = col[d]
    BY <1>7
  <2> QED
    BY <1>2, <1>8, <1>9, <2>1, SumOfParts
<1> HIDE DEF row, col, cells
<1>11. SumOf(row) = SumOf(col)
  BY <1>6, <1>10
<1> QED
  BY <1>11 DEF row, col

-----------------------------------------------------------------------------
(* The inductive invariant.                                                *)
TelCounter == [all : Nat, meter : Nat]
TelEvent == [kind : {"stat", "meter", "flush", "clear"}, dim : Nat, minute : Nat]
WriterPlaces == {"select", "delta", "commit", "publish", "answer", "clear", "reset", "expire", "remove"}

TelMemoryTypes ==
    /\ queue \in Seq(TelEvent) /\ batch \in Seq(TelEvent)
    /\ Len(queue) <= QueueCap /\ Len(batch) <= BatchCap
    /\ pending \in [at : WriterPlaces, reply : BOOLEAN, ok : BOOLEAN, mark : Nat, seen : TelCounter,
                    todo : SUBSET Windows, now : Nat]
    /\ drops \in TelCounter /\ saved \in TelCounter
    /\ guard \in {"free", "writer", "reader"} /\ minute \in Minutes /\ fuel \in Nat
    /\ lost \in Nat /\ sent \in Nat /\ kept \in Nat
    /\ flushed \in [ok : BOOLEAN, mark : Nat, kept : Nat]
    /\ reading \in [on : BOOLEAN, seen : Nat, lost : Nat]
    /\ report \in [drops : Nat, lost : Nat]
TelTableTypes ==
    /\ perMinute \in [Minutes -> [Dims -> Nat]]
    /\ window \in [Windows -> [Dims -> Nat]]
    /\ cursor \in [Windows -> Int \X (0..PastAll)]
    /\ meter \in [Minutes -> Nat] /\ dropped \in TelCounter
    /\ credential \in BOOLEAN

\* An event is counted in a minute the shortest window has not left.
CountsNow(e) ==
    e.kind \in {"stat", "meter"} =>
        /\ e.minute \in Minutes /\ e.minute <= minute /\ e.minute > minute - Shortest
        /\ e.kind = "stat" => e.dim \in 1..ModelCount
EventsOK ==
    /\ \A n \in 1..Len(queue) : CountsNow(queue[n])
    /\ \A n \in 1..Len(batch) : CountsNow(batch[n]) /\ batch[n].kind \in {"stat", "meter"}

\* The lock, and the counters it protects.
LocksOK ==
    /\ pending.at \in {"commit", "publish", "reset"} <=> guard = "writer"
    /\ reading.on <=> guard = "reader"
    /\ saved.all <= drops.all /\ saved.meter <= drops.meter /\ drops.meter <= drops.all
    /\ pending.seen.all <= drops.all /\ pending.seen.meter <= drops.meter
    /\ pending.seen.meter <= pending.seen.all
    /\ pending.at \in {"commit", "publish"} =>
           saved.all <= pending.seen.all /\ saved.meter <= pending.seen.meter

\* Every event handed in is in the database, in the batch, in the queue or
\* among the drops that are not written yet.
Unsaved == drops.all - (IF pending.at = "publish" THEN pending.seen.all ELSE saved.all)
HandedIn(q, n) == Cardinality({k \in 1..n : q[k].kind \in {"stat", "meter"}})
DropsAccounted ==
    /\ pending.at # "reset" => lost = dropped.all + Unsaved
    /\ pending.at = "reset" => dropped.all = 0
    /\ reading.on => reading.lost = dropped.all + reading.seen
    /\ report.drops = report.lost
EventsAccounted ==
    /\ sent = kept + Len(batch) + Unsaved + HandedIn(queue, Len(queue))
    /\ \A n \in 1..Len(queue) :
           queue[n].kind = "flush" => queue[n].minute <= kept + Len(batch) + Unsaved + HandedIn(queue, n)
    /\ pending.at = "delta" => pending.mark <= kept + Unsaved
    /\ pending.at = "commit" => pending.mark <= kept + pending.seen.all - saved.all
    /\ pending.at = "publish" => pending.mark <= kept
    /\ pending.at = "answer" /\ pending.ok => pending.mark <= kept
    /\ flushed.ok => flushed.mark <= flushed.kept

\* The cursors: none ahead of the clock, that of a shorter window ahead of
\* that of a longer one, during a pass too.
NotAfter(a, b) == a[1] < b[1] \/ (a[1] = b[1] /\ a[2] <= b[2])
CursorsOK ==
    /\ \A w \in Windows : cursor[w][1] <= minute - w
    /\ \A v, w \in Windows : w < v => NotAfter(cursor[v], cursor[w])
    /\ pending.now <= minute
    /\ pending.at \in {"delta", "commit", "publish"} => pending.todo \in {{}, Windows}
    /\ pending.at = "expire" /\ pending.todo # {} =>
           \A w \in Windows \ pending.todo : \A v \in pending.todo :
               w < v /\ NotAfter(Advanced(v, ExpiredPage(v)), cursor[w])
TotalsOK == \A m \in Minutes : perMinute[m][0] = SumOf([d \in 1..ModelCount |-> perMinute[m][d]])

TelInv ==
    /\ TelMemoryTypes /\ TelTableTypes /\ EventsOK
    /\ LocksOK /\ DropsAccounted /\ EventsAccounted
    /\ CursorsOK /\ TotalsOK /\ WindowsExact /\ MetersOwned

-----------------------------------------------------------------------------
(* Numbers, sequences and the batch.                                       *)

\* A nonempty set of numbers has a least one, and if it is bounded a greatest.
LEMMA LeastOf ==
    ASSUME NEW T \in SUBSET Nat, T # {}
    PROVE  \E i \in T : \A j \in T : i <= j
<1>1. PICK i \in T : \A j \in T : ~(<<j, i>> \in OpToRel(<, Nat))
  BY NatLessThanWellFounded, WFMin
<1>2. \A j \in T : ~(j < i)
  BY <1>1, Zenon DEF OpToRel
<1> QED
  BY <1>2

\* A bounded set of numbers has a greatest.
LEMMA GreatestOf ==
    ASSUME NEW T \in SUBSET Nat, T # {}, NEW bound \in Nat, \A i \in T : i <= bound
    PROVE  \E i \in T : \A j \in T : j <= i
<1> DEFINE below == {n \in Nat : \E i \in T : n = bound - i}
<1>1. below \in SUBSET Nat
  OBVIOUS
<1>2. below # {}
  <2>1. PICK i \in T : TRUE
    OBVIOUS
  <2>2. bound - i \in below
    BY <2>1
  <2> QED
    BY <2>2
<1>3. PICK n \in below : \A k \in below : n <= k
  <2> HIDE DEF below
  <2> QED
    BY <1>1, <1>2, LeastOf
<1>4. PICK i \in T : n = bound - i
  BY <1>3
<1>5. ASSUME NEW j \in T PROVE j <= i
  <2>1. bound - j \in below
    OBVIOUS
  <2>2. n <= bound - j
    BY <1>3, <2>1
  <2> QED
    BY <1>4, <2>2
<1> QED
  BY <1>5

\* There is a longest and a shortest window.
LEMMA WindowEnds ==
    /\ Longest \in Windows /\ Longest \in Nat /\ \A v \in Windows : v <= Longest
    /\ Shortest \in Windows /\ Shortest \in Nat /\ Shortest >= 1 /\ \A v \in Windows : Shortest <= v
<1>1. Windows \in SUBSET Nat /\ Windows # {} /\ Retention \in Nat /\ \A w \in Windows : w <= Retention
  BY TelemetryAssumption
<1>2. \E w \in Windows : \A v \in Windows : w <= v
  BY <1>1, LeastOf
<1>3. \E w \in Windows : \A v \in Windows : v <= w
  BY <1>1, GreatestOf
<1>4. Longest \in Windows /\ \A v \in Windows : v <= Longest
  BY <1>3 DEF Longest
<1>5. Shortest \in Windows /\ \A v \in Windows : Shortest <= v
  BY <1>2 DEF Shortest
<1> QED
  BY <1>1, <1>4, <1>5, TelemetryAssumption

\* The minutes, the dimensions and the rows are finitely many.
LEMMA TelFinite ==
    /\ IsFiniteSet(Minutes) /\ IsFiniteSet(Dims) /\ IsFiniteSet(1..ModelCount)
    /\ \A S \in SUBSET Minutes : IsFiniteSet(S)
    /\ \A S \in SUBSET Dims : IsFiniteSet(S)
    /\ \A S \in SUBSET (Minutes \X Dims) : IsFiniteSet(S)
<1>1. 0 \in Int /\ 1 \in Int /\ MaxMinute \in Int /\ ModelCount \in Int
  BY TelemetryAssumption
<1>2. IsFiniteSet(Minutes) /\ IsFiniteSet(Dims) /\ IsFiniteSet(1..ModelCount)
  BY <1>1, FS_Interval DEF Minutes, Dims
<1>3. IsFiniteSet(Minutes \X Dims)
  BY <1>2, FS_Product
<1> QED
  BY <1>2, <1>3, FS_Subset

\* The places of a sequence that satisfy something are at most all.
LEMMA PlacesCounted ==
    ASSUME NEW n \in Nat, NEW S \in SUBSET (1..n)
    PROVE  IsFiniteSet(S) /\ Cardinality(S) \in Nat /\ Cardinality(S) <= n
<1>1. 1 \in Int /\ n \in Int
  OBVIOUS
<1>2. IsFiniteSet(1..n) /\ Cardinality(1..n) = n
  BY <1>1, FS_Interval
<1> QED
  BY <1>2, FS_Subset, FS_CardinalityType

\* A queue that grows, and one that loses its first element.
LEMMA HandedType ==
    ASSUME NEW q \in Seq(TelEvent), NEW n \in 0..Len(q)
    PROVE  HandedIn(q, n) \in Nat /\ HandedIn(q, n) <= n
<1>1. {k \in 1..n : q[k].kind \in {"stat", "meter"}} \in SUBSET (1..n) /\ n \in Nat
  OBVIOUS
<1> QED
  BY <1>1, PlacesCounted DEF HandedIn

\* What a new element at the end changes in the number of events handed in.
LEMMA HandedAppend ==
    ASSUME NEW q \in Seq(TelEvent), NEW e \in TelEvent
    PROVE  /\ \A n \in 0..Len(q) : HandedIn(Append(q, e), n) = HandedIn(q, n)
           /\ HandedIn(Append(q, e), Len(q) + 1)
                = HandedIn(q, Len(q)) + (IF e.kind \in {"stat", "meter"} THEN 1 ELSE 0)
<1> DEFINE p == Append(q, e)
           in(s, n) == {k \in 1..n : s[k].kind \in {"stat", "meter"}}
<1>1. Len(q) \in Nat /\ Len(p) = Len(q) + 1 /\ p[Len(q) + 1] = e /\ \A k \in 1..Len(q) : p[k] = q[k]
  OBVIOUS
<1>2. ASSUME NEW n \in 0..Len(q) PROVE HandedIn(p, n) = HandedIn(q, n)
  <2>1. \A k \in 1..n : p[k] = q[k]
    BY <1>1
  <2>2. in(p, n) = in(q, n)
    BY <2>1
  <2> QED
    BY <2>2 DEF HandedIn
<1>3. HandedIn(p, Len(q) + 1) = HandedIn(q, Len(q)) + (IF e.kind \in {"stat", "meter"} THEN 1 ELSE 0)
  <2>1. in(q, Len(q)) \in SUBSET (1..Len(q))
    OBVIOUS
  <2>2. IsFiniteSet(in(q, Len(q))) /\ Cardinality(in(q, Len(q))) \in Nat
    <3> HIDE DEF in
    <3> QED
      BY <1>1, <2>1, PlacesCounted
  <2>3. in(p, Len(q) + 1) = IF e.kind \in {"stat", "meter"} THEN in(q, Len(q)) \cup {Len(q) + 1} ELSE in(q, Len(q))
    <3>1. \A k : k \in 1..(Len(q) + 1) <=> k \in 1..Len(q) \/ k = Len(q) + 1
      BY <1>1
    <3> HIDE DEF p
    <3> QED
      BY <1>1, <3>1
  <2>4. Len(q) + 1 \notin in(q, Len(q))
    BY <1>1
  <2>5. Cardinality(in(p, Len(q) + 1)) = Cardinality(in(q, Len(q))) + (IF e.kind \in {"stat", "meter"} THEN 1 ELSE 0)
    <3> HIDE DEF in
    <3>1. CASE e.kind \in {"stat", "meter"}
      <4>1. in(p, Len(q) + 1) = in(q, Len(q)) \cup {Len(q) + 1}
        BY <2>3, <3>1
      <4>2. Cardinality(in(q, Len(q)) \cup {Len(q) + 1}) = Cardinality(in(q, Len(q))) + 1
        BY <2>2, <2>4, FS_AddElement
      <4> QED
        BY <3>1, <4>1, <4>2
    <3>2. CASE e.kind \notin {"stat", "meter"}
      <4>1. in(p, Len(q) + 1) = in(q, Len(q))
        BY <2>3, <3>2
      <4>2. Cardinality(in(q, Len(q))) + 0 = Cardinality(in(q, Len(q)))
        BY <2>2
      <4> QED
        BY <3>2, <4>1, <4>2
    <3> QED
      BY <3>1, <3>2
  <2> QED
    BY <2>5 DEF HandedIn
<1> QED
  BY <1>2, <1>3

\* What a step of the writer changes in that number.
LEMMA HandedTail ==
    ASSUME NEW q \in Seq(TelEvent), q # <<>>, NEW n \in 0..(Len(q) - 1)
    PROVE  HandedIn(q, n + 1) = HandedIn(Tail(q), n) + (IF Head(q).kind \in {"stat", "meter"} THEN 1 ELSE 0)
<1> DEFINE t == Tail(q)
           inT == {k \in 1..n : t[k].kind \in {"stat", "meter"}}
           inQ == {k \in 1..(n + 1) : q[k].kind \in {"stat", "meter"}}
           rest == inQ \ {1}
           move == [k \in inT |-> k + 1]
<1>1. Len(q) \in Nat /\ Len(t) = Len(q) - 1 /\ Head(q) = q[1] /\ n \in Nat /\ \A k \in 1..n : t[k] = q[k + 1]
  OBVIOUS
<1> HIDE DEF t
<1>2. inT \in SUBSET (1..n) /\ inQ \in SUBSET (1..(n + 1)) /\ n + 1 \in Nat
  BY <1>1
<1>3. IsFiniteSet(inT) /\ IsFiniteSet(inQ)
  <2> HIDE DEF inT, inQ
  <2> QED
    BY <1>1, <1>2, PlacesCounted
<1>4. move \in Bijection(inT, rest)
  <2>1. move \in [inT -> rest]
    BY <1>1
  <2>2. \A j, k \in inT : move[j] = move[k] => j = k
    BY <1>1
  <2>3. ASSUME NEW k \in rest PROVE \E j \in inT : move[j] = k
    <3>1. k - 1 \in 1..n /\ (k - 1) + 1 = k
      BY <1>1
    <3>2. k - 1 \in inT
      BY <1>1, <3>1
    <3>3. move[k - 1] = k
      BY <3>1, <3>2
    <3> QED
      BY <3>2, <3>3
  <2> HIDE DEF move, inT, rest
  <2> QED
    BY <2>1, <2>2, <2>3 DEF Bijection, Injection, Surjection, IsInjective
<1>5. Cardinality(rest) = Cardinality(inT)
  <2> HIDE DEF move, inT, rest
  <2> QED
    BY <1>3, <1>4, FS_Bijection DEF ExistsBijection
<1>6. Cardinality(rest) = IF 1 \in inQ THEN Cardinality(inQ) - 1 ELSE Cardinality(inQ)
  <2> HIDE DEF inQ
  <2> QED
    BY <1>3, FS_RemoveElement
<1>7. 1 \in inQ <=> Head(q).kind \in {"stat", "meter"}
  BY <1>1
<1>8. Cardinality(inQ) \in Nat /\ Cardinality(inT) \in Nat
  <2> HIDE DEF inQ, inT
  <2> QED
    BY <1>3, FS_CardinalityType
<1>9. HandedIn(q, n + 1) = Cardinality(inQ) /\ HandedIn(t, n) = Cardinality(inT)
  BY DEF HandedIn
<1>10. HandedIn(q, n + 1) = HandedIn(t, n) + (IF Head(q).kind \in {"stat", "meter"} THEN 1 ELSE 0)
  <2> HIDE DEF inQ, inT, rest
  <2>1. CASE Head(q).kind \in {"stat", "meter"}
    <3>1. Cardinality(inQ) = Cardinality(inT) + 1
      BY <1>5, <1>6, <1>7, <1>8, <2>1
    <3> QED
      BY <1>9, <2>1, <3>1
  <2>2. CASE Head(q).kind \notin {"stat", "meter"}
    <3>1. Cardinality(inQ) = Cardinality(inT) + 0
      BY <1>5, <1>6, <1>7, <1>8, <2>2
    <3> QED
      BY <1>9, <2>2, <3>1
  <2> QED
    BY <2>1, <2>2
<1> QED
  BY <1>10 DEF t


-----------------------------------------------------------------------------
(* A batch in the database, or lost.                                       *)

\* A cursor is a pair.
LEMMA CursorKnown ==
    ASSUME TelTableTypes, NEW w \in Windows
    PROVE  cursor[w][1] \in Int /\ cursor[w][2] \in 0..PastAll /\ cursor[w] = <<cursor[w][1], cursor[w][2]>>
BY DEF TelTableTypes

\* What a batch adds are numbers.
LEMMA EventsCounted ==
    ASSUME batch \in Seq(TelEvent)
    PROVE  /\ \A kind, m, d : Events(kind, m, d) \in Nat
           /\ \A d : AddedTo(d) \in Nat
           /\ Len(batch) \in Nat
           /\ Cardinality({n \in 1..Len(batch) : batch[n].kind = "meter"}) \in 0..Len(batch)
<1>1. Len(batch) \in Nat
  OBVIOUS
<1>2. \A kind, m, d : {n \in 1..Len(batch) : batch[n].kind = kind /\ batch[n].minute = m
                                            /\ (d = 0 \/ batch[n].dim = d)} \in SUBSET (1..Len(batch))
  OBVIOUS
<1>3. \A d : {n \in 1..Len(batch) : batch[n].kind = "stat" /\ (d = 0 \/ batch[n].dim = d)}
               \in SUBSET (1..Len(batch))
  OBVIOUS
<1>4. {n \in 1..Len(batch) : batch[n].kind = "meter"} \in SUBSET (1..Len(batch))
  OBVIOUS
<1>5. \A kind, m, d : Events(kind, m, d) \in Nat
  BY <1>1, <1>2, PlacesCounted DEF Events
<1>6. \A d : AddedTo(d) \in Nat
  BY <1>1, <1>3, PlacesCounted DEF AddedTo
<1>7. Cardinality({n \in 1..Len(batch) : batch[n].kind = "meter"}) \in 0..Len(batch)
  BY <1>1, <1>4, PlacesCounted
<1> QED
  BY <1>1, <1>5, <1>6, <1>7

\* What a batch adds to a dimension is what it adds to its rows, all of which
\* the windows have yet to pass.
LEMMA AddedByMinute ==
    ASSUME TelMemoryTypes, TelTableTypes, EventsOK, CursorsOK, NEW w \in Windows, NEW d \in Dims
    PROVE  LET rows == {n \in Minutes : Behind(cursor[w], n, d)} IN
           /\ [m \in rows |-> Events("stat", m, d)] \in [rows -> Nat]
           /\ AddedTo(d) = SumOf([m \in rows |-> Events("stat", m, d)])
<1> DEFINE rows == {n \in Minutes : Behind(cursor[w], n, d)}
           T == {n \in 1..Len(batch) : batch[n].kind = "stat" /\ (d = 0 \/ batch[n].dim = d)}
           of == [n \in T |-> batch[n].minute]
           f == [m \in rows |-> Events("stat", m, d)]
           grouped == [m \in rows |-> Cardinality({t \in T : of[t] = m})]
<1>1. batch \in Seq(TelEvent) /\ Len(batch) \in Nat
  BY DEF TelMemoryTypes
<1>2. IsFiniteSet(T) /\ IsFiniteSet(rows)
  <2>1. T \in SUBSET (1..Len(batch)) /\ rows \in SUBSET Minutes
    OBVIOUS
  <2> HIDE DEF T, rows
  <2> QED
    BY <1>1, <2>1, PlacesCounted, TelFinite
<1>3. ASSUME NEW n \in T PROVE batch[n].minute \in rows
  <2>1. batch[n].minute \in Minutes /\ batch[n].minute > minute - Shortest
    BY <1>3 DEF EventsOK, CountsNow
  <2>2. Shortest \in Int /\ Shortest <= w /\ w \in Int
    BY WindowEnds, TelemetryAssumption
  <2>3. cursor[w][1] <= minute - w /\ cursor[w][1] \in Int
    BY CursorKnown DEF CursorsOK
  <2>4. minute \in Int /\ batch[n].minute \in Int
    BY <2>1 DEF TelMemoryTypes, Minutes
  <2>5. batch[n].minute > cursor[w][1]
    BY <2>1, <2>2, <2>3, <2>4
  <2> QED
    BY <2>1, <2>5 DEF Behind
<1>4. of \in [T -> rows]
  BY <1>3
<1>5. \A m \in rows : {t \in T : of[t] = m} = {n \in 1..Len(batch) : batch[n].kind = "stat" /\ batch[n].minute = m
                                                         /\ (d = 0 \/ batch[n].dim = d)}
  OBVIOUS
<1>6. f = grouped
  BY <1>5 DEF Events
<1>7. grouped \in [rows -> Nat] /\ SumOf(grouped) = Cardinality(T)
  <2> DEFINE g == grouped
  <2>1. g = [m \in rows |-> Cardinality({t \in T : of[t] = m})]
    OBVIOUS
  <2> HIDE DEF g, T, rows, of
  <2>2. g \in [rows -> Nat] /\ SumOf(g) = Cardinality(T)
    BY <1>2, <1>4, <2>1, SumGroups
  <2> QED
    BY <2>1, <2>2
<1>8. AddedTo(d) = Cardinality(T)
  BY DEF AddedTo
<1>9. f \in [rows -> Nat] /\ AddedTo(d) = SumOf(f)
  BY <1>6, <1>7, <1>8
<1> QED
  BY <1>9

\* The events of a minute belong to one model each.
LEMMA AddedByModel ==
    ASSUME TelMemoryTypes, EventsOK, NEW m \in Minutes
    PROVE  /\ [d \in 1..ModelCount |-> Events("stat", m, d)] \in [1..ModelCount -> Nat]
           /\ Events("stat", m, 0) = SumOf([d \in 1..ModelCount |-> Events("stat", m, d)])
<1> DEFINE models == 1..ModelCount
           T == {n \in 1..Len(batch) : batch[n].kind = "stat" /\ batch[n].minute = m /\ (0 = 0 \/ batch[n].dim = 0)}
           of == [n \in T |-> batch[n].dim]
           f == [d \in models |-> Events("stat", m, d)]
           grouped == [d \in models |-> Cardinality({t \in T : of[t] = d})]
<1>1. batch \in Seq(TelEvent) /\ Len(batch) \in Nat
  BY DEF TelMemoryTypes
<1>2. IsFiniteSet(T) /\ IsFiniteSet(models)
  <2>1. T \in SUBSET (1..Len(batch))
    OBVIOUS
  <2> HIDE DEF T
  <2> QED
    BY <1>1, <2>1, PlacesCounted, TelFinite
<1>3. of \in [T -> models]
  BY DEF EventsOK, CountsNow
<1>4. ASSUME NEW d \in models
      PROVE  {t \in T : of[t] = d} = {n \in 1..Len(batch) : batch[n].kind = "stat" /\ batch[n].minute = m
                                                             /\ (d = 0 \/ batch[n].dim = d)}
  <2>1. d # 0
    BY <1>4
  <2> QED
    BY <2>1
<1>5. f = grouped
  BY <1>4 DEF Events
<1>6. grouped \in [models -> Nat] /\ SumOf(grouped) = Cardinality(T)
  <2> DEFINE g == grouped
  <2>1. g = [d \in models |-> Cardinality({t \in T : of[t] = d})]
    OBVIOUS
  <2> HIDE DEF g, T, models, of
  <2>2. g \in [models -> Nat] /\ SumOf(g) = Cardinality(T)
    BY <1>2, <1>3, <2>1, SumGroups
  <2> QED
    BY <2>1, <2>2
<1>7. Events("stat", m, 0) = Cardinality(T)
  BY DEF Events
<1>8. f \in [models -> Nat] /\ Events("stat", m, 0) = SumOf(f)
  BY <1>5, <1>6, <1>7
<1> QED
  BY <1>8

\* The order of the index follows the windows.
LEMMA OrderFollows ==
    ASSUME WindowsExact, NEW win, order' = Reordered(window, win), window' = win
    PROVE  order' = {e \in {<<w, d, window'[w][d]>> : w \in Windows, d \in Dims} : e[3] > 0}
<1>1. order \ {<<w, d, window[w][d]>> : w \in Windows, d \in Dims} = {}
  BY DEF WindowsExact
<1> QED
  BY <1>1 DEF Reordered

\* A stored batch keeps windows, index, totals and meters right.
LEMMA StoreBatchSound ==
    ASSUME TelInv, StoreBatch
    PROVE  /\ perMinute' \in [Minutes -> [Dims -> Nat]] /\ window' \in [Windows -> [Dims -> Nat]]
           /\ meter' \in [Minutes -> Nat]
           /\ WindowsExact' /\ TotalsOK'
           /\ credential \/ \A m \in Minutes : meter'[m] = 0
<1> USE DEF TelInv
<1>1. batch \in Seq(TelEvent)
  BY DEF TelMemoryTypes
<1>2. /\ perMinute \in [Minutes -> [Dims -> Nat]] /\ window \in [Windows -> [Dims -> Nat]]
      /\ meter \in [Minutes -> Nat]
  BY DEF TelTableTypes
<1>3. /\ perMinute' = [m \in Minutes |-> [d \in Dims |-> perMinute[m][d] + Events("stat", m, d)]]
      /\ window' = [w \in Windows |-> [d \in Dims |-> window[w][d] + AddedTo(d)]]
      /\ meter' = [m \in Minutes |-> IF credential THEN meter[m] + Events("meter", m, 0) ELSE meter[m]]
      /\ cursor' = cursor
  BY DEF StoreBatch
<1>4. order' = Reordered(window, window')
  BY <1>3 DEF StoreBatch
<1>5. perMinute' \in [Minutes -> [Dims -> Nat]]
  BY <1>1, <1>2, <1>3, EventsCounted
<1>6. window' \in [Windows -> [Dims -> Nat]]
  BY <1>1, <1>2, <1>3, EventsCounted
<1>7. meter' \in [Minutes -> Nat]
  BY <1>1, <1>2, <1>3, EventsCounted
<1>8. credential \/ \A m \in Minutes : meter'[m] = 0
  BY <1>3 DEF MetersOwned
<1>9. ASSUME NEW w \in Windows, NEW d \in Dims PROVE window'[w][d] = SumBehind(w, d)'
  <2> DEFINE rows == {n \in Minutes : Behind(cursor[w], n, d)}
             f == [m \in rows |-> perMinute[m][d]]
             g == [m \in rows |-> Events("stat", m, d)]
             h == [m \in rows |-> f[m] + g[m]]
             k == [m \in rows |-> perMinute'[m][d]]
  <2>1. AddedTo(d) = SumOf(g) /\ g \in [rows -> Nat]
    BY AddedByMinute
  <2>2. f \in [rows -> Nat]
    BY <1>2
  <2>3. k = h
    BY <1>3
  <2>4. SumBehind(w, d)' = SumOf(k)
    BY <1>3 DEF SumBehind, Behind
  <2>5. window[w][d] = SumOf(f)
    BY DEF WindowsExact, SumBehind
  <2>6. window'[w][d] = window[w][d] + AddedTo(d)
    BY <1>3
  <2>7. IsFiniteSet(rows)
    <3>1. rows \in SUBSET Minutes
      OBVIOUS
    <3> HIDE DEF rows
    <3> QED
      BY <3>1, TelFinite
  <2>8. SumOf(h) = SumOf(f) + SumOf(g)
    <3> HIDE DEF rows, f, g
    <3> QED
      BY <2>1, <2>2, <2>7, SumAdd
  <2> QED
    BY <2>1, <2>3, <2>4, <2>5, <2>6, <2>8
<1>10. WindowsExact'
  BY <1>4, <1>9, OrderFollows DEF WindowsExact
<1>11. ASSUME NEW m \in Minutes PROVE perMinute'[m][0] = SumOf([d \in 1..ModelCount |-> perMinute'[m][d]])
  <2> DEFINE models == 1..ModelCount
             f == [d \in models |-> perMinute[m][d]]
             g == [d \in models |-> Events("stat", m, d)]
             h == [d \in models |-> f[d] + g[d]]
             k == [d \in models |-> perMinute'[m][d]]
  <2>1. Events("stat", m, 0) = SumOf(g) /\ g \in [models -> Nat]
    BY AddedByModel
  <2>2. models \subseteq Dims /\ 0 \in Dims /\ IsFiniteSet(models)
    BY TelFinite, TelemetryAssumption DEF Dims
  <2>3. f \in [models -> Nat]
    BY <1>2, <2>2
  <2>4. k = h
    BY <1>3, <2>2
  <2>5. perMinute[m][0] = SumOf(f)
    BY DEF TotalsOK
  <2>6. perMinute'[m][0] = perMinute[m][0] + Events("stat", m, 0)
    BY <1>3, <2>2
  <2>7. SumOf(h) = SumOf(f) + SumOf(g)
    <3> HIDE DEF models, f, g
    <3> QED
      BY <2>1, <2>2, <2>3, SumAdd
  <2> QED
    BY <2>1, <2>4, <2>5, <2>6, <2>7
<1>12. TotalsOK'
  BY <1>11 DEF TotalsOK
<1> QED
  BY <1>5, <1>6, <1>7, <1>8, <1>10, <1>12

\* Tables that did not change are as sound as they were.
LEMMA TablesKept ==
    ASSUME TelInv, perMinute' = perMinute, window' = window, order' = order, cursor' = cursor
    PROVE  WindowsExact' /\ TotalsOK'
BY DEF TelInv, WindowsExact, SumBehind, Behind, TotalsOK

\* A batch ends in the database or among the drops.
LEMMA BatchSound ==
    ASSUME TelInv, StoreBatch \/ LoseBatch
    PROVE  /\ perMinute' \in [Minutes -> [Dims -> Nat]] /\ window' \in [Windows -> [Dims -> Nat]]
           /\ meter' \in [Minutes -> Nat] /\ cursor' = cursor /\ dropped' = dropped
           /\ WindowsExact' /\ TotalsOK' /\ (credential \/ \A m \in Minutes : meter'[m] = 0)
           /\ drops' \in TelCounter /\ kept' \in Nat /\ lost' \in Nat
           /\ kept' + drops'.all = kept + drops.all + Len(batch)
           /\ lost' + drops.all = lost + drops'.all
           /\ drops.all <= drops'.all /\ drops.meter <= drops'.meter
           /\ drops'.meter + drops.all <= drops.meter + drops'.all
<1>0. batch \in Seq(TelEvent) /\ drops \in TelCounter /\ kept \in Nat /\ lost \in Nat /\ Len(batch) \in Nat
  BY DEF TelInv, TelMemoryTypes
<1>1. CASE StoreBatch
  <2>1. kept' = kept + Len(batch) /\ drops' = drops /\ lost' = lost /\ cursor' = cursor /\ dropped' = dropped
    BY <1>1 DEF StoreBatch
  <2>2. drops.all \in Nat /\ drops.meter \in Nat
    BY <1>0 DEF TelCounter
  <2> QED
    BY <1>0, <1>1, <2>1, <2>2, StoreBatchSound
<1>2. CASE LoseBatch
  <2> DEFINE meters == Cardinality({n \in 1..Len(batch) : batch[n].kind = "meter"})
  <2>1. meters \in 0..Len(batch)
    BY <1>0, EventsCounted
  <2> HIDE DEF meters
  <2>2. drops' = [all |-> drops.all + Len(batch), meter |-> drops.meter + meters] /\ lost' = lost + Len(batch)
    BY <1>2 DEF LoseBatch, meters
  <2>3. /\ perMinute' = perMinute /\ window' = window /\ order' = order /\ cursor' = cursor /\ meter' = meter
        /\ dropped' = dropped /\ kept' = kept
    BY <1>2 DEF LoseBatch, tables
  <2>4. drops.all \in Nat /\ drops.meter \in Nat
    BY <1>0 DEF TelCounter
  <2>5. drops' \in TelCounter /\ drops'.all = drops.all + Len(batch) /\ drops'.meter = drops.meter + meters
    BY <1>0, <2>1, <2>2, <2>4 DEF TelCounter
  <2>6. WindowsExact' /\ TotalsOK'
    BY <2>3, TablesKept
  <2>7. credential \/ \A m \in Minutes : meter'[m] = 0
    BY <2>3 DEF TelInv, MetersOwned
  <2>8. /\ perMinute' \in [Minutes -> [Dims -> Nat]] /\ window' \in [Windows -> [Dims -> Nat]]
        /\ meter' \in [Minutes -> Nat]
    BY <2>3 DEF TelInv, TelTableTypes
  <2> QED
    BY <1>0, <2>1, <2>2, <2>3, <2>4, <2>5, <2>6, <2>7, <2>8
<1> QED
  BY <1>1, <1>2


-----------------------------------------------------------------------------
(* Cursors and pages.                                                      *)

\* The order of the rows is transitive.
LEMMA NotAfterTransitive ==
    ASSUME NEW a \in Int \X Int, NEW b \in Int \X Int, NEW c \in Int \X Int, NotAfter(a, b), NotAfter(b, c)
    PROVE  NotAfter(a, c)
BY DEF NotAfter

\* What lies behind a later cursor lies behind an earlier one.
LEMMA BehindMonotone ==
    ASSUME NEW a \in Int \X Int, NEW b \in Int \X Int, NotAfter(a, b), NEW m \in Int, NEW d \in Int
    PROVE  /\ Behind(b, m, d) => Behind(a, m, d)
           /\ Behind(b, m, d) <=> ~NotAfter(<<m, d>>, b)
BY DEF NotAfter, Behind

\* A nonempty set of rows has a last one and a first one.
LEMMA LastRow ==
    ASSUME NEW rows \in SUBSET (Minutes \X Dims), rows # {}
    PROVE  /\ LastOf(rows) \in rows /\ \A o \in rows : NotAfter(o, LastOf(rows))
           /\ \E r \in rows : \A o \in rows : ~Behind(o, r[1], r[2])
<1> DEFINE minutes == {r[1] : r \in rows}
<1>0. MaxMinute \in Nat /\ ModelCount \in Nat /\ Minutes = 0..MaxMinute /\ Dims = 0..ModelCount
  BY TelemetryAssumption DEF Minutes, Dims
<1>1. \A r \in rows : r[1] \in Nat /\ r[2] \in Nat /\ r[1] <= MaxMinute /\ r[2] <= ModelCount /\ r = <<r[1], r[2]>>
  BY <1>0
<1>2. minutes \in SUBSET Nat /\ minutes # {} /\ \A m \in minutes : m <= MaxMinute
  BY <1>1
<1>3. \E r \in rows : \A o \in rows : o = r \/ Behind(o, r[1], r[2])
  <2>1. PICK top \in minutes : \A m \in minutes : m <= top
    <3> HIDE DEF minutes
    <3> QED
      BY <1>0, <1>2, GreatestOf
  <2> DEFINE dims == {r[2] : r \in {o \in rows : o[1] = top}}
  <2>2. dims \in SUBSET Nat /\ dims # {} /\ \A d \in dims : d <= ModelCount
    BY <1>1
  <2>3. PICK best \in dims : \A d \in dims : d <= best
    <3> HIDE DEF dims
    <3> QED
      BY <1>0, <2>2, GreatestOf
  <2>4. PICK r \in rows : r[1] = top /\ r[2] = best
    BY <2>3
  <2>5. ASSUME NEW o \in rows PROVE o = r \/ Behind(o, r[1], r[2])
    <3>1. o[1] <= top
      BY <2>1
    <3>2. o[1] = top => o[2] <= best
      BY <2>3
    <3>3. r = <<top, best>> /\ o = <<o[1], o[2]>> /\ o[1] \in Nat /\ o[2] \in Nat /\ top \in Nat /\ best \in Nat
      BY <1>1, <2>4
    <3> QED
      BY <3>1, <3>2, <3>3 DEF Behind
  <2> QED
    BY <2>5
<1>4. LastOf(rows) \in rows /\ \A o \in rows : o = LastOf(rows) \/ Behind(o, LastOf(rows)[1], LastOf(rows)[2])
  <2>1. \E r \in rows : (\A o \in rows : o = r \/ Behind(o, r[1], r[2]))
    BY <1>3
  <2> QED
    BY <2>1, Zenon DEF LastOf
<1>5. \A o \in rows : NotAfter(o, LastOf(rows))
  <2> TAKE o \in rows
  <2> DEFINE l == LastOf(rows)
  <2>1. l \in rows /\ (o = l \/ Behind(o, l[1], l[2]))
    BY <1>4
  <2> HIDE DEF l
  <2>2. l[1] \in Nat /\ l[2] \in Nat /\ o[1] \in Nat /\ o[2] \in Nat
    BY <1>1, <2>1
  <2>3. NotAfter(o, l)
    BY <2>1, <2>2 DEF Behind, NotAfter
  <2> QED
    BY <2>3 DEF l
<1>6. \E r \in rows : \A o \in rows : ~Behind(o, r[1], r[2])
  <2>1. PICK low \in minutes : \A m \in minutes : low <= m
    <3> HIDE DEF minutes
    <3> QED
      BY <1>2, LeastOf
  <2> DEFINE dims == {r[2] : r \in {o \in rows : o[1] = low}}
  <2>2. dims \in SUBSET Nat /\ dims # {}
    BY <1>1
  <2>3. PICK best \in dims : \A d \in dims : best <= d
    <3> HIDE DEF dims
    <3> QED
      BY <2>2, LeastOf
  <2>4. PICK r \in rows : r[1] = low /\ r[2] = best
    BY <2>3
  <2>5. ASSUME NEW o \in rows PROVE ~Behind(o, r[1], r[2])
    <3>1. low <= o[1]
      BY <2>1
    <3>2. o[1] = low => best <= o[2]
      BY <2>3
    <3>3. o[1] \in Nat /\ o[2] \in Nat /\ low \in Nat /\ best \in Nat
      BY <1>1, <2>4
    <3> QED
      BY <2>4, <3>1, <3>2, <3>3 DEF Behind
  <2> QED
    BY <2>5
<1> QED
  BY <1>4, <1>5, <1>6

Before(w, r) == {o \in RowsBehind(cursor[w]) : Behind(o, r[1], r[2])}

\* The rows behind a cursor are pairs of a minute and a dimension.
LEMMA PageRowsKnown ==
    ASSUME TelTableTypes, NEW w \in Windows
    PROVE  /\ RowsBehind(cursor[w]) \in SUBSET (Minutes \X Dims)
           /\ \A r \in RowsBehind(cursor[w]) : /\ r[1] \in Int /\ r[2] \in Int /\ r[2] < PastAll
                                               /\ r[1] \in Minutes /\ r[2] \in Dims
                                               /\ r = <<r[1], r[2]>> /\ r \in Int \X Int
           /\ cursor[w] \in Int \X Int
           /\ \A r : IsFiniteSet(Before(w, r)) /\ Cardinality(Before(w, r)) \in Nat
           /\ PageRows \in Nat /\ PageRows > 0
           /\ ExpiredPage(w) = {r \in RowsBehind(cursor[w]) : Cardinality(Before(w, r)) < PageRows
                                                              /\ r[1] <= pending.now - w}
<1>1. RowsBehind(cursor[w]) \in SUBSET (Minutes \X Dims)
  BY DEF RowsBehind
<1>2. MaxMinute \in Nat /\ ModelCount \in Nat /\ PageRows \in Nat /\ PageRows > 0
  BY TelemetryAssumption
<1>3. \A r \in RowsBehind(cursor[w]) : /\ r[1] \in Int /\ r[2] \in Int /\ r[2] < PastAll
                                       /\ r[1] \in Minutes /\ r[2] \in Dims
                                       /\ r = <<r[1], r[2]>> /\ r \in Int \X Int
  BY <1>1, <1>2 DEF Minutes, Dims, PastAll
<1>4. cursor[w] \in Int \X Int
  BY <1>2 DEF TelTableTypes, PastAll
<1>5. \A r : IsFiniteSet(Before(w, r)) /\ Cardinality(Before(w, r)) \in Nat
  <2> TAKE r
  <2>1. Before(w, r) \in SUBSET (Minutes \X Dims)
    BY <1>1 DEF Before
  <2> QED
    BY <2>1, TelFinite, FS_CardinalityType
<1>6. ExpiredPage(w) = {r \in RowsBehind(cursor[w]) : Cardinality(Before(w, r)) < PageRows
                                                      /\ r[1] <= pending.now - w}
  BY Zenon DEF ExpiredPage, Before
<1> QED
  BY <1>1, <1>2, <1>3, <1>4, <1>5, <1>6

\* A page is empty only if no row is old enough.
LEMMA EmptyPage ==
    ASSUME TelTableTypes, NEW w \in Windows, ExpiredPage(w) = {}, pending.now - w \in Int
    PROVE  \A r \in RowsBehind(cursor[w]) : r[1] > pending.now - w
<1> DEFINE old == {r \in RowsBehind(cursor[w]) : r[1] <= pending.now - w}
<1>1. old = {}
  <2> SUFFICES ASSUME old # {} PROVE FALSE
    OBVIOUS
  <2>1. old \in SUBSET (Minutes \X Dims)
    BY PageRowsKnown
  <2>2. PICK r \in old : \A o \in old : ~Behind(o, r[1], r[2])
    <3> HIDE DEF old
    <3> QED
      BY <2>1, LastRow
  <2>3. Before(w, r) = {}
    <3> SUFFICES ASSUME NEW o \in RowsBehind(cursor[w]), Behind(o, r[1], r[2]) PROVE FALSE
      BY DEF Before
    <3>1. r[1] \in Int /\ r[2] \in Int /\ o[1] \in Int /\ o[2] \in Int /\ r[1] <= pending.now - w
      BY PageRowsKnown
    <3>2. o[1] <= r[1]
      BY <3>1 DEF Behind
    <3>3. o \in old
      BY <3>1, <3>2
    <3> QED
      BY <2>2, <3>3
  <2>4. Cardinality(Before(w, r)) < PageRows
    BY <2>3, FS_EmptySet, PageRowsKnown
  <2> QED
    BY <2>4, PageRowsKnown
<1> QED
  BY <1>1, PageRowsKnown

\* A row no later than one of a page is in the page.
LEMMA PageClosed ==
    ASSUME TelTableTypes, NEW w \in Windows, pending.now - w \in Int,
           NEW r \in RowsBehind(cursor[w]), NEW l \in ExpiredPage(w), NotAfter(r, l)
    PROVE  r \in ExpiredPage(w)
<1>1. /\ l \in RowsBehind(cursor[w]) /\ Cardinality(Before(w, l)) < PageRows /\ l[1] <= pending.now - w
  BY PageRowsKnown
<1>2. r[1] \in Int /\ r[2] \in Int /\ l[1] \in Int /\ l[2] \in Int
  BY <1>1, PageRowsKnown
<1>3. r[1] <= pending.now - w
  BY <1>1, <1>2 DEF NotAfter
<1>4. Before(w, r) \in SUBSET Before(w, l)
  <2> SUFFICES ASSUME NEW o \in RowsBehind(cursor[w]), Behind(o, r[1], r[2]) PROVE Behind(o, l[1], l[2])
    BY DEF Before
  <2>1. o[1] \in Int /\ o[2] \in Int
    BY PageRowsKnown
  <2> QED
    BY <1>2, <2>1 DEF Behind, NotAfter
<1>5. Cardinality(Before(w, r)) <= Cardinality(Before(w, l))
  BY <1>4, PageRowsKnown, FS_Subset
<1>6. Cardinality(Before(w, r)) < PageRows
  BY <1>1, <1>5, PageRowsKnown
<1> QED
  BY <1>3, <1>6, PageRowsKnown

\* A step of a window: forwards, never ahead of the clock, past just the page.
LEMMA AdvancedSound ==
    ASSUME TelMemoryTypes, TelTableTypes, CursorsOK, NEW w \in Windows
    PROVE  /\ pending.now - w \in Int
           /\ Advanced(w, ExpiredPage(w)) \in Int \X (0..PastAll)
           /\ Advanced(w, ExpiredPage(w)) \in Int \X Int
           /\ NotAfter(cursor[w], Advanced(w, ExpiredPage(w)))
           /\ Advanced(w, ExpiredPage(w))[1] <= minute - w
           /\ \A r \in RowsBehind(cursor[w]) :
                  r \in ExpiredPage(w) <=> ~Behind(Advanced(w, ExpiredPage(w)), r[1], r[2])
<1> DEFINE rows == ExpiredPage(w)
           c == cursor[w]
           e == pending.now - w
           next == Advanced(w, rows)
<1>1. /\ w \in Int /\ pending.now \in Int /\ minute \in Int /\ pending.now <= minute /\ c[1] <= minute - w
      /\ e \in Int /\ c[1] \in Int /\ c[2] \in Int /\ c[2] >= 0 /\ c[2] <= PastAll /\ c = <<c[1], c[2]>>
      /\ PastAll \in Nat
  <2>1. PastAll \in Nat
    BY TelemetryAssumption DEF PastAll
  <2>2. w \in Int
    BY TelemetryAssumption
  <2>3. pending.now \in Int /\ minute \in Int
    BY DEF TelMemoryTypes, Minutes
  <2>4. pending.now <= minute /\ c[1] <= minute - w
    BY DEF CursorsOK
  <2> QED
    BY <2>1, <2>2, <2>3, <2>4, CursorKnown
<1>2. CASE rows # {}
  <2>1. rows \in SUBSET (Minutes \X Dims)
    BY PageRowsKnown
  <2>2. next = LastOf(rows)
    BY <1>2 DEF Advanced
  <2>3. next \in rows /\ \A o \in rows : NotAfter(o, next)
    <3> HIDE DEF rows
    <3> QED
      BY <1>2, <2>1, <2>2, LastRow
  <2>4. next \in RowsBehind(c) /\ next[1] <= e
    BY <2>3, PageRowsKnown
  <2>5. /\ next[1] \in Int /\ next[2] \in Int /\ next[2] >= 0 /\ next[2] < PastAll /\ next = <<next[1], next[2]>>
        /\ Behind(c, next[1], next[2])
    <3>1. next[2] \in Dims /\ Behind(c, next[1], next[2])
      BY <2>4, PageRowsKnown DEF RowsBehind
    <3> HIDE DEF next
    <3> QED
      BY <2>4, <3>1, PageRowsKnown DEF Dims
  <2> HIDE DEF next
  <2>6. next \in Int \X (0..PastAll) /\ next \in Int \X Int
    BY <1>1, <2>5
  <2> HIDE DEF c, e
  <2>7. NotAfter(c, next) /\ next[1] <= minute - w
    <3>1. next[1] <= minute - w
      BY <1>1, <2>4, <2>5 DEF e
    <3> QED
      BY <1>1, <2>5, <3>1 DEF NotAfter, Behind
  <2>8. ASSUME NEW r \in RowsBehind(c) PROVE r \in rows <=> ~Behind(next, r[1], r[2])
    <3>1. r[1] \in Int /\ r[2] \in Int
      BY PageRowsKnown DEF c
    <3>2. ASSUME r \in rows PROVE ~Behind(next, r[1], r[2])
      <4>1. NotAfter(r, next)
        BY <2>3, <3>2
      <4> QED
        BY <2>5, <3>1, <4>1 DEF NotAfter, Behind
    <3>3. ASSUME ~Behind(next, r[1], r[2]) PROVE r \in rows
      <4>1. NotAfter(r, next)
        BY <2>5, <3>1, <3>3 DEF NotAfter, Behind
      <4> QED
        BY <1>1, <2>3, <4>1, PageClosed DEF c, e
    <3> QED
      BY <3>2, <3>3
  <2> QED
    BY <1>1, <2>6, <2>7, <2>8 DEF c, e, next
<1>3. CASE rows = {}
  <2>1. next = IF e < c[1] THEN c ELSE <<e, PastAll>>
    BY <1>3 DEF Advanced
  <2> HIDE DEF next
  <2>2. \A r \in RowsBehind(c) : r[1] > e
    BY <1>1, <1>3, EmptyPage
  <2>3. \A r \in RowsBehind(c) : r[1] \in Int /\ r[2] \in Int /\ r[2] < PastAll /\ Behind(c, r[1], r[2])
    BY PageRowsKnown DEF RowsBehind
  <2>4. \A r \in RowsBehind(c) : r \notin rows
    BY <1>3
  <2> HIDE DEF rows, c
  <2>5. CASE e < c[1]
    <3>1. next = c
      BY <2>1, <2>5
    <3>2. c \in Int \X (0..PastAll) /\ c \in Int \X Int
      BY <1>1
    <3>3. NotAfter(c, next) /\ next[1] <= minute - w
      BY <1>1, <3>1 DEF NotAfter
    <3>4. \A r \in RowsBehind(c) : r \in rows <=> ~Behind(next, r[1], r[2])
      BY <2>3, <2>4, <3>1
    <3> QED
      BY <1>1, <3>1, <3>2, <3>3, <3>4 DEF c, rows, next
  <2>6. CASE ~(e < c[1])
    <3>1. next = <<e, PastAll>> /\ next[1] = e /\ next[2] = PastAll
      BY <2>1, <2>6
    <3>2. next \in Int \X (0..PastAll) /\ next \in Int \X Int
      BY <1>1, <3>1
    <3>3. NotAfter(c, next) /\ next[1] <= minute - w
      BY <1>1, <2>6, <3>1 DEF NotAfter
    <3>4. \A r \in RowsBehind(c) : r \in rows <=> ~Behind(next, r[1], r[2])
      BY <1>1, <2>2, <2>3, <2>4, <3>1 DEF Behind
    <3> QED
      BY <1>1, <3>2, <3>3, <3>4 DEF c, rows, next
  <2> QED
    BY <2>5, <2>6
<1> QED
  BY <1>2, <1>3

\* Of two windows with the same present the longer one stays behind.
LEMMA AdvancedOrdered ==
    ASSUME TelMemoryTypes, TelTableTypes, CursorsOK, NEW w \in Windows, NEW v \in Windows, w < v
    PROVE  NotAfter(Advanced(v, ExpiredPage(v)), Advanced(w, ExpiredPage(w)))
<1> DEFINE a == Advanced(w, ExpiredPage(w))
           b == Advanced(v, ExpiredPage(v))
           cw == cursor[w]
           cv == cursor[v]
           now == pending.now
<1>1. w \in Int /\ v \in Int /\ now \in Int /\ PastAll \in Nat
  BY TelemetryAssumption DEF TelMemoryTypes, PastAll
<1>2. NotAfter(cv, cw) /\ NotAfter(cw, a) /\ NotAfter(cv, b)
  BY AdvancedSound DEF CursorsOK
<1>3. cw \in Int \X Int /\ cv \in Int \X Int /\ a \in Int \X Int /\ b \in Int \X Int
  BY AdvancedSound, PageRowsKnown
<1>4. now - w \in Int /\ now - v \in Int /\ now - v < now - w
  BY <1>1
<1>5. \A m, d \in Int : Behind(cw, m, d) => Behind(cv, m, d)
  <2> HIDE DEF cv, cw
  <2> QED
    BY <1>2, <1>3, BehindMonotone
<1>6. RowsBehind(cw) \in SUBSET RowsBehind(cv)
  <2> SUFFICES ASSUME NEW r \in RowsBehind(cw) PROVE r \in RowsBehind(cv)
    OBVIOUS
  <2>1. r[1] \in Int /\ r[2] \in Int
    BY PageRowsKnown
  <2> QED
    BY <1>5, <2>1 DEF RowsBehind
<1>7. \A r : Cardinality(Before(w, r)) <= Cardinality(Before(v, r))
  <2> TAKE r
  <2>1. Before(w, r) \in SUBSET Before(v, r)
    BY <1>6 DEF Before
  <2> QED
    BY <2>1, PageRowsKnown, FS_Subset
<1>8. CASE ExpiredPage(v) # {}
  <2>1. b \in ExpiredPage(v)
    <3>1. ExpiredPage(v) \in SUBSET (Minutes \X Dims)
      BY PageRowsKnown
    <3>2. b = LastOf(ExpiredPage(v))
      BY <1>8 DEF Advanced
    <3> QED
      BY <1>8, <3>1, <3>2, LastRow
  <2>2. b \in RowsBehind(cv) /\ Cardinality(Before(v, b)) < PageRows /\ b[1] <= now - v
    BY <2>1, PageRowsKnown
  <2>3. b[1] \in Int /\ b[2] \in Int /\ b = <<b[1], b[2]>>
    BY <1>3
  <2> HIDE DEF b
  <2>4. CASE ~Behind(cw, b[1], b[2])
    <3>1. NotAfter(b, cw)
      <4> HIDE DEF cw
      <4>1. cw[1] \in Int /\ cw[2] \in Int
        BY <1>3
      <4> QED
        BY <2>3, <2>4, <4>1 DEF NotAfter, Behind
    <3> HIDE DEF a, cw
    <3>2. NotAfter(b, a)
      BY <1>2, <1>3, <3>1, NotAfterTransitive
    <3> QED
      BY <3>2 DEF a, b
  <2>5. CASE Behind(cw, b[1], b[2])
    <3>1. b \in RowsBehind(cw)
      BY <2>2, <2>5 DEF RowsBehind
    <3>2. Cardinality(Before(w, b)) < PageRows
      <4>1. Cardinality(Before(w, b)) \in Nat /\ Cardinality(Before(v, b)) \in Nat /\ PageRows \in Nat
        BY PageRowsKnown
      <4> QED
        BY <1>7, <2>2, <4>1
    <3>3. b[1] <= now - w
      BY <1>4, <2>2, <2>3
    <3>4. b \in ExpiredPage(w)
      BY <3>1, <3>2, <3>3, PageRowsKnown
    <3>5. ~Behind(a, b[1], b[2])
      BY <3>1, <3>4, AdvancedSound
    <3> HIDE DEF a
    <3>6. NotAfter(b, a)
      <4>1. a[1] \in Int /\ a[2] \in Int
        BY <1>3
      <4> QED
        BY <2>3, <3>5, <4>1 DEF NotAfter, Behind
    <3> QED
      BY <3>6 DEF a, b
  <2> QED
    BY <2>4, <2>5
<1>9. CASE ExpiredPage(v) = {} /\ now - v < cv[1]
  <2>1. b = cv
    BY <1>9 DEF Advanced
  <2> HIDE DEF a, b, cw, cv
  <2>2. NotAfter(b, a)
    BY <1>2, <1>3, <2>1, NotAfterTransitive
  <2> QED
    BY <2>2 DEF a, b
<1>10. CASE ExpiredPage(v) = {} /\ ~(now - v < cv[1])
  <2>1. b = <<now - v, PastAll>> /\ b[1] = now - v
    BY <1>10 DEF Advanced
  <2>2. a[1] > now - v
    <3>1. CASE ExpiredPage(w) # {}
      <4>1. a \in ExpiredPage(w)
        <5>1. ExpiredPage(w) \in SUBSET (Minutes \X Dims)
          BY PageRowsKnown
        <5>2. a = LastOf(ExpiredPage(w))
          BY <3>1 DEF Advanced
        <5> QED
          BY <3>1, <5>1, <5>2, LastRow
      <4>2. a \in RowsBehind(cv)
        BY <1>6, <4>1, PageRowsKnown
      <4> QED
        BY <1>4, <1>10, <4>2, EmptyPage
    <3>2. CASE ExpiredPage(w) = {}
      <4>1. a = IF now - w < cw[1] THEN cw ELSE <<now - w, PastAll>>
        BY <3>2 DEF Advanced
      <4>2. cw[1] \in Int
        BY <1>3
      <4> HIDE DEF a, cw, now
      <4>3. CASE now - w < cw[1]
        <5>1. a[1] = cw[1]
          BY <4>1, <4>3
        <5> QED
          BY <1>4, <4>2, <4>3, <5>1
      <4>4. CASE ~(now - w < cw[1])
        <5>1. a[1] = now - w
          BY <4>1, <4>4
        <5> QED
          BY <1>4, <5>1
      <4> QED
        BY <4>3, <4>4
    <3> QED
      BY <3>1, <3>2
  <2> HIDE DEF a, b
  <2>3. NotAfter(b, a)
    BY <1>4, <2>1, <2>2, <1>3 DEF NotAfter
  <2> QED
    BY <2>3 DEF a, b
<1> QED
  BY <1>8, <1>9, <1>10


-----------------------------------------------------------------------------
(* A pass over the windows, the removal of old rows, and a clear.          *)

\* What a page takes from a window is what its cursor leaves behind.
LEMMA WindowExpired ==
    ASSUME TelMemoryTypes, TelTableTypes, CursorsOK, NEW w \in Windows, NEW d \in Dims
    PROVE  LET rows == ExpiredPage(w)
               next == Advanced(w, rows)
               left == {n \in Minutes : Behind(next, n, d)}
           IN /\ [m \in left |-> perMinute[m][d]] \in [left -> Nat]
              /\ SumBehind(w, d) \in Nat
              /\ Less(SumBehind(w, d), SumOf([r \in {r \in rows : r[2] = d} |-> perMinute[r[1]][d]]))
                   = SumOf([m \in left |-> perMinute[m][d]])
<1> DEFINE rows == ExpiredPage(w)
           c == cursor[w]
           next == Advanced(w, rows)
           all == {n \in Minutes : Behind(c, n, d)}
           left == {n \in Minutes : Behind(next, n, d)}
           gone == all \ left
           hit == {n \in gone : perMinute[n][d] > 0}
           mine == {r \in rows : r[2] = d}
           name == [r \in mine |-> r[1]]
           f == [m \in all |-> perMinute[m][d]]
           fl == [m \in left |-> perMinute[m][d]]
           fg == [m \in gone |-> perMinute[m][d]]
           fh == [m \in hit |-> perMinute[m][d]]
           g == [r \in mine |-> perMinute[r[1]][d]]
<1>1. \A m \in Minutes : perMinute[m][d] \in Nat
  BY DEF TelTableTypes
<1>2. f \in [all -> Nat] /\ fl \in [left -> Nat] /\ fg \in [gone -> Nat] /\ fh \in [hit -> Nat]
  BY <1>1
<1>3. next \in Int \X Int /\ c \in Int \X Int /\ NotAfter(c, next)
  BY AdvancedSound, PageRowsKnown
<1>4. left \in SUBSET all
  <2> SUFFICES ASSUME NEW n \in Minutes, Behind(next, n, d) PROVE Behind(c, n, d)
    OBVIOUS
  <2>1. n \in Int /\ d \in Int
    BY TelemetryAssumption DEF Minutes, Dims
  <2> HIDE DEF next, c
  <2> QED
    BY <1>3, <2>1, BehindMonotone
<1>5. IsFiniteSet(left) /\ IsFiniteSet(gone) /\ IsFiniteSet(all) /\ IsFiniteSet(hit) /\ IsFiniteSet(mine)
  <2>1. left \in SUBSET Minutes /\ gone \in SUBSET Minutes /\ all \in SUBSET Minutes /\ hit \in SUBSET Minutes
    OBVIOUS
  <2>2. mine \in SUBSET (Minutes \X Dims)
    BY PageRowsKnown
  <2> HIDE DEF left, gone, all, hit, mine
  <2> QED
    BY <2>1, <2>2, TelFinite
<1>6. SumOf(f) = SumOf(fl) + SumOf(fg)
  <2>1. left \cup gone = all /\ left \cap gone = {}
    BY <1>4
  <2>2. [m \in left |-> f[m]] = fl /\ [m \in gone |-> f[m]] = fg
    BY <1>4
  <2> DEFINE ff == f
  <2>3. ff \in [left \cup gone -> Nat]
    BY <1>2, <2>1
  <2>4. ff = f
    OBVIOUS
  <2> HIDE DEF ff, left, gone
  <2>5. \E h, A, B : h = ff /\ A = left /\ B = gone
    OBVIOUS
  <2>6. PICK h, A, B : h = ff /\ A = left /\ B = gone
    BY <2>5
  <2>7. IsFiniteSet(A) /\ IsFiniteSet(B) /\ A \cap B = {} /\ h \in [A \cup B -> Nat]
    BY <1>5, <2>1, <2>3, <2>6
  <2>8. SumOf(h) = SumOf([m \in A |-> h[m]]) + SumOf([m \in B |-> h[m]])
    BY <2>7, SumSplit
  <2> QED
    BY <2>2, <2>4, <2>6, <2>8
<1>7. SumOf(fg) = SumOf(fh)
  <2>1. hit \in SUBSET gone /\ \A n \in gone \ hit : fg[n] = 0
    BY <1>1
  <2>2. [m \in hit |-> fg[m]] = fh
    OBVIOUS
  <2> HIDE DEF fg, fh, hit, gone
  <2> QED
    BY <1>2, <1>5, <2>1, <2>2, SumSupport
<1>8. \A r : r \in mine <=> \E n \in hit : r = <<n, d>>
  <2>1. ASSUME NEW r \in mine PROVE r = <<r[1], d>> /\ r[1] \in hit
    <3>1. r \in RowsBehind(c) /\ r \in rows /\ r[2] = d
      BY PageRowsKnown
    <3>2. r = <<r[1], d>> /\ r[1] \in Minutes
      BY <3>1, PageRowsKnown
    <3>3. Behind(c, r[1], d) /\ perMinute[r[1]][d] > 0
      BY <3>1 DEF RowsBehind
    <3>4. ~Behind(next, r[1], d)
      BY <3>1, AdvancedSound
    <3> QED
      BY <3>2, <3>3, <3>4
  <2>2. ASSUME NEW n \in hit PROVE <<n, d>> \in mine
    <3>1. <<n, d>> \in RowsBehind(c)
      BY DEF RowsBehind
    <3>2. ~Behind(next, n, d)
      OBVIOUS
    <3>3. <<n, d>> \in rows
      BY <3>1, <3>2, AdvancedSound
    <3> QED
      BY <3>3
  <2> HIDE DEF mine, hit
  <2> QED
    BY <2>1, <2>2
<1>9. SumOf(g) = SumOf(fh) /\ g \in [mine -> Nat]
  <2>1. name \in [mine -> hit]
    BY <1>8
  <2>2. \A j, k \in mine : name[j] = name[k] => j = k
    BY <1>8
  <2>3. \A n \in hit : \E r \in mine : name[r] = n
    <3> TAKE n \in hit
    <3>1. <<n, d>> \in mine
      BY <1>8
    <3>2. name[<<n, d>>] = n
      BY <3>1
    <3> QED
      BY <3>1, <3>2
  <2>4. \A r \in mine : g[r] = fh[name[r]]
    BY <2>1
  <2>5. g \in [mine -> Nat]
    BY <1>1, <2>1
  <2> HIDE DEF name, g, fh, mine, hit
  <2>6. SumOf(g) = SumOf(fh)
    BY <1>2, <1>5, <2>1, <2>2, <2>3, <2>4, <2>5, SumRenamed
  <2> QED
    BY <2>5, <2>6
<1>10. SumOf(fl) \in Nat /\ SumOf(g) \in Nat
  <2> HIDE DEF fl, g, left, mine
  <2> QED
    BY <1>2, <1>5, <1>9, SumType
<1>11. SumBehind(w, d) = SumOf(f)
  BY DEF SumBehind
<1>12. SumBehind(w, d) = SumOf(fl) + SumOf(g)
  BY <1>6, <1>7, <1>9, <1>11
<1>13. Less(SumBehind(w, d), SumOf(g)) = SumOf(fl) /\ SumBehind(w, d) \in Nat
  <2> HIDE DEF fl, g
  <2> QED
    BY <1>10, <1>12 DEF Less
<1> QED
  BY <1>2, <1>13

\* A pass takes the shortest window left.
LEMMA FirstOfTodo ==
    ASSUME TelMemoryTypes, pending.todo # {}
    PROVE  LET w == CHOOSE v \in pending.todo : \A u \in pending.todo : v <= u
           IN w \in Windows /\ w \in pending.todo /\ \A u \in pending.todo : w <= u
<1>1. pending.todo \in SUBSET Windows
  BY DEF TelMemoryTypes
<1>2. pending.todo \in SUBSET Nat
  BY <1>1, TelemetryAssumption
<1>3. \E v \in pending.todo : \A u \in pending.todo : v <= u
  BY <1>2, LeastOf
<1> QED
  BY <1>1, <1>3

\* A page keeps the windows exact, and the pass in its order.
LEMMA ExpireSound ==
    ASSUME TelInv, ExpireWindow
    PROVE  /\ window' \in [Windows -> [Dims -> Nat]] /\ cursor' \in [Windows -> Int \X (0..PastAll)]
           /\ WindowsExact' /\ TotalsOK' /\ CursorsOK'
<1> USE DEF TelInv
<1> DEFINE w == CHOOSE v \in pending.todo : \A u \in pending.todo : v <= u
           rows == ExpiredPage(w)
           next == Advanced(w, rows)
           win == Subtracted(w, rows)
<1>1. pending.at = "expire" /\ pending.todo # {}
  BY DEF ExpireWindow
<1>2. w \in Windows /\ w \in pending.todo /\ \A u \in pending.todo : w <= u
  BY <1>1, FirstOfTodo
<1>3. /\ window' = win /\ order' = Reordered(window, win)
      /\ cursor' = [cursor EXCEPT ![w] = next]
      /\ pending' = IF pending.todo = {w} THEN [pending EXCEPT !.at = "remove"] ELSE [pending EXCEPT !.todo = @ \ {w}]
      /\ perMinute' = perMinute /\ minute' = minute
  BY Zenon DEF ExpireWindow, expireRest
<1> HIDE DEF w
<1>4. window \in [Windows -> [Dims -> Nat]] /\ perMinute \in [Minutes -> [Dims -> Nat]]
      /\ cursor \in [Windows -> Int \X (0..PastAll)] /\ DOMAIN cursor = Windows
  BY DEF TelTableTypes
<1>5. /\ next \in Int \X (0..PastAll) /\ NotAfter(cursor[w], next) /\ next[1] <= minute - w /\ next \in Int \X Int
  BY <1>2, AdvancedSound
<1>6. cursor' \in [Windows -> Int \X (0..PastAll)] /\ cursor'[w] = next /\ \A v \in Windows \ {w} : cursor'[v] = cursor[v]
  <2> HIDE DEF next
  <2> QED
    BY <1>2, <1>3, <1>4, <1>5
<1>7. win = [window EXCEPT ![w] = [d \in Dims |->
                Less(window[w][d], SumOf([r \in {r \in rows : r[2] = d} |-> perMinute[r[1]][d]]))]]
  BY <1>2, <1>4 DEF Subtracted
<1>8. ASSUME NEW v \in Windows, NEW d \in Dims
      PROVE  window'[v][d] \in Nat /\ window'[v][d] = SumBehind(v, d)'
  <2>1. SumBehind(v, d)' = SumOf([m \in {n \in Minutes : Behind(cursor'[v], n, d)} |-> perMinute[m][d]])
    BY <1>3 DEF SumBehind, Behind
  <2>2. window[v][d] = SumBehind(v, d) /\ window[v][d] \in Nat
    BY <1>4 DEF WindowsExact
  <2>3. CASE v = w
    <3> DEFINE left == {n \in Minutes : Behind(next, n, d)}
               fl == [m \in left |-> perMinute[m][d]]
    <3>1. fl \in [left -> Nat] /\ Less(SumBehind(w, d), SumOf([r \in {r \in rows : r[2] = d} |-> perMinute[r[1]][d]])) = SumOf(fl)
      BY <1>2, WindowExpired
    <3>2. window'[v][d] = Less(window[w][d], SumOf([r \in {r \in rows : r[2] = d} |-> perMinute[r[1]][d]]))
      BY <1>2, <1>3, <1>4, <1>7, <2>3
    <3>3. SumOf(fl) \in Nat
      <4>1. IsFiniteSet(left)
        <5>1. left \in SUBSET Minutes
          OBVIOUS
        <5> HIDE DEF left
        <5> QED
          BY <5>1, TelFinite
      <4> HIDE DEF fl, left
      <4> QED
        BY <3>1, <4>1, SumType
    <3>4. SumBehind(v, d)' = SumOf(fl)
      BY <1>6, <2>1, <2>3
    <3> HIDE DEF fl
    <3> QED
      BY <2>2, <2>3, <3>1, <3>2, <3>3, <3>4
  <2>4. CASE v # w
    <3>1. window'[v][d] = window[v][d]
      BY <1>2, <1>3, <1>4, <1>7, <2>4
    <3>2. cursor'[v] = cursor[v]
      BY <1>6, <2>4
    <3>3. SumBehind(v, d)' = SumBehind(v, d)
      BY <2>1, <3>2 DEF SumBehind
    <3> QED
      BY <2>2, <3>1, <3>3
  <2> QED
    BY <2>3, <2>4
<1>9. window' \in [Windows -> [Dims -> Nat]]
  <2>1. \E h \in [Dims -> Nat] : window' = [window EXCEPT ![w] = h]
    <3> DEFINE h == [d \in Dims |-> Less(window[w][d], SumOf([r \in {r \in rows : r[2] = d} |-> perMinute[r[1]][d]]))]
    <3>1. \A d \in Dims : window'[w][d] = h[d]
      BY <1>2, <1>3, <1>4, <1>7
    <3>2. h \in [Dims -> Nat]
      BY <1>2, <1>8, <3>1
    <3>3. window' = [window EXCEPT ![w] = h]
      BY <1>3, <1>7
    <3> HIDE DEF h
    <3> QED
      BY <3>2, <3>3
  <2> QED
    BY <1>2, <1>4, <2>1
<1>10. WindowsExact'
  <2>1. order' = {e \in {<<v, d, window'[v][d]>> : v \in Windows, d \in Dims} : e[3] > 0}
    <3> HIDE DEF win
    <3> QED
      BY <1>3, OrderFollows
  <2> QED
    BY <1>8, <2>1 DEF WindowsExact
<1>11. TotalsOK'
  BY <1>3 DEF TotalsOK
<1>12. \A v \in Windows : v \in Int
  BY TelemetryAssumption
<1>13. \A v \in Windows : cursor[v] \in Int \X Int
  BY PageRowsKnown
<1>14. /\ pending \in [at : WriterPlaces, reply : BOOLEAN, ok : BOOLEAN, mark : Nat, seen : TelCounter,
                       todo : SUBSET Windows, now : Nat]
       /\ pending.todo \in SUBSET Windows
  BY DEF TelMemoryTypes
<1>15. /\ pending'.now = pending.now
       /\ \/ pending'.at = "remove"
          \/ pending'.at = "expire" /\ pending'.todo = pending.todo \ {w}
  BY <1>1, <1>3, <1>14
<1>16. \A v \in pending.todo \ {w} : v \in Windows /\ w < v /\ NotAfter(Advanced(v, ExpiredPage(v)), next)
  <2> TAKE v \in pending.todo \ {w}
  <2>1. v \in Windows /\ w < v
    BY <1>2, <1>12, <1>14
  <2> QED
    BY <1>2, <2>1, AdvancedOrdered
<1>17. \A u \in Windows \ pending.todo : \A v \in pending.todo :
           u < v /\ NotAfter(Advanced(v, ExpiredPage(v)), cursor[u])
  BY <1>1 DEF CursorsOK
<1>18. \A v \in Windows \ {w} : (Advanced(v, ExpiredPage(v)))' = Advanced(v, ExpiredPage(v))
  <2> TAKE v \in Windows \ {w}
  <2>1. cursor'[v] = cursor[v] /\ perMinute' = perMinute /\ pending'.now = pending.now
    BY <1>3, <1>6, <1>15
  <2>2. RowsBehind(cursor[v])' = RowsBehind(cursor[v])
    BY <2>1 DEF RowsBehind, Behind
  <2>3. ExpiredPage(v)' = ExpiredPage(v)
    BY <2>1, <2>2 DEF ExpiredPage, Behind
  <2> QED
    BY <2>1, <2>3 DEF Advanced, LastOf, Behind
<1>19. \A v \in Windows : cursor'[v][1] <= minute' - v
  <2> TAKE v \in Windows
  <2>1. CASE v = w
    BY <1>3, <1>5, <1>6, <2>1
  <2>2. CASE v # w
    <3>1. cursor'[v] = cursor[v]
      BY <1>6, <2>2
    <3> QED
      BY <1>3, <3>1 DEF CursorsOK
  <2> QED
    BY <2>1, <2>2
<1>20. \A v, u \in Windows : u < v => NotAfter(cursor'[v], cursor'[u])
  <2> SUFFICES ASSUME NEW v \in Windows, NEW u \in Windows, u < v PROVE NotAfter(cursor'[v], cursor'[u])
    OBVIOUS
  <2>1. NotAfter(cursor[v], cursor[u])
    BY DEF CursorsOK
  <2>2. CASE v # w /\ u # w
    <3>1. cursor'[v] = cursor[v] /\ cursor'[u] = cursor[u]
      BY <1>6, <2>2
    <3> QED
      BY <2>1, <3>1
  <2>3. CASE u = w
    <3>1. v # w
      BY <1>12, <2>3
    <3>2. cursor'[v] = cursor[v] /\ cursor'[u] = next
      BY <1>6, <2>3, <3>1
    <3>3. NotAfter(cursor[v], cursor[w]) /\ NotAfter(cursor[w], next)
      BY <1>5, <2>1, <2>3
    <3> HIDE DEF next
    <3>4. NotAfter(cursor[v], next)
      BY <1>2, <1>5, <1>13, <3>3, NotAfterTransitive
    <3> QED
      BY <3>2, <3>4
  <2>4. CASE v = w
    <3>1. u # w
      BY <1>12, <2>4
    <3>2. cursor'[v] = next /\ cursor'[u] = cursor[u]
      BY <1>6, <2>4, <3>1
    <3>3. u \notin pending.todo
      BY <1>2, <1>12, <2>4
    <3>4. NotAfter(next, cursor[u])
      BY <1>2, <1>17, <3>3
    <3> QED
      BY <3>2, <3>4
  <2> QED
    BY <2>2, <2>3, <2>4
<1>21. ASSUME pending'.at = "expire", pending'.todo # {}, NEW u \in Windows \ pending'.todo, NEW v \in pending'.todo
       PROVE  u < v /\ NotAfter((Advanced(v, ExpiredPage(v)))', cursor'[u])
  <2>1. pending'.todo = pending.todo \ {w}
    BY <1>15, <1>21
  <2>2. v \in pending.todo /\ v # w /\ v \in Windows
    BY <1>14, <2>1
  <2>3. (Advanced(v, ExpiredPage(v)))' = Advanced(v, ExpiredPage(v))
    BY <1>18, <2>2
  <2>4. CASE u = w
    BY <1>6, <1>16, <2>2, <2>3, <2>4
  <2>5. CASE u # w
    <3>1. u \in Windows \ pending.todo
      BY <2>1, <2>5
    <3>2. cursor'[u] = cursor[u]
      BY <1>6, <2>5
    <3> QED
      BY <1>17, <2>2, <2>3, <3>1, <3>2
  <2> QED
    BY <2>4, <2>5
<1>22. pending'.now <= minute' /\ pending'.at \notin {"delta", "commit", "publish"}
  BY <1>3, <1>15 DEF CursorsOK
<1>23. CursorsOK'
  BY <1>19, <1>20, <1>21, <1>22 DEF CursorsOK
<1> QED
  BY <1>6, <1>9, <1>10, <1>11, <1>23

\* Rows are removed only behind every cursor.
LEMMA RemoveSound ==
    ASSUME TelInv, RemoveOld
    PROVE  /\ perMinute' \in [Minutes -> [Dims -> Nat]] /\ meter' \in [Minutes -> Nat]
           /\ WindowsExact' /\ TotalsOK' /\ (credential \/ \A m \in Minutes : meter'[m] = 0)
<1> USE DEF TelInv
<1>1. /\ perMinute' = [m \in Minutes |-> IF Removable(m) THEN [d \in Dims |-> 0] ELSE perMinute[m]]
      /\ meter' = [m \in Minutes |-> IF m < minute - Longest THEN 0 ELSE meter[m]]
      /\ window' = window /\ order' = order /\ cursor' = cursor
  BY DEF RemoveOld
<1>2. perMinute \in [Minutes -> [Dims -> Nat]] /\ meter \in [Minutes -> Nat]
  BY DEF TelTableTypes
<1>3. perMinute' \in [Minutes -> [Dims -> Nat]] /\ meter' \in [Minutes -> Nat]
  BY <1>1, <1>2
<1>4. credential \/ \A m \in Minutes : meter'[m] = 0
  BY <1>1 DEF MetersOwned
<1>5. ASSUME NEW w \in Windows, NEW m \in Minutes, Removable(m), NEW d \in Dims PROVE ~Behind(cursor[w], m, d)
  <2>1. m < pending.now - Retention /\ cursor[Longest][1] >= pending.now - Retention
    BY <1>5 DEF Removable
  <2>2. cursor[w] \in Int \X Int /\ cursor[Longest] \in Int \X Int
    BY PageRowsKnown, WindowEnds
  <2>3. pending.now - Retention \in Int /\ m \in Int
    BY TelemetryAssumption DEF TelMemoryTypes, Minutes
  <2>4. cursor[Longest][1] <= cursor[w][1]
    <3>1. CASE w = Longest
      BY <2>2, <3>1
    <3>2. CASE w # Longest
      <4>1. w < Longest
        BY <3>2, WindowEnds, TelemetryAssumption
      <4>2. NotAfter(cursor[Longest], cursor[w])
        BY <4>1, WindowEnds DEF CursorsOK
      <4> QED
        BY <2>2, <4>2 DEF NotAfter
    <3> QED
      BY <3>1, <3>2
  <2>5. m < cursor[w][1] /\ cursor[w][1] \in Int
    BY <2>1, <2>2, <2>3, <2>4
  <2> QED
    BY <2>3, <2>5 DEF Behind
<1>6. ASSUME NEW w \in Windows, NEW d \in Dims PROVE SumBehind(w, d)' = SumBehind(w, d)
  <2> DEFINE rows == {n \in Minutes : Behind(cursor[w], n, d)}
  <2>1. \A n \in rows : perMinute'[n][d] = perMinute[n][d]
    BY <1>1, <1>5
  <2>2. [m \in rows |-> perMinute'[m][d]] = [m \in rows |-> perMinute[m][d]]
    BY <2>1
  <2>3. SumBehind(w, d)' = SumOf([m \in rows |-> perMinute'[m][d]])
    BY <1>1 DEF SumBehind, Behind
  <2> QED
    BY <2>2, <2>3 DEF SumBehind
<1>7. WindowsExact'
  BY <1>1, <1>6 DEF WindowsExact
<1>8. ASSUME NEW m \in Minutes PROVE perMinute'[m][0] = SumOf([d \in 1..ModelCount |-> perMinute'[m][d]])
  <2> DEFINE models == 1..ModelCount
             f == [d \in models |-> perMinute'[m][d]]
  <2>1. models \subseteq Dims /\ 0 \in Dims
    BY TelemetryAssumption DEF Dims
  <2>2. CASE Removable(m)
    <3>1. perMinute'[m] = [d \in Dims |-> 0]
      BY <1>1, <2>2
    <3>2. f \in [models -> Nat] /\ \A d \in models : f[d] = 0
      BY <2>1, <3>1
    <3>3. SumOf(f) = 0
      <4> HIDE DEF f
      <4> QED
        BY <3>2, TelFinite, SumZero
    <3> QED
      BY <2>1, <3>1, <3>3
  <2>3. CASE ~Removable(m)
    <3>1. perMinute'[m] = perMinute[m]
      BY <1>1, <2>3
    <3> QED
      BY <3>1 DEF TotalsOK
  <2> QED
    BY <2>2, <2>3
<1>9. TotalsOK'
  BY <1>8 DEF TotalsOK
<1> QED
  BY <1>3, <1>4, <1>7, <1>9

\* Empty tables agree with each other, wherever the cursors are.
LEMMA EmptyTables ==
    ASSUME NEW S, S \in SUBSET Minutes \/ S \in SUBSET Dims, NEW f, f = [k \in S |-> 0]
    PROVE  SumOf(f) = 0
<1>1. f \in [S -> Nat] /\ \A k \in S : f[k] = 0
  OBVIOUS
<1>2. IsFiniteSet(S)
  BY TelFinite
<1> QED
  BY <1>1, <1>2, SumZero

\* A clear empties every table and puts the cursors at the clock.
LEMMA ClearSound ==
    ASSUME TelInv, ClearCommit
    PROVE  /\ perMinute' \in [Minutes -> [Dims -> Nat]] /\ window' \in [Windows -> [Dims -> Nat]]
           /\ meter' \in [Minutes -> Nat] /\ cursor' \in [Windows -> Int \X (0..PastAll)]
           /\ WindowsExact' /\ TotalsOK' /\ (credential \/ \A m \in Minutes : meter'[m] = 0) /\ CursorsOK'
<1> USE DEF TelInv
<1>1. /\ perMinute' = [m \in Minutes |-> [d \in Dims |-> 0]]
      /\ window' = [w \in Windows |-> [d \in Dims |-> 0]] /\ order' = {}
      /\ meter' = [m \in Minutes |-> 0]
      /\ cursor' = [w \in Windows |-> <<minute - w, PastAll>>]
      /\ pending' = [pending EXCEPT !.at = "reset"] /\ minute' = minute
  BY DEF ClearCommit
<1>2. /\ pending \in [at : WriterPlaces, reply : BOOLEAN, ok : BOOLEAN, mark : Nat, seen : TelCounter,
                      todo : SUBSET Windows, now : Nat]
      /\ minute \in Int /\ PastAll \in Nat /\ \A w \in Windows : w \in Int
  BY TelemetryAssumption DEF TelMemoryTypes, Minutes, PastAll
<1>3. perMinute' \in [Minutes -> [Dims -> Nat]] /\ window' \in [Windows -> [Dims -> Nat]] /\ meter' \in [Minutes -> Nat]
  BY <1>1
<1>4. cursor' \in [Windows -> Int \X (0..PastAll)]
  BY <1>1, <1>2
<1>5. ASSUME NEW w \in Windows, NEW d \in Dims PROVE window'[w][d] = SumBehind(w, d)'
  <2> DEFINE S == {n \in Minutes : Behind(cursor'[w], n, d)}
  <2>1. SumBehind(w, d)' = SumOf([m \in S |-> perMinute'[m][d]])
    BY DEF SumBehind, Behind
  <2>2. S \in SUBSET Minutes
    OBVIOUS
  <2>3. [m \in S |-> perMinute'[m][d]] = [m \in S |-> 0]
    BY <1>1
  <2> HIDE DEF S
  <2>4. SumOf([m \in S |-> 0]) = 0
    <3> DEFINE f == [m \in S |-> 0]
    <3>1. f = [m \in S |-> 0]
      OBVIOUS
    <3> HIDE DEF f
    <3> QED
      BY <2>2, <3>1, EmptyTables
  <2> QED
    BY <1>1, <2>1, <2>3, <2>4
<1>6. order' = {e \in {<<w, d, window'[w][d]>> : w \in Windows, d \in Dims} : e[3] > 0}
  BY <1>1
<1>7. WindowsExact'
  BY <1>5, <1>6 DEF WindowsExact
<1>8. TotalsOK'
  <2> SUFFICES ASSUME NEW m \in Minutes PROVE perMinute'[m][0] = SumOf([d \in 1..ModelCount |-> perMinute'[m][d]])
    BY DEF TotalsOK
  <2> DEFINE models == 1..ModelCount
             f == [d \in models |-> 0]
  <2>1. models \in SUBSET Dims /\ 0 \in Dims
    BY TelemetryAssumption DEF Dims
  <2>2. [d \in models |-> perMinute'[m][d]] = f /\ perMinute'[m][0] = 0
    BY <1>1, <2>1
  <2>3. f = [d \in models |-> 0]
    OBVIOUS
  <2> HIDE DEF f, models
  <2>4. SumOf(f) = 0
    BY <2>1, <2>3, EmptyTables
  <2> QED
    BY <2>2, <2>4 DEF models
<1>9. \A w \in Windows : cursor'[w][1] = minute - w /\ cursor'[w][2] = PastAll
  BY <1>1
<1>10. \A v, w \in Windows : w < v => NotAfter(cursor'[v], cursor'[w])
  BY <1>2, <1>9 DEF NotAfter
<1>11. pending'.at = "reset" /\ pending'.now = pending.now /\ pending.now <= minute
  BY <1>1, <1>2 DEF CursorsOK
<1>12. CursorsOK'
  BY <1>1, <1>2, <1>9, <1>10, <1>11 DEF CursorsOK
<1> QED
  BY <1>1, <1>3, <1>4, <1>7, <1>8, <1>12


-----------------------------------------------------------------------------
(* The steps, one by one.                                                  *)
LEMMA TelNumbers ==
    ASSUME TelInv
    PROVE  /\ drops.all \in Nat /\ drops.meter \in Nat /\ saved.all \in Nat /\ saved.meter \in Nat
           /\ dropped.all \in Nat /\ dropped.meter \in Nat
           /\ pending.seen \in TelCounter /\ pending.seen.all \in Nat /\ pending.seen.meter \in Nat
           /\ pending.mark \in Nat /\ pending.now \in Nat /\ pending.todo \in SUBSET Windows
           /\ pending.at \in WriterPlaces /\ pending.reply \in BOOLEAN /\ pending.ok \in BOOLEAN
           /\ lost \in Nat /\ sent \in Nat /\ kept \in Nat /\ minute \in Nat /\ minute \in Minutes
           /\ queue \in Seq(TelEvent) /\ batch \in Seq(TelEvent) /\ Len(queue) \in Nat /\ Len(batch) \in Nat
           /\ Unsaved \in Nat /\ HandedIn(queue, Len(queue)) \in Nat
<1>1. queue \in Seq(TelEvent) /\ batch \in Seq(TelEvent) /\ Len(queue) \in Nat /\ Len(batch) \in Nat
  BY DEF TelInv, TelMemoryTypes
<1>2. /\ drops.all \in Nat /\ drops.meter \in Nat /\ saved.all \in Nat /\ saved.meter \in Nat
      /\ dropped.all \in Nat /\ dropped.meter \in Nat
      /\ pending.seen \in TelCounter /\ pending.seen.all \in Nat /\ pending.seen.meter \in Nat
  BY DEF TelInv, TelMemoryTypes, TelTableTypes, TelCounter
<1>3. /\ pending.mark \in Nat /\ pending.now \in Nat /\ pending.todo \in SUBSET Windows
      /\ pending.at \in WriterPlaces /\ pending.reply \in BOOLEAN /\ pending.ok \in BOOLEAN
  BY DEF TelInv, TelMemoryTypes
<1>4. lost \in Nat /\ sent \in Nat /\ kept \in Nat /\ minute \in Minutes
  BY DEF TelInv, TelMemoryTypes
<1>5. minute \in Nat
  BY <1>4 DEF Minutes
<1>6. Unsaved \in Nat
  BY <1>2 DEF Unsaved, TelInv, LocksOK
<1>7. HandedIn(queue, Len(queue)) \in Nat
  BY <1>1, HandedType
<1> QED
  BY <1>1, <1>2, <1>3, <1>4, <1>5, <1>6, <1>7

\* Tables no step touches stay right.
LEMMA TablesFrame ==
    ASSUME TelInv, perMinute' = perMinute, window' = window, order' = order, cursor' = cursor, meter' = meter,
           credential' = credential, dropped' \in TelCounter
    PROVE  TelTableTypes' /\ WindowsExact' /\ TotalsOK' /\ MetersOwned'
<1>1. TelTableTypes'
  BY DEF TelInv, TelTableTypes
<1>2. MetersOwned'
  BY DEF TelInv, MetersOwned
<1> QED
  BY <1>1, <1>2, TablesKept

\* Cursors no step touches stay right, wherever the writer goes.
LEMMA CursorsFrame ==
    ASSUME TelInv, cursor' = cursor, minute' \in Nat, minute <= minute', pending'.now <= minute',
           pending'.at \in {"delta", "commit", "publish"} => pending'.todo \in {{}, Windows},
           \/ pending'.at # "expire"
           \/ pending'.todo \in {{}, Windows}
           \/ pending' = pending /\ perMinute' = perMinute
    PROVE  CursorsOK'
<1>1. ASSUME NEW w \in Windows PROVE cursor'[w][1] <= minute' - w
  <2>1. w \in Int /\ minute \in Int /\ cursor[w][1] \in Int
    <3>1. TelTableTypes /\ minute \in Nat
      BY TelNumbers DEF TelInv
    <3> QED
      BY <3>1, TelemetryAssumption, CursorKnown
  <2>2. cursor[w][1] <= minute - w
    BY DEF TelInv, CursorsOK
  <2> QED
    BY <2>1, <2>2
<1>2. \A v, w \in Windows : w < v => NotAfter(cursor'[v], cursor'[w])
  BY DEF TelInv, CursorsOK
<1>3. ASSUME pending'.at = "expire", pending'.todo # {}, NEW w \in Windows \ pending'.todo, NEW v \in pending'.todo
      PROVE  w < v /\ NotAfter((Advanced(v, ExpiredPage(v)))', cursor'[w])
  <2>1. pending' = pending /\ perMinute' = perMinute
    BY <1>3
  <2>2. (Advanced(v, ExpiredPage(v)))' = Advanced(v, ExpiredPage(v))
    BY <2>1 DEF Advanced, ExpiredPage, RowsBehind, Behind, LastOf
  <2>3. w < v /\ NotAfter(Advanced(v, ExpiredPage(v)), cursor[w])
    BY <1>3, <2>1 DEF TelInv, CursorsOK
  <2> QED
    BY <2>2, <2>3
<1> QED
  BY <1>1, <1>2, <1>3 DEF CursorsOK

\* What waits stays countable while the clock stands still.
LEMMA EventsFrame ==
    ASSUME TelInv, minute' = minute, batch' = batch \/ batch' = <<>>,
           queue' = queue \/ (queue # <<>> /\ queue' = Tail(queue)) \/ queue' = <<>>
    PROVE  EventsOK' /\ queue' \in Seq(TelEvent) /\ batch' \in Seq(TelEvent)
           /\ Len(queue') <= QueueCap /\ Len(batch') <= BatchCap
<1>1. /\ queue \in Seq(TelEvent) /\ batch \in Seq(TelEvent) /\ Len(queue) <= QueueCap /\ Len(batch) <= BatchCap
      /\ QueueCap \in Nat /\ BatchCap \in Nat
  BY TelemetryAssumption DEF TelInv, TelMemoryTypes
<1>2. \A n \in 1..Len(queue) : CountsNow(queue[n])
  BY DEF TelInv, EventsOK
<1>3. \A n \in 1..Len(batch) : CountsNow(batch[n]) /\ batch[n].kind \in {"stat", "meter"}
  BY DEF TelInv, EventsOK
<1>4. queue' \in Seq(TelEvent) /\ Len(queue') <= QueueCap /\ \A n \in 1..Len(queue') : \E k \in 1..Len(queue) : queue'[n] = queue[k]
  <2>1. CASE queue' = queue
    BY <1>1, <2>1
  <2>2. CASE queue # <<>> /\ queue' = Tail(queue)
    <3>1. Tail(queue) \in Seq(TelEvent) /\ Len(Tail(queue)) = Len(queue) - 1 /\ Len(queue) \in Nat
      BY <1>1, <2>2
    <3>2. \A n \in 1..Len(Tail(queue)) : n + 1 \in 1..Len(queue)
      <4>1. \A n \in 1..(Len(queue) - 1) : n + 1 \in 1..Len(queue)
        BY <3>1
      <4> QED
        BY <3>1, <4>1
    <3>3. \A n \in 1..Len(Tail(queue)) : Tail(queue)[n] = queue[n + 1]
      BY <1>1, <2>2
    <3>4. Len(Tail(queue)) <= QueueCap
      BY <1>1, <3>1
    <3> QED
      BY <2>2, <3>1, <3>2, <3>3, <3>4
  <2>3. CASE queue' = <<>>
    BY <1>1, <2>3
  <2> QED
    BY <2>1, <2>2, <2>3
<1>5. batch' \in Seq(TelEvent) /\ Len(batch') <= BatchCap /\ \A n \in 1..Len(batch') : batch' = batch /\ n \in 1..Len(batch)
  <2>1. CASE batch' = batch
    BY <1>1, <2>1
  <2>2. CASE batch' = <<>>
    <3>1. batch' \in Seq(TelEvent) /\ Len(batch') = 0
      BY <2>2
    <3>2. 1..0 = {}
      OBVIOUS
    <3> QED
      BY <1>1, <3>1, <3>2
  <2> QED
    BY <2>1, <2>2
<1>6. \A n \in 1..Len(queue') : (CountsNow(queue[n]))'
  <2> TAKE n \in 1..Len(queue')
  <2>1. PICK k \in 1..Len(queue) : queue'[n] = queue[k]
    BY <1>4
  <2>2. CountsNow(queue[k])
    BY <1>2
  <2> QED
    BY <2>1, <2>2 DEF CountsNow
<1>7. \A n \in 1..Len(batch') : (CountsNow(batch[n]))' /\ batch'[n].kind \in {"stat", "meter"}
  <2> TAKE n \in 1..Len(batch')
  <2>1. batch' = batch /\ n \in 1..Len(batch)
    BY <1>5
  <2>2. CountsNow(batch[n])  /\ batch[n].kind \in {"stat", "meter"}
    BY <1>3, <2>1
  <2> QED
    BY <2>1, <2>2 DEF CountsNow
<1>8. EventsOK'
  BY <1>6, <1>7 DEF EventsOK
<1> QED
  BY <1>4, <1>5, <1>8

\* The same, when the writer stays where it is.
LEMMA CursorsStay ==
    ASSUME TelInv, cursor' = cursor, minute' = minute, pending' = pending, perMinute' = perMinute
    PROVE  CursorsOK'
<1>1. minute' \in Nat /\ minute <= minute'
  BY TelNumbers
<1>2. /\ pending'.now <= minute'
      /\ pending'.at \in {"delta", "commit", "publish"} => pending'.todo \in {{}, Windows}
  BY DEF TelInv, CursorsOK
<1> QED
  BY <1>1, <1>2, CursorsFrame


\* An event is queued, or dropped and counted.
LEMMA EnqueueKeeps ==
    ASSUME TelInv, NEW kind \in {"stat", "meter"}, NEW d \in Dims, kind = "stat" => d \in 1..ModelCount, Enqueue(kind, d)
    PROVE  TelInv'
<1> DEFINE e == [kind |-> kind, dim |-> d, minute |-> minute]
<1>1. /\ fuel > 0 /\ fuel' = fuel - 1 /\ sent' = sent + 1
      /\ batch' = batch /\ pending' = pending /\ saved' = saved /\ credential' = credential /\ guard' = guard
      /\ minute' = minute /\ kept' = kept /\ flushed' = flushed /\ reading' = reading /\ report' = report
      /\ perMinute' = perMinute /\ window' = window /\ order' = order /\ cursor' = cursor
      /\ meter' = meter /\ dropped' = dropped
  BY DEF Enqueue, tables, readerVars
<1>2. \/ Len(queue) < QueueCap /\ queue' = Append(queue, e) /\ drops' = drops /\ lost' = lost
      \/ drops' = PlusDrop(drops, kind) /\ lost' = lost + 1 /\ queue' = queue
  BY DEF Enqueue
<1>3. e \in TelEvent /\ CountsNow(e) /\ e.kind = kind /\ d \in Nat
  <2>1. minute \in Minutes /\ minute \in Nat /\ minute <= minute /\ minute > minute - Shortest
    <3>1. minute \in Minutes /\ minute \in Nat /\ Shortest \in Nat /\ Shortest >= 1
      BY TelNumbers, WindowEnds
    <3> QED
      BY <3>1
  <2>2. d \in Nat
    BY TelemetryAssumption DEF Dims
  <2> QED
    BY <2>1, <2>2 DEF TelEvent, CountsNow
<1> HIDE DEF e
<1>4. TelTableTypes' /\ WindowsExact' /\ TotalsOK' /\ MetersOwned'
  <2>1. dropped' \in TelCounter
    BY <1>1 DEF TelInv, TelTableTypes
  <2> QED
    BY <1>1, <2>1, TablesFrame
<1>5. CursorsOK'
  BY <1>1, CursorsStay
<1>6. /\ queue' \in Seq(TelEvent) /\ Len(queue') <= QueueCap
      /\ \A n \in 1..Len(queue') : queue'[n] = e \/ (n \in 1..Len(queue) /\ queue'[n] = queue[n])
  <2>1. queue \in Seq(TelEvent) /\ Len(queue) <= QueueCap /\ Len(queue) \in Nat /\ QueueCap \in Nat
    BY TelNumbers, TelemetryAssumption DEF TelInv, TelMemoryTypes
  <2>2. CASE queue' = queue
    BY <2>1, <2>2
  <2>3. CASE Len(queue) < QueueCap /\ queue' = Append(queue, e)
    <3>1. /\ queue' \in Seq(TelEvent) /\ Len(queue') = Len(queue) + 1
          /\ queue'[Len(queue) + 1] = e /\ \A n \in 1..Len(queue) : queue'[n] = queue[n]
      BY <1>3, <2>1, <2>3
    <3>2. \A n \in 1..(Len(queue) + 1) : n = Len(queue) + 1 \/ n \in 1..Len(queue)
      BY <2>1
    <3> QED
      BY <2>1, <2>3, <3>1, <3>2
  <2> QED
    BY <1>2, <2>2, <2>3
<1>7. EventsOK'
  <2>1. ASSUME NEW n \in 1..Len(queue') PROVE (CountsNow(queue[n]))'
    <3>1. CountsNow(queue'[n])
      BY <1>3, <1>6 DEF TelInv, EventsOK
    <3> QED
      BY <1>1, <3>1 DEF CountsNow
  <2>2. ASSUME NEW n \in 1..Len(batch') PROVE (CountsNow(batch[n]))' /\ batch'[n].kind \in {"stat", "meter"}
    <3>1. CountsNow(batch[n]) /\ batch[n].kind \in {"stat", "meter"}
      BY <1>1 DEF TelInv, EventsOK
    <3> QED
      BY <1>1, <3>1 DEF CountsNow
  <2> QED
    BY <2>1, <2>2 DEF EventsOK
<1>8. /\ drops.all \in Nat /\ drops.meter \in Nat /\ saved.all \in Nat /\ saved.meter \in Nat
      /\ pending.seen.all \in Nat /\ pending.seen.meter \in Nat /\ lost \in Nat /\ dropped.all \in Nat
      /\ kept \in Nat /\ Len(batch) \in Nat /\ Unsaved \in Nat /\ HandedIn(queue, Len(queue)) \in Nat
      /\ queue \in Seq(TelEvent) /\ Len(queue) \in Nat /\ sent \in Nat /\ pending.mark \in Nat
  BY TelNumbers
<1>9. PICK k \in {0, 1} :
          /\ drops' \in TelCounter /\ drops'.all = drops.all + k /\ lost' = lost + k
          /\ drops'.meter \in Nat /\ drops.meter <= drops'.meter /\ drops'.meter <= drops'.all
          /\ IF k = 0 THEN queue' = Append(queue, e) ELSE queue' = queue
  <2>1. drops \in TelCounter /\ drops.meter <= drops.all
    BY DEF TelInv, TelMemoryTypes, LocksOK
  <2>2. CASE drops' = drops /\ lost' = lost /\ queue' = Append(queue, e)
    BY <1>8, <2>1, <2>2
  <2>3. CASE drops' = PlusDrop(drops, kind) /\ lost' = lost + 1 /\ queue' = queue
    <3>1. drops.all \in Nat /\ drops.meter \in Nat
      BY <1>8
    <3>2. drops' \in TelCounter /\ drops'.all = drops.all + 1 /\ drops'.meter \in {drops.meter, drops.meter + 1}
      <4>1. /\ drops' = [all |-> drops.all + 1, meter |-> IF kind = "meter" THEN drops.meter + 1 ELSE drops.meter]
            /\ drops.all + 1 \in Nat /\ (IF kind = "meter" THEN drops.meter + 1 ELSE drops.meter) \in Nat
        BY ONLY <2>3, <3>1 DEF PlusDrop
      <4> QED
        BY ONLY <4>1 DEF TelCounter
    <3>3. drops'.meter \in Nat /\ drops.meter <= drops'.meter /\ drops'.meter <= drops'.all
      BY ONLY <2>1, <3>2, <3>1
    <3> QED
      BY ONLY <2>3, <3>2, <3>3
  <2> QED
    BY <1>2, <2>2, <2>3
<1>10. fuel' \in Nat /\ sent' \in Nat /\ lost' \in Nat /\ drops'.all \in Nat /\ k \in Nat
  BY <1>1, <1>8, <1>9 DEF TelInv, TelMemoryTypes
<1>11. TelMemoryTypes'
  BY <1>1, <1>6, <1>9, <1>10 DEF TelInv, TelMemoryTypes
<1>12. LocksOK'
  <2>1. /\ pending.at \in {"commit", "publish", "reset"} <=> guard = "writer"
        /\ reading.on <=> guard = "reader"
        /\ pending.seen.meter <= pending.seen.all
        /\ pending.at \in {"commit", "publish"} => saved.all <= pending.seen.all /\ saved.meter <= pending.seen.meter
    BY DEF TelInv, LocksOK
  <2>2. saved.all <= drops.all /\ saved.meter <= drops.meter /\ pending.seen.all <= drops.all /\ pending.seen.meter <= drops.meter
    BY DEF TelInv, LocksOK
  <2>3. saved.all <= drops'.all /\ saved.meter <= drops'.meter /\ pending.seen.all <= drops'.all /\ pending.seen.meter <= drops'.meter
    <3>1. drops'.all = drops.all + k /\ drops.meter <= drops'.meter /\ drops'.meter \in Nat
      BY <1>9
    <3>2. /\ drops.all \in Nat /\ drops.meter \in Nat /\ saved.all \in Nat /\ saved.meter \in Nat
          /\ pending.seen.all \in Nat /\ pending.seen.meter \in Nat
      BY <1>8
    <3>3. drops.all + k >= drops.all
      BY <1>10, <3>2
    <3> QED
      BY <1>10, <2>2, <3>1, <3>2, <3>3
  <2> QED
    BY <1>1, <1>9, <2>1, <2>3 DEF LocksOK
<1>13. Unsaved' = Unsaved + k
  <2>1. drops'.all = drops.all + k /\ saved' = saved /\ pending' = pending
    BY <1>1, <1>9
  <2>2. CASE pending.at = "publish"
    <3>1. Unsaved' = drops'.all - pending.seen.all /\ Unsaved = drops.all - pending.seen.all
      BY <2>1, <2>2 DEF Unsaved
    <3>2. drops.all \in Nat /\ pending.seen.all \in Nat /\ k \in Nat
      BY <1>8, <1>10
    <3>3. (drops.all + k) - pending.seen.all = (drops.all - pending.seen.all) + k
      BY <3>2
    <3> QED
      BY <2>1, <3>1, <3>3
  <2>3. CASE pending.at # "publish"
    <3>1. Unsaved' = drops'.all - saved.all /\ Unsaved = drops.all - saved.all
      BY <2>1, <2>3 DEF Unsaved
    <3>2. drops.all \in Nat /\ saved.all \in Nat /\ k \in Nat
      BY <1>8, <1>10
    <3>3. (drops.all + k) - saved.all = (drops.all - saved.all) + k
      BY <3>2
    <3> QED
      BY <2>1, <3>1, <3>3
  <2> QED
    BY <2>2, <2>3
<1>14. DropsAccounted'
  <2>1. (pending.at # "reset" => lost = dropped.all + Unsaved) /\ (pending.at = "reset" => dropped.all = 0)
        /\ (reading.on => reading.lost = dropped.all + reading.seen) /\ report.drops = report.lost
    BY DEF TelInv, DropsAccounted
  <2>2. pending.at # "reset" => lost' = dropped.all + Unsaved'
    <3>1. lost' = lost + k
      BY <1>9
    <3>2. lost \in Nat /\ dropped.all \in Nat /\ Unsaved \in Nat /\ k \in Nat
      BY <1>8, <1>10
    <3>3. (dropped.all + Unsaved) + k = dropped.all + (Unsaved + k)
      BY <3>2
    <3> QED
      BY <1>13, <2>1, <3>1, <3>3
  <2> QED
    BY <1>1, <2>1, <2>2 DEF DropsAccounted
<1>15. /\ \A n \in 0..Len(queue) : HandedIn(queue', n) = HandedIn(queue, n)
       /\ HandedIn(queue', Len(queue')) = HandedIn(queue, Len(queue)) + 1 - k
  <2>1. CASE k = 0
    <3>1. /\ \A n \in 0..Len(queue) : HandedIn(queue', n) = HandedIn(queue, n)
          /\ HandedIn(queue', Len(queue) + 1) = HandedIn(queue, Len(queue)) + (IF e.kind \in {"stat", "meter"} THEN 1 ELSE 0)
      BY <1>3, <1>8, <1>9, <2>1, HandedAppend
    <3>2. e.kind \in {"stat", "meter"} /\ Len(queue') = Len(queue) + 1
      BY <1>3, <1>8, <1>9, <2>1
    <3> QED
      BY <1>8, <2>1, <3>1, <3>2
  <2>2. CASE k = 1
    <3>1. queue' = queue
      BY <1>9, <2>2
    <3> QED
      BY <1>8, <2>2, <3>1
  <2> QED
    BY <1>9, <2>1, <2>2
<1>16. EventsAccounted'
  <2>1. sent' = kept' + Len(batch') + Unsaved' + HandedIn(queue', Len(queue'))
    <3>1. sent = kept + Len(batch) + Unsaved + HandedIn(queue, Len(queue))
      BY DEF TelInv, EventsAccounted
    <3>2. sent' = sent + 1 /\ kept' = kept /\ Len(batch') = Len(batch) /\ k \in Nat
      BY <1>1, <1>9
    <3>3. PICK b \in Nat, u \in Nat, h \in Nat : b = Len(batch) /\ u = Unsaved /\ h = HandedIn(queue, Len(queue))
      BY <1>8
    <3>4. sent = kept + b + u + h /\ kept \in Nat /\ sent \in Nat
      BY <1>8, <3>1, <3>3
    <3>5. sent + 1 = kept + b + (u + k) + (h + 1 - k)
      BY ONLY <3>2, <3>4
    <3>6. HandedIn(queue', Len(queue')) = h + 1 - k /\ Unsaved' = u + k /\ Len(batch') = b
      BY <1>13, <1>15, <3>2, <3>3
    <3> QED
      BY <3>2, <3>5, <3>6
  <2>2. ASSUME NEW n \in 1..Len(queue'), queue'[n].kind = "flush"
        PROVE  queue'[n].minute <= kept' + Len(batch') + Unsaved' + HandedIn(queue', n)
    <3>1. n \in 1..Len(queue) /\ queue'[n] = queue[n]
      BY <1>3, <1>6, <2>2
    <3>2. n \in 0..Len(queue) /\ queue[n] \in TelEvent
      BY <1>8, <3>1
    <3>3. HandedIn(queue, n) \in Nat /\ HandedIn(queue', n) = HandedIn(queue, n) /\ queue[n].minute \in Nat
      BY <1>8, <1>15, <3>2, HandedType DEF TelEvent
    <3>4. queue[n].minute <= kept + Len(batch) + Unsaved + HandedIn(queue, n)
      BY <2>2, <3>1 DEF TelInv, EventsAccounted
    <3>5. kept' = kept /\ Len(batch') = Len(batch) /\ k \in Nat /\ queue'[n].minute = queue[n].minute
      BY <1>1, <1>9, <3>1
    <3>6. PICK b \in Nat, u \in Nat, h \in Nat : b = Len(batch) /\ u = Unsaved /\ h = HandedIn(queue, n)
      BY <1>8, <3>3
    <3>7. PICK q \in Nat : q = queue[n].minute
      BY <3>3
    <3>8. q <= kept + b + u + h /\ kept \in Nat
      BY <1>8, <3>4, <3>6, <3>7
    <3>9. q <= kept + b + (u + k) + h
      BY ONLY <3>5, <3>8, <3>6, <3>7
    <3>10. Len(batch') = b /\ Unsaved' = u + k /\ HandedIn(queue', n) = h /\ queue'[n].minute = q
      BY <1>13, <3>3, <3>5, <3>6, <3>7
    <3> QED
      BY <3>5, <3>9, <3>10
  <2>3. pending.at = "delta" => pending.mark <= kept + Unsaved'
    <3>1. pending.at = "delta" => pending.mark <= kept + Unsaved
      BY DEF TelInv, EventsAccounted
    <3> QED
      BY <1>8, <1>9, <1>13, <3>1
  <2>4. /\ pending.at = "commit" => pending.mark <= kept + pending.seen.all - saved.all
        /\ pending.at = "publish" => pending.mark <= kept
        /\ pending.at = "answer" /\ pending.ok => pending.mark <= kept
        /\ flushed.ok => flushed.mark <= flushed.kept
    BY DEF TelInv, EventsAccounted
  <2> QED
    BY <1>1, <2>1, <2>2, <2>3, <2>4 DEF EventsAccounted
<1> QED
  BY <1>4, <1>5, <1>7, <1>11, <1>12, <1>14, <1>16 DEF TelInv

\* flush_within and clear_request_history only wait in the queue.
LEMMA AskKeeps ==
    ASSUME TelInv, NEW kind \in {"flush", "clear"}, Ask(kind)
    PROVE  TelInv'
<1> DEFINE e == [kind |-> kind, dim |-> 0, minute |-> sent]
<1>1. /\ fuel > 0 /\ fuel' = fuel - 1 /\ sent' = sent
      /\ batch' = batch /\ pending' = pending /\ drops' = drops /\ saved' = saved /\ credential' = credential
      /\ guard' = guard /\ minute' = minute /\ lost' = lost /\ kept' = kept /\ flushed' = flushed
      /\ reading' = reading /\ report' = report
      /\ perMinute' = perMinute /\ window' = window /\ order' = order /\ cursor' = cursor
      /\ meter' = meter /\ dropped' = dropped
      /\ Len(queue) < QueueCap /\ queue' = Append(queue, e)
  BY DEF Ask, tables, readerVars
<1>2. e \in TelEvent /\ e.kind \notin {"stat", "meter"} /\ e.minute = sent
  BY TelNumbers DEF TelEvent
<1> HIDE DEF e
<1>3. CountsNow(e)
  BY <1>2 DEF CountsNow
<1>4. TelTableTypes' /\ WindowsExact' /\ TotalsOK' /\ MetersOwned'
  <2>1. dropped' \in TelCounter
    BY <1>1 DEF TelInv, TelTableTypes
  <2> QED
    BY <1>1, <2>1, TablesFrame
<1>5. CursorsOK'
  BY <1>1, CursorsStay
<1>6. /\ queue \in Seq(TelEvent) /\ Len(queue) \in Nat /\ QueueCap \in Nat
      /\ queue' \in Seq(TelEvent) /\ Len(queue') = Len(queue) + 1 /\ Len(queue') <= QueueCap
      /\ queue'[Len(queue) + 1] = e /\ \A n \in 1..Len(queue) : queue'[n] = queue[n]
  <2>1. queue \in Seq(TelEvent) /\ Len(queue) \in Nat /\ QueueCap \in Nat
    BY TelNumbers, TelemetryAssumption
  <2> QED
    BY <1>1, <1>2, <2>1
<1>7. \A n \in 1..Len(queue') : n = Len(queue) + 1 \/ n \in 1..Len(queue)
  BY <1>6
<1>8. EventsOK'
  <2>1. ASSUME NEW n \in 1..Len(queue') PROVE (CountsNow(queue[n]))'
    <3>1. CountsNow(queue'[n])
      BY <1>3, <1>6, <1>7 DEF TelInv, EventsOK
    <3> QED
      BY <1>1, <3>1 DEF CountsNow
  <2>2. ASSUME NEW n \in 1..Len(batch') PROVE (CountsNow(batch[n]))' /\ batch'[n].kind \in {"stat", "meter"}
    <3>1. CountsNow(batch[n]) /\ batch[n].kind \in {"stat", "meter"}
      BY <1>1 DEF TelInv, EventsOK
    <3> QED
      BY <1>1, <3>1 DEF CountsNow
  <2> QED
    BY <2>1, <2>2 DEF EventsOK
<1>9. fuel' \in Nat
  BY <1>1 DEF TelInv, TelMemoryTypes
<1>10. TelMemoryTypes'
  BY <1>1, <1>6, <1>9 DEF TelInv, TelMemoryTypes
<1>11. LocksOK' /\ DropsAccounted' /\ Unsaved' = Unsaved
  BY <1>1 DEF TelInv, LocksOK, DropsAccounted, Unsaved
<1>12. /\ \A n \in 0..Len(queue) : HandedIn(queue', n) = HandedIn(queue, n)
       /\ HandedIn(queue', Len(queue) + 1) = HandedIn(queue, Len(queue))
  <2>1. /\ \A n \in 0..Len(queue) : HandedIn(queue', n) = HandedIn(queue, n)
        /\ HandedIn(queue', Len(queue) + 1) = HandedIn(queue, Len(queue)) + (IF e.kind \in {"stat", "meter"} THEN 1 ELSE 0)
    BY <1>1, <1>2, <1>6, HandedAppend
  <2> QED
    BY <1>2, <2>1, TelNumbers
<1>13. EventsAccounted'
  <2>0. sent = kept + Len(batch) + Unsaved + HandedIn(queue, Len(queue))
    BY DEF TelInv, EventsAccounted
  <2>1. sent' = kept' + Len(batch') + Unsaved' + HandedIn(queue', Len(queue'))
    BY <1>1, <1>6, <1>11, <1>12, <2>0
  <2>2. ASSUME NEW n \in 1..Len(queue'), queue'[n].kind = "flush"
        PROVE  queue'[n].minute <= kept' + Len(batch') + Unsaved' + HandedIn(queue', n)
    <3>1. CASE n \in 1..Len(queue)
      <4>1. queue[n].minute <= kept + Len(batch) + Unsaved + HandedIn(queue, n)
        BY <1>6, <2>2, <3>1 DEF TelInv, EventsAccounted
      <4>2. n \in 0..Len(queue)
        BY <1>6, <3>1
      <4> QED
        BY <1>1, <1>6, <1>11, <1>12, <3>1, <4>1, <4>2
    <3>2. CASE n = Len(queue) + 1
      <4>1. queue'[n].minute = sent /\ HandedIn(queue', n) = HandedIn(queue, Len(queue))
        BY <1>2, <1>6, <1>12, <3>2
      <4> QED
        BY <1>1, <1>11, <2>0, <4>1, TelNumbers
    <3> QED
      BY <1>7, <3>1, <3>2
  <2>3. /\ pending.at = "delta" => pending.mark <= kept + Unsaved
        /\ pending.at = "commit" => pending.mark <= kept + pending.seen.all - saved.all
        /\ pending.at = "publish" => pending.mark <= kept
        /\ pending.at = "answer" /\ pending.ok => pending.mark <= kept
        /\ flushed.ok => flushed.mark <= flushed.kept
    BY DEF TelInv, EventsAccounted
  <2> QED
    BY <1>1, <1>11, <2>1, <2>2, <2>3 DEF EventsAccounted
<1> QED
  BY <1>4, <1>5, <1>8, <1>10, <1>11, <1>13 DEF TelInv

\* An event moves from the queue to the batch.
LEMMA ReceiveKeeps ==
    ASSUME TelInv, Receive
    PROVE  TelInv'
<1> DEFINE e == Head(queue)
<1>1. /\ pending' = pending /\ drops' = drops /\ saved' = saved /\ credential' = credential
      /\ guard' = guard /\ minute' = minute /\ lost' = lost /\ kept' = kept /\ flushed' = flushed
      /\ reading' = reading /\ report' = report /\ fuel' = fuel /\ sent' = sent
      /\ perMinute' = perMinute /\ window' = window /\ order' = order /\ cursor' = cursor
      /\ meter' = meter /\ dropped' = dropped
      /\ queue # <<>> /\ e.kind \notin {"flush", "clear"} /\ Len(batch) < BatchCap
      /\ batch' = Append(batch, e) /\ queue' = Tail(queue) /\ pending = Ready
  BY DEF Receive, idle, tables, readerVars, AtSelect, Command
<1>2. /\ queue \in Seq(TelEvent) /\ Len(queue) \in Nat /\ QueueCap \in Nat /\ BatchCap \in Nat
      /\ batch \in Seq(TelEvent) /\ Len(batch) \in Nat /\ Len(queue) <= QueueCap
  BY TelNumbers, TelemetryAssumption DEF TelInv, TelMemoryTypes
<1>3. /\ e \in TelEvent /\ e = queue[1] /\ 1 \in 1..Len(queue)
      /\ queue' \in Seq(TelEvent) /\ Len(queue') = Len(queue) - 1 /\ Len(queue') \in Nat
      /\ \A n \in 1..Len(queue') : queue'[n] = queue[n + 1]
  BY <1>1, <1>2
<1> HIDE DEF e
<1>4. e.kind \in {"stat", "meter"} /\ CountsNow(e)
  BY <1>1, <1>3 DEF TelEvent, TelInv, EventsOK
<1>5. /\ batch' \in Seq(TelEvent) /\ Len(batch') = Len(batch) + 1 /\ Len(batch') <= BatchCap
      /\ batch'[Len(batch) + 1] = e /\ \A n \in 1..Len(batch) : batch'[n] = batch[n]
  BY <1>1, <1>2, <1>3
<1>6. TelTableTypes' /\ WindowsExact' /\ TotalsOK' /\ MetersOwned'
  <2>1. dropped' \in TelCounter
    BY <1>1 DEF TelInv, TelTableTypes
  <2> QED
    BY <1>1, <2>1, TablesFrame
<1>7. CursorsOK'
  BY <1>1, CursorsStay
<1>8. \A n \in 1..Len(queue') : n + 1 \in 1..Len(queue)
  BY <1>2, <1>3
<1>9. EventsOK'
  <2>1. ASSUME NEW n \in 1..Len(queue') PROVE (CountsNow(queue[n]))'
    <3>1. CountsNow(queue'[n])
      BY <1>3, <1>8 DEF TelInv, EventsOK
    <3> QED
      BY <1>1, <3>1 DEF CountsNow
  <2>2. ASSUME NEW n \in 1..Len(batch') PROVE (CountsNow(batch[n]))' /\ batch'[n].kind \in {"stat", "meter"}
    <3>1. n = Len(batch) + 1 \/ n \in 1..Len(batch)
      BY <1>2, <1>5
    <3>2. CountsNow(batch'[n]) /\ batch'[n].kind \in {"stat", "meter"}
      BY <1>4, <1>5, <3>1 DEF TelInv, EventsOK
    <3> QED
      BY <1>1, <3>2 DEF CountsNow
  <2> QED
    BY <2>1, <2>2 DEF EventsOK
<1>10. TelMemoryTypes'
  BY <1>1, <1>2, <1>3, <1>5 DEF TelInv, TelMemoryTypes
<1>11. LocksOK' /\ DropsAccounted' /\ Unsaved' = Unsaved
  BY <1>1 DEF TelInv, LocksOK, DropsAccounted, Unsaved
<1>12. \A n \in 0..Len(queue') : HandedIn(queue, n + 1) = HandedIn(queue', n) + 1 /\ HandedIn(queue', n) \in Nat
  <2> TAKE n \in 0..Len(queue')
  <2>1. n \in 0..(Len(queue) - 1)
    BY <1>3
  <2>2. HandedIn(queue, n + 1) = HandedIn(Tail(queue), n) + (IF Head(queue).kind \in {"stat", "meter"} THEN 1 ELSE 0)
    BY <1>1, <1>2, <2>1, HandedTail
  <2>3. HandedIn(queue', n) \in Nat
    BY <1>3, HandedType
  <2> QED
    BY <1>1, <1>4, <2>2, <2>3 DEF e
<1>13. EventsAccounted'
  <2>0. sent = kept + Len(batch) + Unsaved + HandedIn(queue, Len(queue))
    BY DEF TelInv, EventsAccounted
  <2>1. sent' = kept' + Len(batch') + Unsaved' + HandedIn(queue', Len(queue'))
    <3>1. Len(queue') \in 0..Len(queue') /\ Len(queue') + 1 = Len(queue)
      BY <1>2, <1>3
    <3>2. HandedIn(queue, Len(queue)) = HandedIn(queue', Len(queue')) + 1 /\ HandedIn(queue', Len(queue')) \in Nat
      BY <1>12, <3>1
    <3> QED
      BY <1>1, <1>5, <1>11, <2>0, <3>2, TelNumbers
  <2>2. ASSUME NEW n \in 1..Len(queue'), queue'[n].kind = "flush"
        PROVE  queue'[n].minute <= kept' + Len(batch') + Unsaved' + HandedIn(queue', n)
    <3>1. queue[n + 1].minute <= kept + Len(batch) + Unsaved + HandedIn(queue, n + 1)
      BY <1>3, <1>8, <2>2 DEF TelInv, EventsAccounted
    <3>2. n \in 0..Len(queue')
      BY <1>3
    <3>3. HandedIn(queue, n + 1) = HandedIn(queue', n) + 1 /\ HandedIn(queue', n) \in Nat
      BY <1>12, <3>2
    <3>4. queue'[n] \in TelEvent
      BY <1>3
    <3>5. queue'[n].minute = queue[n + 1].minute /\ queue'[n].minute \in Nat
      BY <1>3, <3>4 DEF TelEvent
    <3> QED
      BY <1>1, <1>5, <1>11, <3>1, <3>3, <3>4, <3>5, TelNumbers
  <2>3. /\ pending.at = "delta" => pending.mark <= kept + Unsaved
        /\ pending.at = "commit" => pending.mark <= kept + pending.seen.all - saved.all
        /\ pending.at = "publish" => pending.mark <= kept
        /\ pending.at = "answer" /\ pending.ok => pending.mark <= kept
        /\ flushed.ok => flushed.mark <= flushed.kept
    BY DEF TelInv, EventsAccounted
  <2> QED
    BY <1>1, <1>11, <2>1, <2>2, <2>3 DEF EventsAccounted
<1> QED
  BY <1>6, <1>7, <1>9, <1>10, <1>11, <1>13 DEF TelInv


\* What a batch leaves, whatever follows it.
LEMMA BatchKeeps ==
    ASSUME TelInv, pending = Ready, batch' = <<>>, StoreBatch \/ LoseBatch, UNCHANGED idle,
           queue' = queue \/ (queue # <<>> /\ Command /\ queue' = Tail(queue)),
           pending' \in [at : WriterPlaces, reply : BOOLEAN, ok : BOOLEAN, mark : Nat, seen : TelCounter,
                         todo : SUBSET Windows, now : Nat],
           pending'.at \in {"select", "delta", "clear"}, pending'.seen = NoLoss, pending'.now = 0,
           pending'.todo \in {{}, Windows},
           pending'.at = "delta" => pending'.mark <= kept + Len(batch) + Unsaved
    PROVE  TelInv'
<1>1. /\ saved' = saved /\ credential' = credential /\ guard' = guard /\ minute' = minute /\ fuel' = fuel
      /\ sent' = sent /\ flushed' = flushed /\ reading' = reading /\ report' = report
  BY DEF idle, readerVars
<1>2. /\ perMinute' \in [Minutes -> [Dims -> Nat]] /\ window' \in [Windows -> [Dims -> Nat]]
      /\ meter' \in [Minutes -> Nat] /\ cursor' = cursor /\ dropped' = dropped
      /\ WindowsExact' /\ TotalsOK' /\ (credential \/ \A m \in Minutes : meter'[m] = 0)
      /\ drops' \in TelCounter /\ kept' \in Nat /\ lost' \in Nat
      /\ kept' + drops'.all = kept + drops.all + Len(batch)
      /\ lost' + drops.all = lost + drops'.all
      /\ drops.all <= drops'.all /\ drops.meter <= drops'.meter
      /\ drops'.meter + drops.all <= drops.meter + drops'.all
  BY BatchSound
<1>3. /\ drops.all \in Nat /\ drops.meter \in Nat /\ saved.all \in Nat /\ saved.meter \in Nat
      /\ lost \in Nat /\ kept \in Nat /\ Len(batch) \in Nat /\ dropped.all \in Nat /\ minute \in Nat
  BY TelNumbers
<1>4. drops'.all \in Nat /\ drops'.meter \in Nat
  BY <1>2 DEF TelCounter
<1>5. EventsOK' /\ queue' \in Seq(TelEvent) /\ batch' \in Seq(TelEvent) /\ Len(queue') <= QueueCap /\ Len(batch') <= BatchCap
  BY <1>1, EventsFrame
<1>6. TelMemoryTypes'
  BY <1>1, <1>2, <1>5 DEF TelInv, TelMemoryTypes
<1>7. TelTableTypes' /\ MetersOwned'
  <2>1. TelTableTypes'
    BY <1>1, <1>2 DEF TelInv, TelTableTypes
  <2>2. MetersOwned'
    BY <1>1, <1>2 DEF MetersOwned
  <2> QED
    BY <2>1, <2>2
<1>8. CursorsOK'
  <2>1. minute' \in Nat /\ minute <= minute' /\ pending'.now <= minute'
    BY <1>1, <1>3
  <2>2. pending'.at \in {"delta", "commit", "publish"} => pending'.todo \in {{}, Windows}
    OBVIOUS
  <2> QED
    BY <1>2, <2>1, <2>2, CursorsFrame
<1>9. pending.at = "select" /\ pending'.seen.all = 0 /\ pending'.seen.meter = 0
  BY DEF Ready, NoLoss
<1>10. LocksOK'
  <2>1. guard # "writer" /\ (reading.on <=> guard = "reader") /\ saved.all <= drops.all /\ saved.meter <= drops.meter
        /\ drops.meter <= drops.all
    BY <1>9 DEF TelInv, LocksOK
  <2>2. saved.all <= drops'.all /\ saved.meter <= drops'.meter /\ drops'.meter <= drops'.all
    <3>1. drops.all <= drops'.all /\ drops.meter <= drops'.meter /\ drops'.meter + drops.all <= drops.meter + drops'.all
      BY <1>2
    <3> QED
      BY <1>3, <1>4, <2>1, <3>1
  <2>3. pending'.at \notin {"commit", "publish", "reset"}
    OBVIOUS
  <2> QED
    BY <1>1, <1>4, <1>9, <2>1, <2>2, <2>3 DEF LocksOK
<1>11. Unsaved = drops.all - saved.all /\ Unsaved' = drops'.all - saved.all
  BY <1>1, <1>9 DEF Unsaved
<1>12. kept' + Unsaved' = kept + Len(batch) + Unsaved
  <2>1. kept' + drops'.all = kept + drops.all + Len(batch) /\ kept' \in Nat
    BY <1>2
  <2>2. PICK n \in Nat : n = Len(batch)
    BY <1>3
  <2>3. kept' + drops'.all = kept + drops.all + n
    BY <2>1, <2>2
  <2>4. drops.all \in Nat /\ saved.all \in Nat /\ kept \in Nat /\ kept' \in Nat
    BY <1>3, <2>1
  <2>5. kept' + (drops'.all - saved.all) = kept + n + (drops.all - saved.all)
    BY ONLY <1>4, <2>3, <2>4, n \in Nat
  <2> QED
    BY <1>11, <2>2, <2>5
<1>13. DropsAccounted'
  <2>1. lost = dropped.all + Unsaved /\ (reading.on => reading.lost = dropped.all + reading.seen) /\ report.drops = report.lost
    BY <1>9 DEF TelInv, DropsAccounted
  <2>2. lost' = dropped.all + Unsaved'
    <3>1. lost' + drops.all = lost + drops'.all /\ lost' \in Nat
      BY <1>2
    <3>2. lost = dropped.all + (drops.all - saved.all)
      BY <1>11, <2>1
    <3>3. lost \in Nat /\ drops.all \in Nat /\ saved.all \in Nat /\ dropped.all \in Nat
      BY <1>3
    <3>4. lost' = dropped.all + (drops'.all - saved.all)
      BY ONLY <1>4, <3>1, <3>2, <3>3
    <3> QED
      BY <1>11, <3>4
  <2> QED
    BY <1>1, <1>2, <2>1, <2>2 DEF DropsAccounted
<1>14. /\ HandedIn(queue', Len(queue')) = HandedIn(queue, Len(queue))
       /\ \A n \in 1..Len(queue') : \E j \in 1..Len(queue) :
              queue'[n] = queue[j] /\ HandedIn(queue', n) = HandedIn(queue, j)
  <2>1. queue \in Seq(TelEvent)
    BY TelNumbers
  <2>2. CASE queue' = queue
    BY <2>2
  <2>3. CASE queue # <<>> /\ Command /\ queue' = Tail(queue)
    <3>1. Len(queue) \in Nat /\ Len(queue') = Len(queue) - 1 /\ Len(queue') \in Nat
          /\ \A n \in 1..Len(queue') : queue'[n] = queue[n + 1]
      BY <2>1, <2>3
    <3>2. Head(queue).kind \notin {"stat", "meter"}
      BY <2>3 DEF Command
    <3>3. \A n \in 0..Len(queue') : HandedIn(queue, n + 1) = HandedIn(queue', n)
      <4> TAKE n \in 0..Len(queue')
      <4>1. n \in 0..(Len(queue) - 1)
        BY <3>1
      <4>2. HandedIn(queue, n + 1) = HandedIn(Tail(queue), n) + (IF Head(queue).kind \in {"stat", "meter"} THEN 1 ELSE 0)
        BY <2>1, <2>3, <4>1, HandedTail
      <4>3. HandedIn(queue', n) \in Nat
        BY <1>5, HandedType
      <4> QED
        BY <2>3, <3>2, <4>2, <4>3
    <3>4. \A n \in 1..Len(queue') : n + 1 \in 1..Len(queue) /\ n \in 0..Len(queue')
      BY <3>1
    <3>5. Len(queue') + 1 = Len(queue) /\ Len(queue') \in 0..Len(queue')
      BY <3>1
    <3>6. HandedIn(queue', Len(queue')) = HandedIn(queue, Len(queue))
      BY <3>3, <3>5
    <3>7. ASSUME NEW n \in 1..Len(queue')
          PROVE  \E j \in 1..Len(queue) : queue'[n] = queue[j] /\ HandedIn(queue', n) = HandedIn(queue, j)
      BY <3>1, <3>3, <3>4
    <3> QED
      BY <3>6, <3>7
  <2> QED
    BY <2>2, <2>3
<1>15. EventsAccounted'
  <2>0. HandedIn(queue, Len(queue)) \in Nat /\ Unsaved \in Nat /\ Len(batch') = 0 /\ Unsaved' \in Nat /\ kept' \in Nat
    <3>1. HandedIn(queue, Len(queue)) \in Nat /\ Unsaved \in Nat
      BY TelNumbers
    <3>2. saved.all <= drops.all /\ drops.all <= drops'.all /\ kept' \in Nat
      BY <1>2 DEF TelInv, LocksOK
    <3>3. drops'.all - saved.all \in Nat
      BY <1>3, <1>4, <3>2
    <3> QED
      BY <1>5, <1>11, <3>1, <3>2, <3>3
  <2>1. sent' = kept' + Len(batch') + Unsaved' + HandedIn(queue', Len(queue'))
    <3>1. sent = kept + Len(batch) + Unsaved + HandedIn(queue, Len(queue))
      BY DEF TelInv, EventsAccounted
    <3> QED
      BY <1>1, <1>3, <1>12, <1>14, <2>0, <3>1
  <2>2. ASSUME NEW n \in 1..Len(queue'), queue'[n].kind = "flush"
        PROVE  queue'[n].minute <= kept' + Len(batch') + Unsaved' + HandedIn(queue', n)
    <3>1. PICK j \in 1..Len(queue) : queue'[n] = queue[j] /\ HandedIn(queue', n) = HandedIn(queue, j)
      BY <1>14
    <3>2. queue[j].minute <= kept + Len(batch) + Unsaved + HandedIn(queue, j)
      BY <2>2, <3>1 DEF TelInv, EventsAccounted
    <3>3. kept' + Len(batch') + Unsaved' = kept + Len(batch) + Unsaved
      BY <1>3, <1>12, <2>0
    <3> QED
      BY <3>1, <3>2, <3>3
  <2>3. pending'.at = "delta" => pending'.mark <= kept' + Unsaved'
    BY <1>12
  <2>4. flushed.ok => flushed.mark <= flushed.kept
    BY DEF TelInv, EventsAccounted
  <2> QED
    BY <1>1, <2>1, <2>2, <2>3, <2>4 DEF EventsAccounted
<1> QED
  BY <1>2, <1>5, <1>6, <1>7, <1>8, <1>10, <1>13, <1>15 DEF TelInv

\* A batch is persisted, and the writer goes on where it is told to.
LEMMA PersistKeeps ==
    ASSUME TelInv, pending = Ready, UNCHANGED idle,
           queue' = queue \/ (queue # <<>> /\ Command /\ queue' = Tail(queue)),
           NEW next \in [at : WriterPlaces, reply : BOOLEAN, ok : BOOLEAN, mark : Nat, seen : TelCounter,
                         todo : SUBSET Windows, now : Nat],
           next.at \in {"delta", "clear"}, next.seen = NoLoss, next.now = 0, next.todo \in {{}, Windows},
           next.at = "delta" => next.mark <= kept + Len(batch) + Unsaved,
           PersistBatch(next)
    PROVE  TelInv'
<1> DEFINE places == [at : WriterPlaces, reply : BOOLEAN, ok : BOOLEAN, mark : Nat, seen : TelCounter,
                      todo : SUBSET Windows, now : Nat]
<1>1. batch' = <<>> /\ (StoreBatch \/ LoseBatch) /\ (pending' = next \/ pending' = [next EXCEPT !.ok = FALSE])
  BY DEF PersistBatch
<1>2. /\ pending' \in places /\ pending'.at = next.at /\ pending'.mark = next.mark /\ pending'.todo = next.todo
      /\ pending'.seen = NoLoss /\ pending'.now = 0
  BY <1>1
<1> QED
  BY <1>1, <1>2, BatchKeeps

\* The five steps that persist a batch (telemetry_writer).
LEMMA BatchStepsKeep ==
    ASSUME TelInv, FullBatch \/ ReceiveFlush \/ ReceiveClear \/ FlushTick \/ MaintenanceTick
    PROVE  TelInv'
<1> DEFINE places == [at : WriterPlaces, reply : BOOLEAN, ok : BOOLEAN, mark : Nat, seen : TelCounter,
                      todo : SUBSET Windows, now : Nat]
<1>0. Ready \in places /\ Ready.at = "select" /\ Ready.mark = 0 /\ Ready.seen = NoLoss /\ Ready.todo = {} /\ Ready.now = 0
  BY DEF Ready, WriterPlaces, NoLoss, TelCounter
<1>1. CASE FullBatch
  <2>1. /\ pending = Ready /\ batch' = <<>> /\ (StoreBatch \/ LoseBatch) /\ queue' = queue /\ pending' = pending
        /\ UNCHANGED idle
    BY <1>1 DEF FullBatch
  <2>2. /\ pending'.at = "select" /\ pending'.seen = NoLoss /\ pending'.now = 0 /\ pending'.todo = {}
    BY <2>1 DEF Ready
  <2>3. pending' \in [at : WriterPlaces, reply : BOOLEAN, ok : BOOLEAN, mark : Nat, seen : TelCounter,
                      todo : SUBSET Windows, now : Nat]
    BY <2>1 DEF TelInv, TelMemoryTypes
  <2> QED
    BY <2>1, <2>2, <2>3, BatchKeeps
<1>2. CASE ReceiveFlush
  <2> DEFINE e == Head(queue)
  <2>1. /\ pending = Ready /\ queue # <<>> /\ e.kind = "flush" /\ queue' = Tail(queue)
        /\ PersistBatch(Flush(e)) /\ UNCHANGED idle
    BY <1>2 DEF ReceiveFlush, AtSelect
  <2>2. queue \in Seq(TelEvent) /\ Len(queue) \in Nat /\ e \in TelEvent /\ e = queue[1] /\ 1 \in 1..Len(queue)
        /\ 0 \in 0..(Len(queue) - 1) /\ Tail(queue) \in Seq(TelEvent) /\ 0 \in 0..Len(Tail(queue))
    <3>1. queue \in Seq(TelEvent)
      BY TelNumbers
    <3> QED
      BY <2>1, <3>1
  <2>3. e.minute \in Nat
    BY <2>2 DEF TelEvent
  <2> HIDE DEF e
  <2>4. HandedIn(queue, 1) = 0
    <3>1. HandedIn(queue, 0 + 1) = HandedIn(Tail(queue), 0) + (IF e.kind \in {"stat", "meter"} THEN 1 ELSE 0)
      BY <2>1, <2>2, HandedTail DEF e
    <3>2. HandedIn(Tail(queue), 0) \in Nat /\ HandedIn(Tail(queue), 0) <= 0
      BY <2>2, HandedType
    <3> QED
      BY <2>1, <3>1, <3>2
  <2>5. e.minute <= kept + Len(batch) + Unsaved
    <3>1. e.minute <= kept + Len(batch) + Unsaved + HandedIn(queue, 1)
      BY <2>1, <2>2 DEF TelInv, EventsAccounted
    <3>2. kept + Len(batch) + Unsaved + 0 = kept + Len(batch) + Unsaved
      BY TelNumbers
    <3> QED
      BY <2>4, <3>1, <3>2
  <2>6. /\ Flush(e) \in places /\ Flush(e).at = "delta" /\ Flush(e).mark = e.minute /\ Flush(e).seen = NoLoss
        /\ Flush(e).todo = {} /\ Flush(e).now = 0
    BY <1>0, <2>3 DEF Flush, WriterPlaces
  <2>7. Command
    BY <2>1 DEF Command, e
  <2> QED
    BY <2>1, <2>5, <2>6, <2>7, PersistKeeps
<1>3. CASE ReceiveClear
  <2>1. /\ pending = Ready /\ queue # <<>> /\ Head(queue).kind = "clear" /\ queue' = Tail(queue)
        /\ PersistBatch([Ready EXCEPT !.at = "clear"]) /\ UNCHANGED idle
    BY <1>3 DEF ReceiveClear, AtSelect
  <2> DEFINE next == [Ready EXCEPT !.at = "clear"]
  <2>2. /\ next \in places /\ next.at = "clear" /\ next.seen = NoLoss /\ next.todo = {} /\ next.now = 0
    BY <1>0 DEF WriterPlaces
  <2>3. Command
    BY <2>1 DEF Command
  <2>4. PersistBatch(next)
    BY <2>1
  <2> HIDE DEF next
  <2> QED
    BY <2>1, <2>2, <2>3, <2>4, PersistKeeps
<1>4. 0 <= kept + Len(batch) + Unsaved
  BY TelNumbers
<1>5. CASE FlushTick
  <2>1. /\ pending = Ready /\ queue' = queue /\ PersistBatch([Ready EXCEPT !.at = "delta"]) /\ UNCHANGED idle
    BY <1>5 DEF FlushTick, AtSelect
  <2> DEFINE next == [Ready EXCEPT !.at = "delta"]
  <2>2. next \in places /\ next.at = "delta" /\ next.mark = 0 /\ next.seen = NoLoss /\ next.todo = {} /\ next.now = 0
    BY <1>0 DEF WriterPlaces
  <2>3. PersistBatch(next)
    BY <2>1
  <2> HIDE DEF next
  <2> QED
    BY <1>4, <2>1, <2>2, <2>3, PersistKeeps
<1>6. CASE MaintenanceTick
  <2>1. /\ pending = Ready /\ queue' = queue /\ PersistBatch([Ready EXCEPT !.at = "delta", !.todo = Windows]) /\ UNCHANGED idle
    BY <1>6 DEF MaintenanceTick, AtSelect
  <2> DEFINE next == [Ready EXCEPT !.at = "delta", !.todo = Windows]
  <2>2. next \in places /\ next.at = "delta" /\ next.mark = 0 /\ next.seen = NoLoss /\ next.todo = Windows /\ next.now = 0
    BY <1>0 DEF WriterPlaces
  <2>3. PersistBatch(next)
    BY <2>1
  <2> HIDE DEF next
  <2> QED
    BY <1>4, <2>1, <2>2, <2>3, PersistKeeps
<1> QED
  BY <1>1, <1>2, <1>3, <1>5, <1>6


-----------------------------------------------------------------------------
(* The counters of what was dropped, a clear, and everybody else.          *)
LEMMA MarksFrame ==
    ASSUME TelInv, queue' = queue, batch' = batch, sent' = sent, kept' + Unsaved' = kept + Unsaved,
           kept' \in Nat, Unsaved' \in Nat
    PROVE  /\ sent' = kept' + Len(batch') + Unsaved' + HandedIn(queue', Len(queue'))
           /\ \A n \in 1..Len(queue') :
                  queue'[n].kind = "flush" => queue'[n].minute <= kept' + Len(batch') + Unsaved' + HandedIn(queue', n)
<1>1. PICK b \in Nat : b = Len(batch)
  BY TelNumbers
<1>2. PICK u \in Nat, v \in Nat, j \in Nat, k \in Nat : u = Unsaved /\ v = Unsaved' /\ j = kept /\ k = kept'
  BY TelNumbers
<1>3. k + v = j + u
  BY <1>2
<1>4. kept' + b + Unsaved' = kept + b + Unsaved
  <2>1. k + b + v = j + b + u
    BY ONLY <1>3, b \in Nat, u \in Nat, v \in Nat, j \in Nat, k \in Nat
  <2> QED
    BY <1>2, <2>1
<1>5. sent = kept + b + Unsaved + HandedIn(queue, Len(queue))
  BY <1>1 DEF TelInv, EventsAccounted
<1>6. \A n \in 1..Len(queue) : queue[n].kind = "flush" => queue[n].minute <= kept + b + Unsaved + HandedIn(queue, n)
  BY <1>1 DEF TelInv, EventsAccounted
<1> QED
  BY <1>1, <1>4, <1>5, <1>6

\* The types of the memory, given those of what a step writes.
LEMMA MemoryFrame ==
    ASSUME TelInv, queue' = queue, batch' = batch, minute' = minute, fuel' = fuel, sent' = sent,
           pending' \in [at : WriterPlaces, reply : BOOLEAN, ok : BOOLEAN, mark : Nat, seen : TelCounter,
                         todo : SUBSET Windows, now : Nat],
           drops' \in TelCounter, saved' \in TelCounter, guard' \in {"free", "writer", "reader"},
           lost' \in Nat, kept' \in Nat, flushed' \in [ok : BOOLEAN, mark : Nat, kept : Nat],
           reading' \in [on : BOOLEAN, seen : Nat, lost : Nat], report' \in [drops : Nat, lost : Nat]
    PROVE  TelMemoryTypes' /\ EventsOK'
<1>1. EventsOK'
  BY EventsFrame
<1> QED
  BY <1>1 DEF TelInv, TelMemoryTypes

\* Where the writer goes when the counters are done.
LEMMA ContinueKnown ==
    ASSUME TelInv, NEW ok \in BOOLEAN, pending.at \in {"delta", "commit", "publish"}
    PROVE  /\ Continue(ok) \in [at : WriterPlaces, reply : BOOLEAN, ok : BOOLEAN, mark : Nat, seen : TelCounter,
                                todo : SUBSET Windows, now : Nat]
           /\ Continue(ok).at \in {"answer", "expire"} /\ Continue(ok).seen = NoLoss
           /\ Continue(ok).todo \in {{}, Windows} /\ Continue(ok).now <= minute
           /\ Continue(ok).mark = pending.mark /\ (Continue(ok).ok => ok)
<1>1. /\ pending \in [at : WriterPlaces, reply : BOOLEAN, ok : BOOLEAN, mark : Nat, seen : TelCounter,
                      todo : SUBSET Windows, now : Nat]
      /\ pending.todo \in {{}, Windows} /\ minute \in Nat
  BY TelNumbers DEF TelInv, TelMemoryTypes, CursorsOK
<1>2. NoLoss \in TelCounter
  BY DEF NoLoss, TelCounter
<1> DEFINE at == IF pending.reply THEN "answer" ELSE "expire"
           now == IF pending.todo = {} THEN 0 ELSE minute
<1>3. at \in {"answer", "expire"} /\ at \in WriterPlaces /\ now \in Nat /\ now <= minute
  BY <1>1 DEF WriterPlaces
<1>4. Continue(ok) = [pending EXCEPT !.at = at, !.ok = pending.ok /\ ok, !.seen = NoLoss, !.now = now]
  BY <1>1 DEF Continue
<1>5. (pending.ok /\ ok) \in BOOLEAN
  BY <1>1
<1> HIDE DEF at, now
<1>6. PICK both \in BOOLEAN : both = (pending.ok /\ ok)
  BY <1>5
<1>7. Continue(ok) = [pending EXCEPT !.at = at, !.ok = both, !.seen = NoLoss, !.now = now]
  BY <1>4, <1>6
<1>8. /\ Continue(ok) \in [at : WriterPlaces, reply : BOOLEAN, ok : BOOLEAN, mark : Nat, seen : TelCounter,
                           todo : SUBSET Windows, now : Nat]
      /\ Continue(ok).at = at /\ Continue(ok).seen = NoLoss /\ Continue(ok).todo = pending.todo
      /\ Continue(ok).now = now /\ Continue(ok).mark = pending.mark
  BY <1>1, <1>2, <1>3, <1>7
<1>9. Continue(ok).ok = both
  BY <1>1, <1>7
<1>10. both => ok
  BY <1>6
<1> QED
  BY <1>1, <1>3, <1>8, <1>9, <1>10


\* persist_drop_delta reads the counters under the lock.
LEMMA DeltaReadKeeps ==
    ASSUME TelInv, DeltaRead
    PROVE  TelInv'
<1>1. /\ pending.at = "delta" /\ guard = "free"
      /\ queue' = queue /\ batch' = batch /\ perMinute' = perMinute /\ window' = window /\ order' = order
      /\ cursor' = cursor /\ meter' = meter /\ credential' = credential /\ minute' = minute /\ fuel' = fuel
      /\ sent' = sent /\ reading' = reading /\ report' = report /\ drops' = drops /\ saved' = saved
      /\ dropped' = dropped /\ lost' = lost /\ kept' = kept /\ flushed' = flushed
  BY DEF DeltaRead, afterDelta, readerVars
<1>2. \/ drops = saved /\ pending' = Continue(TRUE) /\ guard' = guard
      \/ pending' = [pending EXCEPT !.at = "commit", !.seen = drops] /\ guard' = "writer"
  BY DEF DeltaRead
<1>3. /\ drops.all \in Nat /\ saved.all \in Nat /\ kept \in Nat /\ minute \in Nat /\ pending.mark \in Nat /\ Unsaved \in Nat
      /\ minute <= minute
  BY TelNumbers
<1>4. /\ pending \in [at : WriterPlaces, reply : BOOLEAN, ok : BOOLEAN, mark : Nat, seen : TelCounter,
                      todo : SUBSET Windows, now : Nat]
      /\ drops \in TelCounter /\ saved \in TelCounter /\ dropped \in TelCounter
      /\ pending.todo \in {{}, Windows} /\ pending.now <= minute
  BY <1>1 DEF TelInv, TelMemoryTypes, TelTableTypes, CursorsOK
<1>5. /\ pending' \in [at : WriterPlaces, reply : BOOLEAN, ok : BOOLEAN, mark : Nat, seen : TelCounter,
                       todo : SUBSET Windows, now : Nat]
      /\ pending'.todo \in {{}, Windows} /\ pending'.now <= minute /\ pending'.mark = pending.mark
      /\ \/ /\ drops = saved /\ guard' = "free" /\ pending'.at \in {"answer", "expire"} /\ pending'.seen = NoLoss
         \/ /\ guard' = "writer" /\ pending'.at = "commit" /\ pending'.seen = drops
  <2>1. CASE drops = saved /\ pending' = Continue(TRUE) /\ guard' = guard
    <3>1. TRUE \in BOOLEAN /\ pending.at \in {"delta", "commit", "publish"}
      BY <1>1
    <3> QED
      BY <1>1, <2>1, <3>1, ContinueKnown
  <2>2. CASE pending' = [pending EXCEPT !.at = "commit", !.seen = drops] /\ guard' = "writer"
    BY <1>4, <2>2 DEF WriterPlaces
  <2> QED
    BY <1>2, <2>1, <2>2
<1>6. guard' \in {"free", "writer", "reader"}
  BY <1>5
<1>7. TelMemoryTypes' /\ EventsOK'
  BY <1>1, <1>5, <1>6, MemoryFrame DEF TelInv, TelMemoryTypes
<1>8. TelTableTypes' /\ WindowsExact' /\ TotalsOK' /\ MetersOwned'
  BY <1>1, <1>4, TablesFrame
<1>9. CursorsOK'
  BY <1>1, <1>3, <1>5, CursorsFrame
<1>10. NoLoss.all = 0 /\ NoLoss.meter = 0
  BY DEF NoLoss
<1>11. LocksOK'
  <2>1. reading.on = FALSE /\ saved.all <= drops.all /\ saved.meter <= drops.meter /\ drops.meter <= drops.all
    BY <1>1 DEF TelInv, LocksOK, TelMemoryTypes
  <2>2. /\ drops.all \in Nat /\ drops.meter \in Nat
        /\ drops.all <= drops.all /\ drops.meter <= drops.meter /\ 0 <= drops.all /\ 0 <= drops.meter /\ 0 <= 0
    BY <1>4 DEF TelCounter
  <2> QED
    BY <1>1, <1>5, <1>10, <2>1, <2>2 DEF LocksOK
<1>12. Unsaved' = Unsaved /\ Unsaved = drops.all - saved.all
  BY <1>1, <1>5 DEF Unsaved
<1>13. DropsAccounted'
  BY <1>1, <1>5, <1>12 DEF TelInv, DropsAccounted
<1>14. EventsAccounted'
  <2>1. /\ sent' = kept' + Len(batch') + Unsaved' + HandedIn(queue', Len(queue'))
        /\ \A n \in 1..Len(queue') :
               queue'[n].kind = "flush" => queue'[n].minute <= kept' + Len(batch') + Unsaved' + HandedIn(queue', n)
    BY <1>1, <1>3, <1>12, MarksFrame
  <2>2. pending.mark <= kept + Unsaved /\ (flushed.ok => flushed.mark <= flushed.kept)
    BY <1>1 DEF TelInv, EventsAccounted
  <2>3. kept + Unsaved = kept + drops.all - saved.all
    BY <1>3, <1>12
  <2>4. CASE pending'.at = "commit" /\ pending'.seen = drops
    <3>1. pending'.mark <= kept + pending'.seen.all - saved.all
      BY <1>5, <2>2, <2>3, <2>4
    <3> QED
      BY <1>1, <2>1, <2>2, <2>4, <3>1 DEF EventsAccounted
  <2>5. CASE drops = saved /\ pending'.at \in {"answer", "expire"}
    <3>1. kept + Unsaved = kept
      BY <1>3, <1>12, <2>5
    <3> QED
      BY <1>1, <1>5, <2>1, <2>2, <2>5, <3>1 DEF EventsAccounted
  <2> QED
    BY <1>5, <2>4, <2>5
<1> QED
  BY <1>7, <1>8, <1>9, <1>11, <1>13, <1>14 DEF TelInv

\* It commits the difference: the drops move from memory to the database.
LEMMA DeltaCommitKeeps ==
    ASSUME TelInv, DeltaCommit
    PROVE  TelInv'
<1>1. /\ pending.at = "commit" /\ guard' = guard
      /\ queue' = queue /\ batch' = batch /\ perMinute' = perMinute /\ window' = window /\ order' = order
      /\ cursor' = cursor /\ meter' = meter /\ credential' = credential /\ minute' = minute /\ fuel' = fuel
      /\ sent' = sent /\ reading' = reading /\ report' = report /\ drops' = drops /\ saved' = saved
      /\ lost' = lost /\ flushed' = flushed
      /\ kept' = kept + pending.seen.all - saved.all /\ pending' = [pending EXCEPT !.at = "publish"]
      /\ dropped' = [all |-> dropped.all + pending.seen.all - saved.all,
                     meter |-> dropped.meter + pending.seen.meter - saved.meter]
  BY DEF DeltaCommit, afterDelta, readerVars
<1>2. /\ drops.all \in Nat /\ saved.all \in Nat /\ kept \in Nat /\ minute \in Nat /\ pending.mark \in Nat /\ Unsaved \in Nat
      /\ saved.meter \in Nat /\ pending.seen.all \in Nat /\ pending.seen.meter \in Nat
      /\ dropped.all \in Nat /\ dropped.meter \in Nat /\ lost \in Nat /\ minute <= minute
  BY TelNumbers
<1>3. /\ saved.all <= pending.seen.all /\ saved.meter <= pending.seen.meter /\ pending.seen.all <= drops.all
      /\ guard = "writer"
  BY <1>1 DEF TelInv, LocksOK
<1>4. PICK k \in Nat : pending.seen.all = saved.all + k
  <2>1. pending.seen.all - saved.all \in Nat /\ pending.seen.all = saved.all + (pending.seen.all - saved.all)
    BY <1>2, <1>3
  <2> QED
    BY <2>1
<1>5. kept' = kept + k /\ kept' \in Nat /\ dropped'.all = dropped.all + k /\ dropped'.all \in Nat
  <2>1. dropped'.all = dropped.all + pending.seen.all - saved.all
    BY <1>1
  <2> QED
    BY <1>1, <1>2, <1>4, <2>1
<1>6. dropped' \in TelCounter
  <2>1. dropped.meter + pending.seen.meter - saved.meter \in Nat
    BY <1>2, <1>3
  <2> QED
    BY <1>1, <1>5, <2>1 DEF TelCounter
<1>7. /\ pending \in [at : WriterPlaces, reply : BOOLEAN, ok : BOOLEAN, mark : Nat, seen : TelCounter,
                      todo : SUBSET Windows, now : Nat]
      /\ pending.todo \in {{}, Windows} /\ pending.now <= minute
  BY <1>1 DEF TelInv, TelMemoryTypes, CursorsOK
<1>8. /\ pending' \in [at : WriterPlaces, reply : BOOLEAN, ok : BOOLEAN, mark : Nat, seen : TelCounter,
                       todo : SUBSET Windows, now : Nat]
      /\ pending'.at = "publish" /\ pending'.todo \in {{}, Windows} /\ pending'.now <= minute
      /\ pending'.mark = pending.mark /\ pending'.seen = pending.seen
  BY <1>1, <1>7 DEF WriterPlaces
<1>9. TelMemoryTypes' /\ EventsOK'
  BY <1>1, <1>5, <1>8, MemoryFrame DEF TelInv, TelMemoryTypes
<1>10. TelTableTypes' /\ WindowsExact' /\ TotalsOK' /\ MetersOwned'
  BY <1>1, <1>6, TablesFrame
<1>11. CursorsOK'
  BY <1>1, <1>2, <1>8, CursorsFrame
<1>12. LocksOK'
  BY <1>1, <1>3, <1>8 DEF TelInv, LocksOK
<1>13. Unsaved' = drops.all - pending.seen.all /\ Unsaved = drops.all - saved.all
  BY <1>1, <1>8 DEF Unsaved
<1>14. Unsaved' \in Nat /\ Unsaved = Unsaved' + k
  BY <1>2, <1>3, <1>4, <1>13
<1>15. DropsAccounted'
  <2>1. /\ lost = dropped.all + Unsaved /\ report.drops = report.lost /\ (reading.on <=> guard = "reader")
    BY <1>1 DEF TelInv, DropsAccounted, LocksOK
  <2>2. lost = dropped'.all + Unsaved'
    BY <1>2, <1>5, <1>14, <2>1
  <2> QED
    BY <1>1, <1>3, <1>8, <2>1, <2>2 DEF DropsAccounted
<1>16. EventsAccounted'
  <2>1. kept' + Unsaved' = kept + Unsaved
    BY <1>2, <1>5, <1>14
  <2>2. /\ sent' = kept' + Len(batch') + Unsaved' + HandedIn(queue', Len(queue'))
        /\ \A n \in 1..Len(queue') :
               queue'[n].kind = "flush" => queue'[n].minute <= kept' + Len(batch') + Unsaved' + HandedIn(queue', n)
    BY <1>1, <1>5, <1>14, <2>1, MarksFrame
  <2>3. pending.mark <= kept' /\ (flushed.ok => flushed.mark <= flushed.kept)
    BY <1>1 DEF TelInv, EventsAccounted
  <2> QED
    BY <1>1, <1>8, <2>2, <2>3 DEF EventsAccounted
<1> QED
  BY <1>9, <1>10, <1>11, <1>12, <1>15, <1>16 DEF TelInv

\* Or fails, and the drops stay in memory.
LEMMA DeltaFailsKeeps ==
    ASSUME TelInv, DeltaFails
    PROVE  TelInv'
<1>1. /\ pending.at = "commit" /\ guard' = "free" /\ pending' = Continue(FALSE)
      /\ queue' = queue /\ batch' = batch /\ perMinute' = perMinute /\ window' = window /\ order' = order
      /\ cursor' = cursor /\ meter' = meter /\ credential' = credential /\ minute' = minute /\ fuel' = fuel
      /\ sent' = sent /\ reading' = reading /\ report' = report /\ drops' = drops /\ saved' = saved
      /\ dropped' = dropped /\ lost' = lost /\ kept' = kept /\ flushed' = flushed
  BY DEF DeltaFails, afterDelta, readerVars
<1>2. /\ pending' \in [at : WriterPlaces, reply : BOOLEAN, ok : BOOLEAN, mark : Nat, seen : TelCounter,
                       todo : SUBSET Windows, now : Nat]
      /\ pending'.todo \in {{}, Windows} /\ pending'.now <= minute /\ pending'.mark = pending.mark
      /\ pending'.at \in {"answer", "expire"} /\ pending'.seen = NoLoss /\ ~pending'.ok
  <2>1. FALSE \in BOOLEAN /\ pending.at \in {"delta", "commit", "publish"}
    BY <1>1
  <2> QED
    BY <1>1, <2>1, ContinueKnown
<1>3. kept \in Nat /\ minute \in Nat /\ Unsaved \in Nat /\ minute <= minute /\ drops.all \in Nat /\ drops.meter \in Nat
  BY TelNumbers
<1>4. TelMemoryTypes' /\ EventsOK'
  BY <1>1, <1>2, MemoryFrame DEF TelInv, TelMemoryTypes
<1>5. TelTableTypes' /\ WindowsExact' /\ TotalsOK' /\ MetersOwned'
  <2>1. dropped' \in TelCounter
    BY <1>1 DEF TelInv, TelTableTypes
  <2> QED
    BY <1>1, <2>1, TablesFrame
<1>6. CursorsOK'
  BY <1>1, <1>2, <1>3, CursorsFrame
<1>7. LocksOK'
  <2>1. /\ reading.on = FALSE /\ saved.all <= drops.all /\ saved.meter <= drops.meter /\ drops.meter <= drops.all
    BY <1>1 DEF TelInv, LocksOK, TelMemoryTypes
  <2>2. NoLoss.all = 0 /\ NoLoss.meter = 0 /\ 0 <= drops.all /\ 0 <= drops.meter /\ 0 <= 0
    BY <1>3 DEF NoLoss
  <2> QED
    BY <1>1, <1>2, <2>1, <2>2 DEF LocksOK
<1>8. Unsaved' = Unsaved
  BY <1>1, <1>2 DEF Unsaved
<1>9. DropsAccounted'
  BY <1>1, <1>2, <1>8 DEF TelInv, DropsAccounted
<1>10. EventsAccounted'
  <2>1. /\ sent' = kept' + Len(batch') + Unsaved' + HandedIn(queue', Len(queue'))
        /\ \A n \in 1..Len(queue') :
               queue'[n].kind = "flush" => queue'[n].minute <= kept' + Len(batch') + Unsaved' + HandedIn(queue', n)
    BY <1>1, <1>3, <1>8, MarksFrame
  <2>2. flushed.ok => flushed.mark <= flushed.kept
    BY DEF TelInv, EventsAccounted
  <2> QED
    BY <1>1, <1>2, <2>1, <2>2 DEF EventsAccounted
<1> QED
  BY <1>4, <1>5, <1>6, <1>7, <1>9, <1>10 DEF TelInv

\* What it wrote counts as written, not what was dropped since.
LEMMA DeltaPublishKeeps ==
    ASSUME TelInv, DeltaPublish
    PROVE  TelInv'
<1>1. /\ pending.at = "publish" /\ guard' = "free" /\ pending' = Continue(TRUE) /\ saved' = pending.seen
      /\ queue' = queue /\ batch' = batch /\ perMinute' = perMinute /\ window' = window /\ order' = order
      /\ cursor' = cursor /\ meter' = meter /\ credential' = credential /\ minute' = minute /\ fuel' = fuel
      /\ sent' = sent /\ reading' = reading /\ report' = report /\ drops' = drops
      /\ dropped' = dropped /\ lost' = lost /\ kept' = kept /\ flushed' = flushed
  BY DEF DeltaPublish, afterDelta, readerVars
<1>2. /\ pending' \in [at : WriterPlaces, reply : BOOLEAN, ok : BOOLEAN, mark : Nat, seen : TelCounter,
                       todo : SUBSET Windows, now : Nat]
      /\ pending'.todo \in {{}, Windows} /\ pending'.now <= minute /\ pending'.mark = pending.mark
      /\ pending'.at \in {"answer", "expire"} /\ pending'.seen = NoLoss
  <2>1. TRUE \in BOOLEAN /\ pending.at \in {"delta", "commit", "publish"}
    BY <1>1
  <2> QED
    BY <1>1, <2>1, ContinueKnown
<1>3. /\ kept \in Nat /\ minute \in Nat /\ Unsaved \in Nat /\ minute <= minute /\ drops.all \in Nat /\ drops.meter \in Nat
      /\ pending.seen \in TelCounter
  BY TelNumbers
<1>4. TelMemoryTypes' /\ EventsOK'
  BY <1>1, <1>2, <1>3, MemoryFrame DEF TelInv, TelMemoryTypes
<1>5. TelTableTypes' /\ WindowsExact' /\ TotalsOK' /\ MetersOwned'
  <2>1. dropped' \in TelCounter
    BY <1>1 DEF TelInv, TelTableTypes
  <2> QED
    BY <1>1, <2>1, TablesFrame
<1>6. CursorsOK'
  BY <1>1, <1>2, <1>3, CursorsFrame
<1>7. LocksOK'
  <2>1. /\ reading.on = FALSE /\ drops.meter <= drops.all
        /\ pending.seen.all <= drops.all /\ pending.seen.meter <= drops.meter
    BY <1>1 DEF TelInv, LocksOK, TelMemoryTypes
  <2>2. NoLoss.all = 0 /\ NoLoss.meter = 0 /\ 0 <= drops.all /\ 0 <= drops.meter /\ 0 <= 0
    BY <1>3 DEF NoLoss
  <2> QED
    BY <1>1, <1>2, <2>1, <2>2 DEF LocksOK
<1>8. Unsaved' = Unsaved
  BY <1>1, <1>2 DEF Unsaved
<1>9. DropsAccounted'
  BY <1>1, <1>2, <1>8 DEF TelInv, DropsAccounted
<1>10. EventsAccounted'
  <2>1. /\ sent' = kept' + Len(batch') + Unsaved' + HandedIn(queue', Len(queue'))
        /\ \A n \in 1..Len(queue') :
               queue'[n].kind = "flush" => queue'[n].minute <= kept' + Len(batch') + Unsaved' + HandedIn(queue', n)
    BY <1>1, <1>3, <1>8, MarksFrame
  <2>2. pending.mark <= kept /\ (flushed.ok => flushed.mark <= flushed.kept)
    BY <1>1 DEF TelInv, EventsAccounted
  <2> QED
    BY <1>1, <1>2, <2>1, <2>2 DEF EventsAccounted
<1> QED
  BY <1>4, <1>5, <1>6, <1>7, <1>9, <1>10 DEF TelInv


\* The writer is done: what follows holds whatever became of the tables.
LEMMA DoneFrame ==
    ASSUME TelInv, pending.at \in {"answer", "clear", "expire", "remove"}, pending' = Ready,
           queue' = queue, batch' = batch, cursor' = cursor, minute' = minute, fuel' = fuel, guard' = guard,
           sent' = sent, reading' = reading, report' = report, drops' = drops, saved' = saved,
           dropped' = dropped, lost' = lost, kept' = kept,
           flushed' \in [ok : BOOLEAN, mark : Nat, kept : Nat], flushed'.ok => flushed'.mark <= flushed'.kept
    PROVE  TelMemoryTypes' /\ EventsOK' /\ LocksOK' /\ DropsAccounted' /\ EventsAccounted' /\ CursorsOK'
<1>1. /\ pending' \in [at : WriterPlaces, reply : BOOLEAN, ok : BOOLEAN, mark : Nat, seen : TelCounter,
                       todo : SUBSET Windows, now : Nat]
      /\ pending'.at = "select" /\ pending'.seen = NoLoss /\ pending'.now = 0 /\ NoLoss.all = 0 /\ NoLoss.meter = 0
  BY DEF Ready, WriterPlaces, NoLoss, TelCounter
<1>2. /\ kept \in Nat /\ Unsaved \in Nat /\ minute \in Nat /\ minute <= minute /\ 0 <= minute
      /\ drops.all \in Nat /\ drops.meter \in Nat
  BY TelNumbers
<1>3. TelMemoryTypes' /\ EventsOK'
  BY <1>1, MemoryFrame DEF TelInv, TelMemoryTypes
<1>4. LocksOK'
  <2>1. /\ guard # "writer" /\ (reading.on <=> guard = "reader") /\ saved.all <= drops.all /\ saved.meter <= drops.meter
        /\ drops.meter <= drops.all
    BY DEF TelInv, LocksOK
  <2>2. 0 <= drops.all /\ 0 <= drops.meter /\ 0 <= 0
    BY <1>2
  <2> QED
    BY <1>1, <2>1, <2>2 DEF LocksOK
<1>5. Unsaved' = Unsaved
  BY <1>1 DEF Unsaved
<1>6. DropsAccounted'
  BY <1>1, <1>5 DEF TelInv, DropsAccounted
<1>7. EventsAccounted'
  <2>1. /\ sent' = kept' + Len(batch') + Unsaved' + HandedIn(queue', Len(queue'))
        /\ \A n \in 1..Len(queue') :
               queue'[n].kind = "flush" => queue'[n].minute <= kept' + Len(batch') + Unsaved' + HandedIn(queue', n)
    BY <1>2, <1>5, MarksFrame
  <2> QED
    BY <1>1, <2>1 DEF EventsAccounted
<1>8. CursorsOK'
  BY <1>1, <1>2, CursorsFrame
<1> QED
  BY <1>3, <1>4, <1>6, <1>7, <1>8

\* The writer answers, gives up, or has nothing to do.
LEMMA DoneKeeps ==
    ASSUME TelInv, Answer \/ ClearFails \/ ExpireFails \/ NothingToExpire
    PROVE  TelInv'
<1>1. /\ pending.at \in {"answer", "clear", "expire", "remove"} /\ pending' = Ready
      /\ queue' = queue /\ batch' = batch /\ perMinute' = perMinute /\ window' = window /\ order' = order
      /\ cursor' = cursor /\ meter' = meter /\ credential' = credential /\ minute' = minute /\ fuel' = fuel
      /\ guard' = guard /\ sent' = sent /\ reading' = reading /\ report' = report /\ drops' = drops /\ saved' = saved
      /\ dropped' = dropped /\ lost' = lost /\ kept' = kept
  <2>1. CASE Answer
    BY <2>1 DEF Answer, afterDelta, readerVars
  <2>2. CASE ClearFails
    BY <2>2 DEF ClearFails, tables, readerVars
  <2>3. CASE ExpireFails \/ NothingToExpire
    BY <2>3 DEF ExpireFails, NothingToExpire, tables, expireRest, readerVars
  <2> QED
    BY <2>1, <2>2, <2>3
<1>2. flushed' \in [ok : BOOLEAN, mark : Nat, kept : Nat] /\ (flushed'.ok => flushed'.mark <= flushed'.kept)
  <2>1. CASE Answer
    <3>1. pending.at = "answer" /\ flushed' = [ok |-> pending.ok, mark |-> pending.mark, kept |-> kept]
      BY <2>1 DEF Answer
    <3>2. pending.ok \in BOOLEAN /\ pending.mark \in Nat /\ kept \in Nat
      BY TelNumbers
    <3>3. pending.ok => pending.mark <= kept
      BY <3>1 DEF TelInv, EventsAccounted
    <3> QED
      BY <3>1, <3>2, <3>3
  <2>2. CASE ~Answer
    <3>1. flushed' = flushed
      BY <2>2 DEF ClearFails, ExpireFails, NothingToExpire, expireRest
    <3> QED
      BY <3>1 DEF TelInv, TelMemoryTypes, EventsAccounted
  <2> QED
    BY <2>1, <2>2
<1>3. TelMemoryTypes' /\ EventsOK' /\ LocksOK' /\ DropsAccounted' /\ EventsAccounted' /\ CursorsOK'
  BY <1>1, <1>2, DoneFrame
<1>4. TelTableTypes' /\ WindowsExact' /\ TotalsOK' /\ MetersOwned'
  <2>1. dropped' \in TelCounter
    BY <1>1 DEF TelInv, TelTableTypes
  <2> QED
    BY <1>1, <2>1, TablesFrame
<1> QED
  BY <1>3, <1>4 DEF TelInv

\* Old rows go.
LEMMA RemoveKeeps ==
    ASSUME TelInv, RemoveOld
    PROVE  TelInv'
<1>1. /\ pending.at = "remove" /\ pending' = Ready /\ window' = window
      /\ queue' = queue /\ batch' = batch /\ cursor' = cursor /\ minute' = minute /\ fuel' = fuel /\ guard' = guard
      /\ sent' = sent /\ reading' = reading /\ report' = report /\ drops' = drops /\ saved' = saved
      /\ dropped' = dropped /\ lost' = lost /\ kept' = kept /\ flushed' = flushed /\ credential' = credential
  BY DEF RemoveOld, expireRest, readerVars
<1>2. /\ perMinute' \in [Minutes -> [Dims -> Nat]] /\ meter' \in [Minutes -> Nat]
      /\ WindowsExact' /\ TotalsOK' /\ (credential \/ \A m \in Minutes : meter'[m] = 0)
  BY RemoveSound
<1>3. flushed' \in [ok : BOOLEAN, mark : Nat, kept : Nat] /\ (flushed'.ok => flushed'.mark <= flushed'.kept)
  BY <1>1 DEF TelInv, TelMemoryTypes, EventsAccounted
<1>4. TelMemoryTypes' /\ EventsOK' /\ LocksOK' /\ DropsAccounted' /\ EventsAccounted' /\ CursorsOK'
  BY <1>1, <1>3, DoneFrame
<1>5. TelTableTypes'
  BY <1>1, <1>2 DEF TelInv, TelTableTypes
<1>6. MetersOwned'
  BY <1>1, <1>2 DEF MetersOwned
<1> QED
  BY <1>2, <1>4, <1>5, <1>6 DEF TelInv

\* A clear commits with the lock held.
LEMMA ClearCommitKeeps ==
    ASSUME TelInv, ClearCommit
    PROVE  TelInv'
<1>1. /\ pending.at = "clear" /\ guard = "free" /\ guard' = "writer" /\ dropped' = NoLoss
      /\ pending' = [pending EXCEPT !.at = "reset"]
      /\ queue' = queue /\ batch' = batch /\ minute' = minute /\ fuel' = fuel
      /\ sent' = sent /\ reading' = reading /\ report' = report /\ drops' = drops /\ saved' = saved
      /\ lost' = lost /\ kept' = kept /\ flushed' = flushed /\ credential' = credential
  BY DEF ClearCommit, readerVars
<1>2. /\ perMinute' \in [Minutes -> [Dims -> Nat]] /\ window' \in [Windows -> [Dims -> Nat]]
      /\ meter' \in [Minutes -> Nat] /\ cursor' \in [Windows -> Int \X (0..PastAll)]
      /\ WindowsExact' /\ TotalsOK' /\ (credential \/ \A m \in Minutes : meter'[m] = 0) /\ CursorsOK'
  BY ClearSound
<1>3. /\ pending' \in [at : WriterPlaces, reply : BOOLEAN, ok : BOOLEAN, mark : Nat, seen : TelCounter,
                       todo : SUBSET Windows, now : Nat]
      /\ pending'.at = "reset" /\ pending'.seen = pending.seen
  BY <1>1 DEF TelInv, TelMemoryTypes, WriterPlaces
<1>4. NoLoss \in TelCounter /\ NoLoss.all = 0
  BY DEF NoLoss, TelCounter
<1>5. TelMemoryTypes' /\ EventsOK'
  BY <1>1, <1>3, MemoryFrame DEF TelInv, TelMemoryTypes
<1>6. TelTableTypes'
  BY <1>1, <1>2, <1>4 DEF TelInv, TelTableTypes
<1>7. MetersOwned'
  BY <1>1, <1>2 DEF MetersOwned
<1>8. LocksOK'
  BY <1>1, <1>3 DEF TelInv, LocksOK
<1>9. Unsaved' = Unsaved
  BY <1>1, <1>3 DEF Unsaved
<1>10. DropsAccounted'
  <2>1. report.drops = report.lost /\ reading.on = FALSE
    BY <1>1 DEF TelInv, DropsAccounted, LocksOK, TelMemoryTypes
  <2> QED
    BY <1>1, <1>3, <1>4, <2>1 DEF DropsAccounted
<1>11. EventsAccounted'
  <2>1. kept \in Nat /\ Unsaved \in Nat
    BY TelNumbers
  <2>2. /\ sent' = kept' + Len(batch') + Unsaved' + HandedIn(queue', Len(queue'))
        /\ \A n \in 1..Len(queue') :
               queue'[n].kind = "flush" => queue'[n].minute <= kept' + Len(batch') + Unsaved' + HandedIn(queue', n)
    BY <1>1, <1>9, <2>1, MarksFrame
  <2>3. flushed.ok => flushed.mark <= flushed.kept
    BY DEF TelInv, EventsAccounted
  <2> QED
    BY <1>1, <1>3, <2>2, <2>3 DEF EventsAccounted
<1> QED
  BY <1>2, <1>5, <1>6, <1>7, <1>8, <1>10, <1>11 DEF TelInv

\* Its counters follow: what was pending has its fate.
LEMMA ClearResetKeeps ==
    ASSUME TelInv, ClearReset
    PROVE  TelInv'
<1>1. /\ pending.at = "reset" /\ guard' = "free" /\ pending' = Ready /\ drops' = NoLoss /\ saved' = NoLoss
      /\ lost' = 0 /\ kept' = kept + drops.all - saved.all
      /\ queue' = queue /\ batch' = batch /\ perMinute' = perMinute /\ window' = window /\ order' = order
      /\ cursor' = cursor /\ meter' = meter /\ credential' = credential /\ minute' = minute /\ fuel' = fuel
      /\ sent' = sent /\ reading' = reading /\ report' = report /\ dropped' = dropped /\ flushed' = flushed
  BY DEF ClearReset, tables, readerVars
<1>2. /\ pending' \in [at : WriterPlaces, reply : BOOLEAN, ok : BOOLEAN, mark : Nat, seen : TelCounter,
                       todo : SUBSET Windows, now : Nat]
      /\ pending'.at = "select" /\ pending'.seen = NoLoss /\ pending'.now = 0
      /\ NoLoss \in TelCounter /\ NoLoss.all = 0 /\ NoLoss.meter = 0
  BY <1>1 DEF Ready, WriterPlaces, NoLoss, TelCounter
<1>3. /\ kept \in Nat /\ Unsaved \in Nat /\ minute \in Nat /\ minute <= minute /\ 0 <= minute
      /\ drops.all \in Nat /\ saved.all \in Nat /\ dropped.all \in Nat
  BY TelNumbers
<1>4. guard = "writer" /\ reading.on = FALSE /\ saved.all <= drops.all
  BY <1>1 DEF TelInv, LocksOK, TelMemoryTypes
<1>5. Unsaved = drops.all - saved.all /\ Unsaved' = 0
  BY <1>1, <1>2 DEF Unsaved
<1>6. kept' \in Nat /\ kept' + Unsaved' = kept + Unsaved
  BY <1>1, <1>3, <1>4, <1>5
<1>7. TelMemoryTypes' /\ EventsOK'
  BY <1>1, <1>2, <1>6, MemoryFrame DEF TelInv, TelMemoryTypes
<1>8. TelTableTypes' /\ WindowsExact' /\ TotalsOK' /\ MetersOwned'
  <2>1. dropped' \in TelCounter
    BY <1>1 DEF TelInv, TelTableTypes
  <2> QED
    BY <1>1, <2>1, TablesFrame
<1>9. CursorsOK'
  BY <1>1, <1>2, <1>3, CursorsFrame
<1>10. LocksOK'
  BY <1>1, <1>2, <1>4 DEF LocksOK
<1>11. DropsAccounted'
  <2>1. dropped.all = 0 /\ report.drops = report.lost
    BY <1>1 DEF TelInv, DropsAccounted
  <2>2. lost' = dropped'.all + Unsaved'
    BY <1>1, <1>5, <2>1
  <2> QED
    BY <1>1, <1>2, <1>4, <2>1, <2>2 DEF DropsAccounted
<1>12. EventsAccounted'
  <2>1. /\ sent' = kept' + Len(batch') + Unsaved' + HandedIn(queue', Len(queue'))
        /\ \A n \in 1..Len(queue') :
               queue'[n].kind = "flush" => queue'[n].minute <= kept' + Len(batch') + Unsaved' + HandedIn(queue', n)
    <3>1. Unsaved' \in Nat
      BY <1>5
    <3> QED
      BY <1>1, <1>6, <3>1, MarksFrame
  <2>2. flushed.ok => flushed.mark <= flushed.kept
    BY DEF TelInv, EventsAccounted
  <2> QED
    BY <1>1, <1>2, <2>1, <2>2 DEF EventsAccounted
<1> QED
  BY <1>7, <1>8, <1>9, <1>10, <1>11, <1>12 DEF TelInv

\* A page of an expiry.
LEMMA ExpireKeeps ==
    ASSUME TelInv, ExpireWindow
    PROVE  TelInv'
<1>1. /\ pending.at = "expire" /\ perMinute' = perMinute /\ meter' = meter /\ dropped' = dropped
      /\ queue' = queue /\ batch' = batch /\ minute' = minute /\ fuel' = fuel /\ guard' = guard
      /\ sent' = sent /\ reading' = reading /\ report' = report /\ drops' = drops /\ saved' = saved
      /\ lost' = lost /\ kept' = kept /\ flushed' = flushed /\ credential' = credential
      /\ \/ pending' = [pending EXCEPT !.at = "remove"]
         \/ \E w : pending' = [pending EXCEPT !.todo = pending.todo \ {w}]
  BY DEF ExpireWindow, expireRest, readerVars, TelInv, TelMemoryTypes
<1>2. /\ window' \in [Windows -> [Dims -> Nat]] /\ cursor' \in [Windows -> Int \X (0..PastAll)]
      /\ WindowsExact' /\ TotalsOK' /\ CursorsOK'
  BY ExpireSound
<1>3. /\ pending' \in [at : WriterPlaces, reply : BOOLEAN, ok : BOOLEAN, mark : Nat, seen : TelCounter,
                       todo : SUBSET Windows, now : Nat]
      /\ pending'.at \in {"expire", "remove"} /\ pending'.seen = pending.seen
  <2>1. pending \in [at : WriterPlaces, reply : BOOLEAN, ok : BOOLEAN, mark : Nat, seen : TelCounter,
                     todo : SUBSET Windows, now : Nat]
    BY DEF TelInv, TelMemoryTypes
  <2>2. CASE pending' = [pending EXCEPT !.at = "remove"]
    BY <2>1, <2>2 DEF WriterPlaces
  <2>3. CASE \E w : pending' = [pending EXCEPT !.todo = pending.todo \ {w}]
    <3>1. PICK w : pending' = [pending EXCEPT !.todo = pending.todo \ {w}]
      BY <2>3
    <3>2. pending.todo \ {w} \in SUBSET Windows
      BY <2>1
    <3> QED
      BY <1>1, <2>1, <3>1, <3>2
  <2> QED
    BY <1>1, <2>2, <2>3
<1>4. TelMemoryTypes' /\ EventsOK'
  BY <1>1, <1>3, MemoryFrame DEF TelInv, TelMemoryTypes
<1>5. TelTableTypes'
  BY <1>1, <1>2 DEF TelInv, TelTableTypes
<1>6. MetersOwned'
  BY <1>1 DEF TelInv, MetersOwned
<1>7. LocksOK'
  BY <1>1, <1>3 DEF TelInv, LocksOK
<1>8. Unsaved' = Unsaved
  BY <1>1, <1>3 DEF Unsaved
<1>9. DropsAccounted'
  BY <1>1, <1>3, <1>8 DEF TelInv, DropsAccounted
<1>10. EventsAccounted'
  <2>1. kept \in Nat /\ Unsaved \in Nat
    BY TelNumbers
  <2>2. /\ sent' = kept' + Len(batch') + Unsaved' + HandedIn(queue', Len(queue'))
        /\ \A n \in 1..Len(queue') :
               queue'[n].kind = "flush" => queue'[n].minute <= kept' + Len(batch') + Unsaved' + HandedIn(queue', n)
    BY <1>1, <1>8, <2>1, MarksFrame
  <2>3. flushed.ok => flushed.mark <= flushed.kept
    BY DEF TelInv, EventsAccounted
  <2> QED
    BY <1>1, <1>3, <2>2, <2>3 DEF EventsAccounted
<1> QED
  BY <1>2, <1>4, <1>5, <1>6, <1>7, <1>9, <1>10 DEF TelInv


\* A report, and the deletion of a credential.
LEMMA ReportBeginKeeps ==
    ASSUME TelInv, ReportBegin
    PROVE  TelInv'
<1>1. /\ guard = "free" /\ guard' = "reader"
      /\ reading' = [on |-> TRUE, seen |-> drops.all - saved.all, lost |-> lost]
      /\ queue' = queue /\ batch' = batch /\ pending' = pending /\ perMinute' = perMinute /\ window' = window
      /\ order' = order /\ cursor' = cursor /\ meter' = meter /\ credential' = credential /\ minute' = minute
      /\ fuel' = fuel /\ sent' = sent /\ report' = report /\ drops' = drops /\ saved' = saved
      /\ dropped' = dropped /\ lost' = lost /\ kept' = kept /\ flushed' = flushed
  BY DEF ReportBegin, tables
<1>2. /\ drops.all \in Nat /\ saved.all \in Nat /\ lost \in Nat /\ kept \in Nat /\ Unsaved \in Nat
  BY TelNumbers
<1>3. saved.all <= drops.all /\ pending.at \notin {"commit", "publish", "reset"}
  BY <1>1 DEF TelInv, LocksOK
<1>4. reading' \in [on : BOOLEAN, seen : Nat, lost : Nat] /\ reading'.on = TRUE
      /\ reading'.seen = drops.all - saved.all /\ reading'.lost = lost
  <2>1. drops.all - saved.all \in Nat
    BY <1>2, <1>3
  <2> QED
    BY <1>1, <1>2, <2>1
<1>5. TelMemoryTypes' /\ EventsOK'
  BY <1>1, <1>4, MemoryFrame DEF TelInv, TelMemoryTypes
<1>6. TelTableTypes' /\ WindowsExact' /\ TotalsOK' /\ MetersOwned'
  <2>1. dropped' \in TelCounter
    BY <1>1 DEF TelInv, TelTableTypes
  <2> QED
    BY <1>1, <2>1, TablesFrame
<1>7. CursorsOK'
  BY <1>1, CursorsStay
<1>8. LocksOK'
  BY <1>1, <1>3, <1>4 DEF TelInv, LocksOK
<1>9. Unsaved' = Unsaved /\ Unsaved = drops.all - saved.all
  BY <1>1, <1>3 DEF Unsaved
<1>10. DropsAccounted'
  BY <1>1, <1>3, <1>4, <1>9 DEF TelInv, DropsAccounted
<1>11. EventsAccounted'
  BY <1>1, <1>9 DEF TelInv, EventsAccounted
<1> QED
  BY <1>5, <1>6, <1>7, <1>8, <1>10, <1>11 DEF TelInv

\* A report reads the database with the counters it has taken.
LEMMA ReportEndKeeps ==
    ASSUME TelInv, ReportEnd
    PROVE  TelInv'
<1>1. /\ reading.on /\ reading' = [on |-> FALSE, seen |-> 0, lost |-> 0]
      /\ report' = [drops |-> dropped.all + reading.seen, lost |-> reading.lost]
      /\ guard' = IF guard = "reader" THEN "free" ELSE guard
      /\ queue' = queue /\ batch' = batch /\ pending' = pending /\ perMinute' = perMinute /\ window' = window
      /\ order' = order /\ cursor' = cursor /\ meter' = meter /\ credential' = credential /\ minute' = minute
      /\ fuel' = fuel /\ sent' = sent /\ drops' = drops /\ saved' = saved
      /\ dropped' = dropped /\ lost' = lost /\ kept' = kept /\ flushed' = flushed
  BY DEF ReportEnd, tables
<1>2. guard = "reader" /\ guard' = "free" /\ pending.at \notin {"commit", "publish", "reset"}
  BY <1>1 DEF TelInv, LocksOK
<1>3. reading.seen \in Nat /\ reading.lost \in Nat /\ dropped.all \in Nat /\ reading.lost = dropped.all + reading.seen
  <2>1. reading.seen \in Nat /\ reading.lost \in Nat
    BY DEF TelInv, TelMemoryTypes
  <2> QED
    BY <1>1, <2>1, TelNumbers DEF TelInv, DropsAccounted
<1>4. /\ reading' \in [on : BOOLEAN, seen : Nat, lost : Nat] /\ reading'.on = FALSE
      /\ report' \in [drops : Nat, lost : Nat] /\ report'.drops = report'.lost
  BY <1>1, <1>3
<1>5. TelMemoryTypes' /\ EventsOK'
  BY <1>1, <1>2, <1>4, MemoryFrame DEF TelInv, TelMemoryTypes
<1>6. TelTableTypes' /\ WindowsExact' /\ TotalsOK' /\ MetersOwned'
  <2>1. dropped' \in TelCounter
    BY <1>1 DEF TelInv, TelTableTypes
  <2> QED
    BY <1>1, <2>1, TablesFrame
<1>7. CursorsOK'
  BY <1>1, CursorsStay
<1>8. LocksOK'
  BY <1>1, <1>2, <1>4 DEF TelInv, LocksOK
<1>9. Unsaved' = Unsaved
  BY <1>1 DEF Unsaved
<1>10. DropsAccounted'
  BY <1>1, <1>4, <1>9 DEF TelInv, DropsAccounted
<1>11. EventsAccounted'
  BY <1>1, <1>9 DEF TelInv, EventsAccounted
<1> QED
  BY <1>5, <1>6, <1>7, <1>8, <1>10, <1>11 DEF TelInv

\* The credential and its meter go at once.
LEMMA DeleteKeeps ==
    ASSUME TelInv, DeleteCredential
    PROVE  TelInv'
<1>1. /\ credential' = FALSE /\ meter' = [m \in Minutes |-> 0]
      /\ queue' = queue /\ batch' = batch /\ pending' = pending /\ perMinute' = perMinute /\ window' = window
      /\ order' = order /\ cursor' = cursor /\ minute' = minute /\ guard' = guard
      /\ fuel' = fuel /\ sent' = sent /\ drops' = drops /\ saved' = saved /\ reading' = reading /\ report' = report
      /\ dropped' = dropped /\ lost' = lost /\ kept' = kept /\ flushed' = flushed
  BY DEF DeleteCredential, readerVars
<1>2. TelMemoryTypes' /\ EventsOK'
  BY <1>1, MemoryFrame DEF TelInv, TelMemoryTypes
<1>3. TelTableTypes'
  BY <1>1 DEF TelInv, TelTableTypes
<1>4. WindowsExact' /\ TotalsOK'
  BY <1>1, TablesKept
<1>5. MetersOwned'
  BY <1>1 DEF MetersOwned
<1>6. CursorsOK'
  BY <1>1, CursorsStay
<1>7. LocksOK'
  BY <1>1 DEF TelInv, LocksOK
<1>8. Unsaved' = Unsaved
  BY <1>1 DEF Unsaved
<1>9. DropsAccounted' /\ EventsAccounted'
  BY <1>1, <1>8 DEF TelInv, DropsAccounted, EventsAccounted
<1> QED
  BY <1>2, <1>3, <1>4, <1>5, <1>6, <1>7, <1>9 DEF TelInv

\* The clock, a crash, and nothing at all.
LEMMA TickKeeps ==
    ASSUME TelInv, TelTick
    PROVE  TelInv'
<1>1. /\ minute < MaxMinute /\ minute' = minute + 1
      /\ \A e \in Waiting : e.kind \in {"stat", "meter"} => e.minute > minute' - Shortest
      /\ queue' = queue /\ batch' = batch /\ pending' = pending /\ perMinute' = perMinute /\ window' = window
      /\ order' = order /\ cursor' = cursor /\ meter' = meter /\ credential' = credential /\ guard' = guard
      /\ fuel' = fuel /\ sent' = sent /\ drops' = drops /\ saved' = saved /\ reading' = reading /\ report' = report
      /\ dropped' = dropped /\ lost' = lost /\ kept' = kept /\ flushed' = flushed
  BY DEF TelTick, tables, readerVars
<1>2. minute \in Nat /\ minute' \in Nat /\ minute <= minute' /\ minute' \in Minutes
  <2>1. minute \in Nat /\ MaxMinute \in Nat
    BY TelNumbers, TelemetryAssumption
  <2> QED
    BY <1>1, <2>1 DEF Minutes
<1>3. ASSUME NEW e \in Waiting, CountsNow(e) PROVE CountsNow(e)'
  <2>1. CASE e.kind \in {"stat", "meter"}
    <3>1. /\ e.minute \in Minutes /\ e.minute <= minute /\ e.minute > minute' - Shortest
          /\ e.kind = "stat" => e.dim \in 1..ModelCount
      BY <1>1, <1>3, <2>1 DEF CountsNow
    <3>2. e.minute <= minute'
      BY <1>2, <3>1 DEF Minutes
    <3> QED
      BY <3>1, <3>2 DEF CountsNow
  <2>2. CASE e.kind \notin {"stat", "meter"}
    BY <2>2 DEF CountsNow
  <2> QED
    BY <2>1, <2>2
<1>4. EventsOK'
  <2>1. ASSUME NEW n \in 1..Len(queue) PROVE CountsNow(queue[n])'
    <3>1. queue[n] \in Waiting /\ CountsNow(queue[n])
      BY DEF Waiting, TelInv, EventsOK
    <3>2. PICK e \in Waiting : e = queue[n]
      BY <3>1
    <3>3. CountsNow(e)'
      BY <1>3, <3>1, <3>2
    <3> QED
      BY <1>1, <3>2, <3>3 DEF CountsNow
  <2>2. ASSUME NEW n \in 1..Len(batch) PROVE CountsNow(batch[n])' /\ batch[n].kind \in {"stat", "meter"}
    <3>1. batch[n] \in Waiting /\ CountsNow(batch[n]) /\ batch[n].kind \in {"stat", "meter"}
      BY DEF Waiting, TelInv, EventsOK
    <3>2. PICK e \in Waiting : e = batch[n]
      BY <3>1
    <3>3. CountsNow(e)'
      BY <1>3, <3>1, <3>2
    <3> QED
      BY <1>1, <3>1, <3>2, <3>3 DEF CountsNow
  <2> QED
    BY <1>1, <2>1, <2>2 DEF EventsOK
<1>5. TelMemoryTypes'
  BY <1>1, <1>2 DEF TelInv, TelMemoryTypes
<1>6. TelTableTypes' /\ WindowsExact' /\ TotalsOK' /\ MetersOwned'
  <2>1. dropped' \in TelCounter
    BY <1>1 DEF TelInv, TelTableTypes
  <2> QED
    BY <1>1, <2>1, TablesFrame
<1>7. CursorsOK'
  <2>1. /\ pending'.at \in {"delta", "commit", "publish"} => pending'.todo \in {{}, Windows}
        /\ pending.now <= minute /\ pending.now \in Nat
    BY <1>1, TelNumbers DEF TelInv, CursorsOK
  <2>2. pending'.now <= minute'
    BY <1>1, <1>2, <2>1
  <2> QED
    BY <1>1, <1>2, <2>1, <2>2, CursorsFrame
<1>8. LocksOK'
  BY <1>1 DEF TelInv, LocksOK
<1>9. Unsaved' = Unsaved
  BY <1>1 DEF Unsaved
<1>10. DropsAccounted' /\ EventsAccounted'
  BY <1>1, <1>9 DEF TelInv, DropsAccounted, EventsAccounted
<1> QED
  BY <1>4, <1>5, <1>6, <1>7, <1>8, <1>10 DEF TelInv

\* Memory after a start, and what it keeps.
Fresh ==
    /\ queue = <<>> /\ batch = <<>> /\ pending = Ready /\ drops = NoLoss /\ saved = NoLoss /\ guard = "free"
    /\ sent = 0 /\ kept = 0 /\ flushed = [ok |-> FALSE, mark |-> 0, kept |-> 0]
    /\ reading = [on |-> FALSE, seen |-> 0, lost |-> 0] /\ report = [drops |-> 0, lost |-> 0]
    /\ minute \in Minutes /\ fuel \in Nat /\ dropped \in TelCounter /\ lost = dropped.all
FreshAccounts ==
    /\ TelMemoryTypes /\ EventsOK /\ LocksOK /\ DropsAccounted /\ EventsAccounted
    /\ pending.at = "select" /\ pending.now = 0
\* Fresh memory keeps its accounts.
LEMMA FreshMemory == Fresh => FreshAccounts
<1> SUFFICES ASSUME Fresh PROVE FreshAccounts
  OBVIOUS
<1> USE DEF Fresh
<1>1. /\ pending \in [at : WriterPlaces, reply : BOOLEAN, ok : BOOLEAN, mark : Nat, seen : TelCounter,
                      todo : SUBSET Windows, now : Nat]
      /\ pending.at = "select" /\ pending.seen = NoLoss /\ pending.now = 0
      /\ NoLoss \in TelCounter /\ NoLoss.all = 0 /\ NoLoss.meter = 0
  BY DEF Ready, WriterPlaces, NoLoss, TelCounter
<1>2. <<>> \in Seq(TelEvent) /\ Len(<<>>) = 0 /\ QueueCap \in Nat /\ BatchCap \in Nat /\ dropped.all \in Nat /\ 1..0 = {}
  <2>1. <<>> \in Seq(TelEvent) /\ Len(<<>>) = 0
    OBVIOUS
  <2>2. QueueCap \in Nat /\ BatchCap \in Nat
    BY TelemetryAssumption
  <2>3. dropped.all \in Nat
    BY DEF TelCounter
  <2>4. 1..0 = {}
    OBVIOUS
  <2> QED
    BY <2>1, <2>2, <2>3, <2>4
<1>3. 0 <= QueueCap /\ 0 <= BatchCap
  BY <1>2
<1>4. TelMemoryTypes
  <2>1. /\ flushed \in [ok : BOOLEAN, mark : Nat, kept : Nat] /\ reading \in [on : BOOLEAN, seen : Nat, lost : Nat]
        /\ report \in [drops : Nat, lost : Nat] /\ lost \in Nat /\ sent \in Nat /\ kept \in Nat
    BY <1>2
  <2> QED
    BY <1>1, <1>2, <1>3, <2>1 DEF TelMemoryTypes
<1>5. EventsOK
  BY <1>2 DEF EventsOK
<1>6. LocksOK
  BY <1>1 DEF LocksOK
<1>7. Unsaved = 0
  BY <1>1 DEF Unsaved
<1>8. DropsAccounted
  BY <1>1, <1>2, <1>7 DEF DropsAccounted
<1>9. EventsAccounted
  <2>1. HandedIn(<<>>, 0) = 0
    BY <1>2, FS_EmptySet DEF HandedIn
  <2> QED
    BY <1>1, <1>2, <1>7, <2>1 DEF EventsAccounted
<1> QED
  BY <1>1, <1>4, <1>5, <1>6, <1>8, <1>9 DEF FreshAccounts

\* A crash loses the memory and keeps the tables.
LEMMA CrashKeeps ==
    ASSUME TelInv, TelCrash
    PROVE  TelInv'
<1>1. /\ queue' = <<>> /\ batch' = <<>> /\ pending' = Ready /\ guard' = "free"
      /\ drops' = NoLoss /\ saved' = NoLoss /\ lost' = dropped.all /\ sent' = 0 /\ kept' = 0
      /\ flushed' = [ok |-> FALSE, mark |-> 0, kept |-> 0]
      /\ reading' = [on |-> FALSE, seen |-> 0, lost |-> 0] /\ report' = [drops |-> 0, lost |-> 0]
      /\ perMinute' = perMinute /\ window' = window /\ order' = order /\ cursor' = cursor /\ meter' = meter
      /\ dropped' = dropped /\ credential' = credential /\ minute' = minute
      /\ fuel > 0 /\ fuel' = fuel - 1
  BY DEF TelCrash, tables
<1>2. fuel' \in Nat /\ dropped' \in TelCounter /\ minute' \in Minutes /\ lost' = dropped'.all
  BY <1>1 DEF TelInv, TelMemoryTypes, TelTableTypes
<1>3. /\ TelMemoryTypes' /\ EventsOK' /\ LocksOK' /\ DropsAccounted' /\ EventsAccounted'
      /\ pending'.at = "select" /\ pending'.now = 0
  <2>1. Fresh'
    BY <1>1, <1>2 DEF Fresh
  <2>2. FreshAccounts'
    BY <2>1, FreshMemory, PTL
  <2> QED
    BY <2>2 DEF FreshAccounts
<1>4. TelTableTypes' /\ WindowsExact' /\ TotalsOK' /\ MetersOwned'
  BY <1>1, <1>2, TablesFrame
<1>5. CursorsOK'
  <2>1. minute' \in Nat /\ minute <= minute' /\ 0 <= minute'
    BY <1>1, TelNumbers
  <2> QED
    BY <1>1, <1>3, <2>1, CursorsFrame
<1> QED
  BY <1>3, <1>4, <1>5 DEF TelInv

\* Nothing changes.
LEMMA TelStutters ==
    ASSUME TelInv, UNCHANGED telVars
    PROVE  TelInv'
<1>1. /\ queue' = queue /\ batch' = batch /\ pending' = pending /\ perMinute' = perMinute /\ window' = window
      /\ order' = order /\ cursor' = cursor /\ meter' = meter /\ credential' = credential /\ guard' = guard
      /\ fuel' = fuel /\ sent' = sent /\ drops' = drops /\ saved' = saved /\ reading' = reading /\ report' = report
      /\ dropped' = dropped /\ lost' = lost /\ kept' = kept /\ flushed' = flushed /\ minute' = minute
  BY DEF telVars, tables, readerVars
<1>2. TelMemoryTypes' /\ EventsOK'
  BY <1>1, MemoryFrame DEF TelInv, TelMemoryTypes
<1>3. TelTableTypes' /\ WindowsExact' /\ TotalsOK' /\ MetersOwned'
  <2>1. dropped' \in TelCounter
    BY <1>1 DEF TelInv, TelTableTypes
  <2> QED
    BY <1>1, <2>1, TablesFrame
<1>4. CursorsOK'
  BY <1>1, CursorsStay
<1>5. Unsaved' = Unsaved
  BY <1>1 DEF Unsaved
<1>6. LocksOK' /\ DropsAccounted' /\ EventsAccounted'
  BY <1>1, <1>5 DEF TelInv, LocksOK, DropsAccounted, EventsAccounted
<1> QED
  BY <1>2, <1>3, <1>4, <1>6 DEF TelInv


-----------------------------------------------------------------------------
(* The theorem.                                                            *)
LEMMA TelInitially == TelInit => TelInv
<1> SUFFICES ASSUME TelInit PROVE TelInv
  OBVIOUS
<1>1. /\ queue = <<>> /\ batch = <<>> /\ pending = Ready /\ drops = NoLoss /\ saved = NoLoss /\ dropped = NoLoss
      /\ perMinute = [m \in Minutes |-> [d \in Dims |-> 0]]
      /\ window = [w \in Windows |-> [d \in Dims |-> 0]] /\ order = {}
      /\ cursor = [w \in Windows |-> <<-w, PastAll>>]
      /\ meter = [m \in Minutes |-> 0] /\ credential = TRUE
      /\ guard = "free" /\ minute = 0 /\ fuel = MaxEvents
      /\ lost = 0 /\ sent = 0 /\ kept = 0 /\ flushed = [ok |-> FALSE, mark |-> 0, kept |-> 0]
      /\ reading = [on |-> FALSE, seen |-> 0, lost |-> 0] /\ report = [drops |-> 0, lost |-> 0]
  BY DEF TelInit
<1>2. /\ MaxMinute \in Nat /\ MaxEvents \in Nat /\ PastAll \in Nat /\ \A w \in Windows : w \in Int
      /\ NoLoss \in TelCounter /\ NoLoss.all = 0
  BY TelemetryAssumption DEF PastAll, NoLoss, TelCounter
<1>3. /\ TelMemoryTypes /\ EventsOK /\ LocksOK /\ DropsAccounted /\ EventsAccounted
      /\ pending.at = "select" /\ pending.now = 0
  <2>1. minute \in Minutes
    BY <1>1, <1>2 DEF Minutes
  <2> QED
    BY <1>1, <1>2, <2>1, FreshMemory DEF Fresh, FreshAccounts
<1>4. TelTableTypes
  BY <1>1, <1>2 DEF TelTableTypes
<1>5. WindowsExact
  <2>1. ASSUME NEW w \in Windows, NEW d \in Dims PROVE window[w][d] = SumBehind(w, d)
    <3> DEFINE S == {n \in Minutes : Behind(cursor[w], n, d)}
               f == [m \in S |-> 0]
    <3>1. [m \in S |-> perMinute[m][d]] = f /\ S \in SUBSET Minutes
      BY <1>1
    <3>2. f = [m \in S |-> 0] /\ SumBehind(w, d) = SumOf(f)
      BY <3>1 DEF SumBehind
    <3> HIDE DEF f, S
    <3>3. SumOf(f) = 0
      BY <3>1, <3>2, EmptyTables
    <3> QED
      BY <1>1, <3>2, <3>3
  <2>2. order = {e \in {<<w, d, window[w][d]>> : w \in Windows, d \in Dims} : e[3] > 0}
    BY <1>1
  <2> QED
    BY <2>1, <2>2 DEF WindowsExact
<1>6. TotalsOK
  <2> SUFFICES ASSUME NEW m \in Minutes PROVE perMinute[m][0] = SumOf([d \in 1..ModelCount |-> perMinute[m][d]])
    BY DEF TotalsOK
  <2> DEFINE models == 1..ModelCount
             f == [d \in models |-> 0]
  <2>1. models \in SUBSET Dims /\ 0 \in Dims
    BY TelemetryAssumption DEF Dims
  <2>2. [d \in models |-> perMinute[m][d]] = f /\ perMinute[m][0] = 0
    BY <1>1, <2>1
  <2>3. f = [d \in models |-> 0]
    OBVIOUS
  <2> HIDE DEF f, models
  <2>4. SumOf(f) = 0
    BY <2>1, <2>3, EmptyTables
  <2> QED
    BY <2>2, <2>4 DEF models
<1>7. CursorsOK
  <2>1. \A w \in Windows : cursor[w][1] = 0 - w /\ cursor[w][2] = PastAll
    BY <1>1, <1>2
  <2>2. \A w \in Windows : cursor[w][1] <= minute - w
    BY <1>1, <1>2, <2>1
  <2>3. \A v, w \in Windows : w < v => NotAfter(cursor[v], cursor[w])
    BY <1>2, <2>1 DEF NotAfter
  <2> QED
    BY <1>1, <1>3, <2>2, <2>3 DEF CursorsOK
<1>8. MetersOwned
  BY <1>1 DEF MetersOwned
<1> QED
  BY <1>3, <1>4, <1>5, <1>6, <1>7, <1>8 DEF TelInv

\* The invariant is inductive: one case per action.
LEMMA TelInductive == TelInv /\ [TelNext]_telVars => TelInv'
<1> SUFFICES ASSUME TelInv, [TelNext]_telVars PROVE TelInv'
  OBVIOUS
<1>1. CASE \E d \in 1..ModelCount : Enqueue("stat", d)
  <2>1. PICK d \in 1..ModelCount : Enqueue("stat", d)
    BY <1>1
  <2>2. d \in Dims
    BY TelemetryAssumption DEF Dims
  <2> QED
    BY <2>1, <2>2, EnqueueKeeps
<1>2. CASE Enqueue("meter", 0)
  <2>1. 0 \in Dims
    BY TelemetryAssumption DEF Dims
  <2> QED
    BY <1>2, <2>1, EnqueueKeeps
<1>3. CASE \E kind \in {"flush", "clear"} : Ask(kind)
  BY <1>3, AskKeeps
<1>4. CASE Receive
  BY <1>4, ReceiveKeeps
<1>5. CASE FullBatch \/ ReceiveFlush \/ ReceiveClear \/ FlushTick \/ MaintenanceTick
  BY <1>5, BatchStepsKeep
<1>6. CASE DropsPersisted
  BY <1>6, DeltaReadKeeps, DeltaCommitKeeps, DeltaFailsKeeps, DeltaPublishKeeps, DoneKeeps DEF DropsPersisted
<1>7. CASE Cleared
  BY <1>7, ClearCommitKeeps, ClearResetKeeps, DoneKeeps DEF Cleared
<1>8. CASE Expired
  BY <1>8, ExpireKeeps, DoneKeeps, RemoveKeeps DEF Expired
<1>9. CASE ReportBegin \/ ReportEnd \/ DeleteCredential
  BY <1>9, ReportBeginKeeps, ReportEndKeeps, DeleteKeeps
<1>10. CASE TelTick \/ TelCrash
  BY <1>10, TickKeeps, CrashKeeps
<1>11. CASE UNCHANGED telVars
  BY <1>11, TelStutters
<1> QED
  BY <1>1, <1>2, <1>3, <1>4, <1>5, <1>6, <1>7, <1>8, <1>9, <1>10, <1>11 DEF TelNext

\* Figures called current are those of the last w minutes, by model.
LEMMA FiguresExact == TelInv => CurrentFiguresExact
<1> SUFFICES ASSUME TelInv, NEW w \in Windows, AggregationCurrent(w)
             PROVE  Total(w, 0) = SumSince(minute - w, 0) /\ Total(w, 0) = SumOfTop(w)
  BY DEF CurrentFiguresExact
<1> DEFINE first == minute - w
           rows == {n \in Minutes : n > first}
           models == 1..ModelCount
           cells == [m \in rows |-> [d \in models |-> perMinute[m][d]]]
           byModel == [d \in models |-> window[w][d]]
           top == TopDimensions(w)
           shown == [d \in top |-> window[w][d]]
<1>1. /\ w \in Int /\ minute \in Nat /\ first \in Int /\ ModelCount \in Nat /\ PastAll = ModelCount + 1
      /\ models \subseteq Dims /\ 0 \in Dims /\ \A n \in Minutes : n \in Int
  <2>1. minute \in Nat
    BY TelNumbers
  <2>2. ModelCount \in Nat /\ w \in Int /\ MaxMinute \in Nat
    BY TelemetryAssumption
  <2> QED
    BY <2>1, <2>2 DEF PastAll, Dims, Minutes
<1>2. /\ perMinute \in [Minutes -> [Dims -> Nat]] /\ window \in [Windows -> [Dims -> Nat]]
      /\ cursor[w][1] \in Int
  <2>1. TelTableTypes
    BY DEF TelInv
  <2> QED
    BY <2>1, CursorKnown DEF TelTableTypes
<1>3. cursor[w][1] = first /\ cursor[w][2] = PastAll
  <2>1. cursor[w][1] <= first
    BY DEF TelInv, CursorsOK
  <2> QED
    BY <1>1, <1>2, <2>1 DEF AggregationCurrent
<1>4. ASSUME NEW d \in Dims PROVE window[w][d] = SumOf([m \in rows |-> perMinute[m][d]])
  <2>1. d \in Int /\ ~(d > PastAll)
    BY <1>1 DEF Dims
  <2>2. {n \in Minutes : Behind(cursor[w], n, d)} = rows
    BY <1>1, <1>3, <2>1 DEF Behind
  <2>3. window[w][d] = SumBehind(w, d)
    BY DEF TelInv, WindowsExact
  <2> QED
    BY <2>2, <2>3 DEF SumBehind
<1>5. Total(w, 0) = SumSince(minute - w, 0)
  BY <1>1, <1>4 DEF Total, SumSince
<1>6. [m \in rows |-> perMinute[m][0]] = [m \in rows |-> SumOf(cells[m])]
  <2>1. \A m \in rows : perMinute[m][0] = SumOf(cells[m])
    BY DEF TelInv, TotalsOK
  <2> QED
    BY <2>1
<1>7. byModel = [d \in models |-> SumOf([m \in rows |-> cells[m][d]])]
  <2>1. ASSUME NEW d \in models PROVE byModel[d] = SumOf([m \in rows |-> cells[m][d]])
    <3>1. [m \in rows |-> cells[m][d]] = [m \in rows |-> perMinute[m][d]]
      OBVIOUS
    <3> QED
      BY <1>1, <1>4, <3>1
  <2> QED
    BY <2>1
<1>8. cells \in [rows -> [models -> Nat]] /\ IsFiniteSet(rows) /\ IsFiniteSet(models)
  <2>1. rows \in SUBSET Minutes
    OBVIOUS
  <2>2. IsFiniteSet(rows) /\ IsFiniteSet(models)
    <3> HIDE DEF rows
    <3> QED
      BY <2>1, TelFinite
  <2> QED
    BY <1>1, <1>2, <2>2
<1>9. SumOf([m \in rows |-> SumOf(cells[m])]) = SumOf([d \in models |-> SumOf([m \in rows |-> cells[m][d]])])
  <2>1. PICK c, M, D : c = cells /\ M = rows /\ D = models
    OBVIOUS
  <2> HIDE DEF cells, rows, models
  <2>2. c \in [M -> [D -> Nat]] /\ IsFiniteSet(M) /\ IsFiniteSet(D)
    BY <1>8, <2>1
  <2>3. SumOf([m \in M |-> SumOf(c[m])]) = SumOf([d \in D |-> SumOf([m \in M |-> c[m][d]])])
    BY <2>2, SumExchange
  <2> QED
    BY <2>1, <2>3
<1>10. Total(w, 0) = SumOf(byModel)
  <2>1. Total(w, 0) = SumOf([m \in rows |-> perMinute[m][0]])
    BY <1>1, <1>4 DEF Total
  <2> HIDE DEF cells, byModel, rows, models
  <2> QED
    BY <1>6, <1>7, <1>9, <2>1
<1>11. top = {d \in models : window[w][d] > 0}
  <2>1. order = {e \in {<<v, d, window[v][d]>> : v \in Windows, d \in Dims} : e[3] > 0}
    BY DEF TelInv, WindowsExact
  <2>2. ASSUME NEW d \in top PROVE d \in models /\ window[w][d] > 0
    <3>1. PICK e \in order : e[1] = w /\ e[2] = d /\ d # 0
      BY DEF TopDimensions
    <3>2. PICK v \in Windows, b \in Dims : e = <<v, b, window[v][b]>> /\ e[3] > 0
      BY <2>1, <3>1
    <3>3. v = w /\ b = d /\ window[w][d] > 0
      BY <3>1, <3>2
    <3> QED
      BY <1>1, <3>1, <3>2, <3>3 DEF Dims
  <2>3. ASSUME NEW d \in models, window[w][d] > 0 PROVE d \in top
    <3> DEFINE e == <<w, d, window[w][d]>>
    <3>1. e \in order
      BY <1>1, <2>1, <2>3
    <3>2. e[1] = w /\ e[2] = d /\ d # 0
      BY <1>1
    <3> HIDE DEF e
    <3> QED
      BY <3>1, <3>2 DEF TopDimensions
  <2> HIDE DEF top, models
  <2> QED
    BY <2>2, <2>3
<1>12. byModel \in [models -> Nat] /\ top \in SUBSET models /\ (\A d \in models \ top : byModel[d] = 0)
       /\ shown = [d \in top |-> byModel[d]]
  <2>1. \A d \in models : window[w][d] \in Nat
    BY <1>1, <1>2
  <2> HIDE DEF top
  <2> QED
    BY <1>11, <2>1
<1>13. SumOfTop(w) = SumOf(shown)
  BY DEF SumOfTop, Total
<1> HIDE DEF byModel, shown, top, models, cells, rows
<1>14. SumOf(byModel) = SumOf([d \in top |-> byModel[d]])
  BY <1>8, <1>12, SumSupport
<1> QED
  BY <1>5, <1>10, <1>12, <1>13, <1>14

\* The invariant says what the run checks.
LEMMA TelInvSays == TelInv => TelemetrySound
<1> SUFFICES ASSUME TelInv PROVE TelemetrySound
  OBVIOUS
<1>1. TelTypeOK
  <2>1. order \subseteq Windows \X Dims \X (Nat \ {0})
    <3> SUFFICES ASSUME NEW e \in order PROVE e \in Windows \X Dims \X (Nat \ {0})
      OBVIOUS
    <3>1. e \in {<<w, d, window[w][d]>> : w \in Windows, d \in Dims} /\ e[3] > 0
      BY DEF TelInv, WindowsExact
    <3>2. PICK w \in Windows, d \in Dims : e = <<w, d, window[w][d]>>
      BY <3>1
    <3>3. window[w][d] \in Nat
      BY DEF TelInv, TelTableTypes
    <3>4. window[w][d] \in Nat \ {0}
      BY <3>1, <3>2, <3>3
    <3> QED
      BY <3>2, <3>4
  <2>2. Len(queue) <= QueueCap /\ Len(batch) <= BatchCap
    BY DEF TelInv, TelMemoryTypes
  <2> QED
    BY <2>1, <2>2 DEF TelInv, LocksOK, TelTypeOK
<1>2. WindowsExact /\ MetersOwned
  BY DEF TelInv
<1>3. ReportedDropsExact
  BY DEF TelInv, DropsAccounted, ReportedDropsExact
<1>4. FlushMeansSaved
  <2>1. flushed.mark \in Nat /\ flushed.kept \in Nat /\ (flushed.ok => flushed.mark <= flushed.kept)
    BY DEF TelInv, TelMemoryTypes, EventsAccounted
  <2> QED
    BY <2>1 DEF FlushMeansSaved
<1>5. CurrentFiguresExact
  BY FiguresExact
<1> QED
  BY <1>1, <1>2, <1>3, <1>4, <1>5 DEF TelemetrySound

\* Statistics are what happened (infra/telemetry): whatever pages, failures,
\* clears, restarts and removals came between, the rolling windows and the
\* figures a page calls current equal the stored events, every drop is
\* reported once, a flush that says saved has saved, and no meter is without
\* its credential.
THEOREM TelemetryIsSound == TelSpec => []TelemetrySound
<1>1. TelInit => TelInv
  BY TelInitially
<1>2. TelInv /\ [TelNext]_telVars => TelInv'
  BY TelInductive
<1>3. TelInv => TelemetrySound
  BY TelInvSays
<1> QED
  BY <1>1, <1>2, <1>3, PTL DEF TelSpec
=============================================================================
