-------------------------- MODULE ProviderCatalog --------------------------
(***************************************************************************)
(* The providers the administrator keeps: src/admin/providers.             *)
(*                                                                         *)
(* A provider is a record with child rows in other tables (keys, models,   *)
(* combo targets) and entries in indexes.  Every handler is one LMDB write *)
(* transaction, some after an earlier read; a deletion is a tombstone in   *)
(* the record followed by transactions of at most Batch rows each, run by  *)
(* the handler and by a recovery worker alike, so that a restart between   *)
(* two of them loses nothing.                                              *)
(*                                                                         *)
(* Rows of a table are sets of the ids they carry.  Names, URLs, headers,  *)
(* protocols and the enabled flag of a provider are left out: nothing here *)
(* depends on them.  Of a key, its row says whether it is enabled and      *)
(* valid; the availability index is kept beside the row.                   *)
(*                                                                         *)
(* At most one of the handlers that read before they write is under way    *)
(* (Quiet): they meet the others through the tables.                       *)
(***************************************************************************)
EXTENDS Naturals, FiniteSets

CONSTANTS Providers, ModelPrefixes, Models, Keys,
          Owner,        \* the provider each key id is made for
          Batch,        \* PROVIDER_DELETE_BATCH_SIZE
          ChangingKeys, \* bound: the keys that are reported on, switched or
                        \* deleted one by one (any key in the code)
          None

ASSUME CatalogAssumption ==
    /\ IsFiniteSet(Providers) /\ IsFiniteSet(Models) /\ IsFiniteSet(Keys)
    /\ Owner \in [Keys -> Providers] /\ ChangingKeys \subseteq Keys
    /\ Batch \in Nat \ {0}
    /\ None \notin Providers \cup ModelPrefixes
    /\ None \notin {"import", "manual"}
    /\ None \notin [keys : SUBSET Keys, models : SUBSET Models, strategy : {"priority", "round_robin"}]

VARIABLES provider,      \* Table::Providers
          prefixIndex,   \* Indexes, provider_model_prefix/...
          deletingIndex, \* Indexes, provider_deleting/...
          providerCount, \* Meta, provider_count
          keyRows,       \* key records of each provider (those disabled, those
                         \* invalid) and their three indexes
          modelRows,     \* Table::ProviderModels: the source of each model
          modelIndex,    \* Table::ProviderModelIndex
          targets,       \* Table::RouteTargets: <<provider, model>> pairs
          targetIndex,   \* Table::RouteTargetProviderIndex
          update,        \* what an update_provider read before its transaction
          import,        \* the catalog an import is about to store
          save           \* the targets a combo save has validated

catVars == <<provider, prefixIndex, deletingIndex, providerCount, keyRows, modelRows,
             modelIndex, targets, targetIndex, update, import, save>>

Phases == {"route_targets", "api_keys", "api_key_availability", "api_key_created",
           "models", "model_indexes", "finish"}

NextPhase(ph) ==
    CASE ph = "route_targets" -> "api_keys"
      [] ph = "api_keys" -> "api_key_availability"
      [] ph = "api_key_availability" -> "api_key_created"
      [] ph = "api_key_created" -> "models"
      [] ph = "models" -> "model_indexes"
      [] OTHER -> "finish"

NoProvider == [stored |-> FALSE, deleting |-> FALSE, phase |-> None,
               prefix |-> None, strategy |-> "priority", keyCount |-> 0, modelCount |-> 0]
NoKeys == [record |-> {}, disabled |-> {}, invalid |-> {},
           order |-> {}, available |-> {}, created |-> {}]

Live(p) == provider[p].stored /\ ~provider[p].deleting     \* ensure_provider_not_deleting
KeysFor(p) == {k \in Keys : Owner[k] = p}
UsableKeys(rows) == rows.record \ (rows.disabled \cup rows.invalid)
Quiet == update = None /\ import = None /\ save = None
Stored(p) == {m \in Models : modelRows[p][m] # None}

CatInit ==
    /\ provider = [p \in Providers |-> NoProvider]
    /\ prefixIndex = [x \in ModelPrefixes |-> None]
    /\ deletingIndex = {} /\ providerCount = 0
    /\ keyRows = [p \in Providers |-> NoKeys]
    /\ modelRows = [p \in Providers |-> [m \in Models |-> None]]
    /\ modelIndex = [p \in Providers |-> {}]
    /\ targets = {} /\ targetIndex = {}
    /\ update = None /\ import = None /\ save = None

-----------------------------------------------------------------------------
(* Creation and update.                                                    *)

\* store_provider_api_key: the record and its entries in the three indexes.
WithKeys(rows, ks) ==
    [rows EXCEPT !.record = @ \cup ks, !.order = @ \cup ks,
                 !.available = @ \cup ks, !.created = @ \cup ks]

CreateProvider(p, x, ks) ==
    /\ ~provider[p].stored /\ prefixIndex[x] = None
    /\ provider' = [provider EXCEPT ![p] =
          [NoProvider EXCEPT !.stored = TRUE, !.prefix = x, !.keyCount = Cardinality(ks)]]
    /\ prefixIndex' = [prefixIndex EXCEPT ![x] = p]
    /\ keyRows' = [keyRows EXCEPT ![p] = WithKeys(@, ks)]
    /\ providerCount' = providerCount + 1
    /\ UNCHANGED <<deletingIndex, modelRows, modelIndex, targets, targetIndex, update, import, save>>

\* update_provider reads the record, then tests the new keys over the network.
\* Without a prefix in the input it will write the prefix it read here.
UpdateRead(p, x) ==
    /\ Quiet /\ Live(p)
    /\ update' = [p |-> p, prefix |-> IF x = None THEN provider[p].prefix ELSE x]
    /\ UNCHANGED <<provider, prefixIndex, deletingIndex, providerCount, keyRows, modelRows,
                   modelIndex, targets, targetIndex, import, save>>

\* Mutant: the record is rebuilt with the default strategy.
UpdateWriteResets(ks) ==
    /\ update # None /\ Live(update.p)
    /\ provider' = [provider EXCEPT ![update.p].strategy = "priority",
                                    ![update.p].keyCount = @ + Cardinality(ks \ keyRows[update.p].record)]
    /\ keyRows' = [keyRows EXCEPT ![update.p] = WithKeys(@, ks)]
    /\ update' = None
    /\ UNCHANGED <<prefixIndex, deletingIndex, providerCount, modelRows, modelIndex, targets,
                   targetIndex, import, save>>

\* The transaction rebuilds the record; the settings other handlers own
\* (strategy, counts) are taken from the record as it is now.  A new key has
\* an id nothing carries yet, also no entry a deleted key has left behind.
UpdateWrite(ks) ==
    /\ update # None
    /\ LET p == update.p
           x == update.prefix
           ok == Live(p) /\ prefixIndex[x] \in {None, p}
           new == (ks \cap KeysFor(p)) \ (keyRows[p].record \cup keyRows[p].available)
       IN IF ok
          THEN /\ provider' = [provider EXCEPT ![p].prefix = x,
                                  ![p].keyCount = @ + Cardinality(new)]
               /\ prefixIndex' = [prefixIndex EXCEPT ![provider[p].prefix] = None, ![x] = p]
               /\ keyRows' = [keyRows EXCEPT ![p] = WithKeys(@, new)]
          ELSE UNCHANGED <<provider, prefixIndex, keyRows>>
    /\ update' = None
    /\ UNCHANGED <<deletingIndex, providerCount, modelRows, modelIndex, targets, targetIndex,
                   import, save>>

SetKeyStrategy(p, s) ==
    /\ Live(p) /\ provider' = [provider EXCEPT ![p].strategy = s]
    /\ UNCHANGED <<prefixIndex, deletingIndex, providerCount, keyRows, modelRows, modelIndex,
                   targets, targetIndex, update, import, save>>

(***************************************************************************)
(* The keys of a live provider, changed by the requests that used them and *)
(* by the administrator.  The index follows what was usable before and     *)
(* after, except that a recovery puts the key back without looking at      *)
(* `enabled`: the entry of a key that is disabled may stay, and stays when *)
(* the key is deleted.                                                     *)
(***************************************************************************)
\* mark_provider_key_used
Recovered(rows, k) ==
    IF k \in rows.invalid
    THEN [rows EXCEPT !.invalid = @ \ {k}, !.available = @ \cup {k}]
    ELSE rows

\* mark_provider_key_invalid
Rejected(rows, k) ==
    [rows EXCEPT !.invalid = @ \cup {k},
                 !.available = IF k \in UsableKeys(rows) THEN @ \ {k} ELSE @]

\* update_provider_key: enabling clears `invalid`.
Switched(rows, k, on) ==
    IF on
    THEN [rows EXCEPT !.disabled = @ \ {k}, !.invalid = @ \ {k},
                      !.available = IF k \in UsableKeys(rows) THEN @ ELSE @ \cup {k}]
    ELSE [rows EXCEPT !.disabled = @ \cup {k},
                      !.available = IF k \in UsableKeys(rows) THEN @ \ {k} ELSE @]

\* delete_provider_key
Removed(rows, k) ==
    [rows EXCEPT !.record = @ \ {k}, !.disabled = @ \ {k}, !.invalid = @ \ {k},
                 !.order = @ \ {k}, !.created = @ \ {k},
                 !.available = IF k \in UsableKeys(rows) THEN @ \ {k} ELSE @]

KeyChanged(p, k, rows) ==
    /\ Live(p) /\ k \in keyRows[p].record
    /\ keyRows' = [keyRows EXCEPT ![p] = rows]
    /\ UNCHANGED <<prefixIndex, deletingIndex, providerCount, modelRows, modelIndex,
                   targets, targetIndex, update, import, save>>

ReportKey(p, k, usable) ==
    /\ KeyChanged(p, k, IF usable THEN Recovered(keyRows[p], k) ELSE Rejected(keyRows[p], k))
    /\ UNCHANGED provider

SwitchKey(p, k, on) ==
    KeyChanged(p, k, Switched(keyRows[p], k, on)) /\ UNCHANGED provider

FewerKeys(r, n) == [r EXCEPT !.keyCount = IF @ > n THEN @ - n ELSE 0]

DeleteKey(p, k) ==
    /\ KeyChanged(p, k, Removed(keyRows[p], k))
    /\ provider' = [provider EXCEPT ![p] = FewerKeys(@, 1)]

-----------------------------------------------------------------------------
(* Models.                                                                 *)

\* Mutant: an authoritative import owns the whole catalog.
MergedModelsAll(p, ms, source, authoritative) ==
    [m \in Models |-> IF m \in ms THEN source ELSE IF authoritative THEN None ELSE modelRows[p][m]]

\* store_provider_models: what the catalog of p becomes.
MergedModels(p, ms, source, authoritative) ==
    [m \in Models |->
        IF m \in modelIndex[p] /\ modelRows[p][m] = "manual" THEN "manual"
        ELSE IF m \in ms THEN source
        ELSE IF m \in modelIndex[p] /\ authoritative THEN None ELSE modelRows[p][m]]

StoreModels(p, rows) ==
    LET kept == {m \in Models : rows[m] # None}
    IN /\ modelRows' = [modelRows EXCEPT ![p] = rows]
       /\ modelIndex' = [modelIndex EXCEPT ![p] = kept]
       /\ provider' = [provider EXCEPT ![p].modelCount = Cardinality(kept)]

AddManualModel(p, m) ==
    /\ Live(p) /\ StoreModels(p, MergedModels(p, {m}, "manual", FALSE))
    /\ UNCHANGED <<prefixIndex, deletingIndex, providerCount, keyRows, targets, targetIndex,
                   update, import, save>>

Referenced(p) == {t[2] : t \in {u \in targetIndex : u[1] = p}}

DeleteModel(p, m) ==
    /\ Live(p) /\ m \in modelIndex[p] /\ m \notin Referenced(p)
    /\ modelRows' = [modelRows EXCEPT ![p][m] = None]
    /\ modelIndex' = [modelIndex EXCEPT ![p] = @ \ {m}]
    /\ provider' = [provider EXCEPT ![p].modelCount = IF @ > 0 THEN @ - 1 ELSE 0]
    /\ UNCHANGED <<prefixIndex, deletingIndex, providerCount, keyRows, targets, targetIndex,
                   update, import, save>>

\* import_provider_models: the record is read and the catalog is fetched ...
ImportRead(p, ms) ==
    /\ Quiet /\ Live(p)
    /\ import' = [p |-> p, models |-> ms, pruned |-> FALSE]
    /\ UNCHANGED <<provider, prefixIndex, deletingIndex, providerCount, keyRows, modelRows,
                   modelIndex, targets, targetIndex, update, save>>

\* ... then, for one kind of adapter, imported rows that no combo uses are
\* pruned (those of them the adapter no longer supports) ...
PrunableModels(p, ms) ==
    {m \in modelIndex[p] : m \notin ms \cup Referenced(p) /\ modelRows[p][m] # "manual"}

PruneModels(p, gone) ==
    /\ modelRows' = [modelRows EXCEPT ![p] = [m \in Models |-> IF m \in gone THEN None ELSE @[m]]]
    /\ modelIndex' = [modelIndex EXCEPT ![p] = @ \ gone]
    /\ provider' = [provider EXCEPT ![p].modelCount =
                        IF @ > Cardinality(gone) THEN @ - Cardinality(gone) ELSE 0]

ImportPrune ==
    /\ import # None /\ ~import.pruned /\ Live(import.p)
    /\ \E gone \in SUBSET PrunableModels(import.p, import.models) : PruneModels(import.p, gone)
    /\ import' = [import EXCEPT !.pruned = TRUE]
    /\ UNCHANGED <<prefixIndex, deletingIndex, providerCount, keyRows, targets, targetIndex,
                   update, save>>

\* Mutant: the transaction trusts the read before the network call.
ImportStoreBlind(authoritative) ==
    /\ import # None
    /\ StoreModels(import.p, MergedModels(import.p, import.models, "import", authoritative))
    /\ import' = None
    /\ UNCHANGED <<prefixIndex, deletingIndex, providerCount, keyRows, targets, targetIndex,
                   update, save>>

\* ... and in a transaction of its own the catalog is merged, unless the
\* provider is gone or going by now.
ImportStore(authoritative) ==
    /\ import # None
    /\ IF Live(import.p)
       THEN StoreModels(import.p, MergedModels(import.p, import.models, "import", authoritative))
       ELSE UNCHANGED <<provider, modelRows, modelIndex>>
    /\ import' = None
    /\ UNCHANGED <<prefixIndex, deletingIndex, providerCount, keyRows, targets, targetIndex,
                   update, save>>

-----------------------------------------------------------------------------
(* Combo targets.  One combo stands for all of them: what matters here is  *)
(* which providers its rows name.                                          *)

\* validate_saved_combo_models: a read before the transaction.
ValidateTargets(ts) ==
    /\ Quiet
    /\ \A t \in ts : provider[t[1]].stored /\ modelRows[t[1]][t[2]] # None
    /\ save' = ts
    /\ UNCHANGED <<provider, prefixIndex, deletingIndex, providerCount, keyRows, modelRows,
                   modelIndex, targets, targetIndex, update, import>>

\* save_combo: the old rows are replaced if every provider is there and live.
SaveTargets ==
    /\ save # None
    /\ IF \A t \in save : Live(t[1])
       THEN targets' = save /\ targetIndex' = save
       ELSE UNCHANGED <<targets, targetIndex>>
    /\ save' = None
    /\ UNCHANGED <<provider, prefixIndex, deletingIndex, providerCount, keyRows, modelRows,
                   modelIndex, update, import>>

-----------------------------------------------------------------------------
(* Deletion.                                                               *)

MarkDeleting(p) ==
    /\ Live(p)
    /\ provider' = [provider EXCEPT ![p].deleting = TRUE, ![p].phase = "route_targets"]
    /\ prefixIndex' = [prefixIndex EXCEPT ![provider[p].prefix] = None]
    /\ deletingIndex' = deletingIndex \cup {p}
    /\ providerCount' = IF providerCount > 0 THEN providerCount - 1 ELSE 0
    /\ UNCHANGED <<keyRows, modelRows, modelIndex, targets, targetIndex, update, import, save>>

\* One page of rows, and whether the page was the last.
Pages(rows) == {b \in SUBSET rows : Cardinality(b) = IF Cardinality(rows) <= Batch
                                                     THEN Cardinality(rows) ELSE Batch}
\* Mutant: an empty page does not count as the last one.
ExhaustedByRows(rows) == rows # {} /\ Cardinality(rows) <= Batch

Exhausted(rows) == Cardinality(rows) <= Batch

\* The record after a page: the next phase once the table is exhausted, and
\* no children left to count once the last table is.
AfterPage(r, exhausted) ==
    LET next == IF exhausted THEN NextPhase(r.phase) ELSE r.phase
    IN IF exhausted /\ next = "finish"
       THEN [r EXCEPT !.phase = next, !.keyCount = 0, !.modelCount = 0]
       ELSE [r EXCEPT !.phase = next]

Removing(p, ph) == p \in deletingIndex /\ provider[p].deleting /\ provider[p].phase = ph

DrainTargets(p) ==
    LET rows == {t \in targetIndex : t[1] = p}
    IN /\ Removing(p, "route_targets")
       /\ \E page \in Pages(rows) :
             targets' = targets \ page /\ targetIndex' = targetIndex \ page
       /\ provider' = [provider EXCEPT ![p] = AfterPage(@, Exhausted(rows))]
       /\ UNCHANGED <<keyRows, modelRows, modelIndex>>

DrainKeys(p) ==
    LET rows == keyRows[p].order
    IN /\ Removing(p, "api_keys")
       /\ \E page \in Pages(rows) :
             /\ keyRows' = [keyRows EXCEPT ![p] =
                   [record |-> @.record \ page, disabled |-> @.disabled \ page,
                    invalid |-> @.invalid \ page, order |-> @.order \ page,
                    available |-> @.available \ page, created |-> @.created \ page]]
             /\ provider' = [provider EXCEPT ![p] =
                   AfterPage(FewerKeys(@, Cardinality(page)), Exhausted(rows))]
       /\ UNCHANGED <<modelRows, modelIndex, targets, targetIndex>>

\* The two key indexes of their own: entries whose record was gone already.
DrainKeyIndex(p, ph, index) ==
    LET rows == keyRows[p][index]
    IN /\ Removing(p, ph)
       /\ \E page \in Pages(rows) : keyRows' = [keyRows EXCEPT ![p][index] = @ \ page]
       /\ provider' = [provider EXCEPT ![p] = AfterPage(@, Exhausted(rows))]
       /\ UNCHANGED <<modelRows, modelIndex, targets, targetIndex>>

DrainModels(p) ==
    LET rows == Stored(p)
    IN /\ Removing(p, "models")
       /\ \E page \in Pages(rows) :
             /\ modelRows' = [modelRows EXCEPT ![p] = [m \in Models |-> IF m \in page THEN None ELSE @[m]]]
             /\ modelIndex' = [modelIndex EXCEPT ![p] = @ \ page]
       /\ provider' = [provider EXCEPT ![p] = AfterPage(@, Exhausted(rows))]
       /\ UNCHANGED <<keyRows, targets, targetIndex>>

DrainModelIndex(p) ==
    LET rows == modelIndex[p]
    IN /\ Removing(p, "model_indexes")
       /\ \E page \in Pages(rows) : modelIndex' = [modelIndex EXCEPT ![p] = @ \ page]
       /\ provider' = [provider EXCEPT ![p] = AfterPage(@, Exhausted(rows))]
       /\ UNCHANGED <<keyRows, modelRows, targets, targetIndex>>

Drain(p) ==
    /\ \/ DrainTargets(p)
       \/ DrainKeys(p)
       \/ DrainKeyIndex(p, "api_key_availability", "available")
       \/ DrainKeyIndex(p, "api_key_created", "created")
       \/ DrainModels(p)
       \/ DrainModelIndex(p)
    /\ UNCHANGED <<prefixIndex, deletingIndex, providerCount, update, import, save>>

\* The entry of the prefix is removed once more, whoever owns it by now.
Finish(p) ==
    /\ Removing(p, "finish")
    /\ provider' = [provider EXCEPT ![p] = NoProvider]
    /\ prefixIndex' = [prefixIndex EXCEPT ![provider[p].prefix] = None]
    /\ deletingIndex' = deletingIndex \ {p}
    /\ UNCHANGED <<providerCount, keyRows, modelRows, modelIndex, targets, targetIndex,
                   update, import, save>>

\* provider_deletion_step: one transaction, of the handler or of the worker.
DeletionStep(p) == Drain(p) \/ Finish(p)

\* A restart drops what the handlers hold; the tables stay.
Restart ==
    /\ update' = None /\ import' = None /\ save' = None
    /\ UNCHANGED <<provider, prefixIndex, deletingIndex, providerCount, keyRows, modelRows,
                   modelIndex, targets, targetIndex>>

CatNext ==
    \/ \E p \in Providers, x \in ModelPrefixes : \E ks \in SUBSET KeysFor(p) : CreateProvider(p, x, ks)
    \/ \E p \in Providers, x \in ModelPrefixes \cup {None} : UpdateRead(p, x)
    \/ \E ks \in SUBSET Keys : UpdateWrite(ks)
    \/ \E p \in Providers, s \in {"priority", "round_robin"} : SetKeyStrategy(p, s)
    \/ \E p \in Providers, k \in ChangingKeys, usable \in BOOLEAN : ReportKey(p, k, usable)
    \/ \E p \in Providers, k \in ChangingKeys, on \in BOOLEAN : SwitchKey(p, k, on)
    \/ \E p \in Providers, k \in ChangingKeys : DeleteKey(p, k)
    \/ \E p \in Providers, m \in Models : AddManualModel(p, m) \/ DeleteModel(p, m)
    \/ \E p \in Providers, ms \in SUBSET Models : ImportRead(p, ms)
    \/ ImportPrune
    \/ \E authoritative \in BOOLEAN : ImportStore(authoritative)
    \/ \E t \in Providers \X Models : ValidateTargets({t})
    \/ SaveTargets
    \/ \E p \in Providers : MarkDeleting(p) \/ DeletionStep(p)
    \/ Restart

\* The recovery worker runs as long as the process does, and retries.
CatFairness == WF_catVars(\E p \in Providers : DeletionStep(p))

CatSpec == CatInit /\ [][CatNext]_catVars /\ CatFairness

-----------------------------------------------------------------------------
(* Properties.                                                             *)

CatTypeOK ==
    /\ provider \in [Providers -> [stored : BOOLEAN, deleting : BOOLEAN,
          phase : Phases \cup {None}, prefix : ModelPrefixes \cup {None},
          strategy : {"priority", "round_robin"}, keyCount : Nat, modelCount : Nat]]
    /\ prefixIndex \in [ModelPrefixes -> Providers \cup {None}]
    /\ deletingIndex \subseteq Providers /\ providerCount \in Nat
    /\ keyRows \in [Providers ->
          [record : SUBSET Keys, disabled : SUBSET Keys, invalid : SUBSET Keys,
           order : SUBSET Keys, available : SUBSET Keys, created : SUBSET Keys]]
    /\ modelRows \in [Providers -> [Models -> {None, "import", "manual"}]]
    /\ modelIndex \in [Providers -> SUBSET Models]
    /\ targets \subseteq Providers \X Models /\ targetIndex \subseteq Providers \X Models

\* When the record of a provider is gone, so is every row that names it: no
\* handler that read the provider earlier has added a row behind the pages
\* the deletion had already emptied (provider_deletion_step, deletion.rs).
NoOrphans ==
    \A p \in Providers : ~provider[p].stored =>
        /\ keyRows[p] = NoKeys /\ Stored(p) = {} /\ modelIndex[p] = {}
        /\ \A t \in targets \cup targetIndex : t[1] # p

\* A tombstone is in the index the recovery worker scans, whatever happens
\* between two pages, and nothing else is (next_provider_deletion).
DeletionResumable ==
    \A p \in Providers : p \in deletingIndex <=> provider[p].stored /\ provider[p].deleting

\* The counters kept beside the rows agree with the rows, for every order of
\* imports, manual models, keys, creations and deletions.
CountsExact ==
    /\ providerCount = Cardinality({p \in Providers : Live(p)})
    /\ \A p \in Providers : Live(p) =>
          /\ provider[p].keyCount = Cardinality(keyRows[p].record)
          /\ provider[p].modelCount = Cardinality(Stored(p))
          /\ modelIndex[p] = Stored(p)

\* A prefix in a request leads to a live provider that has that prefix:
\* resolve_provider_model_alias never finds a missing provider.
PrefixIndexSound ==
    \A x \in ModelPrefixes : prefixIndex[x] # None =>
        Live(prefixIndex[x]) /\ provider[prefixIndex[x]].prefix = x

\* Every live provider owns the entry of its prefix, so that no other
\* provider can be given the same prefix.
PrefixReserved ==
    \A p \in Providers : Live(p) => prefixIndex[provider[p].prefix] = p

\* A model the operator added by hand goes only by his own hand or with the
\* provider: no import, however late it stores its catalog, removes it.
ManualModelsKept ==
    [][\A p \in Providers, m \in Models :
         modelRows[p][m] = "manual" /\ modelRows'[p][m] # "manual"
            => DeleteModel(p, m) \/ DrainModels(p)]_catVars

\* Tombstones are worked off, unless deletions are asked for without end.
DeletionsDrain ==
    []<>(deletingIndex = {}) \/ []<><<\E p \in Providers : MarkDeleting(p)>>_catVars

\* The catalog implements a directory in which a deletion is one step.
Directory == INSTANCE ProviderDirectory WITH
    Strategies <- {"priority", "round_robin"},
    directory <- [p \in Providers |->
        IF Live(p) THEN [keys |-> keyRows[p].record, models |-> Stored(p),
                         strategy |-> provider[p].strategy]
        ELSE None]

\* Seen through its live records, the paged deletion is atomic, a provider
\* created under an id that was deleted starts without the old rows, and an
\* update keeps the settings saved while it was testing keys.
DeletionIsAtomic == Directory!Spec

\* The tables of the catalog agree with each other after every transaction of
\* every handler: rows with their provider, counters and indexes with the rows,
\* tombstones with the worker that resumes them.
CatalogSound ==
    /\ CatTypeOK
    /\ NoOrphans
    /\ DeletionResumable
    /\ CountsExact
    /\ PrefixIndexSound
=============================================================================
