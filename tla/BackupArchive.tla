---------------------------- MODULE BackupArchive ----------------------------
(***************************************************************************)
(* A backup of the catalog, restored under the handlers that use it.       *)
(*   infra/storage/snapshot.rs, read_txn.rs  the rows an export reads      *)
(*   admin/database/validate.rs              what an import accepts        *)
(*   admin/database.rs                       indexes rebuilt from the rows *)
(*   infra/storage/write_txn.rs              one transaction replaces all  *)
(*                                                                         *)
(* An archive holds rows only.  The shapes of single records, which the    *)
(* first pass also checks, are left out: every row here is well formed.    *)
(***************************************************************************)
EXTENDS ProviderCatalog

CONSTANTS BackupFiles    \* archives an operator may upload, sound or not

\* snapshot_entries: the rows of the database as one read transaction sees
\* them.  That a key is disabled or invalid is part of its row; no index is.
KeyRow(rows) == [record |-> rows.record, disabled |-> rows.disabled, invalid |-> rows.invalid]

Snapshot ==
    [provider |-> provider, count |-> providerCount, models |-> modelRows, targets |-> targets,
     keys |-> [p \in Providers |-> KeyRow(keyRows[p])]]

HasModel(a, t) == a.models[t[1]][t[2]] # None

\* validate_backup_payload, first pass: no two providers share a prefix.
UniquePrefixes(a) ==
    \A p, q \in Providers :
        a.provider[p].stored /\ a.provider[q].stored /\ a.provider[p].prefix = a.provider[q].prefix
            => p = q
\* Second pass: keys, models and targets name providers of the file, targets
\* name models of it; a provider under deletion may have lost them.
ReferencesFound(a) ==
    /\ \A p \in Providers : ~a.provider[p].stored =>
          a.keys[p].record = {} /\ \A m \in Models : a.models[p][m] = None
    /\ \A t \in a.targets :
          /\ a.provider[t[1]].stored
          /\ HasModel(a, t) \/ a.provider[t[1]].deleting

Accepts(a) == UniquePrefixes(a) /\ ReferencesFound(a)

-----------------------------------------------------------------------------
\* rebuild_backup_secondary_indexes.  Of two providers with one prefix the
\* later entry would win: Accepts excludes it.
RebuiltPrefixes(a) ==
    [x \in ModelPrefixes |->
        IF \E p \in Providers : a.provider[p].stored /\ a.provider[p].prefix = x
        THEN CHOOSE p \in Providers : a.provider[p].stored /\ a.provider[p].prefix = x
        ELSE None]
RebuiltDeletions(a) == {p \in Providers : a.provider[p].stored /\ a.provider[p].deleting}
RebuiltKeyIndexes(row, usable) ==
    [record |-> row.record, disabled |-> row.disabled, invalid |-> row.invalid,
     order |-> row.record, created |-> row.record, available |-> usable]

\* Mutant: a key that was rejected is available again after the restore.
RebuiltKeysEnabled(a) ==
    [p \in Providers |-> RebuiltKeyIndexes(a.keys[p], a.keys[p].record \ a.keys[p].disabled)]

\* Every key in the two indexes of all keys, the enabled and valid ones in
\* the availability index.
RebuiltKeys(a) ==
    [p \in Providers |-> RebuiltKeyIndexes(a.keys[p], UsableKeys(a.keys[p]))]
RebuiltModels(a) == [p \in Providers |-> {m \in Models : a.models[p][m] # None}]

\* The restore commits while handlers hold what they read before it.
RestoreBackup(a) ==
    /\ Accepts(a)
    /\ provider' = a.provider /\ providerCount' = a.count
    /\ modelRows' = a.models /\ targets' = a.targets
    /\ prefixIndex' = RebuiltPrefixes(a) /\ deletingIndex' = RebuiltDeletions(a)
    /\ keyRows' = RebuiltKeys(a) /\ modelIndex' = RebuiltModels(a)
    /\ targetIndex' = a.targets
    /\ UNCHANGED <<update, import, save>>

\* The handlers whose rows a restore replaces; updates and strategies keep to
\* the provider's own record and are left to the catalog's own run.
BackNext ==
    \/ \E a \in BackupFiles : RestoreBackup(a)
    \/ \E p \in Providers, x \in ModelPrefixes : \E ks \in SUBSET KeysFor(p) : CreateProvider(p, x, ks)
    \/ \E p \in Providers, k \in ChangingKeys : DeleteKey(p, k)
    \/ \E p \in Providers, k \in ChangingKeys, usable \in BOOLEAN : ReportKey(p, k, usable)
    \/ \E p \in Providers, k \in ChangingKeys, on \in BOOLEAN : SwitchKey(p, k, on)
    \/ \E p \in Providers, m \in Models : AddManualModel(p, m)
    \/ \E p \in Providers, ms \in SUBSET Models : ImportRead(p, ms)
    \/ ImportStore(TRUE)
    \/ \E t \in Providers \X Models : ValidateTargets({t})
    \/ SaveTargets
    \/ \E p \in Providers : MarkDeleting(p) \/ DeletionStep(p)
    \/ Restart

BackFairness == WF_catVars(\E p \in Providers : DeletionStep(p))
BackSpec == CatInit /\ [][BackNext]_catVars /\ BackFairness

-----------------------------------------------------------------------------
(***************************************************************************)
(* At every moment the indexes a restore would rebuild from the rows are   *)
(* the ones the handlers keep up to date row by row, page by page through  *)
(* a deletion, and across restores.  Of the availability index it is what  *)
(* the gateway depends on that agrees: a restore makes no key available    *)
(* that the handlers keep out, and of the keys they have in the index it   *)
(* leaves out only those that are disabled or deleted, whose entries       *)
(* mark_provider_key_used and delete_provider_key leave behind.  (The      *)
(* prefix index differs: a tombstone has given its prefix back.)           *)
(***************************************************************************)
RebuildExact ==
    LET rebuilt == RebuiltKeys(Snapshot) IN
    /\ \A p \in Providers :
          /\ [keyRows[p] EXCEPT !.available = {}] = [rebuilt[p] EXCEPT !.available = {}]
          /\ rebuilt[p].available \subseteq keyRows[p].available
          /\ \A k \in keyRows[p].available \ rebuilt[p].available :
                k \in keyRows[p].record => k \in keyRows[p].disabled
    /\ modelIndex = RebuiltModels(Snapshot)
    /\ targetIndex = targets

(***************************************************************************)
(* Tombstones are worked off, also those that came with a file in whatever *)
(* phase its deletion had reached, unless deletions or restores go on      *)
(* without end (provider_deletion_recovery_worker).                        *)
(***************************************************************************)
RestoredDeletionsDrain ==
    \/ []<>(deletingIndex = {})
    \/ []<><<\E p \in Providers : MarkDeleting(p)>>_catVars
    \/ []<><<\E a \in BackupFiles : RestoreBackup(a)>>_catVars

(***************************************************************************)
(* snapshot.rs:3: "a snapshot rejected on import could never have been     *)
(* produced by export".                                                    *)
(***************************************************************************)
ExportImportable == Accepts(Snapshot)

\* A backup restored between any two transactions of the handlers leaves the
\* indexes the handlers would have maintained, no orphans, and deletions that
\* are resumed and end.
RestoreCorrect ==
    /\ [](RebuildExact /\ NoOrphans /\ DeletionResumable)
    /\ RestoredDeletionsDrain
=============================================================================
