--------------------------- MODULE SettingsRestore ---------------------------
(***************************************************************************)
(* What the database says and what the process runs with: the operational  *)
(* settings, the output styles, the resource limits and the dictionary the *)
(* request logs are compressed with.                                       *)
(*   state/settings.rs, admin/settings   save and publish under a lock     *)
(*   infra/db/output_styles_store.rs     compare and swap of the revision  *)
(*   admin/database/restore.rs           a backup replaces everything      *)
(*   infra/storage/dictionary.rs         training and loading              *)
(***************************************************************************)
EXTENDS Integers, FiniteSets

CONSTANTS
    Values,       \* contents of a settings document
    MaxRevision,  \* bound on the revisions saved
    Archives      \* backup files an operator may restore

\* validate_backup_payload has checked the file before anything is written:
\* its documents hold values a save could have stored.
ASSUME SettingsAssumption ==
    /\ MaxRevision \in Nat /\ "absent" \notin Values
    /\ \A file \in Archives :
          /\ file.operational \in [val : Values, rev : 0..MaxRevision]
          /\ file.styles \in Values \cup {"absent"}
          /\ file.limits \in Values

\* The two documents with a revision, and the limits, compared by value.
Docs == {"operational", "styles", "limits"}
NoDict == "none"
Trained == "trained"    \* the dictionary this installation trains
NoForm == [val |-> "none", rev |-> -1]

VARIABLES
    stored,      \* documents in the database
    active,      \* documents the process runs with
    docLock,     \* holder of each update lock: "free", "save" or "restore"
    form,        \* what an operator's open form was loaded from
    save,        \* the save in flight of each document
    restorePc,   \* the restore task
    archive,     \* the file it restores
    storedDict, activeDict,   \* dictionary in table Meta and in memory
    frames,      \* dictionaries the stored request logs were compressed with
    trainPc,     \* the maintenance tick that trains a dictionary
    topic        \* bound: the one document edited in this behaviour, or the logs

docVars == <<stored, active, docLock, form, save>>
dictVars == <<storedDict, activeDict, frames, trainPc>>
setVars == <<docVars, restorePc, archive, dictVars, topic>>

NoSave == [pc |-> "idle", val |-> "none", basis |-> NoForm]

SetInit ==
    /\ \E v \in Values : stored = [d \in Docs |-> [val |-> v, rev |-> 0]]
    /\ active = stored
    /\ docLock = [d \in Docs |-> "free"]
    /\ form = [d \in Docs |-> NoForm]
    /\ save = [d \in Docs |-> NoSave]
    /\ restorePc = "idle" /\ archive \in Archives
    /\ storedDict = NoDict /\ activeDict = NoDict /\ frames = {} /\ trainPc = "idle"
    /\ topic \in Docs \cup {"logs"}

-----------------------------------------------------------------------------
\* The form shows the active values; the limits are read from the database.
OpenForm(d) ==
    /\ IF d = "limits"
       THEN docLock[d] = "free" /\ form' = [form EXCEPT ![d] = stored[d]]
       ELSE form' = [form EXCEPT ![d] = active[d]]
    /\ UNCHANGED <<stored, active, docLock, save, restorePc, archive, dictVars>>

\* A client may leave out what the limits were (expected_saved).
Bases(d) == {form[d]} \cup (IF d = "limits" THEN {NoForm} ELSE {})

SubmitForm(d, v) ==
    /\ form[d] # NoForm /\ save[d].pc = "idle"
    /\ \E basis \in Bases(d) :
          save' = [save EXCEPT ![d] = [pc |-> "waiting", val |-> v, basis |-> basis]]
    /\ UNCHANGED <<stored, active, docLock, form, restorePc, archive, dictVars>>

LockForSave(d) ==
    /\ save[d].pc = "waiting" /\ docLock[d] = "free"
    /\ docLock' = [docLock EXCEPT ![d] = "save"]
    /\ save' = [save EXCEPT ![d].pc = "locked"]
    /\ UNCHANGED <<stored, active, form, restorePc, archive, dictVars>>

\* The limits have no revision: the dashboard sends the values it was shown,
\* and a save that sends none is not compared.
SameBasis(d) ==
    IF d = "limits" THEN save[d].basis = NoForm \/ save[d].basis.val = stored[d].val
    ELSE save[d].basis.rev = stored[d].rev

EndSave(d) ==
    /\ save' = [save EXCEPT ![d] = NoSave]
    /\ docLock' = [docLock EXCEPT ![d] = "free"]

NextRevision(d, rev) == IF d = "limits" THEN rev ELSE rev + 1

CommitDoc(d) ==
    /\ save[d].pc = "locked" /\ SameBasis(d) /\ stored[d].rev < MaxRevision
    /\ stored' = [stored EXCEPT ![d] = [val |-> save[d].val, rev |-> NextRevision(d, @.rev)]]
    /\ save' = [save EXCEPT ![d].pc = "committed"]
    /\ UNCHANGED <<active, docLock, form, restorePc, archive, dictVars>>

\* Another session changed the document (409), or the transaction failed.
RefuseDoc(d) ==
    /\ save[d].pc = "locked"
    /\ EndSave(d)
    /\ UNCHANGED <<stored, active, form, restorePc, archive, dictVars>>

\* The detached task publishes after its commit, whatever became of the
\* request, and then lets go of the lock.
PublishDoc(d) ==
    /\ save[d].pc = "committed"
    /\ active' = [active EXCEPT ![d] = stored[d]]
    /\ EndSave(d)
    /\ UNCHANGED <<stored, form, restorePc, archive, dictVars>>

-----------------------------------------------------------------------------
\* restore_application_data_with_runtime takes the three locks in this order.
LockForRestore ==
    \/ /\ restorePc = "idle" /\ docLock["limits"] = "free"
       /\ docLock' = [docLock EXCEPT !["limits"] = "restore"] /\ restorePc' = "limits"
    \/ /\ restorePc = "limits" /\ docLock["operational"] = "free"
       /\ docLock' = [docLock EXCEPT !["operational"] = "restore"] /\ restorePc' = "operational"
    \/ /\ restorePc = "operational" /\ docLock["styles"] = "free"
       /\ docLock' = [docLock EXCEPT !["styles"] = "restore"] /\ restorePc' = "locked"

BeginRestore ==
    /\ LockForRestore
    /\ UNCHANGED <<stored, active, form, save, archive, dictVars>>

\* Mutant: the styles come back with the revision of the file.
RestoredStylesOld(file, current) ==
    IF file.styles = "absent" THEN current ELSE [val |-> file.styles, rev |-> 0]
\* The output styles get a revision of their own; a file without them keeps
\* the current ones.
RestoredStyles(file, current) ==
    [val |-> IF file.styles = "absent" THEN current.val ELSE file.styles,
     rev |-> current.rev + 1]

\* replace_snapshot_entries: one transaction clears every table and writes
\* the entries of the file.
CommitRestore ==
    /\ restorePc = "locked" /\ stored["styles"].rev < MaxRevision
    /\ stored' = [operational |-> archive.operational,
                  styles |-> RestoredStyles(archive, stored["styles"]),
                  limits |-> [val |-> archive.limits, rev |-> 0]]
    /\ storedDict' = archive.dict
    /\ frames' = archive.frames
    /\ restorePc' = "committed"
    /\ UNCHANGED <<active, docLock, form, save, archive, activeDict, trainPc>>

FreeRestoreLocks == docLock' = [d \in Docs |-> IF docLock[d] = "restore" THEN "free" ELSE docLock[d]]

\* The file is refused or the transaction fails: nothing changed.
RefuseRestore ==
    /\ restorePc = "locked"
    /\ FreeRestoreLocks /\ restorePc' = "idle"
    /\ UNCHANGED <<stored, active, form, save, archive, dictVars>>

\* load_request_log_dictionary keeps the loaded copy when its read fails.
LoadDict == activeDict' \in {storedDict, activeDict}

ReloadDict ==
    /\ restorePc = "committed"
    /\ LoadDict /\ restorePc' = "loaded"
    /\ UNCHANGED <<docVars, archive, storedDict, frames, trainPc>>

PublishRestore ==
    /\ restorePc = "loaded"
    /\ active' = stored
    /\ FreeRestoreLocks /\ restorePc' = "idle"
    /\ UNCHANGED <<stored, form, save, archive, dictVars>>

-----------------------------------------------------------------------------
\* A telemetry flush compresses with the dictionary in memory.
WriteLog ==
    /\ frames' = frames \cup {activeDict}
    /\ UNCHANGED <<docVars, restorePc, archive, storedDict, activeDict, trainPc>>

\* ensure_request_log_dictionary_trained: neither memory nor the database
\* has a dictionary and there are rows to learn from.
Sample ==
    /\ trainPc = "idle" /\ activeDict = NoDict /\ storedDict = NoDict /\ frames # {}
    /\ trainPc' = "sampled"
    /\ UNCHANGED <<docVars, restorePc, archive, storedDict, activeDict, frames>>
\* The result is stored without another look at what is there by now.
StoreTrained ==
    /\ trainPc = "sampled"
    /\ storedDict' = Trained /\ trainPc' = "stored"
    /\ UNCHANGED <<docVars, restorePc, archive, activeDict, frames>>
LoadTrained ==
    /\ trainPc = "stored"
    /\ LoadDict /\ trainPc' = "idle"
    /\ UNCHANGED <<docVars, restorePc, archive, storedDict, frames>>

\* The process dies at any point and starts again from the database.
SetRestart ==
    /\ active' = stored /\ activeDict' = storedDict
    /\ docLock' = [d \in Docs |-> "free"] /\ save' = [d \in Docs |-> NoSave]
    /\ restorePc' = "idle" /\ trainPc' = "idle"
    /\ UNCHANGED <<stored, form, archive, storedDict, frames>>

DocNext(d) ==
    \/ OpenForm(d) \/ LockForSave(d) \/ CommitDoc(d) \/ RefuseDoc(d) \/ PublishDoc(d)
    \/ \E v \in Values : SubmitForm(d, v)

DictNext == WriteLog \/ Sample \/ StoreTrained \/ LoadTrained

\* The documents share nothing but the restore: editing one at a time loses
\* no interleaving of a document with it.
SetNext ==
    /\ \/ topic \in Docs /\ DocNext(topic)
       \/ topic = "logs" /\ DictNext
       \/ BeginRestore \/ CommitRestore \/ RefuseRestore \/ ReloadDict \/ PublishRestore
       \/ SetRestart
    /\ UNCHANGED topic

SetSpec == SetInit /\ [][SetNext]_setVars

-----------------------------------------------------------------------------
\* Locks, tasks and dictionaries have their types.
SetTypeOK ==
    /\ docLock \in [Docs -> {"free", "save", "restore"}]
    /\ \A d \in Docs :
          /\ stored[d].val \in Values /\ stored[d].rev \in 0..MaxRevision
          /\ (save[d].pc \in {"locked", "committed"}) = (docLock[d] = "save")
    /\ restorePc \in {"idle", "limits", "operational", "locked", "committed", "loaded"}
    /\ trainPc \in {"idle", "sampled", "stored"}

(***************************************************************************)
(* Whoever may change a document holds its lock: as soon as it is free the *)
(* process runs with what the database holds, after saves and restores     *)
(* that overlapped, failed, lost their client or died half way.            *)
(***************************************************************************)
ActiveMatchesStored == \A d \in Docs : docLock[d] = "free" => active[d] = stored[d]

(***************************************************************************)
(* A form for the output styles that was opened before a restore cannot    *)
(* overwrite what the restore brought: the values a save replaces are the  *)
(* values its form was loaded from.                                        *)
(***************************************************************************)
NoLostUpdate(d) ==
    save[d].pc = "locked" /\ save'[d].pc = "committed" => stored[d].val = save[d].basis.val
StylesNotOverwritten == [][NoLostUpdate("styles")]_setVars

(***************************************************************************)
(* operational.rs:111 promises the same of the operational settings:       *)
(* "changed in another session. Reload the latest values before saving".   *)
(* A restore puts the revision of the file back.                           *)
(***************************************************************************)
OperationalNotOverwritten == [][NoLostUpdate("operational")]_setVars

(***************************************************************************)
(* dictionary.rs:3: "A backup import reloads the runtime copy, so it       *)
(* always matches the persisted one": every stored frame can be decoded    *)
(* with the stored dictionary after a restart.                             *)
(***************************************************************************)
FramesDecodable == frames \subseteq {NoDict, storedDict}

\* When nobody holds a document's lock, what runs is what is stored, and a
\* form loaded before a restore does not overwrite the restored styles.
SettingsCorrect ==
    /\ [](SetTypeOK /\ ActiveMatchesStored)
    /\ StylesNotOverwritten
=============================================================================
