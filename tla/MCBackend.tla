------------------------------ MODULE MCBackend ------------------------------
(***************************************************************************)
(* What the dashboard's requests reach: a restored database, the storage   *)
(* engine below it, the gate that hands out slots, and a chat turn.  A     *)
(* behaviour moves one of them, `focus`; the others stay in one initial    *)
(* state and ask for no fairness.                                          *)
(***************************************************************************)
EXTENDS BackupArchive, StorageEngine, DynamicSemaphore, WorkspaceChat, TLC

CONSTANTS p1, p2, x1, m1, k1

VARIABLE focus

MCOwner == [k \in Keys |-> p1]

Row(stored, deleting, phase, ks, ms) ==
    [stored |-> stored, deleting |-> deleting, phase |-> phase, prefix |-> IF stored THEN x1 ELSE None,
     strategy |-> "priority", keyCount |-> ks, modelCount |-> ms]
File(row, count, models, ts, ks, disabled, invalid) ==
    [provider |-> (p1 :> row) @@ (p2 :> NoProvider), count |-> count,
     models |-> [p \in Providers |-> [m \in Models |-> IF p = p1 THEN models ELSE None]],
     targets |-> ts,
     keys |-> [p \in Providers |->
        IF p = p1 THEN [record |-> ks, disabled |-> disabled, invalid |-> invalid]
        ELSE KeyRow(NoKeys)]]

\* A live provider whose key is disabled, one whose key was rejected, one
\* whose deletion was under way, a key without its provider, which no import
\* accepts, and an empty database.
MCBackupFiles ==
    {File(Row(TRUE, FALSE, None, 1, 1), 1, "import", {<<p1, m1>>}, {k1}, {k1}, {}),
     File(Row(TRUE, FALSE, None, 1, 1), 1, "import", {}, {k1}, {}, {k1}),
     File(Row(TRUE, TRUE, "models", 0, 1), 0, "import", {}, {}, {}, {}),
     File(NoProvider, 0, "import", {}, {k1}, {}, {}),
     File(NoProvider, 0, None, {}, {}, {}, {})}

BackendInit ==
    /\ focus \in {"archive", "engine", "gate", "chat"}
    /\ CatInit
    /\ StInit /\ (focus = "engine" \/ need = [o \in StWriters |-> Min(Needs)])
    /\ Init /\ (focus = "gate" \/ limit = 0)
    /\ ChatInit /\ (focus = "chat" \/ (source.row = "ready" /\ source.usable))

BackendNext ==
    \/ focus = "archive" /\ BackNext /\ UNCHANGED <<focus, stVars, vars, chatVars>>
    \/ focus = "engine" /\ StNext /\ UNCHANGED <<focus, catVars, vars, chatVars>>
    \/ focus = "gate" /\ Next /\ UNCHANGED <<focus, catVars, stVars, chatVars>>
    \/ focus = "chat" /\ ChatNext /\ UNCHANGED <<focus, catVars, stVars, vars>>

BackendSpec ==
    /\ BackendInit /\ [][BackendNext]_<<focus, catVars, stVars, vars, chatVars>>
    /\ BackFairness /\ Fairness /\ ChatFairness
    /\ \A o \in StOps : WF_stVars(focus = "engine" /\ StStep(o))
==============================================================================
