----------------------------- MODULE ComboGraph -----------------------------
(***************************************************************************)
(* Combos (stored routes) whose targets may be other combos.               *)
(*   admin/combos/mod.rs         create, update and delete                 *)
(*   admin/combos/references.rs  the walk that validates a saved combo     *)
(*   admin/combos/storage.rs     rows and reverse index of one combo       *)
(*   gateway/request_preparation.rs  expansion of a combo for a request    *)
(*                                                                         *)
(* The validator and the gateway walk the same graph with two different    *)
(* algorithms.  A save reads the graph twice: once before its transaction  *)
(* for a precise answer, once inside it, where it decides.                 *)
(***************************************************************************)
EXTENDS Integers, FiniteSets, Sequences, SequencesExt

CONSTANTS
    Combos,          \* ids of combos
    Providers,       \* ids of providers, the targets that are no combos
    MaxDepth,        \* MAX_COMBO_NESTING_DEPTH
    MaxTargets,      \* MAX_ROUTE_TARGETS
    Shapes,          \* the target lists a save may carry
    SlowSaves        \* the bodies a save may be interrupted with, <<id, rows>>

ASSUME ComboBounds == MaxDepth \in Nat /\ MaxTargets \in Nat \ {0}

VARIABLES
    combos,          \* the stored combos: table Routes with RouteTargets
    comboIndex,      \* RouteTargetComboIndex: pairs <<child, parent>>
    saving           \* a save between its pre-check and its transaction

comboVars == <<combos, comboIndex, saving>>

(***************************************************************************)
(* A row points to a provider or to a combo and may be switched off.  A    *)
(* combo is on, off, or on without accepting the protocol of the requests  *)
(* considered here ("mute").                                               *)
(***************************************************************************)
RowTo(t, enabled) == [to |-> t, enabled |-> enabled]
ComboStates == {"on", "mute", "off"}
NoCombo == [stored |-> FALSE, state |-> "off", rows |-> <<>>]
Idle == [id |-> "none", rows |-> <<>>]

ComboEnabled(g, c) == g[c].stored /\ g[c].state # "off"
EnabledRows(rows) == SelectSeq(rows, LAMBDA r : r.enabled)
ComboRefs(rows) == {r.to : r \in {r \in ToSet(rows) : r.to \in Combos}}

(***************************************************************************)
(* The walk of references.rs.  Walk(g)[path, c] summarises what combo c    *)
(* contributes below the combos of path: the number of its expanded        *)
(* provider targets and the length of its longest chain, or a failure.     *)
(* The memo of the code only avoids walking a shared combo twice.          *)
(***************************************************************************)
Failed == [ok |-> FALSE, leaves |-> 0, depth |-> 0]

AddChild(sum, child) ==
    IF sum.ok /\ child.ok
    THEN [ok |-> TRUE, leaves |-> sum.leaves + child.leaves,
          depth |-> IF child.depth + 1 > sum.depth THEN child.depth + 1 ELSE sum.depth]
    ELSE Failed

\* Mutant: the chain below a combo is only bounded on the way down.
CappedByTargets(sum) == IF sum.ok /\ sum.leaves <= MaxTargets THEN sum ELSE Failed
Capped(sum) ==
    IF sum.ok /\ sum.depth <= MaxDepth /\ sum.leaves <= MaxTargets THEN sum ELSE Failed

Walk(g) ==
    LET visit[pc \in (SUBSET Combos) \X Combos] ==
            LET path == pc[1]
                c == pc[2]
                step(sum, row) ==
                    IF row.to \in Providers
                    THEN [sum EXCEPT !.leaves = @ + 1]
                    ELSE AddChild(sum, visit[<<path \cup {c}, row.to>>])
            IN CASE c \in path \/ ~g[c].stored -> Failed
                 [] g[c].stored /\ c \notin path /\ g[c].state = "off" ->
                        [ok |-> TRUE, leaves |-> 0, depth |-> 0]
                 [] OTHER ->
                        IF Cardinality(path) > MaxDepth THEN Failed
                        ELSE Capped(FoldLeft(step, [ok |-> TRUE, leaves |-> 0, depth |-> 0],
                                             EnabledRows(g[c].rows)))
    IN visit

\* The pending combo is walked from the body of the request, as if it were
\* enabled whatever the body says.
Pending(g, c, rows) == [g EXCEPT ![c] = [stored |-> TRUE, state |-> "on", rows |-> rows]]
ValidReferences(g, c, rows) == Walk(Pending(g, c, rows))[<<{}, c>>].ok

-----------------------------------------------------------------------------
(***************************************************************************)
(* The expansion of request_preparation.rs: rows in stored order, a combo  *)
(* replaced in place by its own targets.  The first problem ends it.       *)
(***************************************************************************)
\* One more provider target, and check_expanded.
PushTarget(out, t) ==
    [targets |-> Append(out.targets, t),
     issue |-> IF Len(out.targets) >= MaxTargets THEN "too_many" ELSE "none"]

Flatten(g) ==
    LET expand[a \in (SUBSET Combos) \X Combos \X Seq(Providers)] ==
            LET path == a[1] \cup {a[2]}
                rows == g[a[2]].rows
                step(out, row) ==
                    CASE out.issue # "none" \/ ~row.enabled -> out
                      [] out.issue = "none" /\ row.enabled /\ row.to \in Providers ->
                            PushTarget(out, row.to)
                      [] OTHER ->
                            IF row.to \in path THEN [out EXCEPT !.issue = "cycle"]
                            ELSE IF Cardinality(path) > MaxDepth
                                 THEN [out EXCEPT !.issue = "depth"]
                            ELSE IF ~g[row.to].stored THEN [out EXCEPT !.issue = "missing"]
                            ELSE IF g[row.to].state # "on" THEN out
                            ELSE expand[<<path, row.to, out.targets>>]
            IN IF Len(rows) > MaxTargets
               THEN [targets |-> a[3], issue |-> "too_many"]
               ELSE FoldLeft(step, [targets |-> a[3], issue |-> "none"], rows)
    IN [c \in Combos |-> expand[<<{}, c, <<>>>>]]

(***************************************************************************)
(* What a request for combo c gets: the status of the refusal, or the      *)
(* targets in the order they are tried.  scope is the set of providers of  *)
(* the API key, empty for a key without provider rules.                    *)
(***************************************************************************)
Refused(status) == [status |-> status, targets |-> <<>>]

ApplyScope(scope, targets) ==
    IF scope = {} THEN [status |-> 200, targets |-> targets]
    ELSE LET kept == SelectSeq(targets, LAMBDA p : p \in scope) IN
         IF kept = <<>> THEN Refused(403) ELSE [status |-> 200, targets |-> kept]

Resolve(g, c, scope) ==
    LET flat == Flatten(g)[c] IN
    IF ~g[c].stored \/ g[c].state # "on" THEN Refused(404)
    ELSE IF flat.issue # "none" \/ flat.targets = <<>> THEN Refused(503)
    ELSE ApplyScope(scope, flat.targets)

-----------------------------------------------------------------------------
ComboInit ==
    /\ combos = [c \in Combos |-> NoCombo]
    /\ comboIndex = {}
    /\ saving = Idle

IndexOf(c, rows) == {<<child, c>> : child \in ComboRefs(rows)}

\* save_combo: the old rows leave both tables before the new ones are put.
StoreRows(c, state, rows) ==
    /\ combos' = [combos EXCEPT ![c] = [stored |-> TRUE, state |-> state, rows |-> rows]]
    /\ comboIndex' = (comboIndex \ IndexOf(c, combos[c].rows)) \cup IndexOf(c, rows)

\* The transaction of create_item and update_item, which repeats the walk.
CommitSave(c, state, rows) ==
    /\ ValidReferences(combos, c, rows)
    /\ StoreRows(c, state, rows)

\* A save whose pre-check and transaction see the same state.
SaveCombo(c, state, rows) ==
    /\ CommitSave(c, state, rows)
    /\ UNCHANGED saving

\* validate_combo_references: the answer the client would get at once.
PreCheck(c, rows) ==
    /\ saving = Idle
    /\ ValidReferences(combos, c, rows)
    /\ saving' = [id |-> c, rows |-> rows]
    /\ UNCHANGED <<combos, comboIndex>>

CommitSlow ==
    /\ saving # Idle
    /\ CommitSave(saving.id, "on", saving.rows)
    /\ saving' = Idle

\* The graph changed since the pre-check: ensure_reference_graph answers
\* Conflict and nothing is stored.
ConflictSlow ==
    /\ saving # Idle
    /\ ~ValidReferences(combos, saving.id, saving.rows)
    /\ saving' = Idle
    /\ UNCHANGED <<combos, comboIndex>>

ReferencedBy(c) == {e \in comboIndex : e[1] = c}

DeleteCombo(c) ==
    /\ combos[c].stored
    /\ ReferencedBy(c) = {}
    /\ combos' = [combos EXCEPT ![c] = NoCombo]
    /\ comboIndex' = comboIndex \ IndexOf(c, combos[c].rows)
    /\ UNCHANGED saving

ComboNext ==
    \/ \E c \in Combos, s \in ComboStates, rows \in Shapes : SaveCombo(c, s, rows)
    \/ \E b \in SlowSaves : PreCheck(b[1], b[2])
    \/ CommitSlow
    \/ ConflictSlow
    \/ \E c \in Combos : DeleteCombo(c)

ComboSpec == ComboInit /\ [][ComboNext]_comboVars

-----------------------------------------------------------------------------
\* Stored combos, index and the interrupted save have their types.
ComboTypeOK ==
    /\ \A c \in Combos :
          /\ combos[c].stored \in BOOLEAN /\ combos[c].state \in ComboStates
          /\ combos[c].rows \in Shapes \cup {b[2] : b \in SlowSaves} \cup {<<>>}
    /\ comboIndex \subseteq Combos \X Combos
    /\ saving = Idle \/ <<saving.id, saving.rows>> \in SlowSaves

(***************************************************************************)
(* Whatever saves and deletions interleave, no enabled combo expands into  *)
(* a loop or into a combo that is not stored: the re-check inside the      *)
(* transaction (references.rs:465) and the reverse index that blocks a     *)
(* deletion (mod.rs:401) together keep the graph sound.                    *)
(***************************************************************************)
NeverCyclicNeverDangling ==
    \A c \in Combos :
        ComboEnabled(combos, c) => Flatten(combos)[c].issue \notin {"cycle", "missing"}

(***************************************************************************)
(* The reverse index names exactly the stored rows that point to a combo,  *)
(* switched off rows included: what a deletion is blocked by.              *)
(***************************************************************************)
ReverseIndexExact ==
    comboIndex = UNION {IndexOf(c, combos[c].rows) : c \in {d \in Combos : combos[d].stored}}

(***************************************************************************)
(* A combo that has just been saved can be routed: the walk that accepted  *)
(* it and the expansion of the gateway agree, as long as every combo below *)
(* declares at most MaxTargets rows (the /routes endpoint accepts more).   *)
(***************************************************************************)
FewRows == \A c \in Combos : Len(combos[c].rows) <= MaxTargets
SavedComboRoutes ==
    [][\A c \in Combos :
          combos'[c] # combos[c] /\ combos'[c].stored /\ combos'[c].state # "off" /\ FewRows'
          => Flatten(combos')[c].issue = "none"]_comboVars

(***************************************************************************)
(* The expansion is the in-place substitution it is documented to be: the  *)
(* targets of a combo are the concatenation of what its rows contribute,   *)
(* each nested combo contributing what a request to it alone would get.    *)
(***************************************************************************)
Contribution(g, row) ==
    CASE ~row.enabled -> <<>>
      [] row.enabled /\ row.to \in Providers -> <<row.to>>
      [] OTHER -> IF g[row.to].state = "on" THEN Flatten(g)[row.to].targets ELSE <<>>
ExpansionInPlace ==
    \A c \in Combos :
        ComboEnabled(combos, c) /\ Flatten(combos)[c].issue = "none"
        => Flatten(combos)[c].targets =
           FoldLeft(LAMBDA acc, row : acc \o Contribution(combos, row), <<>>, combos[c].rows)

(***************************************************************************)
(* references.rs:3 "has to stay a bounded forest: no self references, no   *)
(* cycles, bounded depth, and a flattened target count that cannot exceed  *)
(* MAX_ROUTE_TARGETS".  A save checks the graph below the saved combo and  *)
(* not the combos above it.                                                *)
(***************************************************************************)
ForestBounded ==
    \A c \in Combos :
        combos[c].stored /\ combos[c].state # "off" /\ FewRows
        => Flatten(combos)[c].issue = "none"

\* The stored combos under racing saves and deletions: no cycle, no missing
\* child, an exact reverse index, and whatever validation lets pass can be
\* expanded by the gateway, every target in its place.
CombosCorrect ==
    /\ [](ComboTypeOK /\ NeverCyclicNeverDangling /\ ReverseIndexExact /\ ExpansionInPlace)
    /\ SavedComboRoutes
=============================================================================
