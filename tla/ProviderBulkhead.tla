-------------------------- MODULE ProviderBulkhead --------------------------
(***************************************************************************)
(* The per-provider concurrency limit: the map `provider_in_flight` of     *)
(* reference-counted gates in src/state/runtime_gates.rs.                  *)
(*                                                                         *)
(* A request takes its provider's gate out of the map under the map's lock *)
(* and asks it for a slot after unlocking; deleting a provider, restoring  *)
(* a database and every lookup drop gates from the map.  A gate is one     *)
(* DynamicSemaphore object: try_acquire_owned is one step here (module     *)
(* DynamicSemaphore opens it), and the limit they share stays fixed.       *)
(***************************************************************************)
EXTENDS Naturals, FiniteSets

CONSTANTS Callers,        \* requests
          Providers,    \* provider ids
          NoProvider,   \* no provider: the task has no request
          Gates,        \* gate objects that can exist at the same time
          NoGate,       \* no gate: the provider has no map entry
          Limit,        \* gateway_provider_max_concurrency; 0 is "no limit"
          MaxTracked,   \* MAX_TRACKED_PROVIDER_SEMAPHORES
          MaxRestores   \* bound on database restores in a behaviour

ASSUME BulkheadAssumption ==
    /\ Limit \in Nat /\ MaxTracked \in Nat \ {0} /\ MaxRestores \in Nat
    /\ IsFiniteSet(Callers) /\ IsFiniteSet(Gates) /\ IsFiniteSet(Providers)
    /\ NoGate \notin Gates /\ NoProvider \notin Providers
    /\ Cardinality(Gates) > Cardinality(Callers) + MaxTracked

VARIABLES tracked,    \* provider_in_flight: Provider -> gate, or NoGate
          inUse,     \* the gates' slot counters
          callPc,         \* where each task is
          provider,   \* the provider the task's request goes to
          gate,       \* the Arc the task holds, by itself or in its permit
          restores    \* restores so far

bulkVars == <<tracked, inUse, callPc, provider, gate, restores>>

BulkInit ==
    /\ tracked = [p \in Providers |-> NoGate]
    /\ inUse = [g \in Gates |-> 0]
    /\ callPc = [t \in Callers |-> "idle"]
    /\ provider = [t \in Callers |-> NoProvider]
    /\ gate = [t \in Callers |-> NoGate]
    /\ restores = 0

TrackedProviders(m) == {p \in Providers : m[p] # NoGate}

\* Arc::strong_count of a gate in the map is more than one.
Shared(g) == \E t \in Callers : gate[t] = g

\* Mutant: a gate that is cloned but not yet asked for a slot is dropped.
RetainedActive(m) ==
    [p \in Providers |-> IF m[p] # NoGate /\ inUse[m[p]] > 0 THEN m[p] ELSE NoGate]

\* try_provider_permit first drops the gates nobody uses ...
Retained(m) ==
    [p \in Providers |->
        IF m[p] # NoGate /\ (Shared(m[p]) \/ inUse[m[p]] > 0) THEN m[p] ELSE NoGate]

\* A new DynamicSemaphore: memory nothing refers to any more.
NewGate(m) ==
    CHOOSE g \in Gates : ~Shared(g) /\ \A p \in Providers : m[p] # g

MapHasRoom(m) == Cardinality(TrackedProviders(m)) < MaxTracked

\* ... then clones the provider's gate out of the map, or creates it, ...
Lookup(t, p) ==
    LET kept == Retained(tracked)
        found == IF kept[p] # NoGate THEN kept[p] ELSE NewGate(kept)
    IN  /\ callPc[t] = "idle"
        /\ kept[p] # NoGate \/ MapHasRoom(kept)
        /\ tracked' = [kept EXCEPT ![p] = found]
        /\ inUse' = IF kept[p] # NoGate THEN inUse ELSE [inUse EXCEPT ![found] = 0]
        /\ gate' = [gate EXCEPT ![t] = found]
        /\ provider' = [provider EXCEPT ![t] = p]
        /\ callPc' = [callPc EXCEPT ![t] = "cloned"]
        /\ UNCHANGED restores

\* ... unless the map is full: the target is skipped with 503.
LookupFull(t, p) ==
    LET kept == Retained(tracked)
    IN  /\ callPc[t] = "idle"
        /\ kept[p] = NoGate /\ ~MapHasRoom(kept)
        /\ tracked' = kept
        /\ UNCHANGED <<inUse, callPc, provider, gate, restores>>

BulkHasRoom(g) == Limit = 0 \/ inUse[g] < Limit

\* try_acquire_owned on the cloned gate, after the map's lock is released.
TryAcquire(t) ==
    /\ callPc[t] = "cloned"
    /\ BulkHasRoom(gate[t])
    /\ inUse' = [inUse EXCEPT ![gate[t]] = @ + 1]
    /\ callPc' = [callPc EXCEPT ![t] = "holding"]
    /\ UNCHANGED <<tracked, provider, gate, restores>>

DropArc(t) ==
    /\ gate' = [gate EXCEPT ![t] = NoGate]
    /\ provider' = [provider EXCEPT ![t] = NoProvider]
    /\ callPc' = [callPc EXCEPT ![t] = "idle"]

BulkRefused(t) ==
    /\ callPc[t] = "cloned"
    /\ ~BulkHasRoom(gate[t])
    /\ DropArc(t)
    /\ UNCHANGED <<tracked, inUse, restores>>

\* The permit's Drop gives the slot back, then its Arc goes.
ReleaseGate(t) ==
    /\ callPc[t] = "holding"
    /\ inUse' = [inUse EXCEPT ![gate[t]] = @ - 1]
    /\ callPc' = [callPc EXCEPT ![t] = "dropping"]
    /\ UNCHANGED <<tracked, provider, gate, restores>>

DropPermit(t) ==
    /\ callPc[t] = "dropping"
    /\ DropArc(t)
    /\ UNCHANGED <<tracked, inUse, restores>>

\* clear_provider_runtime_state: the provider was deleted.
ClearProvider(p) ==
    /\ tracked[p] # NoGate
    /\ ~Shared(tracked[p]) /\ inUse[tracked[p]] = 0
    /\ tracked' = [tracked EXCEPT ![p] = NoGate]
    /\ UNCHANGED <<inUse, callPc, provider, gate, restores>>

\* clear_restored_provider_runtime_state: only gates with slots taken stay.
RestoreKeeps(g) == inUse[g] > 0

Restore ==
    /\ restores < MaxRestores
    /\ restores' = restores + 1
    /\ tracked' = [p \in Providers |->
                    IF tracked[p] # NoGate /\ RestoreKeeps(tracked[p])
                    THEN tracked[p] ELSE NoGate]
    /\ UNCHANGED <<inUse, callPc, provider, gate>>

BulkNext ==
    \/ \E t \in Callers :
        \/ \E p \in Providers : Lookup(t, p) \/ LookupFull(t, p)
        \/ TryAcquire(t) \/ BulkRefused(t) \/ ReleaseGate(t) \/ DropPermit(t)
    \/ \E p \in Providers : ClearProvider(p)
    \/ Restore

BulkSpec == BulkInit /\ [][BulkNext]_bulkVars

-----------------------------------------------------------------------------
(* Properties.                                                             *)

\* The state stays within its types; slot counters never go below zero.
BulkTypeOK ==
    /\ tracked \in [Providers -> Gates \union {NoGate}]
    /\ inUse \in [Gates -> Nat]
    /\ callPc \in [Callers -> {"idle", "cloned", "holding", "dropping"}]
    /\ provider \in [Callers -> Providers \union {NoProvider}]
    /\ gate \in [Callers -> Gates \union {NoGate}]
    /\ restores \in 0..MaxRestores

BulkPermits(p) == {t \in Callers : provider[t] = p /\ callPc[t] = "holding"}

\* Requests in flight to one provider never exceed the limit, although the
\* gate is cloned in one critical section and used outside it while other
\* lookups and deletions prune the map.
ProviderLimit ==
    Limit = 0 \/ \A p \in Providers : Cardinality(BulkPermits(p)) <= Limit

\* What a restore can cost: each one may detach at most one gate in use, so
\* it adds at most one limit's worth of requests per provider.
RestoreCost ==
    Limit = 0 \/ \A p \in Providers :
                    Cardinality(BulkPermits(p)) <= Limit * (1 + restores)

\* The map never tracks more gates than its cap, no two providers share a
\* gate, and no gate serves the requests of two providers.
GatesSeparate ==
    /\ Cardinality(TrackedProviders(tracked)) <= MaxTracked
    /\ \A t \in Callers, p \in Providers :
         gate[t] # NoGate /\ tracked[p] = gate[t] => provider[t] = p
    /\ \A p, q \in Providers : tracked[p] = tracked[q] /\ tracked[p] # NoGate => p = q

\* The map of gates in runtime_gates.rs: providers do not share a gate, and
\* only a restore can cost a limit's worth of extra requests.
GatesSound ==
    /\ BulkTypeOK
    /\ RestoreCost
    /\ GatesSeparate
=============================================================================
