---------------------------- MODULE ProviderUsage ----------------------------
(***************************************************************************)
(* Usage and quota reads of provider credentials in the dashboard: the     *)
(* cache of snapshots, its epoch, the per-credential lock that lets        *)
(* concurrent reads share one upstream answer, and the invalidation that   *)
(* follows a removed, reordered or restored credential.                    *)
(*                                                                         *)
(* A secret is a number, a snapshot is the secret it was fetched with.     *)
(* `born` of a cache entry is the epoch its refresh began in and `via` the *)
(* lock it was stored under (history variables).  Clock values are ticks.  *)
(***************************************************************************)
EXTENDS Naturals, FiniteSets

CONSTANTS UsageKeys,     \* credential ids
          Readers,       \* dashboard requests, one credential each
          MaxUsageLocks, \* MAX_PROVIDER_USAGE_LOCKS
          MaxCached,     \* MAX_PROVIDER_USAGE_CACHE_ENTRIES
          MaxAge,        \* PROVIDER_USAGE_CACHE_MAX_AGE
          Ttl, Backoff,  \* how long an answer and a failure are reused
          FetchPermits,  \* admin_provider_usage_in_flight
          MaxChanges,    \* bound: invalidations
          MaxTick        \* bound: clock

ASSUME UsageAssumption ==
    /\ {MaxUsageLocks, MaxCached, FetchPermits} \subseteq Nat \ {0}
    /\ {MaxAge, Ttl, Backoff, MaxChanges, MaxTick} \subseteq Nat
    /\ UsageKeys \cap {"none", "fallback"} = {}

VARIABLES account,  \* rows of provider_api_keys
          cached,      \* the usage cache
          epoch,       \* its epoch
          purge,       \* invalidations before the epoch step and before the clearing
          reader,      \* dashboard reads
          tick         \* the clock

usageVars == <<account, cached, epoch, purge, reader, tick>>

Paths == {"api_key", "oauth", "meter"}   \* how the adapter reports usage
Modes == {"active", "invalid"}   \* a disabled credential is read like an active one

Nothing  == [held |-> FALSE, snap |-> 0, at |-> 0, tried |-> 0, failed |-> FALSE, born |-> 0,
             via |-> "none"]
NoReader == [step |-> "idle", key |-> "none", row |-> 0, force |-> FALSE,
             lock |-> "none", epoch |-> 0, snap |-> 0, at |-> 0, decided |-> 0, next |-> Nothing]

UsageInit ==
    /\ account \in [UsageKeys -> [path : Paths, mode : {"active"}, secret : {1}]]
    /\ cached = [k \in UsageKeys |-> Nothing]
    /\ epoch = 1 /\ purge = [bump |-> 0, clear |-> 0]
    /\ reader = [r \in Readers |-> NoReader]
    /\ tick = 0

Answered(r) == reader' = [reader EXCEPT ![r] = NoReader]

---------------------------------------------------------------------------
(* The cache and the locks. *)

\* What `retain` keeps whenever the cache is read or written.
Aged(c) == [k \in UsageKeys |-> IF tick - c[k].tried <= MaxAge THEN c[k] ELSE Nothing]
HeldUsage(c) == {k \in UsageKeys : c[k].held}

\* Inserting into a full cache drops the entry attempted longest ago.
Inserted(c, k, e) ==
    LET kept   == Aged(c)
        full   == ~kept[k].held /\ Cardinality(HeldUsage(kept)) >= MaxCached
        oldest == {j \in HeldUsage(kept) : \A i \in HeldUsage(kept) : kept[j].tried <= kept[i].tried}
    IN IF ~full THEN {[kept EXCEPT ![k] = e]}
       ELSE {[kept EXCEPT ![j] = Nothing, ![k] = e] : j \in oldest}

\* Locks that some reader still holds or waits for.
KnownLocks == {reader[r].lock : r \in Readers} \cap UsageKeys

UsageLock(r, k) == IF k \in KnownLocks \/ Cardinality(KnownLocks) < MaxUsageLocks
                   THEN k ELSE "fallback"

\* An answer is reused while it is younger than the TTL and the last attempt
\* succeeded; a failure is not repeated before the backoff is over.
Reusable(e, t) == e.held /\ e.snap # 0 /\ ~e.failed /\ t - e.at < Ttl
BackingOff(e, t)  == e.held /\ e.failed /\ t - e.tried < Backoff

---------------------------------------------------------------------------
(* A read of the usage of one credential. *)

\* The row is read; a local meter and an invalid credential are answered
\* without asking the provider, other reads look up their lock.
Open(r, k, force) ==
    /\ reader[r].step = "idle" /\ account[k].secret # 0
    /\ IF account[k].path = "meter" \/ account[k].mode = "invalid"
       THEN /\ cached' = Aged(cached)
            /\ UNCHANGED reader
       ELSE /\ reader' = [reader EXCEPT ![r] =
                 [NoReader EXCEPT !.step = "waiting", !.key = k, !.row = account[k].secret,
                                  !.force = force, !.lock = UsageLock(r, k)]]
            /\ UNCHANGED cached
    /\ UNCHANGED <<account, epoch, purge, tick>>

\* The lock is free: it is taken and the epoch read.
Enter(r) ==
    /\ reader[r].step = "waiting"
    /\ \A o \in Readers \ {r} : reader[o].lock = reader[r].lock => reader[o].step = "waiting"
    /\ reader' = [reader EXCEPT ![r].step = "entered", ![r].epoch = epoch]
    /\ UNCHANGED <<account, cached, epoch, purge, tick>>

\* The cache is read: a reusable answer or a recent failure ends the read.
Decide(r) ==
    LET e == Aged(cached)[reader[r].key] IN
    /\ reader[r].step = "entered"
    /\ cached' = Aged(cached)
    /\ IF ~reader[r].force /\ (Reusable(e, tick) \/ BackingOff(e, tick))
       THEN Answered(r)
       ELSE reader' = [reader EXCEPT ![r].step = "queued", ![r].snap = e.snap, ![r].at = e.at,
                                      ![r].decided = tick]
    /\ UNCHANGED <<account, epoch, purge, tick>>

Fetch(r) ==
    /\ reader[r].step = "queued"
    /\ Cardinality({o \in Readers : reader[o].step = "fetching"}) < FetchPermits
    /\ reader' = [reader EXCEPT ![r].step = "fetching"]
    /\ UNCHANGED <<account, cached, epoch, purge, tick>>

\* Mutant: a failed refresh forgets the last answer.
FailureOfForgets(r) == [Nothing EXCEPT !.held = TRUE, !.tried = tick, !.failed = TRUE,
                                       !.born = reader[r].epoch, !.via = reader[r].lock]

\* What a failed refresh remembers: the last answer, and that it is stale.
FailureOf(r) == [held |-> TRUE, snap |-> reader[r].snap, at |-> reader[r].at,
                 tried |-> tick, failed |-> TRUE, born |-> reader[r].epoch, via |-> reader[r].lock]

AnswerOf(r, s) == [held |-> TRUE, snap |-> s, at |-> tick, tried |-> tick, failed |-> FALSE,
                   born |-> reader[r].epoch, via |-> reader[r].lock]

\* An API key is asked about with the secret of the row that was read, an
\* OAuth account with the one stored now; a removed account is an error.
SecretAsked(r) ==
    LET k == reader[r].key IN
    IF account[k].path = "api_key" THEN reader[r].row ELSE account[k].secret

\* The provider answered, and `insert` passes or fails its first epoch test.
FetchReturns(r) ==
    /\ reader[r].step = "fetching"
    /\ \E e \in {FailureOf(r)} \cup {AnswerOf(r, s) : s \in {SecretAsked(r)} \ {0}} :
         IF reader[r].epoch = epoch
         THEN reader' = [reader EXCEPT ![r] =
                  [NoReader EXCEPT !.step = "storing", !.key = reader[r].key, !.next = e,
                                   !.lock = reader[r].lock, !.epoch = reader[r].epoch]]
         ELSE Answered(r)
    /\ UNCHANGED <<account, cached, epoch, purge, tick>>

\* Under the cache lock the epoch is tested again and the entry stored.
Store(r) ==
    /\ reader[r].step = "storing"
    /\ IF reader[r].epoch = epoch
       THEN cached' \in Inserted(cached, reader[r].key, reader[r].next)
       ELSE UNCHANGED cached
    /\ Answered(r)
    /\ UNCHANGED <<account, epoch, purge, tick>>

\* The dashboard goes away: the future is dropped with its guards.
LeaveUsage(r) ==
    /\ reader[r].step # "idle" /\ Answered(r)
    /\ UNCHANGED <<account, cached, epoch, purge, tick>>

---------------------------------------------------------------------------
(* Changes of the credentials, and the invalidation that follows. *)

Invalidating == purge' = [purge EXCEPT !.bump = @ + 1]
MayChange == epoch + purge.bump <= MaxChanges

RemoveKey(k) ==
    /\ MayChange /\ account[k].secret # 0
    /\ account' = [account EXCEPT ![k].secret = 0]
    /\ Invalidating /\ UNCHANGED <<cached, epoch, reader, tick>>

\* A backup brings rows back, with the secrets of the backup.
RestoreKey(k) ==
    /\ MayChange
    /\ account' = [account EXCEPT ![k].secret = epoch + purge.bump + 1, ![k].mode = "active"]
    /\ Invalidating /\ UNCHANGED <<cached, epoch, reader, tick>>

\* Two keys change places: only the invalidation.
Reorder ==
    /\ MayChange /\ Invalidating
    /\ UNCHANGED <<account, cached, epoch, reader, tick>>

SetMode(k, m) ==
    /\ account[k].secret # 0 /\ account[k].mode # m
    /\ account' = [account EXCEPT ![k].mode = m]
    /\ UNCHANGED <<cached, epoch, purge, reader, tick>>

\* `invalidate`: first the epoch, then the cache.
PurgeEpoch ==
    /\ purge.bump > 0
    /\ epoch' = epoch + 1
    /\ purge' = [bump |-> purge.bump - 1, clear |-> purge.clear + 1]
    /\ UNCHANGED <<account, cached, reader, tick>>

PurgeCache ==
    /\ purge.clear > 0
    /\ cached' = [k \in UsageKeys |-> Nothing]
    /\ purge' = [purge EXCEPT !.clear = @ - 1]
    /\ UNCHANGED <<account, epoch, reader, tick>>

Advance ==
    /\ tick < MaxTick /\ tick' = tick + 1
    /\ UNCHANGED <<account, cached, epoch, purge, reader>>

UsageNext ==
    \/ \E r \in Readers :
          \/ \E k \in UsageKeys, force \in BOOLEAN : Open(r, k, force)
          \/ Enter(r) \/ Decide(r) \/ Fetch(r) \/ FetchReturns(r) \/ Store(r) \/ LeaveUsage(r)
    \/ \E k \in UsageKeys :
          RemoveKey(k) \/ RestoreKey(k) \/ (\E m \in Modes : SetMode(k, m))
    \/ Reorder \/ PurgeEpoch \/ PurgeCache \/ Advance

UsageSpec == UsageInit /\ [][UsageNext]_usageVars

---------------------------------------------------------------------------

\* A refresh that began before an invalidation leaves nothing in the cache
\* once the invalidation is over: whatever is cached was asked for in the
\* current epoch (insert and invalidate of provider_usage.rs).
OldRefreshDropped ==
    purge.clear = 0 => \A k \in HeldUsage(cached) : cached[k].born = epoch

\* Concurrent reads of one credential share one upstream answer: a read that
\* nobody forced never asks the provider for what another read under the
\* same lock has just stored (the lock of provider_api_key_usage_for_key).
\* While the lock table is full a credential may have two locks, its own and
\* the shared fallback, and nothing orders the reads under the one with
\* those under the other.
ReadsReuse ==
    \A r \in Readers :
        (/\ reader[r].step \in {"queued", "fetching"} /\ ~reader[r].force
         /\ cached[reader[r].key].via = reader[r].lock)
            => ~Reusable(cached[reader[r].key], reader[r].decided)

\* A failed refresh never takes away the last good answer of a credential
\* that was stored under the same lock: it stays, marked stale, until it is
\* invalidated, too old or evicted.
LastGoodKept ==
    [][\A k \in UsageKeys :
         (cached[k].snap # 0 /\ cached'[k].held /\ cached'[k].via = cached[k].via)
            => cached'[k].snap # 0]_usageVars

\* Outside an invalidation, every cached snapshot is that of the stored
\* credential: "Advancing the epoch also prevents an already-running refresh
\* from repopulating the cache with data for a deleted credential."  It does
\* not hold: the row is read before the epoch.
SnapshotsCurrent ==
    purge.bump + purge.clear = 0 =>
        \A k \in UsageKeys : cached[k].snap \in {0, account[k].secret}

\* The usage cache under concurrent reads and invalidations: nothing from
\* before an invalidation, one upstream answer for concurrent reads, and the
\* last good answer survives a failed refresh.
UsageCorrect ==
    /\ [](OldRefreshDropped /\ ReadsReuse)
    /\ LastGoodKept
=============================================================================
