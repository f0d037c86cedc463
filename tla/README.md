# ExoRoute in TLA+

ExoRoute is a gateway between applications that speak an LLM protocol and the
providers that serve it. It holds many API keys and accounts per provider, fails
over between providers, keeps a stream alive after its client has gone, and is
administered while all of this runs. The process is one Rust program on tokio;
its shared state is atomics and locked maps in `AppState` and one LMDB database.

This directory models the parts of the program where tasks, transactions and
restarts meet: admission and limits, circuit breakers, key rotation, the request
pipeline and its streams, the catalog of providers with its deletions, accounts
and sessions, backup and restore, the storage engine, and what is counted and
remembered of requests. `PROJECT.json` maps every definition to the lines it
stands for. Paths below are relative to the repository.

## 1. Inventory

| Component | State | Operations | Interacts with | What is hard |
|---|---|---|---|---|
| Concurrency gate, `src/state/runtime_controls.rs` | `active`, `limit`, a `Notify` | acquire (waiting or not), release, change the limit | every request; the settings task | lock-free exchange against a changing limit; lost wakeups; cancelled waiters |
| Circuit breaker, `runtime_controls.rs`, `runtime_gates.rs` | one `CircuitState` per provider; leases in requests | admit, probe, succeed, fail, abort, drop | target preparation, provider deletion, settings | late results, stale generations, leaked probe slots |
| Provider limit, `runtime_gates.rs` | map provider → reference-counted gate | look up and acquire, prune, clear, restore | target preparation, deletion, restore | a gate is cloned under the lock and used outside it |
| Stored keys, `src/admin/providers/keys.rs`, `src/gateway/execution/provider.rs` | key records, order index, availability index, two counters | create, delete, switch, swap, mark invalid, mark used | administrator and requests | reports about keys that have changed since they were read |
| Credential rotation, `src/provider_adapters/keys.rs`, `credential_rotation.rs` | cursor of a request, round-robin position | start, next, advance | stored keys, dispatch loop | a paged scan over an index that others rewrite; wrap and recovery passes |
| Request pipeline, `src/gateway/flow.rs`, `src/gateway/execution/` | locals of a request, its permit and lease, round-robin indexes | admit, prepare, call, classify, answer, retry | gate, breaker, bulkhead, rotation, logs | many exits, each of which must settle the lease and free the slot; deadline and disconnect anywhere |
| Stream continuity, `src/gateway/continuity/` | run record, journal, worker, channel, cancellation registry | reserve, journal, send, cancel, finish, resume, recover | pipeline, storage, clients, administrator | every storage call may fail; disconnects, resumes, crash |
| Combos and their expansion, `src/admin/combos/`, `request_preparation.rs` | stored routes, reverse index | save, delete, validate, expand | pipeline, catalog | two walks over one graph; saves that race |
| Rate limits, `src/security/rate_limit/` | quota per identity in a bounded map, a prune queue | check, reconfigure, prune | admission, login | forgetting an entry must not give quota back |
| Settings, `src/state/settings.rs`, `src/admin/settings/` | stored and published documents, update locks, the log dictionary | save, publish, restore, train | gates, breakers, logs, restore | save, publish and restore must not cross |
| Provider catalog, `src/admin/providers/` | provider records, keys, models, combo targets, indexes, counters | create, update, import models, delete in phases | keys, combos, requests | reads long before the write; deletion in batches with restarts between them |
| Storage engine, `src/infra/storage/` | LMDB map, operation slots, writer lock, resize gate, marker files | read, write, grow, open | everyone | growing the map under load, callers that give up, a crash before the marker |
| Backup and restore, `src/admin/database/` | archive, the whole database | export, validate, replace, rebuild | everyone | replacing the database under handlers |
| Live view, `src/state/request_live.rs` | registry, broadcast | begin, update, finish, subscribe, lag | pipeline, dashboard | snapshot against events, limit of the registry |
| Telemetry, `src/infra/telemetry/` | queue, counts per minute, rolling windows, meters, drop counters | record, store, expire, flush, report | pipeline, dashboard | loss at every stage, paged expiry |
| Request history, `src/infra/db/request_logs.rs`, `telemetry/history.rs` | rows, two time indexes, a counter | log, prune, page, scan, repair | pipeline, dashboard | pages over rows that come and go |
| Sessions, `src/admin/auth.rs`, `src/admin/sessions/` | password record, families, refresh tokens, proofs | log in, refresh, log out, change, step up, import | dashboard, restore | token reuse; password change against login; import against logout |
| Sign-in flows, `src/admin/provider_auth/`, `provider_api_key_auth/`, `src/state/auth_flows.rs` | pending flows, two loopback listeners | start, callback, poll, cancel, apply | dashboard, identity providers, accounts | callbacks twice or late; listener that stops as a flow starts |
| Account tokens, `src/provider_adapters/auth/`, `muse/`, `src/state/provider_locks.rs` | OAuth rows, refresh locks, mint budget | refresh, reject, sign in again, mint | requests, identity providers | rotating tokens that two requests refresh |
| Usage and quota, `src/state/provider_usage.rs`, `local_rpm.rs` | snapshot cache with an epoch, quota pauses, a ring of seconds | read, refresh, invalidate, pause, count | dashboard, requests | a refresh that outlives its credential; bounded tables |
| Stream translation, `src/gateway/streaming/` | reader buffer, `TranslationState` | preflight, read, translate, finish, fail | pipeline, client, provider | endings in every order, open blocks, four dialects into three |
| Workspace chat, `src/admin/workspace/` | one turn, a reader task, a channel | prepare, send, pump, bridge, abort | dashboard, providers | a dashboard that leaves; a terminal that never comes |
| Adapters, JSON dialects, outbound policy, dashboard, start | none that outlives a call | conversions, HTTP, UI | pipeline | data, not interleavings |

What makes each modelled component correct:

- **Gate**: every owned slot is counted once; a lowered limit is respected by
  what is granted under it; no waiter sleeps while there is room and nobody is on
  the way to wake one.
- **Breaker**: one probe at a time, owned by a live lease, never before the
  cooldown; stale leases touch nothing; only the probe closes an open circuit; an
  open circuit does not stay shut for ever.
- **Provider limit**: no provider exceeds its limit through map maintenance.
- **Keys**: index and counters agree with the records, whatever order the
  transactions come in.
- **Rotation**: no key twice, no usable key left out, and it ends.
- **Pipeline**: slot and lease follow the target; a provider is blamed only for
  its own faults; server errors are retried, and at another target; every stream
  is logged once; every request ends.
- **Continuity**: the client gets every event once and in order, or is told that
  it does not; a cancelled stream frees its slot before it says so; no run is
  left without somebody to end it.
- **Catalog**: no row outlives its provider, counters and indexes agree with the
  rows, a deletion survives any restart, ends, and looks like one step.
- **Combos**: the graph never has a cycle or a missing child, and what was saved
  can be expanded, each target in its place.
- **Limiter**: nobody can tell that entries are pruned.
- **Settings and restore**: what runs is what is stored; an operator's form does
  not overwrite what a restore brought; a rebuilt index is the maintained one, but
  for leftovers of keys that cannot be used.
- **Storage**: the map grows alone, a crash reopens a map that fits, a write is
  applied once or not at all, and whoever waits for the gate is answered.
- **Sessions**: a session belongs to the present password, a reused token ends its
  family, an import needs a proof that is still good.
- **Sign-in and accounts**: one exchange per code, a verdict that stands, a
  listener exactly while it is needed; no operator has to sign in again because
  two requests refreshed at once.
- **Usage and quota**: nothing of a removed credential stays cached; a pause is
  neither ignored nor imposed early.
- **Statistics, live view, history**: figures are what happened, minus what is
  reported as lost; a viewer converges in what the updates carry; pages miss nothing that stayed.
- **Translation and chat**: text and calls once and in order, blocks paired, one
  ending, success only where the provider finished.

## 2. Modules

| Module | Models | State ↔ code |
|---|---|---|
| `DynamicSemaphore` | `DynamicSemaphore` of `runtime_controls.rs`, one step per atomic access | `active`, `limit`: the atomics; `queue`, `notice`, `permit`: tokio's `Notify` (external); `pc`, `seen`: the locals of a task; `fresh`: history, the slots taken under the current limit |
| `CircuitBreaker` | one provider's circuit and the leases on it | `circuit`: `CircuitState`; `lease`: `CircuitProbePermit`; `phase`: where the request is, `failing` being the gap between reading the settings and locking the map; `breakerAdmin`: the three steps of a settings update; time is counted down by `Tick` |
| `ProviderBulkhead` | the map of gates | `tracked`: the map; `inUse`: the gates' counters; `callPc`, `gate`: the `Arc` a request holds. Reference counts are the number of holders |
| `ProviderKeys` | the stored keys of one provider; the abstract specification of what a rotation may do to them | one action per LMDB transaction |
| `KeyRotation` | one request's rotation over `ProviderKeys`, everybody else being changes between its transactions | `req.cursor`: `ProviderApiKeyCursor`; `roundRobin`: `provider_key_cursors`; `seen`: history |
| `GatewayRequest` | `require_api_key`, `flow.rs`, `execution/*`, `StreamLog` | `req[r]`: locals of the request (`failures`: `TargetLoopFailures`, `left`: targets still to try, `keys`: credentials left, `verdict`: what became of the lease, `rows`: log rows); `held`: provider permits; `index`: `gates.round_robin` |
| `StreamContinuity` | one stream with handler, worker, journal, reader, canceller, process | `run`, `journal`: the two tables; `worker`: the locals of `consume_producer` and `fail_before_stream`; `replay`: the locals of `resume_response` |
| `ProviderDirectory` | what may be believed of providers: there with keys and models, or not; a deletion is one step | the abstract specification |
| `ProviderCatalog` | the handlers of `admin/providers` over the tables, the phased deletion, its recovery worker, restarts | one variable per table or index; `keyRows`: the key records (which are disabled, which were rejected) with their three indexes; `update`, `import`, `save`: what a handler read before its transaction |
| `BackupArchive` | export, validation, restore and rebuilt indexes over `ProviderCatalog` | the same tables; `Snapshot`: the rows without any index, as a file holds them; `BackupFiles`: the files an operator may import |
| `ComboGraph` | saving, deleting and validating combos; the expansion of the gateway | `combos`: routes with rows; `comboIndex`: the reverse index; `saving`: a save between pre-check and transaction |
| `SettingsRestore` | documents in the database and in the process, their locks, the log dictionary | `stored`, `active`, `docLock`, `form`: what an operator's form was loaded from, `restorePc`: the restore task |
| `RateLimiter` | `engine.rs` and `policy.rs` beside an ideal limiter that keeps every quota in use | `entries`, `pruneQueue`, `nextPrune`; `ideal`, `grants` (the times of the requests let through): history |
| `StorageEngine` | `environment.rs`, `fs_guard.rs` | `slots`, `writer`, `gate`, `resizing`: locks and their holders; `markers`: files; `dropped`: callers that gave up; `applied`: history |
| `AdminAccess` | passwords, session families, refresh tokens, step-up proofs, import | one variable per table or map; `op`: the locals of a handler |
| `ProviderSignIn` | OAuth, device and API-key sign-ins, two loopback listeners | `flow`, `listener`, `callbackLock`; `job`: exchanges, polls and applies in flight |
| `AccountTokens` | refresh, rejection, new sign-in and minting of stored accounts | `acct`: rows and index; `live`: what the identity provider accepts (external); `task`: a request under its lock, which may be dropped or fail to store at any point; `mint`: history, the mints of a window and those whose record was lost |
| `AccountQuota` | quota pauses and the requests-per-minute ring | `breaker`, `ring`; `rejections`, `pause`, `sends`: history |
| `ProviderUsage` | the usage cache of the dashboard | `cached` (`born`, `via`: the epoch and the lock of its read, history), `epoch`, `purge`: an invalidation under way, `reader`: a read and its lock |
| `Telemetry` | queue, writer, counts, windows, meters, drop counters | one variable per table and counter; `lost`, `sent`, `kept`: history |
| `LiveRequests` | registry, broadcast, viewer | `entry`, `untracked`, `unread`, `lagged`, `viewer`: the dashboard, which merges an update into its row (`Merged`: provider, log id and token counts; the model, protocols and credential of a row, `detail`, come with a start or a snapshot only) |
| `RequestHistory` | rows, indexes, retention, pages, figures | `row`, `byTime`, `byDesc`, `rowCount`, `listing`: a client turning pages |
| `StreamTranslation` | preflight, reader, translation, ending of one stream, in all twelve pairs of protocols | `xlat`: `TranslationState`; `parsed`: what a parser of the client's protocol has made of the events |
| `WorkspaceChat` | one chat turn of the dashboard | `pump`: the reader task, with its counts of texts and of reasoning, each limited; `pipe`: the channel; `screen`: what arrived |
| `GatewayProofs` | the theorems on `GatewayRequest` | |
| `ProviderCatalogProofs` | the theorems on `ProviderCatalog` and `Telemetry` | |
| `DynamicSemaphoreProofs` | the theorems on `DynamicSemaphore` and `RateLimiter` | |
| `AdminAccessProofs` | the theorems on `AdminAccess`, `ProviderSignIn` and `SettingsRestore` | |
| `ResilienceProofs` | the theorems on `StreamContinuity` and `CircuitBreaker` | |
| `KeyRotationProofs` | the theorems on `ProviderKeys`, `KeyRotation`, `RequestHistory` and `WorkspaceChat` | |
| `AccessProofs` | the theorems on `AccountTokens`, `ProviderBulkhead`, `ProviderUsage` and `AccountQuota` | |
| `RuntimeProofs` | the theorems on `StorageEngine` and `LiveRequests` | |
| `MC*` | instances for TLC | |

The modules are composed in three ways.

- `KeyRotation` EXTENDS `ProviderKeys` and is proved to implement it;
  `BackupArchive` EXTENDS `ProviderCatalog`, so that a restore falls between any
  two transactions of the handlers.
- `ProviderCatalog` INSTANCEs `ProviderDirectory` with a refinement mapping: a
  provider is in the directory if it is stored and not deleting, with the keys
  and models that then belong to it. `DeletionIsAtomic` is the directory's
  specification.
- `GatewayRequest` uses gate, breaker, rotation and continuity through what they
  answer, each answer being a choice: a target may be skipped because its circuit
  refuses, a rotation has one to `MaxKeys` credentials or none, a stream may
  break. A choice allows more than the component does, so a safety property of
  `GatewayRequest` holds with the component in its place.

Definitions whose comment begins with *Mutant* are faulty versions of the
definition below them. They are not used by any specification; replacing the
definition by one of them must make the named property fail, which shows that
the property depends on that code.

### What the actions abstract

- Names, payloads, prices, messages and log texts are left out; a status is the
  class the retry loop and the client tell apart. `Retry-After` is modelled only
  in `AccountQuota`.
- A provider's reply in `GatewayRequest` is one of ten kinds (`Replies`), the ones
  `classify_response`, `unsuccessful_status` and `transport_failure` distinguish.
- `gates.round_robin` is a wrapping `usize` of which the remainder is used; the
  model keeps the remainder. The filter of targets by API-key scope comes after
  the rotation in the code and is not modelled, so `RetriesRotate` speaks of
  routes whose targets are all in scope.
- The 60 s throttle before `mark_provider_key_used` is a choice: the mark may be
  skipped. The 30 s cooldown of a rejected key is the step `CoolDown`.
- A storage failure is a choice bounded by `MaxFaults` in `StreamContinuity`,
  unbounded in `GatewayRequest` and `Telemetry`, and ends the request (`Leave`) in
  `KeyRotation`.
- In `ProviderCatalog` at most one handler that reads before it writes is under
  way (`Quiet`); it meets all others through the tables. Requests report on keys
  and operators switch and delete them (`ReportKey`, `SwitchKey`, `DeleteKey`) for
  the keys of `ChangingKeys`, a bound of the runs.
- The first login of an installation, which stores the configured password
  (`admin/auth.rs:79-157`), is not modelled: `AdminAccess` starts with a stored one.
- `RequestHistory` keeps no format marker; an old one is a repair that rebuilds
  indexes which needed none. The two atomics of `persist_drop_delta` are read in
  one step.
- A mint whose task is dropped, or whose record a write failed to store, is counted
  in `mint.lost`; the runs allow `MaxLost` of them per window.
- A frame of `StreamTranslation` is its kind and index; text and arguments are one
  unit long. A frame of `WorkspaceChat` is numbered, so that loss, repetition and
  reordering show.
- Time is what the code compares: fresh or expired flows, half seconds in
  `AccountQuota`, minutes in `Telemetry`, ticks elsewhere.

## 3. Runs

| Run | Instance | Distinct states | Shows |
|---|---|---|---|
| `circuit` | 2 requests, 2 settings (threshold 1 with cooldown 2, threshold 3 with cooldown 1), 3 generations and probes | 267,172 | the breaker, safety and recovery |
| `key_rotation` | 3 keys, windows of 2, positions up to 4, 1 change by others besides time | 354,646 | keys and rotation |
| `gateway` | 2 requests (1 streaming), 2 providers with 1 slot, 2 keys, 2 attempts, both strategies | 300,064 | the pipeline |
| `catalog` | 2 providers, 1 model prefix, 1 model, 2 keys, 1 of which requests report on and operators switch and delete, batches of 1 row | 456,783 | the catalog, its deletions, the refinement to `ProviderDirectory` |
| `access` | sessions: 3 families, cap 2, 2 handlers; gates: 3 callers, 3 providers, room for 2 gates, 1 restore; tokens: 2 tasks, 2 accounts, 3 tokens, room for 1 lock, 1 lost mint; quota: 2 accounts, 2 strikes, ring of 2 s | 508,790 (modulo symmetry) | who is let in |
| `observability` | telemetry: queue of 1, batches of 2, 3 events, windows of 2 and 3 minutes; live: 3 requests, registry of 2, 3 events kept; history: 3 rows, pages of 1, scans of 2 | 949,895 | what is counted, shown, remembered |
| `traffic` | streams: all sequences of 4 frames in 12 pairs of protocols; limiter: 3 identities, room for 2, 4 policies, changed at time 1; combos: 3 combos, depth 1; settings: 2 values, 2 archives; usage: 2 readers, 2 credentials, room for 1 entry and 1 lock | 732,975 (modulo symmetry) | streams, limits, combos, settings, usage |
| `progress` | continuity: 3 chunks, 2 retained events, channel of 1, 1 fault, 1 restart; sign-in: 2 attempts, or 1 attempt with 2 requests | 256,262 | what must come to an end |
| `backend` | restore: 4 files; storage: 1 reader, 2 writers, 2 slots, sizes 1 to 3; gate: 2 tasks, limits 0 (none), 1, 2; chat: 4 frames, channel of 2, limits of texts and of reasoning | 296,113 | restores, storage, slots and waiters of the gate, chat |
| `key_rotation_skip` | round robin, no change by others | stops at the violation | finding 1 |
| `refresh_overlap` | tokens as in `access` | stops at the violation | finding 3 |
| `history_retention` | as `observability` | stops at the violation | finding 2 |

The runs `access`, `observability`, `traffic`, `progress` and `backend` each hold
several components that share no variable. A variable `focus` is chosen in the
initial state and never changes: a behaviour moves the component it names while
the others rest in one initial state, so the run is the sum of its components'
state spaces and not their product. Some components are cut into slices the same
way (telemetry with a moving clock and without losses, or the reverse; sign-ins
with two attempts or with two requests on one), because the product of the two
does not finish.

### What each property says

A property whose name ends in `Sound` or `Correct` is the conjunction of the named
parts before it; each part has its own comment in the module.

| Property | Parts |
|---|---|
| `DynamicSemaphore.WakeupsSound` | `TypeOK`, `NoLostWakeup` |
| `CircuitBreaker.CircuitSound` | `BreakerTypeOK`, `ProbeSlotOwned` |
| `CircuitBreaker.LeaseDiscipline` | `StaleLeaseHarmless`, `OnlyProbeCloses`, `ProbeAfterCooldown` |
| `KeyRotation.RotationComplete` | `TypeOK`, `ActiveKeysTried`, `NoKeyTwice` |
| `GatewayRequest.PipelineSound` | `TypeOK`, `PermitFollowsTarget`, `BlameProvider`, `OneRowPerStream` |
| `GatewayRequest.RetryDiscipline` | `ServerErrorsRetried`, `RetriesRotate` |
| `ProviderCatalog.CatalogSound` | `CatTypeOK`, `NoOrphans`, `DeletionResumable`, `CountsExact`, `PrefixIndexSound` |
| `AdminAccess.SessionsSound` | `AdmTypeOK`, `SessionsFollowPassword`, `FamilyCapHeld`, `OneLiveToken`, `ImportAuthorised`, `GatewayClosed` |
| `ProviderBulkhead.GatesSound` | `BulkTypeOK`, `RestoreCost`, `GatesSeparate` |
| `AccountTokens.TokensSound` | `RefreshesSerialized`, `NoNeedlessReauth`, `AccountListed`, `MintBudgetAlone` |
| `AccountQuota.QuotaSound` | `PauseHonoured`, `NoHastyPause`, `RpmExact` |
| `Telemetry.TelemetrySound` | `TelTypeOK`, `WindowsExact`, `CurrentFiguresExact`, `ReportedDropsExact`, `FlushMeansSaved`, `MetersOwned` |
| `LiveRequests.LiveViewSound` | `RegistryExact`, `ViewConverges` |
| `RequestHistory.HistorySound` | `LogIndexAgrees`, `PagingComplete`, `FiguresHonest` |
| `StreamTranslation.StreamSound` | `EndsOnce`, `TextOnce`, `CallsOnce`, `BlocksPaired`, `SuccessEarned` |
| `RateLimiter.LimiterSound` | `RlTypeOK`, `QuotaHeld`, `PruningInvisible` |
| `ComboGraph.CombosCorrect` | `ComboTypeOK`, `NeverCyclicNeverDangling`, `ReverseIndexExact`, `ExpansionInPlace`, `SavedComboRoutes` |
| `SettingsRestore.SettingsCorrect` | `SetTypeOK`, `ActiveMatchesStored`, `StylesNotOverwritten` |
| `ProviderUsage.UsageCorrect` | `OldRefreshDropped`, `ReadsReuse`, `LastGoodKept` |
| `StreamContinuity.RunSound` | `RunTypeOK`, `NoGapNoDuplicate`, `JournalConsistent`, `ResumeComplete`, `CancelledFreesSlot`, `RunHasOwner` |
| `ProviderSignIn.SignInCorrect` | `ListenerAwaits`, `CodeExchangedOnce`, `ConnectedIsStored`, `KeyStoredOnce`, `VerdictStands` |
| `BackupArchive.RestoreCorrect` | `RebuildExact`, `NoOrphans`, `DeletionResumable`, `RestoredDeletionsDrain` |
| `StorageEngine.StorageSound` | `StTypeOK`, `ResizeAlone`, `ReopenFits`, `AppliedOnce` |
| `WorkspaceChat.ChatSound` | `OneOrderlyAnswer`, `VerdictEarned`, `ConnectionOwned` |

The others stand alone: `SlotAccounting`, `ReductionRespected`, `WaitersProgress`
(gate); `Recovery` (breaker); `IndexExact`, `CountsBounded`, `RotationEnds` (keys);
`RequestsEnd` (pipeline); `ManualModelsKept`, `DeletionIsAtomic`, `DeletionsDrain`
(catalog); `ReuseEndsFamily` (sessions); `CancelReleases` (continuity);
`PortReleased` (sign-in); `OperationsAnswered` (storage: an operation at the gate is answered); `TurnConcludes` (chat).

### Why the bounds are enough

- *Gate.* Two tasks are a holder and a waiter, or a waiter and a task in the
  middle of its exchange, against a change of the limit in each direction; three
  with several limits and the liveness property do not finish in five minutes.
  The three safety properties are proved for any number. Three tasks with the
  limit 1 were checked once for liveness (115,560 states), three with all limits
  once for safety (2,523,082 states modulo symmetry).
- *Breaker.* Two requests are a probe and a late one. Three generations let a
  circuit be removed and created while a lease on the old one is alive.
- *Bulkhead.* The cap of two gates with three providers makes the map full; three
  requests can hold, be about to acquire and look up at once.
- *Continuity.* Three chunks against two retained events cross the limit of the
  journal and a page; a capacity of one fills the channel. One fault reaches every
  error path; a second one refutes `ResumeComplete` (section 5).
- *Rotation.* A window of two over three keys gives a full page, a short page and
  an empty one. Requests of others and the administrator may make `MaxChanges`
  changes at any point of a rotation. Positions may be exhausted (`MaxPosition`);
  a key that cannot be created is no loss to the properties.
- *Pipeline.* With two attempts and two targets every edge of the retry loop, the
  target loop and the credential loop is taken; two requests meet at one slot.
- *Catalog.* A batch of one row puts a transaction boundary between any two rows;
  two keys make a phase take several batches; one prefix makes two providers
  compete for it.
- *Sessions.* Three families against a cap of two evict one; two handlers overlap
  at every await; one change of the password and one rotation per family reach
  reuse of the old token.
- *Telemetry.* Two windows over a retention of four minutes and pages of one row
  make an expiry pause between rows; three events overflow a queue of one.
- *Translation.* Four frames are a start, content, a finish and something after
  it; calls, reasoning, errors and endings come in every order of that length.
- *Limiter.* Three identities compete for two entries; a lowered capacity of a
  bucket leaves an entry full within an interval, which is the case
  `PruningInvisible` excepts.  The policy changes at one time (`PolicySlice`), with
  a past and a future of requests on either side of it.
- *Usage.* One lock for two credentials makes a read of the second fall back; what
  fills the table and the cache (`Filler`) is read only before the invalidation.
- *Storage.* Two writers that need to grow, and a reader that keeps the map busy.
- *Chat.* Four frames against a limit of texts and of reasoning cross either limit
  before or after the end of the answer; a channel of two fills up.
- *Sign-in.* Two requests on one attempt race callback, poll, cancel and expiry.

`CHECK_DEADLOCK FALSE` where the system may stop: a stream, a turn or a sign-in
ends, clocks and counters reach their bound.

### Fairness

- `DynamicSemaphore`: the runtime polls runnable tasks, and a weak exchange does
  not fail for ever on an unchanged value. Nothing makes a holder release.
- `CircuitBreaker`: time passes, a lease ends (timeouts bound every request and
  dropping it drops the lease), and requests keep coming; `Recovery` says nothing
  about a provider nobody asks for.
- `StreamContinuity`: the worker runs; the provider's stream delivers or runs into
  the idle timeout. Clients need not read, leave or return.
- `KeyRotation`: reads return and upstream calls end. Changes by others are
  bounded, so `RotationEnds` is about the passes, not about an administrator who
  adds keys without end.
- `GatewayRequest`: only the deadline's timer and the end of streams; a provider
  may hang for ever.
- `ProviderCatalog`, `BackupArchive`: the recovery worker takes another step as
  long as a tombstone is left (its loop runs for the life of the process and is
  started again with it). No handler need be repeated.
- `ProviderSignIn`: the supervisors of the listeners run (timers), and a start
  handler that took the lock goes on. Identity providers and operators need not
  answer.
- `StorageEngine`: a task on the runtime or on the blocking pool goes on. Callers
  may give up.
- `WorkspaceChat`: the reader and the bridge run, and the deadlines fire. The
  provider may be silent and the dashboard may leave, before it polled the bridge
  too; the reader left behind then ends by its deadline.

## 4. What is proved

TLAPS checks these for every value of the constants that satisfies the named
assumption of the module: finite sets where something of them is counted, natural
bounds, and markers (`None`, `NoGate`, `Nobody`, `"free"`) that are not members of
the sets they stand beside. What else is assumed: the seed positions of keys are
distinct (`KeysAssumption`); the shortest and the longest cooldown exist
(`BreakerAssumption`); there are more gates than requests and map entries can use
(`BulkheadAssumption`: a gate is a fresh allocation in the code); readers and
writers are different operations (`StorageBounds`); a rate limit grants at least
one request in at least one interval and refills at least one token
(`LimiterAssumption`: `RateLimiter::new` refuses zeros); the bounds of the latency
buckets ascend (`HistoryAssumption`, the constant `LATENCY_BOUNDS_MS`); there is a
rolling window, and each is shorter than the retention of the counts it sums
(`TelemetryAssumption`: `STATISTICS_WINDOWS` up to 30 days, `MINUTE_RETENTION` 31).

Nothing below is inductive as the run states it. The strengthened invariants were
model-checked before they were proved.

**Gate** (`DynamicSemaphoreProofs`). *GateTypes*, *GateSlots*, *GateReduction*:
types, `SlotAccounting`, `ReductionRespected`, by
`GateInv == TypeOK /\ SlotAccounting /\ CandidatesFit`. A slot between exchange and
recheck is not yet a permit; `CandidatesFit` counts those that will pass the recheck
under the present limit, and with `SlotAccounting` the exchange that adds one
knows how many there are. *GateWakeups*: `WakeupsSound`, by `WakeInv`. That one
wakeup is on its way is not inductive, because the task that is woken may take the
only slot while there is room for two. So wakeups are counted: for every limit `l`
up to the present one, if a task sleeps that would take a slot below `l`, then
`active` and the tokens (a notification to be sent, one received, a waiter about
to look) are together at least `l` (`TokensCover`).

**Breaker** (`ResilienceProofs`). *CircuitIsSound*, *LeasesAreDisciplined*:
`CircuitSound` and the action property `LeaseDiscipline`, by `BreakerInv`:
generations and probe ids are handed out once, so that a lease of an earlier
circuit never matches a later one, and what an open circuit has waited and what it
still has to wait are together at least the shortest cooldown, whatever retiming
does to the two.

**Stream continuity** (`ResilienceProofs`). *RunIsSafe*: order without gap or
duplicate, journal, slot and owner for any number of storage failures and restarts,
by `RunInv`. What a client has received does not say what comes next, so the
invariant ties the worker's count, the record's and the number of events at every
place of the worker (`WorkerOK`), says that the channel goes on where the client is,
with nothing but a cancellation notice out of its place (`DeliveredOK`), and that a
page of the journal does too (`ReplayOK`; `PageFollows` says what `Page` selects).
*RunIsSound*: `RunSound` under the hypothesis `MaxFaults <= 1`. Only `ResumeComplete`
needs it: that an event missing from the journal is noted in the record
(`LossNoted`) is false after two failures (section 5). *RunIsSafe* has the weaker
condition, that at most one call has failed so far.

**Keys and rotation** (`KeyRotationProofs`). *KeysCorrect*: types, `IndexExact`
and `CountsBounded` of `ProviderKeys`; `KeysInv`, their conjunction, is inductive.
*RotationImplementsKeys*: `KeyRotation` implements `ProviderKeys` under the identity
mapping of the key variables; a request in the state `try` holds a key
(`KeyHeldInv`). *RotationKeys* carries the invariants over.

**Request pipeline** (`GatewayProofs`). *PipelineIsSound*, *RetriesAreDisciplined*:
`PipelineSound` and the action property `RetryDiscipline` for any requests, route,
provider limit, credentials and attempts, by `PipelineInv`: for each place of a
request, whether its lease is open, which failures of the present target it may
remember, what it has answered and logged, and at which targets its rounds have
started. That a provider is blamed only for its own faults needs the failures: the
verdict is drawn from flags which an earlier credential may have set.

**Catalog** (`ProviderCatalogProofs`). *CatalogIsSound*: `CatalogSound`, by
`CatInv`, which adds what the phases of a deletion have removed so far (`Drained`)
and that the rows of a kind agree also for a provider that is not live
(`RowsAgree`). *ManualModelsStay*: the action property `ManualModelsKept`.
*DeletionImplementsAtomic*: `ProviderCatalog` implements `ProviderDirectory`, so a
deletion in pages, with restarts between them, is one step for everybody who sees
only live providers.

**Sessions** (`AdminAccessProofs`). *SessionsAreSound*, *ReuseEndsTheFamily*:
`SessionsSound` and the action property `ReuseEndsFamily`, by `AdmInv`: everyone
past his first step holds the lock, except an upload under way; what a handler
learned under the lock is still so; the tables of families and tokens are
consistent (a consumed token is older than the live one of its family), which
cleanup, issue, rotation and revocation each preserve.

**Accounts and provider limits** (`AccessProofs`). *TokensAreSound*: `TokensSound`
for any accounts, tasks, lock table and mint budget, by `TokInv`: holders of a
lock hold different ones, overlapping refreshes are marked, a refresh that runs
alone asks with the stored token, and mints that never overlapped are counted in
the stored account or in `mint.lost`. *GatesAreSound*: `GatesSound`, by `BulkInv`: a gate's counter is the
number of its holders, its requests go to one provider, and the gates a provider
uses outside the map are at most as many as the restores (`RestoresDetach`), which
gives `RestoreCost`.

**Rate limiter** (`DynamicSemaphoreProofs`). *LimiterIsSound*: `LimiterSound` for
any policies, identities, room in the map and length of a behaviour, by `LimInv`.
`QuotaHeld` speaks of every stretch of time in the past, so the invariant bounds,
for every moment since which one counts, the grants and what is left together: by
the capacity and the intervals up to the last refill (`BucketOK`), or by the cap of
the window and the one before it (`WindowOK`). `PruningInvisible` compares the map
with an ideal one: where the two differ, the ideal entry is whole again, so that it
answers like a new one (`TiedOK`, *WholeFresh*). What is divided is the time by the
interval, with the quotient rounded up or down; the lemmas `Ceil*` and `Quotient*`
are about that. The queue lists every entry once through any rotation of it by a
batch (*QueueTurned*).

**Usage cache** (`AccessProofs`). *UsageCacheCorrect*: `UsageCorrect`, two
invariants and an action property, by `UsageInv`: two reads past the table hold
different locks, what a read is about to store carries the epoch and the lock of
that read, and a read that would store "no data" saw none under its lock.

**Quotas of accounts** (`AccessProofs`). *QuotaIsSound*: `QuotaSound` for any
number of strikes, windows, seconds in the ring and room in the tables, by
`QuotaInv`: the strikes of an entry are at most the rejections in its strike window
(`AccountOK`); a slot of the ring holds exactly the requests of its second, and each
request of the last round has its slot (`RingOK`).

**Sign-in** (`AdminAccessProofs`). *SignInsCorrect*: `SignInCorrect`, four
invariants and the action property `VerdictStands`, by `SignInv`: a start handler
owns the lock of its map from the listener to the registration and the supervisor
owns it while it stops a server, so that a listener seen up is up at the
registration; a pending attempt has sent no code; what is called connected or saved
is stored.

**Settings** (`AdminAccessProofs`). *SettingsAreCorrect*: `SettingsCorrect`, by
`SetInv`: stored and running documents differ only between the commit and the
publication of the writer that holds the document's lock; every copy of the output
styles is the stored document or an older revision of it, and a revision has one
content. The second is false of the operational settings, which is a finding
(`OperationalNotOverwritten`, section 5).

**History** (`KeyRotationProofs`). *HistoryIsSound*: `HistorySound` for any rows,
pages, scans and latency bounds, by `HistInv`: the indexes hold the keys of the
rows; what a client was shown lies behind its cursor for good, what it is due was
shown or lies ahead. An index is a set of keys in the invariant and a sequence for
a page; `DescendingLists` proves that the list by rank has each key once, in order.

**Telemetry** (`ProviderCatalogProofs`). *TelemetryIsSound*: `TelemetrySound` for
any windows, models, retention, pages, batches and queue, by `TelInv`. A window
claims to be a sum over minutes, which would need induction; `SumOf` is therefore
the size of a set with one element for each unit counted, and adding a batch,
taking off a page of expired rows and summing by model are facts about disjoint
sets. What the run's property leaves out and the proof needs: an event is in the
queue, in the batch, stored, or dropped and not yet written, and in one of them only
(`EventsAccounted`, `DropsAccounted`), which is why a flush that waited its turn
finds its predecessors stored; the lock of the drop counters is held from the read
of a delta to its publication (`LocksOK`), so that no report falls between the two;
and the cursor of a shorter window is never behind that of a longer one, between the
windows of one pass too (`CursorsOK`), which is what allows the writer to remove a
row as soon as the longest window has passed it. An event still in memory counts in
every window (`EventsOK`): the queue is emptied several times a second and the
shortest window is a day, so no event waits that long (`TelTick`).

**Workspace chat** (`KeyRotationProofs`). *ChatIsSound*: `ChatSound` for any
provider, channel and limit, by `ChatInv` over `Told`, everything the dashboard has
received or will: the reader knows how many texts and thoughts the frames it took
had and whether one of them ended the answer, and an outcome is the last thing told.

**Storage and live view** (`RuntimeProofs`). *StorageIsSound*: `StorageSound` for
any operations, slots and sizes, by `StInv`: who may be where (`PlacesOK`; the
queue for the map alone belongs to the writer that met a full map, also after its
caller has gone), the marker of a resize is on disk before the map changes
(`SizesOK`), and a write that is to be retried has not been applied (`AppliedOK`).
*LiveViewIsSound*: `LiveViewSound` for any requests and capacities, by `LiveInv`:
of the events a viewer has not read, the last one about a row, the count and the
truncation tells what the registry holds, and what no unread event mentions the
viewer shows already; the detail of a row the viewer shows is never later than the
registry's. So no fold over the events is needed: reading the first
event keeps it, and with nothing left to read the view is the registry.

The library's induction theorems take an operator as a parameter, which the
installed provers cannot instantiate. Where a fact about all finite sets needs
induction (the requests at several gates are at most the sum of their limits,
`PlacesBound`; the largest marker exists, `OpensLargest`), it is proved by a least
counterexample: `WFMin` on the set of the sizes for which it fails.

### Only model-checked

- Liveness: `WaitersProgress`, `Recovery`, `CancelReleases`, `RotationEnds`,
  `RequestsEnd`, `DeletionsDrain`, `RestoredDeletionsDrain`, `PortReleased`,
  `OperationsAnswered`, `TurnConcludes`. Fairness and ENABLED are out of this
  prover's reach.
- The rotation's own property `RotationComplete`: what the passes of a scan have
  covered is a fact about the order of the keys, by induction over the passes.
- `StreamSound`: what a parser of the client's protocol makes of a sequence of
  events is a fold over it.
- `CombosCorrect`, `RestoreCorrect`: the first follows paths of combos (recursion
  over data), the second is a conjunction of temporal formulas of which the safety
  part rests on the catalog's invariant under one more kind of step.

## 5. Findings

Three are runs; the trace is in TLC's output.

1. **A round-robin rotation that starts behind the last key can skip all usable
   keys** (`key_rotation_skip`), after a recovery probe that fails.
   `ActiveKeysTried` is what holds otherwise.
2. **The retention worker deletes the whole history** (`history_retention`): with
   fewer rows than the maximum, `count - max_rows` is negative, its conversion
   fails and the number of surplus rows becomes `usize::MAX`, so that rows inside
   the retention time go too (`src/infra/db/request_logs.rs:156`).

3. **Two refreshes of one rotating token can overlap** (`refresh_overlap`): with
   the lock map full, a refresh is given the shared fallback lock, which is not
   entered in the map; once an entry is free, a second refresh of the same
   credential is given a lock of its own (`src/state/provider_locks.rs:16`).
   `RefreshesSerialized` is what holds: two refreshes overlap in no other way.

### Formulas TLC refutes, kept in the modules and not among the runs

Each states what a comment or a text of the dashboard says. To reproduce one, put
it into a configuration of the run that holds its module.

| Formula | What the code does | What the text says |
|---|---|---|
| `ProviderBulkhead.ProviderLimit` | A restore keeps only gates with active slots (`runtime_gates.rs:185`); one that a request has cloned but not acquired is detached. `RestoreCost` is the price: one limit's worth per restore | "an import cannot bypass provider limits" (`runtime_gates.rs:169-170`) |
| `StreamContinuity.ResumeComplete` with `MaxFaults = 2` | Append and mark both fail; the last mark comes after `finish_run` and changes nothing (`worker.rs:489`) | "resumed seamlessly without loss" (`web/src/lib/locales/en.ts:1439`) |
| `StreamContinuity.RunDeadline` (under `RunFairSpec`) | A run whose stream has not opened is retried without end (`flow.rs:229`) | "supplies the separate finite overall deadline" (`flow.rs:194-195`) |
| `GatewayRequest.BadRequestMeansUnencodable` (1 streaming request, priority, 1 key, 3 attempts) | The 400 of one target is answered for the route (`orchestrator.rs:92`) | "not encodable for any provider" (`target_preparation.rs:51-53`) |
| `WorkspaceChat.ReplyComplete` | A chunk with a finish reason is only its finish reason: its text is dropped (`delta.rs:59-84`, `215-246`) | "The reply is complete" (`stream.rs:272`) |
| `StreamTranslation.FinishSurvives` | Frames already received are dropped with a reader error before the finish among them is seen (`reader.rs:73-217`) | "A transport failure … after the upstream already delivered its finish signal" is an end of stream (`translate_driver.rs:39-46`) |
| `StreamTranslation.CallBlocksDistinct` | Calls first reported at the end reuse a block index (`finalize.rs:63-110`) | "reserve output block indexes before the calls are drained" (`extract.rs:241-242`) |
| `AccountTokens.MintBudget` | Two overlapping mints each pass the budget, and a mint whose task is dropped or whose record cannot be stored (only a warning, `muse/mod.rs:412-419`) is not counted (`muse/mod.rs:385-423`); `MintBudgetAlone` is what holds: the budget and the lost records, for mints that do not overlap | "cannot turn client traffic into mint traffic" (`muse/mod.rs:308-310`) |
| `ProviderUsage.SnapshotsCurrent` | A read takes the row before it takes the epoch | "prevents an already-running refresh from repopulating the cache with data for a deleted credential" (`provider_usage.rs:88-90`) |
| `ProviderCatalog.PrefixReserved` | The last deletion step removes the prefix entry whoever owns it now (`deletion.rs:218-227`) | "provider id or model prefix already exists" (`crud_create.rs:209`): every live provider owns the entry of its prefix |
| `ComboGraph.ForestBounded` | Limits are checked below a saved combo; its ancestors may exceed them | "has to stay a bounded forest" (`references.rs:4-6`) |
| `SettingsRestore.OperationalNotOverwritten` | A restore brings back the revision of the file, so an older form may match it | "changed in another session. Reload the latest values before saving" (`operational.rs:101`) |
| `SettingsRestore.FramesDecodable` | Between commit and load of a restored dictionary, logs are written with the old one | "so it always matches the persisted one" (`dictionary.rs:3-4`) |
| `BackupArchive.ExportImportable` | An export taken during a deletion, or of a combo over the limits, is refused | "a snapshot rejected on import could never have been produced by export" (`snapshot.rs:3-4`) |

### Observations

Pipeline and keys:

- `finalize.rs` says that every statistics event has a request-log row behind it.
  That holds for streams (`OneRowPerStream`); a preparation error and the 504 of
  the deadline are counted and have no row.
- `unsuccessful_status` says that the retry loop keeps 4xx outcomes from the
  client; only 5xx are retried. A 408 and a failed preparatory call end the target
  loop without trying the next target.
- A provider that hangs until the deadline is not counted as a failure: the lease
  is dropped, not failed.
- `invalid_api_key_count` may be too low; a disabled or deleted key may be in the
  availability index, because `mark_provider_key_used` and `delete_provider_key` do
  not look, and a leftover entry makes creating the same id a conflict. A backup
  leaves such entries out (`database.rs:412-425`), so `RebuildExact` compares the
  availability index only as far as keys that can be used go.
- After the failure threshold is raised, a failed probe may leave the circuit
  without a new cooldown: `ProbeAfterCooldown` counts from the
  last failure that reached the threshold it read.

Catalog, combos, restore, storage:

- `update_provider` decides on live state, prefix and authentication from what it
  read before its key tests. Models of combo targets are validated only before the
  transaction. A disabled self-reference makes a combo undeletable.
- An import indexes the prefixes of providers that are being deleted.
- A dictionary trained while a backup is restored overwrites the restored one.
- A write that made the map grow has to take a slot again and may answer Busy.
- A login with a weak password whose record demands no change closes the gateway
  until the next start; two tabs that refresh with one cookie revoke their family.

Accounts and sign-in:

- An exchange that finishes after its flow expired stores the account while the
  dashboard shows "expired". A device flow may end "failed" with its account
  stored. An apply taken over may store a key again that was deleted meanwhile.
- A refresh or mint in flight while the account signs in again overwrites the new
  account. A refreshed token whose transaction fails, or whose task is dropped
  before it, is lost.
- A task dropped inside its transaction frees the lock of its credential while the
  transaction goes on in a blocking thread (`environment.rs:244`): the next refresh
  may overlap it. `RefreshesSerialized` and `NoNeedlessReauth` except that case.
- The throttle of mints is counted before the network call so that a failed mint
  advances it (`muse/mod.rs:402-404`), but in the task's copy of the account: a
  request that is timed out or left during `mint_key` has minted uncounted.
- The strike window of a quota pause is fixed, not sliding; a late success or a
  shorter `Retry-After` shortens a pause; a full table displaces a paused account.
- "Serialize quota refreshes for the same key" (`usage.rs:296`) holds for reads
  under one lock. While the lock table is full, a credential that is read gets the
  shared fallback; with an entry free again the next read gets a lock of its own
  (as in finding 3), so that two refreshes may run and the later one decides what
  is cached. `ReadsReuse` and `LastGoodKept` are therefore stated per lock.
- Lowering the capacity of a token bucket clamps what is left to the new capacity
  and restarts its interval (`engine.rs:163-165`). Such an entry is then full
  without an interval having ended, counts as idle (`engine.rs:376-378`), and
  pruning it restarts the interval once more: the identity's next token comes later
  than without the pruning. `PruningInvisible` excepts exactly that, by an ideal
  limiter which forgets a full bucket too; without the exception TLC refutes it.

Statistics and history:

- `expire_provider_usage` looks at the first 2,048 meters in key order only.
- An import between the reads and the write of an expiry subtracts counts of the
  old database. `scan_truncated` is set at exactly the limit of rows.
- `RequestLiveGuard::drop` tests `Arc::strong_count` without a lock.
- An event `updated` carries provider, log id and token counts (`request_live.rs:46-54`);
  model, protocols and credential of a row reach a viewer with its start or with a
  snapshot, so a viewer may keep showing those of the request's first target.
  `ViewConverges` claims agreement for what updates carry, and for the rest only that
  the viewer is not ahead.

Streams and chat:

- A failed stream sends its error event twice to some clients; a plain `stop` is
  rewritten to `tool_calls` for Messages and Responses clients of a Chat provider
  that sent calls; a Google provider's calls always fail with a buffer limit of 0.
- `response.failed` is shown as `done` in the chat; the 15-minute ceiling does not
  fire while the reader is blocked on a full channel.
- The reader of a chat ignores failed sends (`let _ = outgoing.send`), although its
  comment says that it returns when the channel closes (`stream.rs:204-207`), and the
  guard that aborts it is made at the first poll of the bridge (`stream.rs:400-401`):
  a dashboard gone before that leaves a reader which holds the provider's connection
  until the provider ends or a deadline fires, contrary to `stream.rs:145-147`
  (`LeaveUnread`; `ConnectionOwned` says that it is the only one left behind).

## 6. Not modelled

- Whole requests and answers between JSON dialects (`src/protocol/`), the
  request building of single vendors (`src/provider_adapters/`), URL and header
  checks (`src/security/egress/`), parsing of configuration and wiring: functions
  of their input without state. A model would repeat their data.
- The codec and key encoding of the storage; compression and encryption of a
  backup; shapes of single records.
- The scope of API keys and output styles of a request; budgets of keys; the
  session cache of the Freebuff adapter.
- The clocks behind the last-used throttle and the recovery cooldown of a key
  (one hazard of `PROJECT.json` has no property for this reason).
- Liveness that depends on operators, clients or identity providers.

## 7. Plan

1. Done: the models of section 2, the proofs of section 4.
2. Proofs still worth having: `ReverseIndexExact` and `NeverCyclicNeverDangling` of
   `ComboGraph`; `NoOrphans` under `BackupArchive`.
3. Models: Freebuff sessions, key budgets, the scope of API keys.
