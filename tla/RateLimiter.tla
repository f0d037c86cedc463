----------------------------- MODULE RateLimiter -----------------------------
(***************************************************************************)
(* The limiter behind logins, refreshes, the admin API and the gateway:    *)
(* security/rate_limit/engine.rs and policy.rs.                            *)
(*                                                                         *)
(* A bounded map holds one quota per identity; entries that were idle and  *)
(* whose quota is whole again are pruned a batch at a time.  Beside it an  *)
(* ideal limiter is run without a bound, which forgets a bucket only when  *)
(* it is full and pruned: nobody may see the difference.                   *)
(***************************************************************************)
EXTENDS Integers, Sequences, FiniteSets

CONSTANTS
    Ids,            \* identities
    Policies,       \* quota policies the settings may ask for
    MaxEntries, IdleTtl, PruneInterval, RlPruneBatch,
    MaxClock        \* bound on the time of a behaviour

\* RateLimiter::new refuses zeros; no time is before the limiter's.
ASSUME LimiterAssumption ==
    /\ \A n \in {MaxEntries, IdleTtl, PruneInterval, RlPruneBatch} : n \in Nat \ {0}
    /\ IsFiniteSet(Ids) /\ MaxClock \in Nat
    /\ Policies \subseteq [kind : {"window", "bucket"}, cap : Nat \ {0}, refill : Nat, window : Nat \ {0}]
    /\ \A pol \in Policies : pol.kind = "bucket" => pol.refill > 0

NoEntry == [left |-> 0, at |-> -1, seen |-> -1]

VARIABLES
    entries,     \* quota of each identity: what is left, and since when
    ideal,       \* the same, kept by a limiter that never forgets
    pruneQueue, nextPrune, policy, clock,
    decided,     \* the last decisions of the two, or FALSE for a full map
    grants       \* times of the requests each identity was let through with, since a change of the policy

rlVars == <<entries, ideal, pruneQueue, nextPrune, policy, clock, decided, grants>>

RlInit ==
    /\ policy \in Policies
    /\ entries = [i \in Ids |-> NoEntry] /\ ideal = entries
    /\ pruneQueue = <<>> /\ nextPrune = 0 /\ clock = 0
    /\ decided = [real |-> TRUE, ideal |-> TRUE, full |-> FALSE]
    /\ grants = [i \in Ids |-> <<>>]

-----------------------------------------------------------------------------
(* Fixed windows count down from the limit, below zero when the limit was  *)
(* lowered; the code counts up to it.                                      *)
CeilDiv(a, b) == (a + b - 1) \div b

\* refill_bucket: whole intervals only, the rest of one is kept for later.
Refilled(pol, e, now) ==
    LET intervals == (now - e.at) \div pol.window
    IN IF intervals = 0 THEN e
       ELSE IF intervals >= CeilDiv(pol.cap - e.left, pol.refill)
       THEN [e EXCEPT !.left = pol.cap, !.at = now]
       ELSE [e EXCEPT !.left = @ + intervals * pol.refill, !.at = @ + intervals * pol.window]
Refreshed(pol, e, now) ==
    IF pol.kind = "window"
    THEN IF now - e.at >= pol.window THEN [e EXCEPT !.left = pol.cap, !.at = now] ELSE e
    ELSE Refilled(pol, e, now)

\* apply_policy, initial_quota
Spend(e) == [e EXCEPT !.left = IF @ > 0 THEN @ - 1 ELSE @]
Fresh(pol, now) == [left |-> pol.cap, at |-> now, seen |-> now]
Quota(pol, e, now) == IF e = NoEntry THEN Fresh(pol, now) ELSE [Refreshed(pol, e, now) EXCEPT !.seen = now]

\* Mutant: an idle entry is dropped whatever is left of its quota.
PrunableIdle(pol, e, now) == e # NoEntry /\ now - e.seen >= IdleTtl
\* is_prunable
Prunable(pol, e, now) ==
    /\ e # NoEntry /\ now - e.seen >= IdleTtl
    /\ IF pol.kind = "window" THEN now - e.at >= pol.window
       ELSE (now - e.at) \div pol.window >= CeilDiv(pol.cap - e.left, pol.refill)

\* The members of s at some of its places, in their order.
AtPlaces(s, places) ==
    [k \in 1..Cardinality(places) |-> s[CHOOSE n \in places : Cardinality({m \in places : m <= n}) = k]]

\* One batch from the front of the queue; what stays goes to its back.  The
\* ideal limiter forgets with it a bucket which is full although no interval
\* of it ended, because the capacity was lowered.
PruneNow == SubSeq(pruneQueue, 1, IF Len(pruneQueue) < RlPruneBatch THEN Len(pruneQueue) ELSE RlPruneBatch)
Pruned ==
    IF clock < nextPrune THEN [entries |-> entries, ideal |-> ideal, queue |-> pruneQueue, next |-> nextPrune]
    ELSE LET gone == {i \in {PruneNow[n] : n \in 1..Len(PruneNow)} : Prunable(policy, entries[i], clock)}
         IN [entries |-> [i \in Ids |-> IF i \in gone THEN NoEntry ELSE entries[i]],
             ideal |-> [i \in Ids |-> IF i \in gone /\ entries[i].left = policy.cap THEN NoEntry ELSE ideal[i]],
             queue |-> SubSeq(pruneQueue, Len(PruneNow) + 1, Len(pruneQueue))
                       \o AtPlaces(PruneNow, {n \in 1..Len(PruneNow) : PruneNow[n] \notin gone}),
             next |-> clock + PruneInterval]
Held(es) == {i \in Ids : es[i] # NoEntry}

\* check_at_internal
Check(i) ==
    LET p == Pruned
        full == p.entries[i] = NoEntry /\ Cardinality(Held(p.entries)) >= MaxEntries
        mine == Quota(policy, p.entries[i], clock)
        its == Quota(policy, p.ideal[i], clock)
        ok == ~full /\ mine.left > 0
    IN /\ entries' = IF full THEN p.entries ELSE [p.entries EXCEPT ![i] = Spend(mine)]
       /\ pruneQueue' = IF full \/ p.entries[i] # NoEntry THEN p.queue ELSE Append(p.queue, i)
       /\ nextPrune' = p.next
       /\ ideal' = IF full THEN p.ideal ELSE [p.ideal EXCEPT ![i] = Spend(its)]
       /\ decided' = [real |-> ok, ideal |-> its.left > 0, full |-> full]
       /\ grants' = IF ok THEN [grants EXCEPT ![i] = Append(@, clock)] ELSE grants
       /\ UNCHANGED <<policy, clock>>

\* reconfigure: the quotas in use are carried over, never renewed; a request
\* of a forgotten identity would have started afresh under either policy.
CarriedOver(pol, e, now) ==
    IF policy.kind = "window" /\ pol.kind = "window"
    THEN [e EXCEPT !.at = now, !.left = pol.cap - (policy.cap - @)]
    ELSE IF policy.kind = "bucket" /\ pol.kind = "bucket"
    THEN LET r == Refilled(policy, e, now) IN [r EXCEPT !.at = now, !.left = IF @ > pol.cap THEN pol.cap ELSE @]
    ELSE e
Reconfigure(pol) ==
    /\ pol # policy /\ pol.kind = policy.kind /\ policy' = pol
    /\ entries' = [i \in Ids |-> IF entries[i] = NoEntry THEN NoEntry ELSE CarriedOver(pol, entries[i], clock)]
    /\ ideal' = [i \in Ids |-> IF entries[i] = NoEntry THEN NoEntry ELSE CarriedOver(pol, ideal[i], clock)]
    /\ grants' = [i \in Ids |-> <<>>]
    /\ UNCHANGED <<pruneQueue, nextPrune, clock, decided>>

RlTick ==
    /\ clock < MaxClock /\ clock' = clock + 1
    /\ UNCHANGED <<entries, ideal, pruneQueue, nextPrune, policy, decided, grants>>

RlNext ==
    \/ \E i \in Ids : Check(i)
    \/ \E pol \in Policies : Reconfigure(pol)
    \/ RlTick
RlSpec == RlInit /\ [][RlNext]_rlVars

-----------------------------------------------------------------------------
\* The map and its queue agree and stay within the bound on identities.
RlTypeOK ==
    /\ {pruneQueue[n] : n \in 1..Len(pruneQueue)} = Held(entries)
    /\ Len(pruneQueue) = Cardinality(Held(entries)) /\ Len(pruneQueue) <= MaxEntries
    /\ \A i \in Held(entries) : entries[i].left <= policy.cap /\ entries[i].at <= clock

(***************************************************************************)
(* Pruning can not be seen (policy.rs:35 "prevents pruning from granting a *)
(* fresh quota early"): unless the map is full an identity gets the answer *)
(* a limiter without pruning gives it, between two changes of the policy.  *)
(* The exception is a bucket which a lowered capacity left full: once it   *)
(* is pruned its interval begins with the next request instead.            *)
(***************************************************************************)
PruningInvisible == decided.full \/ decided.real = decided.ideal

(***************************************************************************)
(* Whatever the timing of its requests, an identity gets at most cap plus  *)
(* what was added in whole intervals, for every stretch of time; a window  *)
(* aligned to its first request lets at most 2 * cap - 1 through in the    *)
(* time of one window.                                                     *)
(***************************************************************************)
Granted(g, a, b) == Cardinality({n \in 1..Len(g) : a <= g[n] /\ g[n] <= b})
QuotaHeld ==
    \A i \in Ids : \A a \in 0..clock : \A b \in a..clock :
        IF policy.kind = "bucket"
        THEN Granted(grants[i], a, b) <= policy.cap + policy.refill * CeilDiv(b - a, policy.window)
        ELSE b - a < policy.window => Granted(grants[i], a, b) <= 2 * policy.cap - 1

\* The limiter of engine.rs grants no more than its policy, and nobody can
\* tell that it prunes.
LimiterSound ==
    /\ RlTypeOK
    /\ QuotaHeld
    /\ PruningInvisible
=============================================================================
