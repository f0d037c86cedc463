---------------------------- MODULE AccountQuota -----------------------------
(***************************************************************************)
(* The two process-local quota trackers: the pauses of Antigravity         *)
(* accounts whose quota is used up (three rejections in a window, or the   *)
(* time the provider asked for), and the ring of per-second buckets that   *)
(* estimates requests per minute of a provider.                            *)
(*                                                                         *)
(* Time runs in half seconds, because the ring counts whole seconds while  *)
(* its pruning compares instants.  `rejections`, `pause` and `sends` are   *)
(* history variables.                                                      *)
(***************************************************************************)
EXTENDS Integers, FiniteSets, FiniteSetsExt

CONSTANTS Accounts,      \* (credential, model) pairs of one provider
          Strikes,       \* rejections that start a pause
          StrikeWindow,  \* ANTIGRAVITY_QUOTA_STRIKE_WINDOW
          PauseTime,     \* ANTIGRAVITY_QUOTA_BLOCK
          RetryAfters,   \* what a rejection may ask for; 0 is none
          MaxRetryAfter, \* MAX_ANTIGRAVITY_RETRY_AFTER
          MaxBreakers,   \* MAX_ANTIGRAVITY_QUOTA_BREAKERS
          Metered,       \* providers with a local quota
          Seconds,       \* LOCAL_PROVIDER_RPM_WINDOW_SECONDS
          MaxTrackers,   \* MAX_LOCAL_PROVIDER_RPM_TRACKERS
          MaxRejections, \* bound: rejections of one account
          MaxSends,      \* bound: requests of one provider
          MaxHalf        \* bound: clock

ASSUME QuotaAssumption ==
    /\ {Strikes, Seconds, MaxBreakers, MaxTrackers} \subseteq Nat \ {0}
    /\ {StrikeWindow, PauseTime, MaxRetryAfter, MaxRejections, MaxSends, MaxHalf} \subseteq Nat
    /\ RetryAfters \subseteq Nat

VARIABLES breaker,     \* antigravity_quota_breakers
          rejections,  \* history: times of the rejections since an account was cleared
          pause,       \* history: the pause the last rejection announced
          ring,        \* windows of the RPM tracker
          began,       \* epoch_started_at
          pruned,      \* last_pruned_at
          sends,       \* history: seconds of the requests a window has counted
          half         \* the clock, in half seconds

breakerVars == <<breaker, rejections, pause>>
ringVars    == <<ring, began, pruned, sends>>
quotaVars   == <<breakerVars, ringVars, half>>

Untracked == [held |-> FALSE, start |-> 0, seen |-> 0, strikes |-> 0, until |-> 0]
NoPause   == [until |-> 0, asked |-> FALSE]
NoWindow  == [held |-> FALSE, active |-> 0,
              slot |-> [i \in 0 .. Seconds - 1 |-> [second |-> -1, n |-> 0]]]

QuotaInit ==
    /\ breaker = [a \in Accounts |-> Untracked]
    /\ rejections = [a \in Accounts |-> {}] /\ pause = [a \in Accounts |-> NoPause]
    /\ ring = [p \in Metered |-> NoWindow] /\ sends = [p \in Metered |-> {}]
    /\ began = 0 /\ pruned = 0 /\ half = 0

---------------------------------------------------------------------------
(* Pauses of accounts. *)

\* Mutant: entries are dropped as soon as their strike window is over.
FreshBreakersOnly(b) ==
    [a \in Accounts |-> IF half - b[a].start <= StrikeWindow THEN b[a] ELSE Untracked]

\* `retain`: entries that pause an account or whose strike window is open.
FreshBreakers(b) ==
    [a \in Accounts |-> IF b[a].until > half \/ half - b[a].start <= StrikeWindow
                        THEN b[a] ELSE Untracked]
HeldBreakers(b) == {a \in Accounts : b[a].held}

\* An entry for a: in a full table it displaces the one seen longest ago.
Displaced(b, a) ==
    IF b[a].held \/ Cardinality(HeldBreakers(b)) < MaxBreakers THEN {{}}
    ELSE {{d} : d \in {d \in HeldBreakers(b) : \A o \in HeldBreakers(b) : b[d].seen <= b[o].seen}}

\* One more strike, in a new window if the old one is over.
Struck(e) ==
    LET f == IF e.held /\ half - e.start <= StrikeWindow THEN e
             ELSE [e EXCEPT !.held = TRUE, !.start = half, !.strikes = 0]
    IN [f EXCEPT !.seen = half, !.strikes = Min({@ + 1, Strikes})]

\* How long a rejection pauses the account: what the provider asked for, or
\* the standard pause at the last strike; 0 leaves the pause as it is.
PauseFor(e, retry) ==
    IF retry > 0 THEN Min({retry, MaxRetryAfter})
    ELSE IF e.strikes >= Strikes THEN PauseTime ELSE 0

\* A request of account a was rejected for its quota.
Rejected(a, retry) ==
    LET fresh == FreshBreakers(breaker)
        e     == Struck(fresh[a])
        long  == PauseFor(e, retry)
    IN /\ Cardinality(rejections[a]) < MaxRejections
       /\ \E d \in Displaced(fresh, a) :
         /\ breaker' = [b \in Accounts |->
                IF b = a THEN [e EXCEPT !.until = IF long > 0 THEN half + long ELSE @]
                ELSE IF b \in d THEN Untracked ELSE fresh[b]]
         /\ rejections' = [b \in Accounts |->
                IF b = a THEN rejections[a] \cup {<<half, Cardinality(rejections[a])>>}
                ELSE IF b \in d THEN {} ELSE rejections[b]]
         /\ pause' = [b \in Accounts |->
                IF b = a /\ long > 0 THEN [until |-> half + long, asked |-> retry > 0]
                ELSE IF b \in d THEN NoPause ELSE pause[b]]
    /\ UNCHANGED <<ringVars, half>>

\* The rotation asks whether account a is paused, and skips it if so.
Paused(a) == breaker[a].held /\ breaker[a].until > half
AskPaused(a) ==
    /\ breaker' = LET f == FreshBreakers(breaker)
                  IN IF f[a].held THEN [f EXCEPT ![a].seen = half] ELSE f
    /\ UNCHANGED <<rejections, pause, ringVars, half>>

Forgotten(accounts) ==
    /\ breaker' = [a \in Accounts |-> IF a \in accounts THEN Untracked ELSE breaker[a]]
    /\ rejections' = [a \in Accounts |-> IF a \in accounts THEN {} ELSE rejections[a]]
    /\ pause' = [a \in Accounts |-> IF a \in accounts THEN NoPause ELSE pause[a]]

\* A request of the account succeeded.
Succeeded(a) == Forgotten({a}) /\ UNCHANGED <<ringVars, half>>

---------------------------------------------------------------------------
(* Requests per minute of a provider. *)

Second == (half - began) \div 2

\* Once a second, windows without a request for the whole window go.
PruneDue == half - pruned >= 2
Kept(r) == IF PruneDue
           THEN [p \in Metered |-> IF half - r[p].active < 2 * Seconds THEN r[p] ELSE NoWindow]
           ELSE r
Pruned == pruned' = IF PruneDue THEN half ELSE pruned
Tracked(r) == {p \in Metered : r[p].held}

InSlot(s) == [second |-> Second, n |-> IF s.second = Second THEN s.n + 1 ELSE 1]

\* A request is about to be sent: it is counted unless the table is full.
Attempt(p) ==
    LET kept == Kept(ring) IN
    /\ Cardinality(sends[p]) < MaxSends
    /\ IF kept[p].held \/ Cardinality(Tracked(kept)) < MaxTrackers
       THEN /\ ring' = [kept EXCEPT ![p].held = TRUE, ![p].active = half,
                                    ![p].slot[Second % Seconds] = InSlot(@)]
            /\ sends' = [sends EXCEPT ![p] = @ \cup {<<Second, Cardinality({x \in @ : x[1] = Second}) + 1>>}]
       ELSE ring' = kept /\ UNCHANGED sends
    /\ Pruned /\ UNCHANGED <<began, breakerVars, half>>

\* What the dashboard shows: the sum of the slots of the last window, as the
\* number of the requests they stand for.
LastMinute(w) ==
    LET counted == {i \in 0 .. Seconds - 1 :
                       w.slot[i].second >= 0 /\ Second - w.slot[i].second < Seconds}
    IN Cardinality(UNION {{i} \X (1 .. w.slot[i].n) : i \in counted})

Look(p) ==
    /\ ring' = Kept(ring) /\ Pruned
    /\ UNCHANGED <<began, sends, breakerVars, half>>

ForgetProvider(p) ==
    /\ ring' = [ring EXCEPT ![p] = NoWindow] /\ sends' = [sends EXCEPT ![p] = {}]
    /\ Forgotten(Accounts)
    /\ UNCHANGED <<began, pruned, half>>

\* A backup was restored: all trackers start again.
ForgetAll ==
    /\ ring' = [p \in Metered |-> NoWindow] /\ sends' = [p \in Metered |-> {}]
    /\ began' = half /\ pruned' = half
    /\ Forgotten(Accounts)
    /\ UNCHANGED half

Elapse == half < MaxHalf /\ half' = half + 1 /\ UNCHANGED <<breakerVars, ringVars>>

QuotaNext ==
    \/ \E a \in Accounts : \/ \E retry \in RetryAfters : Rejected(a, retry)
                           \/ AskPaused(a) \/ Succeeded(a)
    \/ \E p \in Metered : Attempt(p) \/ Look(p) \/ ForgetProvider(p)
    \/ ForgetAll \/ Elapse

QuotaSpec == QuotaInit /\ [][QuotaNext]_quotaVars

---------------------------------------------------------------------------

\* An account the provider paused stays paused for the whole time: no
\* pruning, question or later rejection without a time of its own ends the
\* pause early (only a success, a cleared table or a displaced entry does).
PauseHonoured == \A a \in Accounts : pause[a].until > half => Paused(a)

\* An account is never paused hastily: without a time from the provider, a
\* pause needs the full number of rejections within one strike window.
NoHastyPause ==
    \A a \in Accounts :
        (Paused(a) /\ ~pause[a].asked) =>
            \E s \in SUBSET rejections[a] :
                /\ Cardinality(s) >= Strikes
                /\ \A x, y \in s : x[1] - y[1] <= StrikeWindow

\* The requests shown for a provider are those counted in the last full
\* window: slots of earlier rounds and pruned windows never show.
RpmExact ==
    \A p \in Metered :
        LastMinute(Kept(ring)[p]) = Cardinality({x \in sends[p] : Second - x[1] < Seconds})

\* The quota trackers: an announced pause is honoured, none is imposed before
\* its strikes, and the ring counts the sends of the last seconds exactly.
QuotaSound ==
    /\ PauseHonoured
    /\ NoHastyPause
    /\ RpmExact
=============================================================================
