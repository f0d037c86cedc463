--------------------------- MODULE ProviderSignIn ---------------------------
(***************************************************************************)
(* Sign-in attempts of provider accounts: OAuth redirect and device flows  *)
(* (admin/provider_auth) and the assisted API-key flow                     *)
(* (admin/provider_api_key_auth), the maps that hold them                  *)
(* (state/auth_flows.rs) and the two loopback listeners that are started   *)
(* for the first attempt and stop when none is left.                       *)
(*                                                                         *)
(* Time is abstracted to what the code compares: an attempt is "fresh",    *)
(* "expired" or "stale" (past the terminal TTL too), a device poll is      *)
(* recent or not, an apply is overdue or not.  The identity provider       *)
(* answers as it likes.  Provider rows, PKCE and URL building are left     *)
(* out; the start handlers' refusals before the flow exists change nothing.*)
(***************************************************************************)
EXTENDS Naturals, FiniteSets, TLC

CONSTANTS Flows,      \* identifiers of sign-in attempts
          Slots,      \* requests that may work on one attempt at a time
          MaxFlows    \* MAX_PENDING_PROVIDER_AUTH_FLOWS and its API-key twin

ASSUME SignInAssumption ==
    /\ MaxFlows \in Nat \ {0}
    /\ IsFiniteSet(Flows) /\ Flows \cap {"free", "supervisor"} = {}

VARIABLES flow,          \* the two flow maps: status, age and throttles
          listener,      \* per map: the flag `started` and the serving task
          callbackLock,  \* per map: owner of the callback lock
          job,           \* exchanges, polls and applies in flight
          connected,     \* attempts whose account save_oauth_account stored
          starting,      \* kind of an attempt whose start handler runs
          sent,          \* how often an attempt's code went upstream
          told,          \* attempts the dashboard was told are connected
          keyRows,       \* attempts whose provider key row exists
          keyTotal,      \* api_key_count of the provider
          removed        \* attempts whose key row the operator deleted

accountVars == <<connected, keyRows, keyTotal, removed>>
signVars == <<flow, listener, callbackLock, job, starting, sent, told, accountVars>>

\* "redirect" uses the loopback listener, "custom" a redirect URI of the
\* operator's own, "device" a device code, "key" the assisted API-key sign-in.
Kinds == {"redirect", "custom", "device", "key"}
Maps  == {"oauth", "key"}

MapOf(kind) == IF kind = "key" THEN "key" ELSE "oauth"

\* redirect_uri == LEGACY_PROVIDER_AUTH_CALLBACK_URL, and every key flow
NeedsListener(kind) == kind \in {"redirect", "key"}

NoFlow == [status |-> "none", kind |-> "redirect", age |-> "fresh",
           polled |-> FALSE, overdue |-> FALSE, secret |-> FALSE]

NewFlow(kind) == [NoFlow EXCEPT !.status = "pending", !.kind = kind]

Registered(m) == {f \in Flows : flow[f].status # "none" /\ MapOf(flow[f].kind) = m}

SignInit ==
    /\ flow = [f \in Flows |-> NoFlow]
    /\ listener = [m \in Maps |-> [started |-> FALSE, task |-> "none", broke |-> FALSE]]
    /\ callbackLock = [m \in Maps |-> "free"]
    /\ job = [f \in Flows |-> [s \in Slots |-> "none"]]
    /\ starting = [f \in Flows |-> "no"] /\ sent = [f \in Flows |-> 0]
    /\ told = {} /\ connected = {} /\ keyRows = {} /\ keyTotal = 0 /\ removed = {}

---------------------------------------------------------------------------
(* The flow maps. *)

\* Applying flows older than the recovery timeout can be applied again.
Recovered(r) ==
    IF r.status = "applying" /\ r.overdue
    THEN [r EXCEPT !.status = "received", !.overdue = FALSE] ELSE r

\* What registration keeps of an OAuth attempt.
KeptOnRegister(r) ==
    \/ r.age = "fresh"
    \/ r.status \in {"processing", "connected"} /\ r.age = "expired"

\* What every pass over the API-key map keeps.
KeptKeyFlow(r) == r.age = "fresh" \/ r.status = "applying"

\* The map m without the attempts that keep(r) lets go.
Retained(fl, m, keep(_)) ==
    [f \in Flows |->
        IF fl[f].status # "none" /\ MapOf(fl[f].kind) = m /\ ~keep(fl[f])
        THEN NoFlow ELSE fl[f]]

RegisterOAuth(f, kind) ==
    LET kept == Retained(flow, "oauth", KeptOnRegister)
        size == Cardinality({g \in Flows : kept[g].status # "none"
                                           /\ MapOf(kept[g].kind) = "oauth"})
    IN  flow' = IF size >= MaxFlows THEN kept ELSE [kept EXCEPT ![f] = NewFlow(kind)]

RegisterKey(f) ==
    LET fixed == [g \in Flows |-> IF MapOf(flow[g].kind) = "key"
                                  THEN Recovered(flow[g]) ELSE flow[g]]
        kept  == Retained(fixed, "key", KeptKeyFlow)
        size  == Cardinality({g \in Flows : kept[g].status # "none"
                                            /\ MapOf(kept[g].kind) = "key"})
    IN  flow' = IF size >= MaxFlows THEN kept ELSE [kept EXCEPT ![f] = NewFlow("key")]

---------------------------------------------------------------------------
(* The loopback listeners. *)

\* ensure_*_listener_locked: binds and spawns the supervisor when the flag
\* says there is none.
Ensured(m) ==
    IF listener[m].started THEN listener[m]
    ELSE [listener[m] EXCEPT !.started = TRUE, !.task = "serving"]

\* Mutant: an expired attempt still keeps the listener open.
ActiveOAuthAny == \E f \in Registered("oauth") :
    flow[f].kind # "device" /\ flow[f].status \in {"pending", "processing"}

\* has_active_provider_auth_flow: redirects, pending or exchanging, unexpired.
ActiveOAuth == \E f \in Registered("oauth") :
    /\ flow[f].kind # "device" /\ flow[f].age = "fresh"
    /\ flow[f].status \in {"pending", "processing"}

\* has_active_flows: key flows that still wait for the browser.
ActiveKey == \E f \in Registered("key") :
    flow[f].status = "pending" /\ flow[f].age = "fresh"

ActiveFlows(m) == IF m = "oauth" THEN ActiveOAuth ELSE ActiveKey

SetTask(m, t) == listener' = [listener EXCEPT ![m].task = t]

OnlyListener == UNCHANGED <<flow, job, starting, sent, told, accountVars>>

ListenerClosed(m) == listener' = [listener EXCEPT ![m].started = FALSE, ![m].task = "none"]

\* A poll of the supervisor: with no active flow the idle grace starts, and
\* any flow seen active during it ends it.
SuperviseWatch(m) ==
    /\ listener[m].task \in {"serving", "grace"}
    /\ SetTask(m, IF ActiveFlows(m) THEN "serving" ELSE "grace")
    /\ UNCHANGED callbackLock /\ OnlyListener

\* The grace is over: take the lock and look once more.

SuperviseLock(m) ==
    /\ listener[m].task = "grace" /\ callbackLock[m] = "free"
    /\ IF ActiveFlows(m)
       THEN SetTask(m, "serving") /\ UNCHANGED callbackLock
       ELSE /\ callbackLock' = [callbackLock EXCEPT ![m] = "supervisor"]
            /\ SetTask(m, "stopping")
    /\ OnlyListener

\* The servers have ended (or were aborted at the deadline).
SuperviseStop(m) ==
    /\ listener[m].task = "stopping"
    /\ ListenerClosed(m)
    /\ callbackLock' = [callbackLock EXCEPT ![m] = "free"]
    /\ OnlyListener

\* A server task ends by itself: the supervisor aborts the others and clears
\* the flag without the lock.
SuperviseFault(m) ==
    /\ listener[m].task \in {"serving", "grace"}
    /\ listener' = [listener EXCEPT ![m].task = "failed", ![m].broke = TRUE]
    /\ UNCHANGED callbackLock /\ OnlyListener

SuperviseCleared(m) ==
    /\ listener[m].task = "failed"
    /\ ListenerClosed(m)
    /\ UNCHANGED callbackLock /\ OnlyListener

Supervise(m) == SuperviseWatch(m) \/ SuperviseLock(m) \/ SuperviseStop(m) \/ SuperviseCleared(m)

OAuthListener == Supervise("oauth")
KeyListener   == Supervise("key")

---------------------------------------------------------------------------
(* Starting an attempt. *)

\* start_provider_auth / start, first half: the lock and the listener.
StartLocked(f, kind) ==
    /\ starting[f] = "no" /\ kind # "device"
    /\ callbackLock[MapOf(kind)] = "free"
    /\ callbackLock' = [callbackLock EXCEPT ![MapOf(kind)] = f]
    /\ starting' = [starting EXCEPT ![f] = kind]
    /\ listener' = IF NeedsListener(kind)
                   THEN [listener EXCEPT ![MapOf(kind)] = Ensured(MapOf(kind))]
                   ELSE listener
    /\ UNCHANGED <<flow, job, sent, told, accountVars>>

\* Second half: register the flow and drop the lock.
StartRegister(f) ==
    LET kind == starting[f] IN
    /\ kind \in Kinds
    /\ IF kind = "key" THEN RegisterKey(f) ELSE RegisterOAuth(f, kind)
    /\ callbackLock' = [callbackLock EXCEPT ![MapOf(kind)] = "free"]
    /\ starting' = [starting EXCEPT ![f] = "done"]
    /\ UNCHANGED <<listener, job, sent, told, accountVars>>

StartDevice(f) ==
    /\ starting[f] = "no"
    /\ RegisterOAuth(f, "device")
    /\ starting' = [starting EXCEPT ![f] = "done"]
    /\ UNCHANGED <<listener, callbackLock, job, sent, told, accountVars>>

---------------------------------------------------------------------------
(* OAuth attempts: callback, exchange, device poll, status. *)

\* A new task takes the first free slot of its attempt.
Idle(f, s) == job[f][s] = "none" /\ \A t \in Slots : t < s => job[f][t] # "none"
SetJob(f, s, v) == job' = [job EXCEPT ![f][s] = v]

IsFresh(r) == r.age = "fresh"

\* The dashboard-supplied or state-matched flow moves to Processing and its
\* exchange is spawned; a flow that is already claimed only reports.
Claimed(kept, f, s) ==
    IF kept[f].status = "pending"
    THEN /\ flow' = [kept EXCEPT ![f].status = "processing"]
         /\ SetJob(f, s, "asked")
         /\ sent' = [sent EXCEPT ![f] = @ + 1]
    ELSE flow' = kept /\ UNCHANGED <<job, sent>>

\* A callback whose state names f (claim_provider_auth_callback_flow).
Callback(f, s) ==
    /\ flow[f].kind \in {"redirect", "custom"} /\ flow[f].status # "none" /\ Idle(f, s)
    /\ Claimed(Retained(flow, "oauth", IsFresh), f, s)
    /\ UNCHANGED <<listener, callbackLock, starting, told, accountVars>>

\* A callback without state is accepted only if one open attempt fits
\* (claim_embedded_provider_auth_callback_flow_without_state).
CallbackWithoutState(s) ==
    LET kept == Retained(flow, "oauth", IsFresh)
        fits == {f \in Flows : /\ kept[f].status \in {"pending", "processing"}
                               /\ kept[f].kind \in {"redirect", "custom"}}
    IN  /\ \E f \in Flows : flow[f].status # "none" /\ flow[f].kind # "key"
        /\ IF Cardinality(fits) = 1
           THEN \E f \in fits : Idle(f, s) /\ Claimed(kept, f, s)
           ELSE flow' = kept /\ UNCHANGED <<job, sent>>
        /\ UNCHANGED <<listener, callbackLock, starting, told, accountVars>>

\* provider_auth_poll up to the upstream call: one call per interval.
DevicePoll(f, s) ==
    /\ flow[f].kind = "device" /\ flow[f].status = "pending" /\ flow[f].age = "fresh"
    /\ ~flow[f].polled /\ Idle(f, s)
    /\ flow' = [flow EXCEPT ![f].polled = TRUE]
    /\ SetJob(f, s, "asked")
    /\ UNCHANGED <<listener, callbackLock, starting, sent, told, accountVars>>

\* The exchange or the poll came back with an account.
Granted(f, s) ==
    /\ job[f][s] = "asked"
    /\ SetJob(f, s, "granted")
    /\ UNCHANGED <<flow, listener, callbackLock, starting, sent, told, accountVars>>

\* note_provider_auth_flow: a device poll that leaves the attempt open.
NotYet(f, s) ==
    /\ job[f][s] = "asked" /\ flow[f].kind = "device"
    /\ SetJob(f, s, "none")
    /\ UNCHANGED <<flow, listener, callbackLock, starting, sent, told, accountVars>>

\* finish_provider_auth_flow, first half: save_oauth_account.
SaveAccount(f, s) ==
    /\ job[f][s] = "granted"
    /\ \/ SetJob(f, s, "stored") /\ connected' = connected \cup {f}
       \/ SetJob(f, s, "refused") /\ UNCHANGED connected
    /\ UNCHANGED <<flow, listener, callbackLock, starting, sent, told, keyRows, keyTotal, removed>>

\* Mutant: the last result is shown, whatever was shown before.
VerdictLast(r, status) ==
    IF r.status # "none" THEN [r EXCEPT !.status = status, !.age = "fresh"] ELSE r

\* The status an attempt takes, if it is still open.
Verdict(r, status) ==
    IF r.status \in {"pending", "processing"}
    THEN [r EXCEPT !.status = status, !.age = "fresh"] ELSE r

\* Second half of finish_provider_auth_flow.
PublishSaved(f, s) ==
    /\ job[f][s] \in {"stored", "refused"}
    /\ flow' = [flow EXCEPT ![f] =
          Verdict(@, IF job[f][s] = "stored" THEN "connected" ELSE "failed")]
    /\ SetJob(f, s, "none")
    /\ UNCHANGED <<listener, callbackLock, starting, sent, told, accountVars>>

\* fail_provider_auth_flow: the exchange was refused, the poll denied or
\* expired, or the provider row is gone.
FailFlow(f, s) ==
    /\ job[f][s] = "asked"
    /\ flow' = [flow EXCEPT ![f] = Verdict(@, "failed")]
    /\ SetJob(f, s, "none")
    /\ UNCHANGED <<listener, callbackLock, starting, sent, told, accountVars>>

\* provider_auth_status of an ended attempt: it is reaped once it was seen.
\* Any other answer ("pending", "expired") leaves the map alone.
OAuthStatus(f) ==
    /\ flow[f].kind # "key" /\ flow[f].status \in {"connected", "failed"}
    /\ told' = IF flow[f].status = "connected" THEN told \cup {f} ELSE told
    /\ flow' = [flow EXCEPT ![f] = NoFlow]
    /\ UNCHANGED <<listener, callbackLock, job, starting, sent, accountVars>>

---------------------------------------------------------------------------
(* API-key attempts: callback, status, apply. *)

\* callback: the key a browser hands over is kept, encrypted, once.
KeyCallback(f) ==
    /\ flow[f].kind = "key" /\ flow[f].status # "none" /\ listener["key"].task \in {"serving", "grace"}
    /\ LET kept == Retained(flow, "key", KeptKeyFlow)
       IN  flow' = IF kept[f].status = "pending"
                   THEN [kept EXCEPT ![f].status = "received", ![f].secret = TRUE] ELSE kept
    /\ UNCHANGED <<listener, callbackLock, job, starting, sent, told, accountVars>>

Expired(r) == [r EXCEPT !.status = "failed", !.secret = FALSE, !.overdue = FALSE]

KeyStatus(f) ==
    LET r == Recovered(flow[f])
        gone == r.age # "fresh" /\ r.status \notin {"applying", "applied"}
    IN  /\ flow[f].kind = "key" /\ flow[f].status # "none"
        /\ flow' = [flow EXCEPT ![f] = IF gone THEN Expired(r) ELSE r]
        /\ UNCHANGED <<listener, callbackLock, job, starting, sent, told, accountVars>>

\* claim_api_key_auth_apply
ApplyClaim(f, s) ==
    LET r == Recovered(flow[f]) IN
    /\ flow[f].kind = "key" /\ flow[f].status # "none" /\ Idle(f, s)
    /\ \/ /\ r.status \in {"applied", "applying"}
          /\ flow' = [flow EXCEPT ![f] = r] /\ UNCHANGED job
       \/ /\ r.status \notin {"applied", "applying"} /\ r.age # "fresh"
          /\ flow' = [flow EXCEPT ![f] = Expired(r)] /\ UNCHANGED job
       \/ /\ r.status = "received" /\ r.age = "fresh" /\ r.secret
          /\ flow' = [flow EXCEPT ![f] = [r EXCEPT !.status = "applying", !.overdue = FALSE]]
          /\ SetJob(f, s, "claimed")
    /\ UNCHANGED <<listener, callbackLock, starting, sent, told, accountVars>>

\* add_provider_key_with_id up to the test of the key: an existing row ends it.
ApplyRead(f, s) ==
    /\ job[f][s] = "claimed"
    /\ \/ SetJob(f, s, IF f \in keyRows THEN "saved" ELSE "testing")
       \/ SetJob(f, s, "erred")
    /\ UNCHANGED <<flow, listener, callbackLock, starting, sent, told, accountVars>>

\* Its transaction, which looks again.

ApplyStore(f, s) ==
    /\ job[f][s] = "testing"
    /\ \/ /\ SetJob(f, s, "saved")
          /\ keyRows' = keyRows \cup {f}
          /\ keyTotal' = IF f \in keyRows THEN keyTotal ELSE keyTotal + 1
       \/ SetJob(f, s, "erred") /\ UNCHANGED <<keyRows, keyTotal>>
    /\ UNCHANGED <<flow, listener, callbackLock, starting, sent, told, connected, removed>>

ApplyDone(f, s) ==
    /\ job[f][s] \in {"saved", "erred"}
    /\ flow' = [flow EXCEPT ![f] =
          IF @.status # "applying" THEN @
          ELSE IF job[f][s] = "saved"
               THEN [@ EXCEPT !.status = "applied", !.secret = FALSE, !.overdue = FALSE]
               ELSE [@ EXCEPT !.status = "received", !.overdue = FALSE]]
    /\ SetJob(f, s, "none")
    /\ UNCHANGED <<listener, callbackLock, starting, sent, told, accountVars>>

\* The operator deletes the key row again.
RemoveKey(f) ==
    /\ f \in keyRows
    /\ keyRows' = keyRows \ {f} /\ keyTotal' = keyTotal - 1
    /\ removed' = removed \cup {f}
    /\ UNCHANGED <<flow, listener, callbackLock, job, starting, sent, told, connected>>

---------------------------------------------------------------------------
(* The clock. *)

LaterStatus(age) == IF age = "fresh" THEN "expired" ELSE "stale"

GrowsOld(f) ==
    /\ flow[f].status # "none" /\ flow[f].age # "stale"
    /\ flow' = [flow EXCEPT ![f].age = LaterStatus(@)]
    /\ UNCHANGED <<listener, callbackLock, job, starting, sent, told, accountVars>>

IntervalOver(f) ==
    /\ flow[f].polled
    /\ flow' = [flow EXCEPT ![f].polled = FALSE]
    /\ UNCHANGED <<listener, callbackLock, job, starting, sent, told, accountVars>>

ApplyTimesOut(f) ==
    /\ flow[f].status = "applying" /\ ~flow[f].overdue
    /\ flow' = [flow EXCEPT ![f].overdue = TRUE]
    /\ UNCHANGED <<listener, callbackLock, job, starting, sent, told, accountVars>>

SignNext ==
    \/ OAuthListener \/ KeyListener
    \/ \E m \in Maps : SuperviseFault(m)
    \/ \E s \in Slots : CallbackWithoutState(s)
    \/ \E f \in Flows :
         \/ StartRegister(f) \/ StartDevice(f) \/ OAuthStatus(f)
         \/ KeyCallback(f) \/ KeyStatus(f) \/ RemoveKey(f)
         \/ GrowsOld(f) \/ IntervalOver(f) \/ ApplyTimesOut(f)
         \/ \E kind \in Kinds : StartLocked(f, kind)
         \/ \E s \in Slots :
              \/ Callback(f, s) \/ DevicePoll(f, s) \/ Granted(f, s) \/ NotYet(f, s)
              \/ SaveAccount(f, s) \/ PublishSaved(f, s) \/ FailFlow(f, s)
              \/ ApplyClaim(f, s) \/ ApplyRead(f, s) \/ ApplyStore(f, s) \/ ApplyDone(f, s)

\* The supervisors poll and a start handler that owns the lock finishes.
SignFair ==
    /\ WF_signVars(OAuthListener) /\ WF_signVars(KeyListener)
    /\ \A f \in Flows : WF_signVars(StartRegister(f))

SignSpec == SignInit /\ [][SignNext]_signVars /\ SignFair

---------------------------------------------------------------------------
(* Properties. *)

\* Attempts whose browser still has to come back to the loopback port.
AwaitsBrowser(m) == {f \in Flows : /\ flow[f].status = "pending" /\ flow[f].age = "fresh"
                                   /\ NeedsListener(flow[f].kind) /\ MapOf(flow[f].kind) = m}

\* An attempt that waits for the browser has a listener to come back to,
\* whatever the order of a start and of an idle shutdown (callback.rs, the
\* lock shared by both), unless a server task failed by itself.
ListenerAwaits ==
    \A m \in Maps : AwaitsBrowser(m) # {} /\ ~listener[m].broke
        => listener[m].started /\ listener[m].task \in {"serving", "grace"}

\* An authorization code is exchanged once, however often the browser and
\* the dashboard deliver it (the Pending -> Processing claim).
CodeExchangedOnce == \A f \in Flows : sent[f] <= 1

\* The dashboard hears "connected" only of an account that was stored, and
\* what a first answer decided no late poll or exchange decides again.
ConnectedIsStored ==
    \A f \in Flows : flow[f].status = "connected" \/ f \in told => f \in connected

VerdictStands ==
    [][\A f \in Flows : flow[f].status \in {"connected", "failed"} /\ flow[f].kind # "key"
            => flow'[f].status \in {flow[f].status, "none"}]_signVars

\* Two applies of one attempt (the first overdue) store one key and count it
\* once, and "applied" is said of a stored key only.
KeyStoredOnce ==
    /\ keyTotal = Cardinality(keyRows)
    /\ \A f \in Flows : flow[f].status = "applied" => f \in keyRows \cup removed

\* The loopback port is given back: a started listener is stopped, or a
\* sign-in that redirects is open again.
PortReleased ==
    \A m \in Maps : listener[m].started
        ~> \/ ~listener[m].started
           \/ \E f \in Flows : /\ flow[f].age = "fresh" /\ MapOf(flow[f].kind) = m
                               /\ flow[f].kind # "device"
                               /\ flow[f].status \in {"pending", "processing"}

\* Sign-in attempts under duplicated and late callbacks, polls and applies: a
\* listener while one is pending, one exchange per code, an account or key
\* stored once and before it is announced, and a verdict that stands.
SignInCorrect ==
    /\ [](ListenerAwaits /\ CodeExchangedOnce /\ ConnectedIsStored /\ KeyStoredOnce)
    /\ VerdictStands
=============================================================================
