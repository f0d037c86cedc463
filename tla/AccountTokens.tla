---------------------------- MODULE AccountTokens ----------------------------
(***************************************************************************)
(* Stored OAuth accounts of providers: sign-ins save them, requests        *)
(* refresh their rotating tokens under a per-credential lock, rejections   *)
(* and failed refreshes take them out of rotation, and Muse accounts mint  *)
(* a new inference key instead.                                            *)
(*                                                                         *)
(* A token is a number; `live` is what the identity provider accepts: a    *)
(* refresh consumes the token it is given and issues the next one, a       *)
(* sign-in issues one more.  All rows belong to one provider whose adapter *)
(* is `adapter`.  Secrets, names and test bookkeeping are left out, and    *)
(* the search for the row of an account by its identity is the identity of *)
(* the row.                                                                *)
(***************************************************************************)
EXTENDS Naturals, FiniteSets

CONSTANTS Creds,       \* credential rows (and the accounts behind them)
          TokenTasks,       \* requests, probes and usage reads that need a token
          MaxLocks,    \* MAX_CODEX_REFRESH_LOCKS
          MaxToken,    \* bound: tokens ever issued to one account
          MintLimit,   \* REMINT_ATTEMPT_LIMIT
          MaxLost      \* bound: mints of a window whose record is lost

ASSUME TokenAssumption ==
    MaxLocks \in Nat \ {0} /\ MaxToken \in Nat /\ MintLimit \in Nat \ {0} /\ MaxLost \in Nat

VARIABLES adapter,   \* the adapter of the provider
          acct,      \* the rows of provider_api_keys and their availability index
          live,      \* tokens the identity provider accepts, per account
          issued,    \* tokens issued so far, per account
          task,      \* what each task does, and under which lock
          mint       \* Muse: mints since the budget window opened, those that were
                     \* never recorded, and whether any overlapped

tokenVars == <<adapter, acct, live, issued, task, mint>>

Adapters   == {"codex", "cline", "antigravity", "kilocode", "muse", "qoder"}
Refreshing == {"codex", "cline", "antigravity"}   \* adapters with rotating tokens

NoAccount == [present |-> FALSE, enabled |-> FALSE, invalid |-> FALSE, listed |-> FALSE,
              token |-> 0, attempts |-> 0, last |-> "none"]
NoTask    == [stage |-> "idle", cred |-> "none", lock |-> "none", token |-> 0, attempts |-> 0,
              raced |-> FALSE]

NoMint    == [count |-> 0, lost |-> 0, overlap |-> FALSE]

TokInit ==
    /\ adapter \in Adapters
    /\ acct = [c \in Creds |-> NoAccount]
    /\ live = [c \in Creds |-> {}] /\ issued = [c \in Creds |-> 0]
    /\ task = [t \in TokenTasks |-> NoTask]
    /\ mint = [c \in Creds |-> NoMint]

Working(t) == task[t].stage # "idle"
End(t) == task' = [task EXCEPT ![t] = NoTask]

---------------------------------------------------------------------------
(* Signing in. *)

\* What a save leaves of the row: the new secret, valid and available while
\* it is enabled.  A new row is enabled.
SavedRow(r, tok, on) ==
    [present |-> TRUE, enabled |-> on, invalid |-> FALSE, listed |-> on \/ r.listed,
     token |-> tok, attempts |-> 0, last |-> "none"]

\* The account of c is stored with a token of a new sign-in.  TokenTasks that
\* read the row before are marked: they will store or judge by the token
\* they read.  The row of a deleted account has a new id, which no earlier
\* task knows.
Saved(c, on) ==
    /\ issued[c] < MaxToken
    /\ acct[c].present \/ \A t \in TokenTasks : task[t].cred # c
    /\ issued' = [issued EXCEPT ![c] = @ + 1]
    /\ live' = [live EXCEPT ![c] = @ \cup {issued[c] + 1}]
    /\ acct' = [acct EXCEPT ![c] = SavedRow(@, issued[c] + 1, on)]
    /\ task' = [t \in TokenTasks |-> IF task[t].cred = c /\ task[t].token # 0
                                THEN [task[t] EXCEPT !.raced = TRUE] ELSE task[t]]
    /\ mint' = [mint EXCEPT ![c].count = 0, ![c].lost = 0]
    /\ UNCHANGED adapter

OnOrNew(c) == ~acct[c].present \/ acct[c].enabled

\* Codex matches by account and user id over all rows, under its save lock,
\* and enables the row it finds; the others match in the transaction.
SaveCodex(c)       == adapter = "codex" /\ Saved(c, TRUE)
SaveCline(c)       == adapter = "cline" /\ Saved(c, OnOrNew(c))
SaveAntigravity(c) == adapter = "antigravity" /\ Saved(c, OnOrNew(c))
SaveKilocode(c)    == adapter = "kilocode" /\ Saved(c, OnOrNew(c))
SaveMuse(c)        == adapter = "muse" /\ Saved(c, OnOrNew(c))
SaveQoder(c)       == adapter = "qoder" /\ Saved(c, OnOrNew(c))

SignIn(c) == \/ SaveCodex(c) \/ SaveCline(c) \/ SaveAntigravity(c)
             \/ SaveKilocode(c) \/ SaveMuse(c) \/ SaveQoder(c)

---------------------------------------------------------------------------
(* The lock of a credential. *)

\* Entries of codex_refresh_locks that some task still holds (retain drops
\* the others).
LiveLocks == {c \in Creds : \E t \in TokenTasks : task[t].cred = c /\ task[t].lock = "own"}

\* Mutant: every task takes a lock of its own.
LockForCaller(c) == "new"

\* codex_refresh_lock: the credential's entry, the shared fallback lock when
\* the map is full, or a new entry.
LockFor(c) ==
    IF c \in LiveLocks THEN "own"
    ELSE IF Cardinality(LiveLocks) >= MaxLocks THEN "fallback" ELSE "own"

\* Two tasks with the same mutex.
SameLock(t, u) ==
    /\ task[t].lock = task[u].lock
    /\ task[t].lock = "fallback" \/ (task[t].lock = "own" /\ task[t].cred = task[u].cred)

\* A dropped task ("late") holds no lock.
Holding(t) == task[t].stage \in {"held", "asked", "fresh", "dead"} /\ task[t].lock # "late"

AskLock(t, c) ==
    /\ adapter \in Refreshing /\ ~Working(t)
    /\ task' = [task EXCEPT ![t] = [NoTask EXCEPT !.stage = "waiting", !.cred = c, !.lock = LockFor(c)]]
    /\ UNCHANGED <<adapter, acct, live, issued, mint>>

TakeLock(t) ==
    /\ task[t].stage = "waiting"
    /\ ~\E u \in TokenTasks \ {t} : Holding(u) /\ SameLock(t, u)
    /\ task' = [task EXCEPT ![t].stage = "held"]
    /\ UNCHANGED <<adapter, acct, live, issued, mint>>

---------------------------------------------------------------------------
(* load_account_for_use. *)

\* Codex loads an invalid row too, the others do not.
Loadable(r) == r.present /\ r.enabled /\ (adapter = "codex" \/ ~r.invalid)

InRefresh(t) == task[t].stage \in {"asked", "fresh", "dead"}
Rivals(t) == {u \in TokenTasks \ {t} : task[u].cred = task[t].cred /\ InRefresh(u)}

\* Task u after t has read token tok, both marked if they are at it together.
Loaded(t, u, tok) ==
    IF u = t THEN [task[t] EXCEPT !.stage = "asked", !.token = tok, !.raced = Rivals(t) # {}]
    ELSE IF u \in Rivals(t) THEN [task[u] EXCEPT !.raced = TRUE] ELSE task[u]

\* The account is read; its access token is due for a refresh, or is not.
LoadAccount(t) ==
    LET c == task[t].cred IN
    /\ task[t].stage = "held"
    /\ \/ Loadable(acct[c]) /\ task' = [u \in TokenTasks |-> Loaded(t, u, acct[c].token)]
       \/ End(t)
    /\ UNCHANGED <<adapter, acct, live, issued, mint>>

\* refresh_account: the identity provider takes the refresh token back and
\* issues the next one, or answers invalid_grant to a token it does not know.
RefreshUpstream(t) ==
    LET c == task[t].cred IN
    /\ task[t].stage = "asked"
    /\ IF task[t].token \in live[c]
       THEN /\ issued[c] < MaxToken
            /\ issued' = [issued EXCEPT ![c] = @ + 1]
            /\ live' = [live EXCEPT ![c] = (@ \ {task[t].token}) \cup {issued[c] + 1}]
            /\ task' = [task EXCEPT ![t].stage = "fresh", ![t].token = issued[c] + 1]
       ELSE task' = [task EXCEPT ![t].stage = "dead"] /\ UNCHANGED <<live, issued>>
    /\ UNCHANGED <<adapter, acct, mint>>

\* RefreshError::Temporary: nothing was stored.
RefreshFails(t) ==
    /\ task[t].stage = "asked"
    /\ End(t)
    /\ UNCHANGED <<adapter, acct, live, issued, mint>>

\* The transaction that stores the refreshed account, found by its row id.
PersistRow(t) ==
    LET c == task[t].cred IN
    /\ task[t].stage = "fresh"
    /\ acct' = IF ~acct[c].present THEN acct
               ELSE [acct EXCEPT ![c].token = task[t].token, ![c].invalid = FALSE,
                                 ![c].listed = acct[c].enabled \/ @]
    /\ End(t)
    /\ UNCHANGED <<adapter, live, issued, mint>>

PersistCodex(t)       == adapter = "codex" /\ PersistRow(t)
PersistCline(t)       == adapter = "cline" /\ PersistRow(t)
PersistAntigravity(t) == adapter = "antigravity" /\ PersistRow(t)

\* The row of an account that has to be connected again.
MarkedRow(r) ==
    IF r.present THEN [r EXCEPT !.invalid = TRUE, !.listed = @ /\ ~r.enabled] ELSE r

MarkRow(t) ==
    /\ task[t].stage = "dead"
    /\ acct' = [acct EXCEPT ![task[t].cred] = MarkedRow(@)]
    /\ End(t)
    /\ UNCHANGED <<adapter, live, issued, mint>>

MarkCodex(t)       == adapter = "codex" /\ MarkRow(t)
MarkCline(t)       == adapter = "cline" /\ MarkRow(t)
MarkAntigravity(t) == adapter = "antigravity" /\ MarkRow(t)

---------------------------------------------------------------------------
(* Muse: a rejected or missing inference key is minted again. *)

\* counting_attempts: attempts of a window that is over count nothing.
Counting(r) == IF r.last \in {"cooling", "window"} THEN r.attempts ELSE 0

\* remint_blocked
MintBlocked(r) == Counting(r) >= MintLimit \/ r.last = "cooling"

Minting(c) == {t \in TokenTasks : task[t].cred = c /\ task[t].stage = "minting"}

\* load_muse_account, then remint_and_store up to the network call: the
\* attempt is counted in the task's own copy of the account.
MintStart(t, c) ==
    /\ adapter = "muse" /\ ~Working(t)
    /\ acct[c].present /\ acct[c].enabled /\ ~MintBlocked(acct[c])
    /\ task' = [task EXCEPT ![t] = [NoTask EXCEPT !.stage = "minting", !.cred = c,
                                        !.token = acct[c].token, !.attempts = Counting(acct[c]) + 1]]
    /\ mint' = [mint EXCEPT ![c].count = @ + 1, ![c].overlap = @ \/ Minting(c) # {}]
    /\ UNCHANGED <<adapter, acct, live, issued>>

\* persist_account: the task's copy replaces the stored account.
MintStores(t) ==
    LET c == task[t].cred IN
    /\ task[t].stage = "minting"
    /\ acct' = IF ~acct[c].present THEN acct
               ELSE [acct EXCEPT ![c].token = task[t].token, ![c].attempts = task[t].attempts,
                                 ![c].last = "cooling", ![c].invalid = FALSE,
                                 ![c].listed = acct[c].enabled \/ @]
    /\ End(t)
    /\ UNCHANGED <<adapter, live, issued, mint>>

\* persist_remint_attempt: a failed mint stores the throttle only.
MintFails(t) ==
    LET c == task[t].cred IN
    /\ task[t].stage = "minting"
    /\ acct' = IF ~acct[c].present THEN acct
               ELSE [acct EXCEPT ![c].token = task[t].token, ![c].attempts = task[t].attempts,
                                 ![c].last = "cooling"]
    /\ End(t)
    /\ UNCHANGED <<adapter, live, issued, mint>>

\* REMINT_COOLDOWN_SECONDS, then REMINT_BUDGET_WINDOW_SECONDS pass; a mint
\* in flight ends before, by the request timeout.
MintAges(c) ==
    /\ acct[c].last \in {"cooling", "window"} /\ Minting(c) = {}
    /\ acct' = [acct EXCEPT ![c].last = IF @ = "cooling" THEN "window" ELSE "old"]
    /\ mint' = IF acct[c].last = "window" THEN [mint EXCEPT ![c].count = 0, ![c].lost = 0] ELSE mint
    /\ UNCHANGED <<adapter, live, issued, task>>

---------------------------------------------------------------------------
(* Tasks that do not finish: the request runs into its deadline, its client *)
(* leaves, or a write fails.                                                *)

\* The task ends and stores nothing.  A mint was made for all that; that its
\* record could not be stored is only a warning.
Abandon(t) ==
    LET c == task[t].cred IN
    /\ Working(t) /\ End(t)
    /\ IF task[t].stage = "minting"
       THEN mint[c].lost < MaxLost /\ mint' = [mint EXCEPT ![c].lost = @ + 1]
       ELSE mint' = mint
    /\ UNCHANGED <<adapter, acct, live, issued>>

\* A task is dropped while its transaction runs: the lock is free, and the
\* transaction, in a thread of its own, goes on.
Detach(t) ==
    /\ task[t].stage \in {"fresh", "dead"} /\ Holding(t)
    /\ task' = [task EXCEPT ![t].lock = "late"]
    /\ UNCHANGED <<adapter, acct, live, issued, mint>>

---------------------------------------------------------------------------
(* What else happens to an account. *)

\* mark_provider_key_invalid after a 401 (for Muse once no key could be minted).
Reject(c) ==
    /\ acct[c].present
    /\ acct' = [acct EXCEPT ![c].invalid = TRUE,
                            ![c].listed = @ /\ ~(acct[c].enabled /\ ~acct[c].invalid)]
    /\ UNCHANGED <<adapter, live, issued, task, mint>>

\* mark_provider_key_used after a success: an invalid row is valid again and
\* listed, whether it is enabled or not.
Recover(c) ==
    /\ acct[c].present /\ acct[c].invalid
    /\ acct' = [acct EXCEPT ![c].invalid = FALSE, ![c].listed = TRUE]
    /\ UNCHANGED <<adapter, live, issued, task, mint>>

\* The operator switches a key off or on; on, it is valid again.
SwitchedRow(r, on) ==
    LET valid == on \/ ~r.invalid
        usable == on /\ valid
    IN [r EXCEPT !.enabled = on, !.invalid = ~valid,
                 !.listed = IF (r.enabled /\ ~r.invalid) = usable THEN @ ELSE usable]
Switch(c, on) ==
    /\ acct[c].present
    /\ acct' = [acct EXCEPT ![c] = SwitchedRow(@, on)]
    /\ UNCHANGED <<adapter, live, issued, task, mint>>

\* An entry that the index keeps of a deleted row is that of an id nobody has.
RemoveAccount(c) ==
    /\ acct[c].present
    /\ acct' = [acct EXCEPT ![c] = NoAccount]
    /\ UNCHANGED <<adapter, live, issued, task, mint>>

\* The user revokes the access at the identity provider.
Revoke(c) ==
    /\ live[c] # {}
    /\ live' = [live EXCEPT ![c] = {}]
    /\ UNCHANGED <<adapter, acct, issued, task, mint>>

TokNext ==
    \/ \E c \in Creds : \/ SignIn(c) \/ MintAges(c) \/ Reject(c) \/ Recover(c) \/ RemoveAccount(c) \/ Revoke(c)
                        \/ \E on \in BOOLEAN : Switch(c, on)
    \/ \E t \in TokenTasks :
         \/ \E c \in Creds : AskLock(t, c) \/ MintStart(t, c)
         \/ TakeLock(t) \/ LoadAccount(t) \/ RefreshUpstream(t) \/ RefreshFails(t)
         \/ PersistCodex(t) \/ PersistCline(t) \/ PersistAntigravity(t)
         \/ MarkCodex(t) \/ MarkCline(t) \/ MarkAntigravity(t)
         \/ MintStores(t) \/ MintFails(t) \/ Abandon(t) \/ Detach(t)

TokSpec == TokInit /\ [][TokNext]_tokenVars

---------------------------------------------------------------------------
(* Properties. *)

\* "Serializes token refreshes by credential" (provider_locks.rs:31): two
\* tasks never refresh one credential at the same time, not counting what a
\* dropped task still stores.
OneRefreshPerCredential ==
    \A t, u \in TokenTasks :
        t # u /\ InRefresh(t) /\ InRefresh(u) /\ "late" \notin {task[t].lock, task[u].lock}
            => task[t].cred # task[u].cred

\* What codex_refresh_lock guarantees: refreshes of one credential overlap
\* only if one of them was given the shared lock, because the map was full,
\* and the other one was given a lock after that, or if one was dropped and
\* its transaction goes on without the lock.
RefreshesSerialized ==
    \A t, u \in TokenTasks :
        t # u /\ InRefresh(t) /\ InRefresh(u) /\ task[t].cred = task[u].cred
            => LET locks == {task[t].lock, task[u].lock} IN locks = {"own", "fallback"} \/ "late" \in locks

\* A refresh sends an account back to sign-in only when the stored token is
\* really dead, unless the account was signed in again, refreshed under the
\* other lock or stored by a dropped task meanwhile: no request that shares
\* its lock loses the race for a rotating token, and a refresh that was
\* given up half way leaves nothing a later one misjudges.
NoNeedlessReauth ==
    \A t \in TokenTasks : LET c == task[t].cred IN
        task[t].stage = "dead" /\ ~task[t].raced /\ acct[c].present
            => acct[c].token \notin live[c]

\* For an enabled account, the availability index says exactly whether it is
\* valid, whatever sign-ins, refreshes, rejections, late successes and
\* switches interleave.
AccountListed ==
    \A c \in Creds : acct[c].present /\ acct[c].enabled => acct[c].listed = ~acct[c].invalid

\* Mints that do not overlap exceed the budget of their window by no more
\* than those whose record was lost, with the task that made them or in a
\* write that failed; failed mints count (record_mint_attempt before the
\* network call).
MintBudgetAlone ==
    \A c \in Creds : ~mint[c].overlap => mint[c].count <= MintLimit + mint[c].lost

\* "so an upstream that keeps rejecting freshly minted keys cannot turn
\* client traffic into mint traffic": the budget holds for every account.
MintBudget == \A c \in Creds : mint[c].count <= MintLimit

\* Stored accounts under concurrent refreshes (load_account_for_use): one
\* refresh per lock, nobody signed out by a race for it, flag and index agree, and
\* mints that run alone keep to their budget, but for lost records.
TokensSound ==
    /\ RefreshesSerialized
    /\ NoNeedlessReauth
    /\ AccountListed
    /\ MintBudgetAlone
=============================================================================
