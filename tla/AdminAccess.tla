----------------------------- MODULE AdminAccess -----------------------------
(***************************************************************************)
(* The administrator's password, sessions and step-up proofs.              *)
(*   admin/auth.rs                  login and change of the password       *)
(*   admin/sessions/lifecycle.rs    session families, refresh rotation     *)
(*   admin/sessions/handlers.rs     refresh, logout, reauthentication      *)
(*   admin/gates.rs                 every other admin request              *)
(*   state/observability.rs         access tokens and proofs in memory     *)
(*   admin/database/import.rs, restore.rs   a restore resets all of it     *)
(*                                                                         *)
(* A family is the chain of refresh tokens of one login; token <<f, g>> is *)
(* its g-th one.  The access tokens of a family are looked up, revoked and *)
(* forgotten together: memory is the set of families that have one.        *)
(* Hashes, cookies and rate limits are left out.  Time shows as Expire,    *)
(* for a family past its idle or absolute limit, and DropAccess.           *)
(***************************************************************************)
EXTENDS Naturals, Sequences, FiniteSets, SequencesExt

CONSTANTS
    Families,       \* ids a login may draw (random in the code)
    FamilyCap,      \* MAX_SESSION_FAMILIES
    MaxGeneration,  \* MAX_REFRESH_GENERATION
    MaxEpoch,       \* bound on the passwords set
    AdminProcs      \* requests in flight

ASSUME AccessAssumption ==
    /\ FamilyCap \in Nat \ {0} /\ MaxGeneration \in Nat /\ MaxEpoch \in Nat
    /\ "free" \notin AdminProcs

Tokens == Families \X (0..MaxGeneration)
NoFamily == [state |-> "none", must |-> FALSE, epoch |-> 0]
Resting == [kind |-> "none", step |-> "none", family |-> "none", gen |-> 0]

VARIABLES
    auth,       \* Table::AdminAuth: which password, and whether it must change
    family,     \* Table::AdminSessionFamilies
    created,    \* the index of families by creation, oldest first
    unconsumed, consumed,   \* Table::AdminRefreshTokens
    access,     \* admin_sessions: families with an access token in memory
    proofs,     \* admin_step_up_proofs: families with an unused import proof
    blocked,    \* admin_password_change_required: the gateway serves nobody
    authLock,   \* holder of admin_auth_lock, or "free"
    op          \* what each request is doing

admVars == <<auth, family, created, unconsumed, consumed, access, proofs, blocked, authLock, op>>
sessionRows == <<family, created, unconsumed, consumed>>

AdmInit ==
    /\ auth \in {[epoch |-> 0, must |-> FALSE, weak |-> FALSE],
                 [epoch |-> 0, must |-> TRUE, weak |-> TRUE],
                 [epoch |-> 0, must |-> FALSE, weak |-> TRUE]}
    /\ family = [f \in Families |-> NoFamily]
    /\ created = <<>> /\ unconsumed = {} /\ consumed = {}
    /\ access = {} /\ proofs = {} /\ blocked = auth.must
    /\ authLock = "free" /\ op = [p \in AdminProcs |-> Resting]

Active(f) == family[f].state = "active"
Stay(p) == op[p] = Resting
Become(p, kind, step, f, g) == op' = [op EXCEPT ![p] = [kind |-> kind, step |-> step, family |-> f, gen |-> g]]
At(p, kind, step) == op[p].kind = kind /\ op[p].step = step
Move(p, step) == op' = [op EXCEPT ![p].step = step]
Unlock(p) == authLock' = "free" /\ op' = [op EXCEPT ![p] = Resting]

-----------------------------------------------------------------------------
(* Rows of sessions.  Each operator gives the tables after one change.     *)
Rows == [family |-> family, created |-> created, unconsumed |-> unconsumed, consumed |-> consumed]
SetRows(r) ==
    /\ family' = r.family /\ created' = r.created
    /\ unconsumed' = r.unconsumed /\ consumed' = r.consumed
ActiveIn(r) == {f \in Families : r.family[f].state = "active"}
\* The place of the oldest family of F in the index, 0 if it has none.
Oldest(r, F) ==
    LET places == {i \in 1..Len(r.created) : r.created[i] \in F}
    IN IF places = {} THEN 0 ELSE CHOOSE i \in places : \A j \in places : i <= j
Removed(r, i) ==
    LET f == r.created[i]
    IN [family |-> [r.family EXCEPT ![f] = NoFamily], created |-> RemoveAt(r.created, i),
        unconsumed |-> {t \in r.unconsumed : t[1] # f}, consumed |-> {t \in r.consumed : t[1] # f}]
\* cleanup_one_expired_session_family: the oldest that is no longer active.
Cleaned(r) ==
    LET i == Oldest(r, Families \ ActiveIn(r))
    IN IF i = 0 THEN r ELSE Removed(r, i)
\* issue_admin_session: at the cap the oldest active family makes room.
AtCap(r) == Cardinality(ActiveIn(r)) >= FamilyCap
Evicted(r) == IF AtCap(r) THEN {r.created[Oldest(r, ActiveIn(r))]} ELSE {}
MadeRoom(r) == IF AtCap(r) THEN Removed(r, Oldest(r, ActiveIn(r))) ELSE r
Issued(r, f, must, epoch) ==
    [family |-> [r.family EXCEPT ![f] = [state |-> "active", must |-> must, epoch |-> epoch]],
     created |-> Append(r.created, f),
     unconsumed |-> r.unconsumed \cup {<<f, 0>>}, consumed |-> r.consumed]
Revoked(r, f) == IF r.family[f].state = "none" THEN r ELSE [r EXCEPT !.family[f].state = "revoked"]

\* revoke_admin_family, clear_admin_sessions
ForgetFamilies(F) ==
    /\ access' = access \ F
    /\ proofs' = proofs \ F

-----------------------------------------------------------------------------
(* Login and change of the password.                                       *)
\* Mutant: the handler does not take the lock.
LoginReadUnlocked(p) ==
    /\ Stay(p)
    /\ Become(p, "issue", "verified", "none", auth.epoch)
    /\ UNCHANGED <<auth, sessionRows, access, proofs, blocked, authLock>>
\* admin_login: the lock is tried, the stored password read and verified.
LoginRead(p) ==
    /\ Stay(p) /\ authLock = "free"
    /\ authLock' = p /\ Become(p, "issue", "verified", "none", auth.epoch)
    /\ UNCHANGED <<auth, sessionRows, access, proofs, blocked>>

\* The transaction of issue_admin_session, after a login or a change.
IssueCommit(p, f) ==
    /\ op[p].kind = "issue" /\ op[p].step \in {"verified", "changed"} /\ family[f] = NoFamily
    /\ LET must == op[p].step = "verified" /\ (auth.must \/ auth.weak)
           r == Cleaned(Rows)
       IN /\ SetRows(Issued(MadeRoom(r), f, must, op[p].gen))
          /\ ForgetFamilies(Evicted(r))
          /\ blocked' = IF op[p].step = "verified" THEN must ELSE blocked
    /\ Become(p, "issue", "stored", f, 0)
    /\ UNCHANGED <<auth, authLock>>
\* cache_admin_access_token, and the answer.
CacheAccess(p) ==
    /\ op[p].kind \in {"issue", "refresh"} /\ op[p].step = "stored"
    /\ access' = access \cup {op[p].family}
    /\ Unlock(p)
    /\ UNCHANGED <<auth, sessionRows, proofs, blocked>>

\* change_admin_password: a session that must change needs no password, any
\* other gives the current one.  One transaction stores it and revokes all.
ChangeCommit(p) ==
    /\ Stay(p) /\ authLock = "free" /\ auth.epoch < MaxEpoch
    /\ \E f \in access : Active(f)
    /\ auth' = [epoch |-> auth.epoch + 1, must |-> FALSE, weak |-> FALSE]
    /\ family' = [f \in Families |-> IF family[f].state = "none" THEN NoFamily
                                     ELSE [family[f] EXCEPT !.state = "revoked"]]
    /\ authLock' = p /\ Become(p, "change", "committed", "none", 0)
    /\ UNCHANGED <<created, unconsumed, consumed, access, proofs, blocked>>
ChangeForget(p) ==
    /\ At(p, "change", "committed")
    /\ blocked' = FALSE /\ access' = {} /\ proofs' = {}
    /\ Become(p, "issue", "changed", "none", auth.epoch)
    /\ UNCHANGED <<auth, sessionRows, authLock>>

-----------------------------------------------------------------------------
(* Refresh, logout, reauthentication.                                      *)
\* A client presents a refresh token it was given at some time.
RefreshLock(p, t) ==
    /\ Stay(p) /\ authLock = "free" /\ t \in unconsumed \cup consumed
    /\ authLock' = p /\ Become(p, "refresh", "locked", t[1], t[2])
    /\ UNCHANGED <<auth, sessionRows, access, proofs, blocked>>
Rotated(r, f, g) ==
    [r EXCEPT !.consumed = @ \cup {<<f, g>>},
              !.unconsumed = (@ \ {<<f, g>>}) \cup {<<f, g + 1>>}]
\* Mutant: a token that was used before is refused and nothing else.
KnownUnused(r, t) == t \in r.unconsumed
Known(r, t) == t \in r.unconsumed \cup r.consumed
\* rotate_refresh_token: a token that was used before, or comes too late or
\* once too often, costs the family.
RefreshCommit(p) ==
    /\ At(p, "refresh", "locked")
    /\ LET f == op[p].family
           g == op[p].gen
           r == Cleaned(Rows)
           known == Known(r, <<f, g>>)
           good == <<f, g>> \in r.unconsumed /\ r.family[f].state = "active" /\ g < MaxGeneration
       IN IF good
          THEN /\ SetRows(Rotated(r, f, g)) /\ Become(p, "refresh", "stored", f, g + 1)
               /\ UNCHANGED authLock
          ELSE /\ SetRows(IF known THEN Revoked(r, f) ELSE r)
               /\ IF known THEN Move(p, "revoking") /\ UNCHANGED authLock ELSE Unlock(p)
    /\ UNCHANGED <<auth, access, proofs, blocked>>
\* The family is forgotten in memory after the transaction.
Forget(p) ==
    /\ op[p].step = "revoking"
    /\ ForgetFamilies({op[p].family}) /\ Unlock(p)
    /\ UNCHANGED <<auth, sessionRows, blocked>>
LogoutCommit(p, f) ==
    /\ Stay(p) /\ authLock = "free" /\ (f \in access \/ \E t \in unconsumed \cup consumed : t[1] = f)
    /\ SetRows(Revoked(Rows, f))
    /\ authLock' = p /\ Become(p, "logout", "revoking", f, 0)
    /\ UNCHANGED <<auth, access, proofs, blocked>>
\* reauthenticate: require_admin let the request in, the lock is awaited, the
\* family and the password are checked again.
Reauthenticate(f) ==
    /\ f \in access /\ authLock = "free" /\ Active(f)
    /\ proofs' = proofs \cup {f}
    /\ UNCHANGED <<auth, sessionRows, access, blocked, authLock, op>>

\* require_admin finds the token in memory; the family is read afterwards,
\* and forgotten if it is not active any more.
AdminRequest(f) ==
    /\ f \in access
    /\ IF Active(f) THEN UNCHANGED <<access, proofs>> ELSE ForgetFamilies({f})
    /\ UNCHANGED <<auth, sessionRows, blocked, authLock, op>>

-----------------------------------------------------------------------------
(* Restore of a backup: its own password, no sessions.                     *)
\* require_step_up uses the proof up; then the upload takes its time.
ImportStart(p, f) ==
    /\ Stay(p) /\ f \in proofs /\ Active(f)
    /\ proofs' = proofs \ {f}
    /\ Become(p, "import", "upload", f, 0)
    /\ UNCHANGED <<auth, sessionRows, access, blocked, authLock>>
\* The lock is tried, the session checked again, the gateway closed.
ImportLock(p) ==
    /\ At(p, "import", "upload") /\ authLock = "free" /\ Active(op[p].family)
    /\ authLock' = p /\ blocked' = TRUE
    /\ op' = [op EXCEPT ![p].step = IF blocked THEN "restore_blocked" ELSE "restore"]
    /\ UNCHANGED <<auth, sessionRows, access, proofs>>
ImportRefused(p) ==
    /\ At(p, "import", "upload")
    /\ op' = [op EXCEPT ![p] = Resting]
    /\ UNCHANGED <<auth, sessionRows, access, proofs, blocked, authLock>>
Restoring(p) == op[p].kind = "import" /\ op[p].step \in {"restore", "restore_blocked"}
ImportCommit(p, must) ==
    /\ Restoring(p) /\ auth.epoch < MaxEpoch
    /\ auth' = [epoch |-> auth.epoch + 1, must |-> must, weak |-> must]
    /\ SetRows([family |-> [f \in Families |-> NoFamily], created |-> <<>>, unconsumed |-> {}, consumed |-> {}])
    /\ Move(p, "committed")
    /\ UNCHANGED <<access, proofs, blocked, authLock>>
ImportFails(p) ==
    /\ Restoring(p)
    /\ blocked' = (op[p].step = "restore_blocked")
    /\ Unlock(p)
    /\ UNCHANGED <<auth, sessionRows, access, proofs>>
\* The task ends with memory cleared and the flag of the new record, or with
\* the gateway closed if that record cannot be read.
ImportReconcile(p) ==
    /\ At(p, "import", "committed")
    /\ access' = {} /\ proofs' = {}
    /\ blocked' \in {auth.must, TRUE}
    /\ Unlock(p)
    /\ UNCHANGED <<auth, sessionRows>>

-----------------------------------------------------------------------------
Expire(f) ==
    /\ Active(f) /\ family' = [family EXCEPT ![f].state = "expired"]
    /\ UNCHANGED <<auth, created, unconsumed, consumed, access, proofs, blocked, authLock, op>>
DropAccess(f) ==
    /\ f \in access /\ access' = access \ {f}
    /\ UNCHANGED <<auth, sessionRows, proofs, blocked, authLock, op>>
\* A restart forgets memory; the flag starts from the database.
AdmRestart ==
    /\ access' = {} /\ proofs' = {} /\ blocked' = auth.must
    /\ authLock' = "free" /\ op' = [p \in AdminProcs |-> Resting]
    /\ UNCHANGED <<auth, sessionRows>>

AdmStep(p) ==
    \/ \E f \in Families : IssueCommit(p, f)
    \/ CacheAccess(p) \/ ChangeForget(p) \/ RefreshCommit(p) \/ Forget(p)
    \/ \E must \in BOOLEAN : ImportCommit(p, must)
    \/ ImportFails(p) \/ ImportReconcile(p)
AdmNext ==
    \/ \E p \in AdminProcs :
          \/ AdmStep(p) \/ LoginRead(p) \/ ChangeCommit(p) \/ ImportLock(p) \/ ImportRefused(p)
          \/ \E t \in Tokens : RefreshLock(p, t)
          \/ \E f \in Families : LogoutCommit(p, f) \/ ImportStart(p, f)
    \/ \E f \in Families : Reauthenticate(f) \/ AdminRequest(f) \/ DropAccess(f) \/ Expire(f)
    \/ AdmRestart
AdmSpec == AdmInit /\ [][AdmNext]_admVars

-----------------------------------------------------------------------------
\* Rows, tokens and requests have their types; the index lists the families.
AdmTypeOK ==
    /\ auth \in [epoch : 0..MaxEpoch, must : BOOLEAN, weak : BOOLEAN] /\ blocked \in BOOLEAN
    /\ family \in [Families -> [state : {"none", "active", "revoked", "expired"},
                                must : BOOLEAN, epoch : 0..MaxEpoch]]
    /\ {created[i] : i \in 1..Len(created)} = {f \in Families : family[f].state # "none"}
    /\ unconsumed \subseteq Tokens /\ consumed \subseteq Tokens /\ access \subseteq Families
    /\ proofs \subseteq Families /\ authLock \in AdminProcs \cup {"free"}

(***************************************************************************)
(* A session opens only doors of the password it was obtained with: once   *)
(* the password is changed or replaced by a restore, no session of before  *)
(* is active, whichever logins and refreshes were under way.               *)
(***************************************************************************)
SessionsFollowPassword == \A f \in Families : Active(f) => family[f].epoch = auth.epoch

(***************************************************************************)
(* The table of families never outgrows the cap: beyond it the next login  *)
(* and the next change of the password would be refused for good           *)
(* ("admin session family cap invariant is violated", lifecycle.rs:60).    *)
(***************************************************************************)
FamilyCapHeld == Len(created) <= FamilyCap

(***************************************************************************)
(* A refresh token works once: a family has one unconsumed token, and      *)
(* presenting another of its tokens ends the family for good.              *)
(***************************************************************************)
OneLiveToken ==
    \A f \in Families : Cardinality({t \in unconsumed : t[1] = f}) <= 1
        /\ \A t \in consumed : t[1] = f => \A u \in unconsumed : u[1] = f => t[2] < u[2]
ReuseEndsFamily ==
    [][\A p \in AdminProcs :
          RefreshCommit(p) /\ <<op[p].family, op[p].gen>> \in consumed
             => family'[op[p].family].state # "active"]_admVars

(***************************************************************************)
(* The database is replaced on behalf of a session that was not logged     *)
(* out, evicted or outdated during the upload (import.rs:84).              *)
(***************************************************************************)
ImportAuthorised ==
    \A p \in AdminProcs : Restoring(p) => family[op[p].family].state \in {"active", "expired"}

(***************************************************************************)
(* While the stored password must be changed the gateway serves nobody     *)
(* (routes.rs:46), also in the middle of a login, a change or a restore.   *)
(***************************************************************************)
GatewayClosed == auth.must => blocked

\* Access to the admin API, whatever logins, refreshes, password changes and
\* imports overlap: sessions of the present password, a bounded number of
\* families with one live token each, imports with a good proof, and a gateway
\* that stays closed until a default password is changed.
SessionsSound ==
    /\ AdmTypeOK
    /\ SessionsFollowPassword
    /\ FamilyCapHeld
    /\ OneLiveToken
    /\ ImportAuthorised
    /\ GatewayClosed
=============================================================================
