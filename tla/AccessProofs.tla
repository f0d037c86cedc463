---------------------------- MODULE AccessProofs ----------------------------
(***************************************************************************)
(* Proofs about stored accounts (AccountTokens), the map of the providers' *)
(* gates (ProviderBulkhead), the usage cache (ProviderUsage) and the       *)
(* quotas of accounts (AccountQuota).                                      *)
(***************************************************************************)
EXTENDS AccountTokens, ProviderBulkhead, ProviderUsage, AccountQuota, FiniteSetTheorems,
        FunctionTheorems, WellFoundedInduction, TLAPS

---------------------------------------------------------------------------
(* Stored accounts: the inductive invariant. *)

Waits == {"waiting", "held", "asked", "fresh", "dead"}   \* stages on the way to a refresh

AccountRows == [present : BOOLEAN, enabled : BOOLEAN, invalid : BOOLEAN, listed : BOOLEAN,
                token : Nat, attempts : Nat, last : {"none", "cooling", "window", "old"}]
TaskRecords == [stage : Waits \cup {"idle", "minting"}, cred : Creds \cup {"none"},
                lock : {"none", "own", "fallback", "late"}, token : Nat, attempts : Nat, raced : BOOLEAN]

MintRecords == [count : Nat, lost : Nat, overlap : BOOLEAN]

\* A stored account has a token.
RowsHaveTokens == \A c \in Creds : acct[c].present => acct[c].token # 0

\* What the stage of a task says of its other fields.
TaskOK(t) ==
    /\ task[t].stage # "idle" => task[t].cred \in Creds
    /\ task[t].stage \in Waits => adapter \in Refreshing /\ task[t].lock \in {"own", "fallback", "late"}
    /\ task[t].stage = "minting" => adapter = "muse"
    /\ InRefresh(t) \/ task[t].stage = "minting" => task[t].token # 0

\* Two tasks that hold a lock hold different ones.
LocksExclude ==
    \A t, u \in TokenTasks : t # u /\ Holding(t) /\ Holding(u) => ~SameLock(t, u)

\* Refreshes of one account that overlap know it.
OverlapsMarked ==
    \A t, u \in TokenTasks :
        t # u /\ InRefresh(t) /\ InRefresh(u) /\ task[t].cred = task[u].cred => task[t].raced

\* A refresh that runs alone asks with the stored token, and is told that
\* it is dead only if the stored one is.
AloneKnows(t) ==
    LET c == task[t].cred IN
    InRefresh(t) /\ ~task[t].raced /\ acct[c].present =>
        /\ task[t].stage = "asked" => task[t].token = acct[c].token
        /\ task[t].stage = "dead" => acct[c].token \notin live[c]

\* Mints that never overlapped: at most one runs, it has counted itself and
\* all before it, and between two the row has counted all of them, but for
\* those whose record was lost.
MintsCounted(c) ==
    ~mint[c].overlap =>
        /\ \A t, u \in Minting(c) : t = u
        /\ mint[c].count <= MintLimit + mint[c].lost
        /\ acct[c].present /\ Minting(c) = {} => mint[c].count <= Counting(acct[c]) + mint[c].lost
        /\ acct[c].present => mint[c].count <= Counting(acct[c]) + mint[c].lost + 1
        /\ \A t \in Minting(c) : /\ mint[c].count <= task[t].attempts + mint[c].lost
                                 /\ task[t].attempts <= MintLimit

\* The parts about tasks only, and about rows only.
TaskPart ==
    /\ adapter \in Adapters
    /\ task \in [TokenTasks -> TaskRecords]
    /\ \A t \in TokenTasks : TaskOK(t)
    /\ LocksExclude
    /\ OverlapsMarked
RowPart ==
    /\ acct \in [Creds -> AccountRows]
    /\ RowsHaveTokens
    /\ AccountListed

TokInv ==
    /\ TaskPart
    /\ RowPart
    /\ live \in [Creds -> SUBSET Nat]
    /\ issued \in [Creds -> Nat]
    /\ mint \in [Creds -> MintRecords]
    /\ \A t \in TokenTasks : AloneKnows(t)
    /\ \A c \in Creds : MintsCounted(c)

---------------------------------------------------------------------------
(* Steps. *)

\* A step that is not one of the handlers' own changes of a task or row is
\* one of these, with the adapters' variants brought together.
TokStep ==
    \/ \E c \in Creds : \/ \E on \in {TRUE, OnOrNew(c)} : Saved(c, on)
                        \/ \E on \in BOOLEAN : Switch(c, on)
                        \/ MintAges(c) \/ Reject(c) \/ Recover(c) \/ RemoveAccount(c) \/ Revoke(c)
    \/ \E t \in TokenTasks :
         \/ \E c \in Creds : AskLock(t, c) \/ MintStart(t, c)
         \/ TakeLock(t) \/ LoadAccount(t) \/ RefreshUpstream(t) \/ RefreshFails(t)
         \/ PersistRow(t) \/ MarkRow(t) \/ MintStores(t) \/ MintFails(t) \/ Abandon(t) \/ Detach(t)

\* Every step of the specification is one of them.
LEMMA StepsCovered ==
    TokNext => TokStep
BY DEF TokNext, TokStep, SignIn, SaveCodex, SaveCline, SaveAntigravity, SaveKilocode, SaveMuse,
       SaveQoder, PersistCodex, PersistCline, PersistAntigravity, MarkCodex, MarkCline,
       MarkAntigravity

\* The adapter of the provider never changes.
LEMMA AdapterFixed ==
    TokStep => adapter' = adapter
BY DEF TokStep, Saved, MintAges, Reject, Recover, Switch, RemoveAccount, Revoke, AskLock, MintStart,
       TakeLock, LoadAccount, RefreshUpstream, RefreshFails, PersistRow, MarkRow, MintStores,
       MintFails, Abandon, Detach

\* The tasks' part of the invariant survives the end of a task.
LEMMA TaskEnds ==
    ASSUME TaskPart, NEW t \in TokenTasks, End(t), adapter' = adapter
    PROVE  TaskPart'
<1>1. NoTask \in TaskRecords
  BY DEF NoTask, TaskRecords
<1>2. /\ task' \in [TokenTasks -> TaskRecords]
      /\ task'[t] = NoTask
      /\ \A u \in TokenTasks \ {t} : task'[u] = task[u]
  BY <1>1 DEF TaskPart, End
<1>3. \A u \in TokenTasks : TaskOK(u)'
  BY <1>2 DEF TaskPart, TaskOK, InRefresh, NoTask, Waits
<1>4. LocksExclude'
  BY <1>2 DEF TaskPart, LocksExclude, Holding, SameLock, NoTask
<1>5. OverlapsMarked'
  BY <1>2 DEF TaskPart, OverlapsMarked, InRefresh, NoTask
<1> QED BY <1>2, <1>3, <1>4, <1>5 DEF TaskPart

\* ... a sign-in, which only marks tasks, ...
LEMMA TaskSaved ==
    ASSUME TaskPart, NEW c \in Creds, NEW on, Saved(c, on)
    PROVE  TaskPart'
<1>1. \A u \in TokenTasks : task'[u] = task[u] \/ task'[u] = [task[u] EXCEPT !.raced = TRUE]
  BY DEF Saved
<1>2. task' \in [TokenTasks -> TaskRecords]
  BY DEF TaskPart, Saved, TaskRecords
<1>3. \A u \in TokenTasks :
        /\ task'[u].stage = task[u].stage /\ task'[u].cred = task[u].cred
        /\ task'[u].lock = task[u].lock /\ task'[u].token = task[u].token
        /\ task[u].raced => task'[u].raced
  BY <1>1, <1>2 DEF TaskPart, TaskRecords
<1>4. adapter' = adapter
  BY DEF Saved
<1>5. \A u \in TokenTasks : TaskOK(u)'
  BY <1>3, <1>4 DEF TaskPart, TaskOK, InRefresh
<1>6. LocksExclude'
  BY <1>3 DEF TaskPart, LocksExclude, Holding, SameLock
<1>7. OverlapsMarked'
  BY <1>3 DEF TaskPart, OverlapsMarked, InRefresh
<1> QED BY <1>2, <1>4, <1>5, <1>6, <1>7 DEF TaskPart

\* ... and the steps of a refresh and the start of a mint.
LEMMA TaskSteps ==
    ASSUME TokInv, TokStep
    PROVE  TaskPart'
<1> USE DEF TokInv
<1>0. adapter' = adapter
  BY AdapterFixed
<1>1. ASSUME NEW c \in Creds, NEW on \in {TRUE, OnOrNew(c)}, Saved(c, on) PROVE TaskPart'
  BY <1>1, TaskSaved
<1>2. ASSUME task' = task PROVE TaskPart'
  BY <1>0, <1>2 DEF TaskPart, TaskOK, LocksExclude, OverlapsMarked, InRefresh, Holding, SameLock
<1>3. ASSUME NEW t \in TokenTasks, End(t) PROVE TaskPart'
  BY <1>0, <1>3, TaskEnds
<1>4. ASSUME NEW t \in TokenTasks, NEW c \in Creds, AskLock(t, c) PROVE TaskPart'
  <2>1. LockFor(c) \in {"own", "fallback"}
    BY DEF LockFor
  <2>2. PICK r : r = [NoTask EXCEPT !.stage = "waiting", !.cred = c, !.lock = LockFor(c)]
    OBVIOUS
  <2>3. /\ r \in TaskRecords /\ r.stage = "waiting" /\ r.cred = c /\ r.lock \in {"own", "fallback"}
        /\ task' = [task EXCEPT ![t] = r] /\ adapter \in Refreshing
    BY <1>4, <2>1, <2>2 DEF AskLock, NoTask, TaskRecords, Waits
  <2>4. /\ task' \in [TokenTasks -> TaskRecords]
        /\ task'[t] = r
        /\ \A u \in TokenTasks \ {t} : task'[u] = task[u]
    BY <2>3 DEF TaskPart
  <2>5. \A u \in TokenTasks : TaskOK(u)'
    BY <1>0, <2>3, <2>4 DEF TaskPart, TaskOK, InRefresh, Waits
  <2>6. LocksExclude' /\ OverlapsMarked'
    BY <2>3, <2>4 DEF TaskPart, LocksExclude, OverlapsMarked, InRefresh, Holding, SameLock
  <2> QED BY <1>0, <2>4, <2>5, <2>6 DEF TaskPart
<1>5. ASSUME NEW t \in TokenTasks, TakeLock(t) PROVE TaskPart'
  <2>1. /\ task[t].stage = "waiting"
        /\ \A u \in TokenTasks \ {t} : ~(Holding(u) /\ SameLock(t, u))
        /\ task' = [task EXCEPT ![t].stage = "held"]
    BY <1>5 DEF TakeLock
  <2>2. /\ task' \in [TokenTasks -> TaskRecords]
        /\ task'[t].stage = "held" /\ task'[t].cred = task[t].cred /\ task'[t].lock = task[t].lock
        /\ \A u \in TokenTasks \ {t} : task'[u] = task[u]
    BY <2>1 DEF TaskPart, TaskRecords, Waits
  <2>3. \A u \in TokenTasks : TaskOK(u)'
    BY <1>0, <2>1, <2>2 DEF TaskPart, TaskOK, InRefresh, Waits
  <2>4. LocksExclude'
    BY <2>1, <2>2 DEF TaskPart, LocksExclude, Holding, SameLock
  <2>5. OverlapsMarked'
    BY <2>2 DEF TaskPart, OverlapsMarked, InRefresh
  <2> QED BY <1>0, <2>2, <2>3, <2>4, <2>5 DEF TaskPart
<1>6. ASSUME NEW t \in TokenTasks, LoadAccount(t), ~End(t) PROVE TaskPart'
  <2>1. PICK c \in Creds, tok \in Nat :
            /\ task[t].stage = "held" /\ c = task[t].cred /\ tok # 0
            /\ task' = [u \in TokenTasks |-> Loaded(t, u, tok)]
    BY <1>6 DEF LoadAccount, Loadable, TaskPart, TaskOK, RowPart, RowsHaveTokens, AccountRows
  <2>0. PICK rival \in BOOLEAN : rival <=> Rivals(t) # {}
    OBVIOUS
  <2>9. Loaded(t, t, tok) = [task[t] EXCEPT !.stage = "asked", !.token = tok, !.raced = rival]
    BY <2>0, Zenon DEF Loaded
  <2>2. /\ task' \in [TokenTasks -> TaskRecords]
        /\ task'[t].stage = "asked" /\ task'[t].token = tok
        /\ task'[t].raced <=> Rivals(t) # {}
    <3>1. Loaded(t, t, tok) \in TaskRecords
      <4>1. \A r \in TaskRecords, k \in Nat, b \in BOOLEAN :
                [r EXCEPT !.stage = "asked", !.token = k, !.raced = b] \in TaskRecords
        BY DEF TaskRecords, Waits
      <4>2. task[t] \in TaskRecords
        BY DEF TaskPart
      <4>3. [task[t] EXCEPT !.stage = "asked", !.token = tok, !.raced = rival] \in TaskRecords
        BY <4>1, <4>2, Zenon
      <4> QED BY <2>9, <4>3, Zenon
    <3>2. \A u \in TokenTasks \ {t} : Loaded(t, u, tok) \in TaskRecords
      BY DEF TaskPart, TaskRecords, Waits, Loaded
    <3>3. task'[t] = Loaded(t, t, tok)
      BY <2>1
    <3> QED BY <2>0, <2>1, <2>9, <3>1, <3>2, <3>3 DEF TaskPart, TaskRecords
  <2>3. \A u \in TokenTasks : task'[u].cred = task[u].cred /\ task'[u].lock = task[u].lock
    <3>1. task'[t].cred = task[t].cred /\ task'[t].lock = task[t].lock
      <4>1. task'[t] = Loaded(t, t, tok)
        BY <2>1
      <4> QED BY <2>9, <4>1 DEF TaskPart, TaskRecords
    <3>2. \A u \in TokenTasks \ {t} : task'[u].cred = task[u].cred /\ task'[u].lock = task[u].lock
      BY <2>1 DEF TaskPart, Loaded, TaskRecords
    <3> QED BY <3>1, <3>2
  <2>4. \A u \in TokenTasks \ {t} :
            /\ task'[u].stage = task[u].stage /\ task'[u].token = task[u].token
            /\ task[u].raced \/ u \in Rivals(t) => task'[u].raced
    BY <2>1 DEF TaskPart, Loaded, TaskRecords
  <2>5. \A u \in TokenTasks : TaskOK(u)'
    BY <1>0, <2>1, <2>2, <2>3, <2>4 DEF TaskPart, TaskOK, InRefresh, Waits
  <2>6. LocksExclude'
    BY <2>1, <2>2, <2>3, <2>4 DEF TaskPart, LocksExclude, Holding, SameLock
  <2>7. OverlapsMarked'
    <3>1. SUFFICES ASSUME NEW u \in TokenTasks, NEW v \in TokenTasks, u # v, InRefresh(u)',
                          InRefresh(v)', (task[u].cred = task[v].cred)'
                   PROVE  task'[u].raced
      BY DEF OverlapsMarked
    <3>2. CASE u = t
      <4>1. v \in Rivals(t)
        BY <2>3, <2>4, <3>1, <3>2 DEF Rivals, InRefresh
      <4> QED BY <2>2, <3>2, <4>1
    <3>3. CASE u # t /\ v = t
      <4>1. u \in Rivals(t)
        BY <2>3, <2>4, <3>1, <3>3 DEF Rivals, InRefresh
      <4> QED BY <2>4, <3>3, <4>1
    <3>4. CASE u # t /\ v # t
      BY <2>3, <2>4, <3>1, <3>4 DEF TaskPart, OverlapsMarked, InRefresh
    <3> QED BY <3>2, <3>3, <3>4
  <2> QED BY <1>0, <2>2, <2>5, <2>6, <2>7 DEF TaskPart
<1>7. ASSUME NEW t \in TokenTasks, RefreshUpstream(t) PROVE TaskPart'
  <2>1. task[t].cred \in Creds /\ task[t].stage = "asked"
    BY <1>7 DEF RefreshUpstream, TaskPart, TaskOK
  <2>2. PICK stage \in {"fresh", "dead"}, tok \in Nat :
            tok # 0 /\ task' = [task EXCEPT ![t].stage = stage, ![t].token = tok]
    <3>1. CASE task[t].token \in live[task[t].cred]
      <4>1. PICK n \in Nat : n = issued[task[t].cred] + 1 /\ n # 0
        BY <2>1
      <4>2. task' = [task EXCEPT ![t].stage = "fresh", ![t].token = n]
        BY <1>7, <3>1, <4>1 DEF RefreshUpstream
      <4> QED BY <4>1, <4>2
    <3>2. CASE task[t].token \notin live[task[t].cred]
      <4>1. task[t].token \in Nat \ {0} /\ task' = [task EXCEPT ![t].stage = "dead"]
        BY <1>7, <2>1, <3>2 DEF RefreshUpstream, TaskPart, TaskOK, InRefresh, TaskRecords
      <4>2. task' = [task EXCEPT ![t].stage = "dead", ![t].token = task[t].token]
        BY <4>1 DEF TaskPart, TaskRecords
      <4> QED BY <4>1, <4>2
    <3> QED BY <3>1, <3>2
  <2>3. /\ task' \in [TokenTasks -> TaskRecords]
        /\ task'[t].stage = stage /\ task'[t].token = tok
        /\ task'[t].cred = task[t].cred /\ task'[t].lock = task[t].lock
        /\ task'[t].raced = task[t].raced
        /\ \A u \in TokenTasks \ {t} : task'[u] = task[u]
    BY <2>2 DEF TaskPart, TaskRecords, Waits
  <2>4. \A u \in TokenTasks : TaskOK(u)'
    BY <1>0, <2>1, <2>2, <2>3 DEF TaskPart, TaskOK, InRefresh, Waits
  <2>5. LocksExclude'
    BY <2>1, <2>3 DEF TaskPart, LocksExclude, Holding, SameLock
  <2>6. OverlapsMarked'
    BY <2>1, <2>3 DEF TaskPart, OverlapsMarked, InRefresh
  <2> QED BY <1>0, <2>3, <2>4, <2>5, <2>6 DEF TaskPart
<1>8. ASSUME NEW t \in TokenTasks, NEW c \in Creds, MintStart(t, c) PROVE TaskPart'
  <2>1. PICK tok \in Nat \ {0}, n \in Nat :
            task' = [task EXCEPT ![t] = [NoTask EXCEPT !.stage = "minting", !.cred = c,
                                                       !.token = tok, !.attempts = n]]
    <3>1. acct[c].token \in Nat \ {0} /\ Counting(acct[c]) + 1 \in Nat
      BY <1>8 DEF MintStart, RowPart, RowsHaveTokens, AccountRows, Counting
    <3>2. task' = [task EXCEPT ![t] = [NoTask EXCEPT !.stage = "minting", !.cred = c,
                                     !.token = acct[c].token, !.attempts = Counting(acct[c]) + 1]]
      BY <1>8 DEF MintStart
    <3> QED BY <3>1, <3>2, Zenon
  <2>2. PICK r \in TaskRecords : r.stage = "minting" /\ r.cred = c /\ r.token # 0 /\ task' = [task EXCEPT ![t] = r]
    BY <2>1 DEF NoTask, TaskRecords
  <2>3. /\ task' \in [TokenTasks -> TaskRecords]
        /\ task'[t] = r
        /\ \A u \in TokenTasks \ {t} : task'[u] = task[u]
    BY <2>2 DEF TaskPart
  <2>4. \A u \in TokenTasks : TaskOK(u)'
    <3>1. adapter = "muse"
      BY <1>8 DEF MintStart
    <3> QED BY <1>0, <2>2, <2>3, <3>1 DEF TaskPart, TaskOK, InRefresh, Waits
  <2>5. LocksExclude' /\ OverlapsMarked'
    BY <2>2, <2>3 DEF TaskPart, LocksExclude, OverlapsMarked, InRefresh, Holding, SameLock
  <2> QED BY <1>0, <2>3, <2>4, <2>5 DEF TaskPart
<1>9. ASSUME NEW t \in TokenTasks, Detach(t) PROVE TaskPart'
  <2>1. task[t].stage \in {"fresh", "dead"} /\ task' = [task EXCEPT ![t].lock = "late"]
    BY <1>9 DEF Detach
  <2>2. /\ task' \in [TokenTasks -> TaskRecords]
        /\ task'[t].stage = task[t].stage /\ task'[t].token = task[t].token
        /\ task'[t].cred = task[t].cred /\ task'[t].lock = "late"
        /\ task'[t].raced = task[t].raced
        /\ \A u \in TokenTasks \ {t} : task'[u] = task[u]
    BY <2>1 DEF TaskPart, TaskRecords
  <2>3. \A u \in TokenTasks : TaskOK(u)'
    BY <1>0, <2>1, <2>2 DEF TaskPart, TaskOK, InRefresh, Waits
  <2>4. LocksExclude'
    BY <2>2 DEF TaskPart, LocksExclude, Holding, SameLock
  <2>5. OverlapsMarked'
    BY <2>1, <2>2 DEF TaskPart, OverlapsMarked, InRefresh
  <2> QED BY <1>0, <2>2, <2>3, <2>4, <2>5 DEF TaskPart
<1> QED
  BY <1>1, <1>2, <1>3, <1>4, <1>5, <1>6, <1>7, <1>8, <1>9
  DEF TokStep, MintAges, Reject, Recover, Switch, RemoveAccount, Revoke, RefreshFails, PersistRow, MarkRow,
      MintStores, MintFails, Abandon

\* A switch leaves the rest of the row alone.
LEMMA SwitchedSame ==
    ASSUME NEW c \in Creds, NEW on \in BOOLEAN, acct \in [Creds -> AccountRows], Switch(c, on)
    PROVE  \A d \in Creds : /\ acct'[d].present = acct[d].present /\ acct'[d].token = acct[d].token
                            /\ acct'[d].attempts = acct[d].attempts /\ acct'[d].last = acct[d].last
<1>1. PICK valid, l : SwitchedRow(acct[c], on) = [acct[c] EXCEPT !.enabled = on, !.invalid = ~valid, !.listed = l]
  BY Zenon DEF SwitchedRow
<1>2. PICK r : r = SwitchedRow(acct[c], on)
  OBVIOUS
<1>3. r.present = acct[c].present /\ r.token = acct[c].token /\ r.attempts = acct[c].attempts /\ r.last = acct[c].last
  BY <1>1, <1>2 DEF AccountRows
<1>4. acct' = [acct EXCEPT ![c] = r]
  BY <1>2 DEF Switch
<1> QED BY <1>3, <1>4

\* What saving, refreshing, rejecting, switching and minting do to the rows.
LEMMA RowSteps ==
    ASSUME TokInv, TokStep
    PROVE  RowPart'
<1> USE DEF TokInv
<1>0. \A c \in Creds : acct[c] \in AccountRows
  BY DEF RowPart
<1>1. ASSUME NEW c \in Creds, NEW r \in AccountRows, acct' = [acct EXCEPT ![c] = r],
             r.present => r.token # 0,
             r.present /\ r.enabled => (r.listed <=> ~r.invalid)
      PROVE  RowPart'
  <2>1. acct' \in [Creds -> AccountRows] /\ acct'[c] = r /\ \A d \in Creds \ {c} : acct'[d] = acct[d]
    BY <1>1 DEF RowPart
  <2>2. RowsHaveTokens'
    BY <1>1, <2>1 DEF RowPart, RowsHaveTokens
  <2>3. AccountListed'
    <3>1. \A d \in Creds : acct'[d].present /\ acct'[d].enabled => (acct'[d].listed <=> ~acct'[d].invalid)
      BY <1>1, <2>1 DEF RowPart, AccountListed
    <3>2. \A d \in Creds : acct'[d].listed \in BOOLEAN /\ acct'[d].invalid \in BOOLEAN
      BY <2>1 DEF AccountRows
    <3> QED BY <3>1, <3>2, Zenon DEF AccountListed
  <2> QED BY <2>1, <2>2, <2>3 DEF RowPart
<1>2. ASSUME acct' = acct PROVE RowPart'
  BY <1>2 DEF RowPart, RowsHaveTokens, AccountListed
<1>3. \A c \in Creds : /\ acct[c].present /\ acct[c].enabled => (acct[c].listed <=> ~acct[c].invalid)
                       /\ acct[c].present => acct[c].token # 0
  BY DEF RowPart, AccountListed, RowsHaveTokens
<1>4. ASSUME NEW c \in Creds, NEW on \in {TRUE, OnOrNew(c)}, Saved(c, on) PROVE RowPart'
  <2>1. on \in BOOLEAN
    BY <1>0, <1>3, <1>4 DEF OnOrNew, AccountRows
  <2>2. PICK r : r = SavedRow(acct[c], issued[c] + 1, on)
    OBVIOUS
  <2>3. acct' = [acct EXCEPT ![c] = r]
    BY <1>4, <2>2 DEF Saved
  <2>4. r \in AccountRows /\ r.present /\ r.token # 0 /\ (r.enabled => (r.listed <=> ~r.invalid))
    BY <1>0, <2>1, <2>2 DEF SavedRow, AccountRows
  <2> QED BY <1>1, <2>3, <2>4
<1>5. ASSUME NEW c \in Creds, MintAges(c) PROVE RowPart'
  <2>1. PICK r \in AccountRows : /\ acct' = [acct EXCEPT ![c] = r] /\ r.token = acct[c].token
                                 /\ r.present = acct[c].present /\ r.enabled = acct[c].enabled
                                 /\ r.invalid = acct[c].invalid /\ r.listed = acct[c].listed
    <3>1. PICK l \in {"window", "old"} : acct' = [acct EXCEPT ![c].last = l]
      BY <1>5 DEF MintAges
    <3>2. [acct[c] EXCEPT !.last = l] \in AccountRows
      BY <1>0 DEF AccountRows
    <3> QED BY <1>0, <3>1, <3>2 DEF AccountRows, RowPart
  <2> QED BY <1>1, <1>3, <2>1
<1>6. ASSUME NEW c \in Creds, Reject(c) PROVE RowPart'
  <2>1. PICK r : r = [acct[c] EXCEPT !.invalid = TRUE,
                                     !.listed = @ /\ ~(acct[c].enabled /\ ~acct[c].invalid)]
    OBVIOUS
  <2>2. acct' = [acct EXCEPT ![c] = r]
    BY <1>6, <2>1 DEF Reject, RowPart
  <2>3. r \in AccountRows /\ r.present = acct[c].present /\ r.token = acct[c].token /\ r.invalid
        /\ r.enabled = acct[c].enabled /\ (r.present /\ r.enabled => ~r.listed)
    BY <1>0, <1>3, <2>1 DEF AccountRows
  <2> QED BY <1>1, <1>3, <2>2, <2>3
<1>12. ASSUME NEW c \in Creds, Recover(c) PROVE RowPart'
  <2>1. PICK r : r = [acct[c] EXCEPT !.invalid = FALSE, !.listed = TRUE]
    OBVIOUS
  <2>2. acct' = [acct EXCEPT ![c] = r]
    BY <1>12, <2>1 DEF Recover, RowPart
  <2>3. /\ r \in AccountRows /\ r.present = acct[c].present /\ r.token = acct[c].token
        /\ r.listed /\ ~r.invalid
    BY <1>0, <2>1 DEF AccountRows
  <2> QED BY <1>1, <1>3, <2>2, <2>3
<1>7. ASSUME NEW c \in Creds, NEW on \in BOOLEAN, Switch(c, on) PROVE RowPart'
  <2>1. PICK valid \in BOOLEAN : valid <=> on \/ ~acct[c].invalid
    OBVIOUS
  <2>2. PICK l : l = IF (acct[c].enabled /\ ~acct[c].invalid) = (on /\ valid) THEN acct[c].listed ELSE on /\ valid
    OBVIOUS
  <2>3. acct[c] \in AccountRows /\ acct[c].present
    BY <1>0, <1>7 DEF Switch
  <2>4. valid = (on \/ ~acct[c].invalid)
    BY <2>1, <2>3, Zenon DEF AccountRows
  <2>5. PICK r : r = [acct[c] EXCEPT !.enabled = on, !.invalid = ~valid, !.listed = l]
    OBVIOUS
  <2>6. acct' = [acct EXCEPT ![c] = r]
    <3>1. SwitchedRow(acct[c], on) = r
      BY <2>2, <2>4, <2>5, Zenon DEF SwitchedRow
    <3> QED BY <1>7, <3>1 DEF Switch
  <2>7. l \in BOOLEAN /\ (on => (l <=> valid))
    BY <1>3, <2>1, <2>2, <2>3 DEF AccountRows
  <2>8. /\ r \in AccountRows /\ r.present = acct[c].present /\ r.token = acct[c].token
        /\ r.enabled = on /\ r.listed = l /\ (r.invalid <=> ~valid)
    BY <2>3, <2>5, <2>7 DEF AccountRows
  <2> QED BY <1>1, <1>3, <2>3, <2>6, <2>7, <2>8
<1>8. ASSUME NEW c \in Creds, RemoveAccount(c) PROVE RowPart'
  <2>1. PICK r : r = NoAccount
    OBVIOUS
  <2>2. r \in AccountRows /\ ~r.present /\ ~r.listed
    BY <2>1 DEF NoAccount, AccountRows
  <2> QED BY <1>1, <1>8, <2>1, <2>2 DEF RemoveAccount
<1>9. ASSUME NEW t \in TokenTasks, PersistRow(t) PROVE RowPart'
  <2>1. task[t].cred \in Creds /\ task[t].token \in Nat \ {0}
    BY <1>9 DEF PersistRow, TaskPart, TaskOK, InRefresh, TaskRecords
  <2>2. PICK c \in Creds, tok \in Nat \ {0} : c = task[t].cred /\ tok = task[t].token
    BY <2>1
  <2>3. CASE ~acct[c].present
    BY <1>2, <1>9, <2>2, <2>3 DEF PersistRow
  <2>4. CASE acct[c].present
    <3>1. PICK r : r = [acct[c] EXCEPT !.token = tok, !.invalid = FALSE, !.listed = acct[c].enabled \/ @]
      OBVIOUS
    <3>2. acct' = [acct EXCEPT ![c] = r]
      BY <1>9, <2>2, <2>4, <3>1 DEF PersistRow, RowPart
    <3>3. r \in AccountRows /\ r.present /\ r.token # 0 /\ ~r.invalid
      <4>1. acct[c] \in AccountRows /\ acct[c].present
        BY <1>0, <2>4
      <4>2. PICK b \in BOOLEAN : b = (acct[c].enabled \/ acct[c].listed)
        BY <4>1 DEF AccountRows
      <4>3. r = [acct[c] EXCEPT !.token = tok, !.invalid = FALSE, !.listed = b]
        BY <3>1, <4>2, Zenon
      <4> QED BY <4>1, <4>3 DEF AccountRows
    <3>4. r.enabled => r.listed
      BY <1>0, <1>3, <2>4, <3>1 DEF AccountRows
    <3> QED BY <1>1, <3>2, <3>3, <3>4
  <2> QED BY <2>3, <2>4
<1>10. ASSUME NEW t \in TokenTasks, MarkRow(t) PROVE RowPart'
  <2>1. task[t].cred \in Creds
    BY <1>10 DEF MarkRow, TaskPart, TaskOK
  <2>2. PICK c \in Creds : c = task[t].cred
    BY <2>1
  <2>3. PICK r : r = MarkedRow(acct[c])
    OBVIOUS
  <2>4. acct' = [acct EXCEPT ![c] = r]
    BY <1>10, <2>2, <2>3 DEF MarkRow, RowPart
  <2>5. /\ r \in AccountRows /\ r.present = acct[c].present /\ r.token = acct[c].token
        /\ r.present /\ r.enabled => (r.listed <=> ~r.invalid)
    BY <1>0, <1>3, <2>3 DEF AccountRows, MarkedRow
  <2> QED BY <1>1, <1>3, <2>4, <2>5
<1>11. ASSUME NEW t \in TokenTasks, MintStores(t) \/ MintFails(t) PROVE RowPart'
  <2>1. task[t].cred \in Creds /\ task[t].token \in Nat \ {0} /\ task[t].attempts \in Nat
    BY <1>11 DEF MintStores, MintFails, TaskPart, TaskOK, TaskRecords
  <2>2. PICK c \in Creds, tok \in Nat \ {0}, n \in Nat :
            c = task[t].cred /\ tok = task[t].token /\ n = task[t].attempts
    BY <2>1
  <2>3. CASE ~acct[c].present
    BY <1>2, <1>11, <2>2, <2>3 DEF MintStores, MintFails
  <2>4. CASE acct[c].present /\ MintStores(t)
    <3>1. PICK r : r = [acct[c] EXCEPT !.token = tok, !.attempts = n, !.last = "cooling",
                                       !.invalid = FALSE, !.listed = acct[c].enabled \/ @]
      OBVIOUS
    <3>2. acct' = [acct EXCEPT ![c] = r]
      BY <2>2, <2>4, <3>1 DEF MintStores, RowPart
    <3>3. r \in AccountRows /\ r.present /\ r.token # 0 /\ ~r.invalid
      <4>1. acct[c] \in AccountRows /\ acct[c].present
        BY <1>0, <2>4
      <4>2. PICK b \in BOOLEAN : b = (acct[c].enabled \/ acct[c].listed)
        BY <4>1 DEF AccountRows
      <4>3. r = [acct[c] EXCEPT !.token = tok, !.attempts = n, !.last = "cooling",
                                !.invalid = FALSE, !.listed = b]
        BY <3>1, <4>2, Zenon
      <4> QED BY <4>1, <4>3 DEF AccountRows
    <3>4. r.enabled => r.listed
      BY <1>0, <1>3, <2>4, <3>1 DEF AccountRows
    <3> QED BY <1>1, <3>2, <3>3, <3>4
  <2>5. CASE acct[c].present /\ MintFails(t)
    <3>1. PICK r : r = [acct[c] EXCEPT !.token = tok, !.attempts = n, !.last = "cooling"]
      OBVIOUS
    <3>2. acct' = [acct EXCEPT ![c] = r]
      BY <2>2, <2>5, <3>1 DEF MintFails, RowPart
    <3>3. acct[c] \in AccountRows /\ acct[c].present
      BY <1>0, <2>5
    <3>4. r \in AccountRows /\ r.present /\ r.token = tok
      BY <3>1, <3>3 DEF AccountRows
    <3>5. r.enabled = acct[c].enabled /\ r.invalid = acct[c].invalid /\ r.listed = acct[c].listed
      BY <3>1, <3>3 DEF AccountRows
    <3>6. r.present /\ r.enabled => (r.listed <=> ~r.invalid)
      BY <1>3, <3>3, <3>4, <3>5
    <3> QED BY <1>1, <3>2, <3>4, <3>6
  <2> QED BY <1>11, <2>3, <2>4, <2>5
<1> QED
  BY <1>2, <1>4, <1>5, <1>6, <1>7, <1>8, <1>9, <1>10, <1>11, <1>12
  DEF TokStep, Revoke, AskLock, MintStart, TakeLock, LoadAccount, RefreshUpstream, RefreshFails,
      Abandon, Detach

\* What a refresh that runs alone knows stays true while nobody else stores
\* a token of its account or makes one acceptable.
LEMMA AloneKept ==
    ASSUME TokInv, NEW u \in TokenTasks, task'[u] = task[u],
           InRefresh(u) /\ ~task[u].raced =>
               LET c == task[u].cred IN
               /\ live'[c] \subseteq live[c]
               /\ acct'[c].present => acct[c].present /\ acct'[c].token = acct[c].token
    PROVE  AloneKnows(u)'
<1>1. AloneKnows(u)
  BY DEF TokInv
<1> QED BY <1>1 DEF AloneKnows, InRefresh

\* A refresh that runs alone goes on knowing the stored token.
LEMMA AloneSteps ==
    ASSUME TokInv, TokStep, NEW u \in TokenTasks
    PROVE  AloneKnows(u)'
<1>0. /\ task \in [TokenTasks -> TaskRecords] /\ acct \in [Creds -> AccountRows]
      /\ live \in [Creds -> SUBSET Nat] /\ issued \in [Creds -> Nat]
  BY DEF TokInv, TaskPart, RowPart
<1>1. TaskOK(u)
  BY DEF TokInv, TaskPart
<1>2. ASSUME NEW t \in TokenTasks \ {u}, InRefresh(t), InRefresh(u), task[t].cred = task[u].cred
      PROVE  task[u].raced
  BY <1>2 DEF TokInv, TaskPart, OverlapsMarked
<1>3. ASSUME ~InRefresh(u)' PROVE AloneKnows(u)'
  BY <1>3 DEF AloneKnows
<1>4. ASSUME NEW c \in Creds, NEW on, Saved(c, on) PROVE AloneKnows(u)'
  <2>1. CASE task[u].cred = c /\ InRefresh(u)
    <3>1. task[u].token # 0
      BY <1>1, <2>1 DEF TaskOK
    <3>2. task'[u] = [task[u] EXCEPT !.raced = TRUE]
      BY <1>4, <2>1, <3>1 DEF Saved
    <3>3. task'[u].raced
      BY <1>0, <3>2 DEF TaskRecords
    <3> QED BY <3>3 DEF AloneKnows
  <2>2. CASE ~InRefresh(u)
    <3>1. task'[u].stage = task[u].stage
      BY <1>0, <1>4 DEF Saved, TaskRecords
    <3> QED BY <1>3, <2>2, <3>1 DEF InRefresh
  <2>3. CASE task[u].cred # c
    <3>1. /\ task'[u] = task[u]
          /\ \A d \in Creds \ {c} : live'[d] = live[d] /\ acct'[d] = acct[d]
      BY <1>0, <1>4, <2>3 DEF Saved
    <3>2. InRefresh(u) => task[u].cred \in Creds
      BY <1>1 DEF TaskOK, InRefresh
    <3> QED BY <2>3, <3>1, <3>2, AloneKept
  <2> QED BY <2>1, <2>2, <2>3
\* Steps that leave the tasks alone.
<1>5. ASSUME NEW c \in Creds,
             \/ MintAges(c) \/ Reject(c) \/ Recover(c) \/ RemoveAccount(c) \/ Revoke(c)
             \/ \E on \in BOOLEAN : Switch(c, on)
      PROVE  AloneKnows(u)'
  <2>1. task' = task
    BY <1>5 DEF MintAges, Reject, Recover, Switch, RemoveAccount, Revoke
  <2>2. \A d \in Creds : live'[d] \subseteq live[d]
    BY <1>0, <1>5 DEF MintAges, Reject, Recover, Switch, RemoveAccount, Revoke
  <2>3. \A d \in Creds : acct'[d].present => acct[d].present /\ acct'[d].token = acct[d].token
    <3>1. CASE \E on \in BOOLEAN : Switch(c, on)
      BY <1>0, <3>1, SwitchedSame
    <3>2. CASE MintAges(c) \/ Reject(c) \/ Recover(c) \/ RemoveAccount(c) \/ Revoke(c)
      BY <1>0, <3>2 DEF MintAges, Reject, Recover, RemoveAccount, Revoke, AccountRows, NoAccount
    <3> QED BY <1>5, <3>1, <3>2
  <2>4. InRefresh(u) => task[u].cred \in Creds
    BY <1>1 DEF TaskOK, InRefresh
  <2> QED BY <2>1, <2>2, <2>3, <2>4, AloneKept
\* Steps that change neither rows nor tokens, only the task t.
<1>6. ASSUME NEW t \in TokenTasks, acct' = acct, live' = live,
             \A v \in TokenTasks \ {t} : task'[v] = task[v], ~InRefresh(t)'
      PROVE  AloneKnows(u)'
  BY <1>3, <1>6, AloneKept
<1>7. ASSUME NEW t \in TokenTasks, End(t)
      PROVE  (\A v \in TokenTasks \ {t} : task'[v] = task[v]) /\ ~InRefresh(t)'
  BY <1>0, <1>7 DEF End, NoTask, InRefresh
<1>8. ASSUME NEW t \in TokenTasks, NEW c \in Creds, AskLock(t, c) \/ MintStart(t, c)
      PROVE  AloneKnows(u)'
  <2>1. ~InRefresh(t)'
    <3>1. ASSUME AskLock(t, c) PROVE task'[t].stage = "waiting"
      BY <1>0, <3>1 DEF AskLock, NoTask
    <3>2. ASSUME MintStart(t, c) PROVE task'[t].stage = "minting"
      BY <1>0, <3>2 DEF MintStart, NoTask
    <3> QED BY <1>8, <3>1, <3>2 DEF InRefresh
  <2>2. acct' = acct /\ live' = live /\ \A v \in TokenTasks \ {t} : task'[v] = task[v]
    BY <1>0, <1>8 DEF AskLock, MintStart
  <2> QED BY <1>6, <2>1, <2>2
<1>9. ASSUME NEW t \in TokenTasks, TakeLock(t) PROVE AloneKnows(u)'
  <2>1. ~InRefresh(t)'
    BY <1>0, <1>9 DEF TakeLock, InRefresh, TaskRecords
  <2>2. acct' = acct /\ live' = live /\ \A v \in TokenTasks \ {t} : task'[v] = task[v]
    BY <1>0, <1>9 DEF TakeLock
  <2> QED BY <1>6, <2>1, <2>2
<1>10. ASSUME NEW t \in TokenTasks, LoadAccount(t) PROVE AloneKnows(u)'
  <2>1. CASE End(t)
    BY <1>6, <1>7, <1>10, <2>1 DEF LoadAccount
  <2>2. CASE ~End(t)
    <3>1. /\ task' = [v \in TokenTasks |-> Loaded(t, v, acct[task[t].cred].token)]
          /\ acct' = acct /\ live' = live
      BY <1>10, <2>2 DEF LoadAccount
    <3>2. CASE u = t
      <4>1. PICK tok, rival : /\ tok = acct[task[t].cred].token
                              /\ task'[u] = [task[t] EXCEPT !.stage = "asked", !.token = tok, !.raced = rival]
        BY <3>1, <3>2, Zenon DEF Loaded
      <4>2. task'[u].stage = "asked" /\ task'[u].token = tok /\ task'[u].cred = task[t].cred
        BY <1>0, <3>2, <4>1 DEF TaskRecords
      <4> QED BY <3>1, <4>1, <4>2 DEF AloneKnows
    <3>3. CASE u # t /\ u \in Rivals(t)
      <4>1. task'[u] = [task[u] EXCEPT !.raced = TRUE]
        BY <3>1, <3>3 DEF Loaded
      <4>2. task'[u].raced
        BY <1>0, <4>1 DEF TaskRecords
      <4> QED BY <4>2 DEF AloneKnows
    <3>4. CASE u # t /\ u \notin Rivals(t)
      <4>1. task'[u] = task[u]
        BY <3>1, <3>4 DEF Loaded
      <4> QED BY <3>1, <4>1, AloneKept
    <3> QED BY <3>2, <3>3, <3>4
  <2> QED BY <2>1, <2>2
<1>11. ASSUME NEW t \in TokenTasks, RefreshUpstream(t) PROVE AloneKnows(u)'
  <2>1. task[t].stage = "asked" /\ task[t].cred \in Creds /\ acct' = acct
    BY <1>11 DEF RefreshUpstream, TokInv, TaskPart, TaskOK
  <2>2. PICK c \in Creds, tok \in {task[t].token} : c = task[t].cred /\ tok = task[t].token
    BY <2>1
  <2>3. CASE tok \in live[c]
    <3>1. /\ \A d \in Creds \ {c} : live'[d] = live[d]
          /\ \A v \in TokenTasks \ {t} : task'[v] = task[v]
          /\ task'[t].stage = "fresh"
      BY <1>0, <1>11, <2>2, <2>3 DEF RefreshUpstream, TaskRecords
    <3>2. CASE u = t
      BY <3>1, <3>2 DEF AloneKnows
    <3>3. CASE u # t
      <4>1. InRefresh(u) /\ ~task[u].raced => task[u].cred \in Creds \ {c}
        BY <1>1, <1>2, <2>1, <2>2, <3>3 DEF InRefresh, TaskOK
      <4> QED BY <2>1, <3>1, <3>3, <4>1, AloneKept
    <3> QED BY <3>2, <3>3
  <2>4. CASE tok \notin live[c]
    <3>1. task' = [task EXCEPT ![t].stage = "dead"] /\ live' = live
      BY <1>11, <2>2, <2>4 DEF RefreshUpstream
    <3>2. CASE u = t
      <4>1. /\ task'[t].stage = "dead" /\ task'[t].cred = task[t].cred
            /\ task'[t].raced = task[t].raced
        BY <1>0, <3>1 DEF TaskRecords
      <4>2. AloneKnows(t) /\ InRefresh(t)
        BY <2>1 DEF TokInv, InRefresh
      <4> QED BY <2>1, <2>2, <2>4, <3>1, <3>2, <4>1, <4>2 DEF AloneKnows
    <3>3. CASE u # t
      <4>1. task'[u] = task[u]
        BY <1>0, <3>1, <3>3
      <4> QED BY <2>1, <3>1, <4>1, AloneKept
    <3> QED BY <3>2, <3>3
  <2> QED BY <2>3, <2>4
<1>12. ASSUME NEW t \in TokenTasks, RefreshFails(t) PROVE AloneKnows(u)'
  BY <1>6, <1>7, <1>12 DEF RefreshFails
<1>15. ASSUME NEW t \in TokenTasks, Abandon(t) PROVE AloneKnows(u)'
  BY <1>6, <1>7, <1>15 DEF Abandon
<1>16. ASSUME NEW t \in TokenTasks, Detach(t) PROVE AloneKnows(u)'
  <2>1. acct' = acct /\ live' = live /\ task' = [task EXCEPT ![t].lock = "late"]
    BY <1>16 DEF Detach
  <2>2. CASE u = t
    <3>1. /\ task'[u].stage = task[u].stage /\ task'[u].cred = task[u].cred
          /\ task'[u].token = task[u].token /\ task'[u].raced = task[u].raced
      BY <1>0, <2>1, <2>2 DEF TaskRecords
    <3>2. AloneKnows(u)
      BY DEF TokInv
    <3> QED BY <2>1, <3>1, <3>2 DEF AloneKnows, InRefresh
  <2>3. CASE u # t
    <3>1. task'[u] = task[u]
      BY <1>0, <2>1, <2>3
    <3> QED BY <2>1, <3>1, AloneKept
  <2> QED BY <2>2, <2>3
<1>13. ASSUME NEW t \in TokenTasks, PersistRow(t) \/ MarkRow(t) PROVE AloneKnows(u)'
  <2>1. InRefresh(t) /\ task[t].cred \in Creds /\ End(t) /\ live' = live
    BY <1>13 DEF PersistRow, MarkRow, TokInv, TaskPart, TaskOK, InRefresh
  <2>2. PICK c \in Creds : c = task[t].cred
    BY <2>1
  <2>3. \A d \in Creds \ {c} : acct'[d] = acct[d]
    BY <1>0, <1>13, <2>2 DEF PersistRow, MarkRow
  <2>4. CASE u = t
    BY <1>3, <1>7, <2>1, <2>4
  <2>5. CASE u # t
    <3>1. task'[u] = task[u]
      BY <1>7, <2>1, <2>5
    <3>2. InRefresh(u) /\ ~task[u].raced => task[u].cred \in Creds \ {c}
      BY <1>1, <1>2, <2>1, <2>2, <2>5 DEF InRefresh, TaskOK
    <3> QED BY <2>1, <2>3, <3>1, <3>2, AloneKept
  <2> QED BY <2>4, <2>5
<1>14. ASSUME NEW t \in TokenTasks, MintStores(t) \/ MintFails(t) PROVE AloneKnows(u)'
  <2>1. adapter = "muse" /\ End(t)
    BY <1>14 DEF MintStores, MintFails, TokInv, TaskPart, TaskOK
  <2>2. ~InRefresh(u)
    BY <1>1, <2>1 DEF TaskOK, InRefresh, Waits, Refreshing
  <2>3. ~InRefresh(u)'
    BY <1>7, <2>1, <2>2 DEF InRefresh
  <2> QED BY <1>3, <2>3
<1> QED
  BY <1>4, <1>5, <1>8, <1>9, <1>10, <1>11, <1>12, <1>13, <1>14, <1>15, <1>16 DEF TokStep

\* What is counted of mints that run one at a time stays within the budget.
LEMMA MintSteps ==
    ASSUME TokInv, TokStep, NEW d \in Creds
    PROVE  MintsCounted(d)' /\ mint' \in [Creds -> MintRecords]
<1>0. /\ task \in [TokenTasks -> TaskRecords] /\ acct \in [Creds -> AccountRows]
      /\ mint \in [Creds -> MintRecords] /\ MintLimit \in Nat \ {0}
  BY TokenAssumption DEF TokInv, TaskPart, RowPart
<1>1. MintsCounted(d)
  BY DEF TokInv
\* Nothing about the account's mints changed.
<1>2. ASSUME mint' = mint, Minting(d)' = Minting(d),
             \A t \in Minting(d) : task'[t].attempts = task[t].attempts,
             acct'[d].present => acct[d].present /\ Counting(acct'[d]) = Counting(acct[d])
      PROVE  MintsCounted(d)'
  BY <1>1, <1>2 DEF MintsCounted
<1>3. ASSUME NEW c \in Creds, NEW on, Saved(c, on)
      PROVE  MintsCounted(d)' /\ mint' \in [Creds -> MintRecords]
  <2>1. \A t \in TokenTasks : /\ task'[t].stage = task[t].stage /\ task'[t].cred = task[t].cred
                              /\ task'[t].attempts = task[t].attempts
    BY <1>0, <1>3 DEF Saved, TaskRecords
  <2>2. Minting(d)' = Minting(d)
    BY <2>1 DEF Minting
  <2>3. mint' = [mint EXCEPT ![c].count = 0, ![c].lost = 0]
    BY <1>3 DEF Saved
  <2>4. mint' \in [Creds -> MintRecords]
    BY <1>0, <2>3 DEF MintRecords
  <2>5. CASE c = d
    <3>1. mint'[d].count = 0 /\ mint'[d].lost = 0 /\ mint'[d].overlap = mint[d].overlap
      BY <1>0, <2>3, <2>5 DEF MintRecords
    <3>2. acct'[d].attempts = 0 /\ Counting(acct'[d]) = 0
      BY <1>0, <1>3, <2>5 DEF Saved, SavedRow, Counting
    <3>3. \A t \in Minting(d) : task[t].attempts \in Nat
      BY <1>0 DEF Minting, TaskRecords
    <3> QED BY <1>0, <1>1, <2>1, <2>2, <2>4, <3>1, <3>2, <3>3 DEF MintsCounted, Minting
  <2>6. CASE c # d
    <3>1. mint'[d] = mint[d] /\ acct'[d] = acct[d]
      BY <1>0, <1>3, <2>3, <2>6 DEF Saved
    <3> QED BY <1>1, <2>1, <2>2, <2>4, <3>1 DEF MintsCounted, Minting
  <2> QED BY <2>5, <2>6
<1>4. ASSUME NEW c \in Creds, MintAges(c)
      PROVE  MintsCounted(d)' /\ mint' \in [Creds -> MintRecords]
  <2>1. task' = task /\ Minting(c) = {} /\ acct[c].last \in {"cooling", "window"}
    BY <1>4 DEF MintAges
  <2>2. Minting(d)' = Minting(d)
    BY <2>1 DEF Minting
  <2>3. CASE acct[c].last = "cooling"
    <3>1. mint' = mint /\ acct' = [acct EXCEPT ![c].last = "window"]
      BY <1>4, <2>3 DEF MintAges
    <3>2. Counting(acct'[d]) = Counting(acct[d]) /\ acct'[d].present = acct[d].present
      BY <1>0, <2>3, <3>1 DEF Counting, AccountRows
    <3> QED BY <1>0, <1>2, <2>1, <2>2, <3>1, <3>2
  <2>4. CASE acct[c].last = "window"
    <3>1. mint' = [mint EXCEPT ![c].count = 0, ![c].lost = 0] /\ acct' = [acct EXCEPT ![c].last = "old"]
      BY <1>4, <2>4 DEF MintAges
    <3>2. mint' \in [Creds -> MintRecords]
      BY <1>0, <3>1 DEF MintRecords
    <3>3. CASE c = d
      <4>1. mint'[d].count = 0 /\ mint'[d].lost = 0 /\ mint'[d].overlap = mint[d].overlap
        BY <1>0, <3>1, <3>3 DEF MintRecords
      <4>2. Counting(acct'[d]) = 0
        BY <1>0, <3>1, <3>3 DEF Counting, AccountRows
      <4> QED BY <1>0, <2>1, <2>2, <3>2, <3>3, <4>1, <4>2 DEF MintsCounted
    <3>4. CASE c # d
      <4>1. mint'[d] = mint[d] /\ acct'[d] = acct[d]
        BY <1>0, <3>1, <3>4
      <4> QED BY <1>1, <2>1, <2>2, <3>2, <4>1 DEF MintsCounted
    <3> QED BY <3>3, <3>4
  <2> QED BY <2>1, <2>3, <2>4
<1>5. ASSUME NEW c \in Creds,
             \/ Reject(c) \/ Recover(c) \/ RemoveAccount(c) \/ Revoke(c)
             \/ \E on \in BOOLEAN : Switch(c, on)
      PROVE  MintsCounted(d)' /\ mint' \in [Creds -> MintRecords]
  <2>1. task' = task /\ mint' = mint
    BY <1>5 DEF Reject, Recover, Switch, RemoveAccount, Revoke
  <2>2. acct'[d].present => /\ acct[d].present /\ acct'[d].attempts = acct[d].attempts
                            /\ acct'[d].last = acct[d].last
    <3>1. CASE \E on \in BOOLEAN : Switch(c, on)
      BY <1>0, <3>1, SwitchedSame
    <3>2. CASE Reject(c) \/ Recover(c) \/ RemoveAccount(c) \/ Revoke(c)
      BY <1>0, <3>2 DEF Reject, Recover, RemoveAccount, Revoke, AccountRows, NoAccount
    <3> QED BY <1>5, <3>1, <3>2
  <2>3. Minting(d)' = Minting(d)
    BY <2>1 DEF Minting
  <2> QED BY <1>0, <1>2, <2>1, <2>2, <2>3 DEF Counting
\* Steps of a refresh: no task starts or ends a mint.
<1>6. ASSUME mint' = mint, NEW t \in TokenTasks,
             task[t].stage # "minting", task'[t].stage # "minting",
             \A v \in TokenTasks \ {t} : /\ task'[v].stage = task[v].stage
                                         /\ task'[v].cred = task[v].cred
                                         /\ task'[v].attempts = task[v].attempts,
             acct'[d].present => /\ acct[d].present /\ acct'[d].attempts = acct[d].attempts
                                 /\ acct'[d].last = acct[d].last
      PROVE  MintsCounted(d)' /\ mint' \in [Creds -> MintRecords]
  <2>1. Minting(d)' = Minting(d)
    BY <1>6 DEF Minting
  <2>2. \A v \in Minting(d) : v # t /\ task'[v].attempts = task[v].attempts
    BY <1>6 DEF Minting
  <2> QED BY <1>0, <1>2, <1>6, <2>1, <2>2 DEF Counting
<1>7. ASSUME NEW t \in TokenTasks, End(t)
      PROVE  /\ task'[t].stage = "idle"
             /\ \A v \in TokenTasks \ {t} : task'[v] = task[v]
  BY <1>0, <1>7 DEF End, NoTask
<1>8. ASSUME NEW t \in TokenTasks, NEW c \in Creds, AskLock(t, c)
      PROVE  MintsCounted(d)' /\ mint' \in [Creds -> MintRecords]
  <2>1. /\ mint' = mint /\ acct' = acct /\ task[t].stage = "idle" /\ task'[t].stage = "waiting"
        /\ \A v \in TokenTasks \ {t} : task'[v] = task[v]
    BY <1>0, <1>8 DEF AskLock, Working, NoTask
  <2> QED BY <1>6, <2>1
<1>9. ASSUME NEW t \in TokenTasks, TakeLock(t)
      PROVE  MintsCounted(d)' /\ mint' \in [Creds -> MintRecords]
  <2>1. /\ mint' = mint /\ acct' = acct /\ task[t].stage = "waiting" /\ task'[t].stage = "held"
        /\ \A v \in TokenTasks \ {t} : task'[v] = task[v]
    BY <1>0, <1>9 DEF TakeLock, TaskRecords
  <2> QED BY <1>6, <2>1
<1>10. ASSUME NEW t \in TokenTasks, LoadAccount(t)
      PROVE  MintsCounted(d)' /\ mint' \in [Creds -> MintRecords]
  <2>1. mint' = mint /\ acct' = acct /\ task[t].stage = "held"
    BY <1>10 DEF LoadAccount
  <2>2. CASE End(t)
    BY <1>6, <1>7, <2>1, <2>2
  <2>3. CASE ~End(t)
    <3>1. PICK tok : task' = [v \in TokenTasks |-> Loaded(t, v, tok)]
      BY <1>10, <2>3 DEF LoadAccount
    <3>2. task'[t].stage = "asked"
      <4>1. PICK rival : task'[t] = [task[t] EXCEPT !.stage = "asked", !.token = tok, !.raced = rival]
        BY <3>1, Zenon DEF Loaded
      <4> QED BY <1>0, <4>1 DEF TaskRecords
    <3>3. \A v \in TokenTasks \ {t} : /\ task'[v].stage = task[v].stage
                                      /\ task'[v].cred = task[v].cred
                                      /\ task'[v].attempts = task[v].attempts
      BY <1>0, <3>1 DEF Loaded, TaskRecords
    <3> QED BY <1>6, <2>1, <3>2, <3>3
  <2> QED BY <2>2, <2>3
<1>11. ASSUME NEW t \in TokenTasks, RefreshUpstream(t)
      PROVE  MintsCounted(d)' /\ mint' \in [Creds -> MintRecords]
  <2>1. /\ mint' = mint /\ acct' = acct /\ task[t].stage = "asked"
        /\ \A v \in TokenTasks \ {t} : task'[v] = task[v]
    BY <1>0, <1>11 DEF RefreshUpstream
  <2>2. task'[t].stage \in {"fresh", "dead"}
    BY <1>0, <1>11 DEF RefreshUpstream, TaskRecords
  <2> QED BY <1>6, <2>1, <2>2
<1>12. ASSUME NEW t \in TokenTasks, RefreshFails(t) \/ PersistRow(t) \/ MarkRow(t)
      PROVE  MintsCounted(d)' /\ mint' \in [Creds -> MintRecords]
  <2>1. /\ mint' = mint /\ task[t].stage \in {"asked", "fresh", "dead"}
        /\ task'[t].stage = "idle" /\ \A v \in TokenTasks \ {t} : task'[v] = task[v]
    BY <1>7, <1>12 DEF RefreshFails, PersistRow, MarkRow
  <2>2. acct'[d].present => /\ acct[d].present /\ acct'[d].attempts = acct[d].attempts
                            /\ acct'[d].last = acct[d].last
    <3>1. CASE RefreshFails(t)
      BY <3>1 DEF RefreshFails
    <3>2. CASE PersistRow(t)
      BY <1>0, <3>2 DEF PersistRow, AccountRows
    <3>3. CASE MarkRow(t)
      <4>1. acct'[d] = acct[d] \/ acct'[d] = MarkedRow(acct[d])
        BY <1>0, <3>3 DEF MarkRow
      <4>2. /\ MarkedRow(acct[d]).present => acct[d].present
            /\ MarkedRow(acct[d]).attempts = acct[d].attempts
            /\ MarkedRow(acct[d]).last = acct[d].last
        BY <1>0 DEF MarkedRow, AccountRows
      <4> QED BY <4>1, <4>2
    <3> QED BY <1>12, <3>1, <3>2, <3>3
  <2> QED BY <1>6, <2>1, <2>2
\* The mint itself.
<1>13. ASSUME NEW t \in TokenTasks, NEW c \in Creds, MintStart(t, c)
      PROVE  MintsCounted(d)' /\ mint' \in [Creds -> MintRecords]
  <2>1. PICK n : n = Counting(acct[c]) + 1
    OBVIOUS
  <2>2. /\ task[t].stage = "idle" /\ acct' = acct /\ acct[c].present
        /\ n \in Nat /\ n <= MintLimit /\ n = Counting(acct[c]) + 1 /\ Counting(acct[c]) \in Nat
    BY <1>0, <1>13, <2>1 DEF MintStart, MintBlocked, Counting, AccountRows, Working
  <2>3. /\ task'[t].stage = "minting" /\ task'[t].cred = c /\ task'[t].attempts = n
        /\ \A v \in TokenTasks \ {t} : task'[v] = task[v]
    BY <1>0, <1>13, <2>1 DEF MintStart, NoTask
  <2>4. PICK busy \in BOOLEAN : busy <=> mint[c].overlap \/ Minting(c) # {}
    OBVIOUS
  <2>5. mint' = [mint EXCEPT ![c].count = @ + 1, ![c].overlap = busy]
    <3>1. mint[c].overlap \in BOOLEAN
      BY <1>0 DEF MintRecords
    <3>2. busy = (mint[c].overlap \/ Minting(c) # {})
      BY <2>4, <3>1, Zenon
    <3>3. mint' = [mint EXCEPT ![c].count = @ + 1, ![c].overlap = @ \/ Minting(c) # {}]
      BY <1>13 DEF MintStart
    <3>4. mint' = [mint EXCEPT ![c] = [mint[c] EXCEPT !.count = @ + 1, !.overlap = mint[c].overlap \/ Minting(c) # {}]]
      BY <1>0, <3>3 DEF MintRecords
    <3>5. mint' = [mint EXCEPT ![c] = [mint[c] EXCEPT !.count = @ + 1, !.overlap = busy]]
      BY <3>2, <3>4, Zenon
    <3> QED BY <1>0, <3>5 DEF MintRecords
  <2>6. /\ mint' \in [Creds -> MintRecords]
        /\ mint'[c].count = mint[c].count + 1 /\ mint'[c].overlap = busy /\ mint'[c].lost = mint[c].lost
        /\ \A e \in Creds \ {c} : mint'[e] = mint[e]
    <3>1. PICK k \in Nat : k = mint[c].count
      BY <1>0 DEF MintRecords
    <3>2. mint' = [mint EXCEPT ![c].count = k + 1, ![c].overlap = busy]
      BY <2>5, <3>1
    <3>3. mint' = [mint EXCEPT ![c] = [mint[c] EXCEPT !.count = k + 1, !.overlap = busy]]
      BY <1>0, <3>2 DEF MintRecords
    <3>4. PICK rec : rec = [mint[c] EXCEPT !.count = k + 1, !.overlap = busy]
      OBVIOUS
    <3>5. rec \in MintRecords /\ rec.count = k + 1 /\ rec.overlap = busy /\ rec.lost = mint[c].lost
      <4>1. PICK m \in MintRecords, i \in Nat : m = mint[c] /\ i = k + 1
        BY <1>0
      <4>2. rec = [m EXCEPT !.count = i, !.overlap = busy]
        BY <3>4, <4>1
      <4>3. busy \in BOOLEAN
        BY <2>4
      <4>4. rec \in MintRecords /\ rec.count = i /\ rec.overlap = busy /\ rec.lost = m.lost
        BY <4>1, <4>2, <4>3 DEF MintRecords
      <4> QED BY <4>1, <4>4
    <3>6. mint' = [mint EXCEPT ![c] = rec]
      BY <3>3, <3>4
    <3> QED BY <1>0, <3>1, <3>5, <3>6
  <2>9. mint[c].count \in Nat /\ mint[c].lost \in Nat
    BY <1>0 DEF MintRecords
  <2>7. CASE d = c
    <3>1. Minting(c)' = Minting(c) \cup {t}
      BY <2>2, <2>3 DEF Minting
    <3>2. CASE busy
      BY <2>6, <2>7, <3>2 DEF MintsCounted
    <3>3. CASE ~busy
      <4>1. Minting(c) = {} /\ mint[c].count <= Counting(acct[c]) + mint[c].lost
        BY <1>0, <1>1, <2>2, <2>4, <2>7, <3>3 DEF MintsCounted
      <4>2. mint'[c].count <= n + mint'[c].lost
        BY <2>2, <2>6, <2>9, <4>1
      <4>3. /\ mint'[c].count <= MintLimit + mint'[c].lost
            /\ mint'[c].count <= Counting(acct[c]) + mint'[c].lost + 1
        BY <1>0, <2>2, <2>6, <2>9, <4>1
      <4>4. Minting(d)' = {t}
        BY <2>7, <3>1, <4>1
      <4> QED BY <2>2, <2>3, <2>6, <2>7, <4>2, <4>3, <4>4 DEF MintsCounted
    <3> QED BY <3>2, <3>3
  <2>8. CASE d # c
    <3>1. Minting(d)' = Minting(d) /\ t \notin Minting(d)
      BY <2>2, <2>3, <2>8 DEF Minting
    <3>2. \A v \in Minting(d) : task'[v].attempts = task[v].attempts
      BY <2>3, <3>1 DEF Minting
    <3> QED BY <1>1, <2>2, <2>6, <2>8, <3>1, <3>2 DEF MintsCounted
  <2> QED BY <2>7, <2>8
<1>14. ASSUME NEW t \in TokenTasks, MintStores(t) \/ MintFails(t)
      PROVE  MintsCounted(d)' /\ mint' \in [Creds -> MintRecords]
  <2>1. /\ mint' = mint /\ task[t].stage = "minting" /\ task[t].cred \in Creds
        /\ task'[t].stage = "idle" /\ \A v \in TokenTasks \ {t} : task'[v] = task[v]
    BY <1>7, <1>14 DEF MintStores, MintFails, TokInv, TaskPart, TaskOK
  <2>2. PICK c \in Creds, n \in Nat : c = task[t].cred /\ n = task[t].attempts
    BY <1>0, <2>1 DEF TaskRecords
  <2>3. CASE d # c
    <3>1. acct'[d] = acct[d]
      BY <1>0, <1>14, <2>2, <2>3 DEF MintStores, MintFails
    <3>2. Minting(d)' = Minting(d) /\ t \notin Minting(d)
      BY <2>1, <2>2, <2>3 DEF Minting
    <3>3. \A v \in Minting(d) : task'[v].attempts = task[v].attempts
      BY <2>1, <3>2 DEF Minting
    <3> QED BY <1>0, <1>2, <2>1, <3>1, <3>2, <3>3
  <2>4. CASE d = c
    <3>1. Minting(d)' = Minting(d) \ {t} /\ t \in Minting(d)
      BY <2>1, <2>2, <2>4 DEF Minting
    <3>2. acct'[d].present => Counting(acct'[d]) = n
      BY <1>0, <1>14, <2>2, <2>4 DEF MintStores, MintFails, Counting, AccountRows
    <3>3. \A v \in Minting(d)' : task'[v].attempts = task[v].attempts
      BY <2>1, <3>1 DEF Minting
    <3>4. mint[d].count \in Nat /\ mint[d].lost \in Nat
      BY <1>0 DEF MintRecords
    <3>5. ~mint[d].overlap => mint[d].count <= n + mint[d].lost
      BY <1>1, <2>2, <3>1 DEF MintsCounted
    <3> QED BY <1>0, <1>1, <2>1, <2>2, <3>1, <3>2, <3>3, <3>4, <3>5 DEF MintsCounted
  <2> QED BY <2>3, <2>4
\* A mint whose record is lost.
<1>15. ASSUME NEW t \in TokenTasks, Abandon(t)
      PROVE  MintsCounted(d)' /\ mint' \in [Creds -> MintRecords]
  <2>1. /\ task'[t].stage = "idle" /\ \A v \in TokenTasks \ {t} : task'[v] = task[v]
        /\ acct' = acct
    BY <1>7, <1>15 DEF Abandon
  <2>2. CASE task[t].stage # "minting"
    <3>1. mint' = mint
      BY <1>15, <2>2 DEF Abandon
    <3> QED BY <1>6, <2>1, <2>2, <3>1
  <2>3. CASE task[t].stage = "minting"
    <3>1. PICK c \in Creds : c = task[t].cred
      BY <2>3 DEF TokInv, TaskPart, TaskOK
    <3>2. mint' = [mint EXCEPT ![c].lost = @ + 1]
      BY <1>15, <2>3, <3>1 DEF Abandon
    <3>3. mint' \in [Creds -> MintRecords]
      BY <1>0, <3>2 DEF MintRecords
    <3>4. \A v \in TokenTasks \ {t} : task'[v].attempts = task[v].attempts
      BY <2>1
    <3>5. CASE d # c
      <4>1. mint'[d] = mint[d]
        BY <1>0, <3>2, <3>5
      <4>2. Minting(d)' = Minting(d) /\ t \notin Minting(d)
        BY <2>1, <3>1, <3>5 DEF Minting
      <4>3. \A v \in Minting(d) : task'[v].attempts = task[v].attempts
        BY <3>4, <4>2 DEF Minting
      <4> QED BY <1>1, <2>1, <3>3, <4>1, <4>2, <4>3 DEF MintsCounted
    <3>6. CASE d = c
      <4>1. Minting(d)' = Minting(d) \ {t} /\ t \in Minting(d)
        BY <2>1, <2>3, <3>1, <3>6 DEF Minting
      <4>2. /\ mint'[d].count = mint[d].count /\ mint'[d].lost = mint[d].lost + 1
            /\ mint'[d].overlap = mint[d].overlap
            /\ mint[d].count \in Nat /\ mint[d].lost \in Nat
        BY <1>0, <3>2, <3>6 DEF MintRecords
      <4>3. Counting(acct[d]) \in Nat
        BY <1>0 DEF Counting, AccountRows
      <4>4. ~mint[d].overlap =>
                /\ Minting(d)' = {}
                /\ mint[d].count <= MintLimit + mint[d].lost
                /\ acct[d].present => mint[d].count <= Counting(acct[d]) + mint[d].lost + 1
        BY <1>1, <4>1 DEF MintsCounted
      <4>5. ~mint'[d].overlap =>
                /\ Minting(d)' = {}
                /\ mint'[d].count <= MintLimit + mint'[d].lost
                /\ acct'[d].present => /\ mint'[d].count <= Counting(acct'[d]) + mint'[d].lost
                                       /\ mint'[d].count <= Counting(acct'[d]) + mint'[d].lost + 1
        BY <1>0, <2>1, <4>2, <4>3, <4>4
      <4> QED BY <3>3, <4>5 DEF MintsCounted
    <3> QED BY <3>5, <3>6
  <2> QED BY <2>2, <2>3
<1>16. ASSUME NEW t \in TokenTasks, Detach(t)
      PROVE  MintsCounted(d)' /\ mint' \in [Creds -> MintRecords]
  <2>1. /\ mint' = mint /\ acct' = acct /\ task[t].stage \in {"fresh", "dead"}
        /\ task'[t].stage = task[t].stage /\ \A v \in TokenTasks \ {t} : task'[v] = task[v]
    BY <1>0, <1>16 DEF Detach, TaskRecords
  <2> QED BY <1>6, <2>1
<1> QED
  BY <1>3, <1>4, <1>5, <1>8, <1>9, <1>10, <1>11, <1>12, <1>13, <1>14, <1>15, <1>16 DEF TokStep

\* The tokens of an account are numbers.
LEMMA TokenSteps ==
    ASSUME TokInv, TokStep
    PROVE  live' \in [Creds -> SUBSET Nat] /\ issued' \in [Creds -> Nat]
<1>1. live \in [Creds -> SUBSET Nat] /\ issued \in [Creds -> Nat]
  BY DEF TokInv
<1>2. ASSUME NEW c \in Creds, NEW on, Saved(c, on)
      PROVE  live' \in [Creds -> SUBSET Nat] /\ issued' \in [Creds -> Nat]
  BY <1>1, <1>2 DEF Saved
<1>3. ASSUME NEW c \in Creds, Revoke(c)
      PROVE  live' \in [Creds -> SUBSET Nat] /\ issued' \in [Creds -> Nat]
  BY <1>1, <1>3 DEF Revoke
<1>4. ASSUME NEW t \in TokenTasks, RefreshUpstream(t)
      PROVE  live' \in [Creds -> SUBSET Nat] /\ issued' \in [Creds -> Nat]
  BY <1>1, <1>4 DEF RefreshUpstream
<1> QED
  BY <1>1, <1>2, <1>3, <1>4
  DEF TokStep, MintAges, Reject, Recover, Switch, RemoveAccount, AskLock, MintStart, TakeLock, LoadAccount,
      RefreshFails, PersistRow, MarkRow, MintStores, MintFails, Abandon, Detach

\* The invariant holds at the start: no account is stored, no task works.
LEMMA TokInvInit ==
    TokInit => TokInv
<1> SUFFICES ASSUME TokInit PROVE TokInv
  OBVIOUS
<1>1. /\ adapter \in Adapters
      /\ acct = [c \in Creds |-> NoAccount]
      /\ live = [c \in Creds |-> {}] /\ issued = [c \in Creds |-> 0]
      /\ task = [t \in TokenTasks |-> NoTask]
      /\ mint = [c \in Creds |-> NoMint]
  BY DEF TokInit
<1>2. NoTask \in TaskRecords /\ NoAccount \in AccountRows /\ NoMint \in MintRecords /\ NoMint.count = 0 /\ NoMint.lost = 0
  BY DEF NoTask, NoAccount, TaskRecords, AccountRows, NoMint, MintRecords
<1>3. /\ \A t \in TokenTasks : task[t].stage = "idle"
      /\ \A c \in Creds : ~acct[c].present /\ acct[c].listed = FALSE
  BY <1>1 DEF NoTask, NoAccount
<1>4. TaskPart
  <2>1. \A t \in TokenTasks : TaskOK(t)
    BY <1>3 DEF TaskOK, InRefresh, Waits
  <2> QED BY <1>1, <1>2, <1>3, <2>1 DEF TaskPart, LocksExclude, OverlapsMarked, InRefresh, Holding
<1>5. RowPart
  <2>1. AccountListed
    BY <1>3, Zenon DEF AccountListed
  <2> QED BY <1>1, <1>2, <1>3, <2>1 DEF RowPart, RowsHaveTokens
<1>6. \A t \in TokenTasks : AloneKnows(t)
  BY <1>3 DEF AloneKnows, InRefresh
<1>7. ASSUME NEW c \in Creds PROVE MintsCounted(c)
  <2>1. Minting(c) = {} /\ ~acct[c].present /\ mint[c].count = 0 /\ mint[c].lost = 0
    BY <1>1, <1>2, <1>3 DEF Minting
  <2>2. mint[c].count <= MintLimit + mint[c].lost
    <3>1. 0 <= MintLimit + 0
      BY TokenAssumption
    <3> QED BY <2>1, <3>1
  <2>3. \A t, u \in Minting(c) : t = u
    BY <2>1, Zenon
  <2>4. \A t \in Minting(c) : mint[c].count <= task[t].attempts + mint[c].lost /\ task[t].attempts <= MintLimit
    BY <2>1, Zenon
  <2>5. ~acct[c].present
    BY <2>1
  <2> QED BY <2>2, <2>3, <2>4, <2>5, Zenon DEF MintsCounted
<1> QED BY <1>1, <1>2, <1>4, <1>5, <1>6, <1>7 DEF TokInv

\* Every step keeps it.
LEMMA TokInvStep ==
    ASSUME TokInv, [TokNext]_tokenVars
    PROVE  TokInv'
<1>1. CASE TokNext
  <2>1. TokStep
    BY <1>1, StepsCovered
  <2>2. TaskPart' /\ RowPart'
    BY <2>1, TaskSteps, RowSteps
  <2>3. \A u \in TokenTasks : AloneKnows(u)'
    BY <2>1, AloneSteps
  <2>4. \A d \in Creds : MintsCounted(d)'
    BY <2>1, MintSteps
  <2>5. mint' \in [Creds -> MintRecords]
    <3>1. CASE Creds = {}
      BY <2>1, <3>1 DEF TokInv, TokStep, AskLock, MintStart, TakeLock, LoadAccount, RefreshUpstream,
            RefreshFails, PersistRow, MarkRow, MintStores, MintFails, Abandon, Detach
    <3>2. CASE Creds # {}
      BY <2>1, <3>2, MintSteps
    <3> QED BY <3>1, <3>2
  <2> QED BY <2>1, <2>2, <2>3, <2>4, <2>5, TokenSteps DEF TokInv
<1>2. CASE UNCHANGED tokenVars
  BY <1>2 DEF tokenVars, TokInv, TaskPart, RowPart, TaskOK, LocksExclude, OverlapsMarked,
     RowsHaveTokens, AccountListed, AloneKnows, MintsCounted, InRefresh, Holding, SameLock, Minting
<1> QED BY <1>1, <1>2

\* For every number of credentials, of tasks and of locks that fit the map,
\* for every adapter and mint limit, whatever tasks are dropped and whatever
\* writes fail: refreshes overlap only across the two locks or with what a
\* dropped task still stores, a refresh that runs alone never makes the
\* operator sign in again while the stored token works, flag and index agree,
\* and mints that run one at a time exceed their budget by lost records only.
THEOREM TokensAreSound == TokSpec => []TokensSound
<1>1. TokInv => TokensSound
  <2> SUFFICES ASSUME TokInv PROVE TokensSound
    OBVIOUS
  <2>1. RefreshesSerialized
    <3>1. SUFFICES ASSUME NEW t \in TokenTasks, NEW u \in TokenTasks, t # u, InRefresh(t),
                          InRefresh(u), task[t].cred = task[u].cred,
                          task[t].lock # "late", task[u].lock # "late"
                   PROVE  {task[t].lock, task[u].lock} = {"own", "fallback"}
      BY DEF RefreshesSerialized
    <3>2. task[t].lock \in {"own", "fallback"} /\ task[u].lock \in {"own", "fallback"}
      BY <3>1 DEF TokInv, TaskPart, TaskOK, InRefresh, Waits
    <3>3. ~SameLock(t, u)
      BY <3>1 DEF TokInv, TaskPart, LocksExclude, InRefresh, Holding
    <3> QED BY <3>1, <3>2, <3>3 DEF SameLock
  <2>2. NoNeedlessReauth
    BY DEF TokInv, AloneKnows, NoNeedlessReauth, InRefresh
  <2>3. AccountListed
    BY DEF TokInv, RowPart
  <2>4. MintBudgetAlone
    BY DEF TokInv, MintsCounted, MintBudgetAlone
  <2> QED BY <2>1, <2>2, <2>3, <2>4 DEF TokensSound
<1> QED BY <1>1, TokInvInit, TokInvStep, PTL DEF TokSpec

---------------------------------------------------------------------------
(* The gates of the providers: facts about finite sets. *)

\* A function has no more values than arguments.
LEMMA ImageSmall ==
    ASSUME NEW S, IsFiniteSet(S), NEW f
    PROVE  /\ IsFiniteSet({f[x] : x \in S})
           /\ Cardinality({f[x] : x \in S}) <= Cardinality(S)
<1> DEFINE T == {f[x] : x \in S}
<1> DEFINE h == [x \in S |-> f[x]]
<1>1. h \in Surjection(S, T)
  BY DEF Surjection
<1> HIDE DEF h, T
<1>2. IsFiniteSet(T) /\ Cardinality(T) <= Cardinality(S)
  BY <1>1, FS_Surjection
<1> QED BY <1>2 DEF T

\* If every element of S goes to some place in G and no place gets more
\* than n, there are at most n for each place.  (A least counterexample in
\* the number of places would lose one place and its elements.)
LEMMA PlacesBound ==
    ASSUME NEW A, IsFiniteSet(A), NEW P, IsFiniteSet(P), NEW f, NEW n \in Nat,
           NEW S \in SUBSET A, NEW G \in SUBSET P,
           \A x \in S : f[x] \in G,
           \A g \in G : Cardinality({x \in S : f[x] = g}) <= n
    PROVE  Cardinality(S) <= n * Cardinality(G)
<1> DEFINE Fits(X, Y) == /\ \A x \in X : f[x] \in Y
                         /\ \A g \in Y : Cardinality({x \in X : f[x] = g}) <= n
<1> DEFINE Bad(k) == \E X \in SUBSET A, Y \in SUBSET P :
                        Fits(X, Y) /\ Cardinality(Y) = k /\ ~(Cardinality(X) <= n * k)
<1> DEFINE B == {k \in Nat : Bad(k)}
<1>1. SUFFICES ASSUME ~(Cardinality(S) <= n * Cardinality(G)) PROVE FALSE
  OBVIOUS
<1>2. IsFiniteSet(G) /\ Cardinality(G) \in Nat
  BY FS_Subset, FS_CardinalityType
<1>3. Cardinality(G) \in B
  BY <1>1, <1>2
<1>4. PICK k \in B : \A j \in B : ~(j < k)
  <2>1. B \subseteq Nat /\ B # {}
    BY <1>3
  <2> HIDE DEF B
  <2>2. PICK k \in B : \A j \in B : ~(<<j, k>> \in OpToRel(<, Nat))
    BY <2>1, NatLessThanWellFounded, WFMin
  <2>3. \A j \in B : ~(j < k)
    BY <2>1, <2>2, Zenon DEF OpToRel
  <2> QED BY <2>3
<1>5. PICK X \in SUBSET A, Y \in SUBSET P :
          Fits(X, Y) /\ Cardinality(Y) = k /\ ~(Cardinality(X) <= n * k)
  BY <1>4
<1>6. IsFiniteSet(X) /\ IsFiniteSet(Y) /\ Cardinality(X) \in Nat /\ k \in Nat
  BY <1>4, FS_Subset, FS_CardinalityType
<1>7. CASE Y = {}
  <2>1. X = {} /\ k = 0
    BY <1>5, <1>7, FS_EmptySet
  <2>2. Cardinality(X) = 0
    BY <2>1, FS_EmptySet
  <2> QED BY <1>5, <2>1, <2>2
<1>8. CASE Y # {}
  <2>1. PICK g \in Y : TRUE
    BY <1>8
  <2> DEFINE X1 == {x \in X : f[x] = g}
  <2> DEFINE X2 == {x \in X : f[x] # g}
  <2> DEFINE Y2 == Y \ {g}
  <2>2. /\ Cardinality(Y2) = k - 1 /\ k - 1 \in Nat
    <3>1. Cardinality(Y2) = k - 1
      BY <1>5, <1>6, <2>1, FS_RemoveElement
    <3>2. k # 0
      BY <1>5, <1>6, <1>8, FS_EmptySet
    <3> QED BY <1>6, <3>1, <3>2
  <2>3. Cardinality(X) <= Cardinality(X1) + Cardinality(X2)
    <3>1. X = X1 \cup X2 /\ X1 \cap X2 = {} /\ X1 \subseteq X /\ X2 \subseteq X
      OBVIOUS
    <3> HIDE DEF X1, X2
    <3>2. IsFiniteSet(X1) /\ IsFiniteSet(X2)
      BY <1>6, <3>1, FS_Subset
    <3>3. Cardinality(X1) \in Nat /\ Cardinality(X2) \in Nat
      BY <3>2, FS_CardinalityType
    <3>4. Cardinality(X1 \cup X2) = Cardinality(X1) + Cardinality(X2) - Cardinality(X1 \cap X2)
      BY <3>2, FS_Union
    <3>5. Cardinality(X1 \cap X2) = 0
      BY <3>1, FS_EmptySet
    <3> QED BY <3>1, <3>3, <3>4, <3>5
  <2>4. Cardinality(X1) \in Nat /\ Cardinality(X2) \in Nat
    BY <1>6, FS_Subset, FS_CardinalityType
  <2>5. Fits(X2, Y2)
    <3>1. \A x \in X2 : f[x] \in Y2
      BY <1>5
    <3>2. ASSUME NEW y \in Y2 PROVE Cardinality({x \in X2 : f[x] = y}) <= n
      <4>1. {x \in X2 : f[x] = y} = {x \in X : f[x] = y}
        OBVIOUS
      <4>2. Cardinality({x \in X : f[x] = y}) <= n
        BY <1>5
      <4> QED BY <4>1, <4>2
    <3> QED BY <3>1, <3>2
  <2>6. Cardinality(X1) <= n
    BY <1>5, <2>1
  <2>7. ~(Cardinality(X2) <= n * (k - 1))
    <3>1. n * k = n * (k - 1) + n
      BY <1>6
    <3>2. PICK a \in Nat, b \in Nat, x \in Nat :
            a = Cardinality(X1) /\ b = Cardinality(X2) /\ x = Cardinality(X)
      BY <1>6, <2>4
    <3>3. PICK m \in Int, o \in Int : m = n * k /\ o = n * (k - 1)
      BY <1>6
    <3>4. ~(x <= m) /\ x <= a + b /\ a <= n /\ m = o + n
      BY <1>5, <2>3, <2>6, <3>1, <3>2, <3>3
    <3>5. ~(b <= o)
      BY <3>2, <3>3, <3>4
    <3> QED BY <3>2, <3>3, <3>5
  <2>8. X2 \in SUBSET A /\ Y2 \in SUBSET P
    BY <1>5
  <2>9. k - 1 \in B
    BY <2>2, <2>5, <2>7, <2>8
  <2> QED BY <1>4, <1>6, <2>9
<1> QED BY <1>7, <1>8

---------------------------------------------------------------------------
(* The gates of the providers: the inductive invariant. *)

GateHolders(g) == {t \in Callers : gate[t] = g /\ callPc[t] = "holding"}

\* A request has a gate and a provider while it is under way.
CallersPlaced ==
    \A t \in Callers : /\ callPc[t] = "idle" <=> gate[t] = NoGate
                       /\ callPc[t] = "idle" <=> provider[t] = NoProvider

\* A gate counts the permits of the requests that hold it.
SlotsCounted ==
    \A g \in Gates : /\ inUse[g] = Cardinality(GateHolders(g))
                     /\ Limit # 0 => inUse[g] <= Limit

\* The requests at a gate go to one provider.
OneProviderPerGate ==
    \A t, u \in Callers : gate[t] # NoGate /\ gate[t] = gate[u] => provider[t] = provider[u]

\* Gates the requests of p still use although the map has another one, or
\* none: only a restore detaches a gate in use.
Detached(p) ==
    {g \in Gates : tracked[p] # g /\ \E t \in Callers : gate[t] = g /\ provider[t] = p}
RestoresDetach == \A p \in Providers : Cardinality(Detached(p)) <= restores

BulkInv ==
    /\ BulkTypeOK
    /\ CallersPlaced
    /\ SlotsCounted
    /\ OneProviderPerGate
    /\ GatesSeparate
    /\ RestoresDetach

\* What a lookup keeps of the map: part of it, and every gate a request has.
LEMMA RetainedPart ==
    ASSUME BulkInv, NEW m, m = Retained(tracked)
    PROVE  /\ m \in [Providers -> Gates \cup {NoGate}]
           /\ \A p \in Providers : m[p] # NoGate => m[p] = tracked[p]
           /\ \A p \in Providers : m[p] # tracked[p] => ~Shared(tracked[p])
           /\ Cardinality(TrackedProviders(m)) \in Nat
           /\ Cardinality(TrackedProviders(m)) <= MaxTracked
           /\ IsFiniteSet(TrackedProviders(m))
<1>1. tracked \in [Providers -> Gates \cup {NoGate}] /\ NoGate \notin Gates
  BY BulkheadAssumption DEF BulkInv, BulkTypeOK
<1>2. /\ m \in [Providers -> Gates \cup {NoGate}]
      /\ \A p \in Providers : m[p] # NoGate => m[p] = tracked[p]
  BY <1>1 DEF Retained
<1>3. \A p \in Providers : m[p] # tracked[p] => ~Shared(tracked[p])
  BY <1>1 DEF Retained
<1>4. TrackedProviders(m) \subseteq TrackedProviders(tracked) /\ TrackedProviders(tracked) \subseteq Providers
  BY <1>2 DEF TrackedProviders
<1>5. IsFiniteSet(TrackedProviders(tracked)) /\ IsFiniteSet(TrackedProviders(m))
  BY <1>4, BulkheadAssumption, FS_Subset
<1>6. Cardinality(TrackedProviders(m)) <= Cardinality(TrackedProviders(tracked))
  BY <1>4, <1>5, FS_Subset
<1>7. Cardinality(TrackedProviders(m)) \in Nat /\ Cardinality(TrackedProviders(tracked)) \in Nat
  BY <1>5, FS_CardinalityType
<1>8. Cardinality(TrackedProviders(tracked)) <= MaxTracked
  BY DEF BulkInv, GatesSeparate
<1> QED BY <1>2, <1>3, <1>5, <1>6, <1>7, <1>8, BulkheadAssumption

\* There is always memory for a new gate: NewGate has a value.
LEMMA NewGateFree ==
    ASSUME BulkInv, NEW m, m = Retained(tracked)
    PROVE  /\ NewGate(m) \in Gates /\ ~Shared(NewGate(m))
           /\ \A p \in Providers : m[p] # NewGate(m)
<1> DEFINE P == TrackedProviders(m)
<1> DEFINE U == {gate[t] : t \in Callers}
<1> DEFINE V == {m[p] : p \in P}
<1>1. IsFiniteSet(Callers) /\ IsFiniteSet(P) /\ Cardinality(P) <= MaxTracked
  BY RetainedPart, BulkheadAssumption
<1>2. IsFiniteSet(U) /\ Cardinality(U) <= Cardinality(Callers)
  BY <1>1, ImageSmall
<1>3. IsFiniteSet(V) /\ Cardinality(V) <= Cardinality(P)
  <2> HIDE DEF P
  <2> QED BY <1>1, ImageSmall
<1>4. \E g \in Gates : g \notin U /\ g \notin V
  <2> HIDE DEF U, V, P
  <2>1. /\ Cardinality(U) \in Nat /\ Cardinality(V) \in Nat /\ Cardinality(P) \in Nat
        /\ Cardinality(Callers) \in Nat /\ Cardinality(Gates) \in Nat
        /\ Cardinality(U \cap V) \in Nat /\ Cardinality(U \cup V) \in Nat
    BY <1>1, <1>2, <1>3, FS_CardinalityType, FS_Union, FS_Intersection, BulkheadAssumption
  <2>2. IsFiniteSet(U \cup V)
        /\ Cardinality(U \cup V) = Cardinality(U) + Cardinality(V) - Cardinality(U \cap V)
    BY <1>2, <1>3, FS_Union
  <2>3. Cardinality(U \cup V) < Cardinality(Gates)
    BY <1>1, <1>2, <1>3, <2>1, <2>2, BulkheadAssumption
  <2>4. ~(Gates \subseteq U \cup V)
    <3>1. SUFFICES ASSUME Gates \subseteq U \cup V PROVE FALSE
      OBVIOUS
    <3>2. Cardinality(Gates) <= Cardinality(U \cup V)
      BY <2>2, <3>1, FS_Subset
    <3> QED BY <2>1, <2>3, <3>2
  <2> QED BY <2>4
<1>5. PICK g \in Gates : g \notin U /\ g \notin V
  BY <1>4
<1>6. ~Shared(g) /\ \A p \in Providers : m[p] # g
  BY <1>5, BulkheadAssumption DEF Shared, TrackedProviders
<1> QED BY <1>5, <1>6 DEF NewGate

\* Fewer gates are detached when fewer requests use them or the map has them.
LEMMA DetachedPart ==
    ASSUME BulkInv, restores' = restores, \A p \in Providers : Detached(p)' \subseteq Detached(p)
    PROVE  RestoresDetach'
<1> SUFFICES ASSUME NEW p \in Providers PROVE Cardinality(Detached(p)') <= restores
  BY DEF RestoresDetach
<1>1. IsFiniteSet(Detached(p))
  BY FS_Subset, BulkheadAssumption DEF Detached
<1>2. PICK D, E : D = Detached(p) /\ E = Detached(p)'
  OBVIOUS
<1>3. IsFiniteSet(D) /\ IsFiniteSet(E) /\ Cardinality(E) <= Cardinality(D)
  BY <1>1, <1>2, FS_Subset
<1>4. Cardinality(D) \in Nat /\ Cardinality(E) \in Nat /\ restores \in Nat
  BY <1>3, FS_CardinalityType, BulkheadAssumption DEF BulkInv, BulkTypeOK
<1>5. Cardinality(D) <= restores
  BY <1>2 DEF BulkInv, RestoresDetach
<1> QED BY <1>2, <1>3, <1>4, <1>5

\* Dropping gates from the map keeps everything but the count of restores.
LEMMA MapShrinks ==
    ASSUME BulkInv, tracked' \in [Providers -> Gates \cup {NoGate}],
           \A p \in Providers : tracked'[p] # NoGate => tracked'[p] = tracked[p],
           UNCHANGED <<inUse, callPc, provider, gate>>
    PROVE  CallersPlaced' /\ SlotsCounted' /\ OneProviderPerGate' /\ GatesSeparate'
<1>1. CallersPlaced' /\ OneProviderPerGate'
  BY DEF BulkInv, CallersPlaced, OneProviderPerGate
<1>2. SlotsCounted'
  BY DEF BulkInv, SlotsCounted, GateHolders
<1>3. Cardinality(TrackedProviders(tracked')) <= MaxTracked
  <2>1. TrackedProviders(tracked') \subseteq TrackedProviders(tracked)
        /\ TrackedProviders(tracked) \subseteq Providers
    BY DEF TrackedProviders
  <2>2. PICK S, T : S = TrackedProviders(tracked') /\ T = TrackedProviders(tracked)
    OBVIOUS
  <2>3. IsFiniteSet(T) /\ S \subseteq T
    BY <2>1, <2>2, FS_Subset, BulkheadAssumption
  <2>4. IsFiniteSet(S) /\ Cardinality(S) <= Cardinality(T)
    BY <2>3, FS_Subset
  <2>5. Cardinality(S) \in Nat /\ Cardinality(T) \in Nat
    BY <2>3, <2>4, FS_CardinalityType
  <2>6. Cardinality(T) <= MaxTracked
    BY <2>2 DEF BulkInv, GatesSeparate
  <2> QED BY <2>2, <2>4, <2>5, <2>6, BulkheadAssumption
<1>4. \A t \in Callers, p \in Providers :
        gate'[t] # NoGate /\ tracked'[p] = gate'[t] => provider'[t] = p
  BY DEF BulkInv, GatesSeparate
<1>5. \A p, q \in Providers : tracked'[p] = tracked'[q] /\ tracked'[p] # NoGate => p = q
  BY DEF BulkInv, GatesSeparate
<1>6. GatesSeparate'
  BY <1>3, <1>4, <1>5 DEF GatesSeparate, TrackedProviders
<1> QED BY <1>1, <1>2, <1>6

\* A lookup that clones or creates the provider's gate.
LEMMA BulkLookup ==
    ASSUME BulkInv, NEW t \in Callers, NEW p \in Providers, Lookup(t, p)
    PROVE  BulkInv'
<1> DEFINE kept == Retained(tracked)
<1> DEFINE found == IF kept[p] # NoGate THEN kept[p] ELSE NewGate(kept)
<1>0. /\ callPc[t] = "idle"
      /\ kept[p] # NoGate \/ MapHasRoom(kept)
      /\ tracked' = [kept EXCEPT ![p] = found]
      /\ inUse' = IF kept[p] # NoGate THEN inUse ELSE [inUse EXCEPT ![found] = 0]
      /\ gate' = [gate EXCEPT ![t] = found]
      /\ provider' = [provider EXCEPT ![t] = p]
      /\ callPc' = [callPc EXCEPT ![t] = "cloned"]
      /\ restores' = restores
  BY DEF Lookup
<1>1. PICK m : m = kept
  OBVIOUS
<1>2. PICK f : f = found
  OBVIOUS
<1>3. /\ m \in [Providers -> Gates \cup {NoGate}]
      /\ \A q \in Providers : m[q] # NoGate => m[q] = tracked[q]
      /\ \A q \in Providers : m[q] # tracked[q] => ~Shared(tracked[q])
  BY <1>1, RetainedPart
<1>4. NewGate(m) \in Gates /\ ~Shared(NewGate(m)) /\ \A q \in Providers : m[q] # NewGate(m)
  BY <1>1, NewGateFree
<1>5. f = IF m[p] # NoGate THEN m[p] ELSE NewGate(m)
  BY <1>1, <1>2
<1>6. /\ callPc[t] = "idle"
      /\ m[p] # NoGate \/ MapHasRoom(m)
      /\ tracked' = [m EXCEPT ![p] = f]
      /\ inUse' = IF m[p] # NoGate THEN inUse ELSE [inUse EXCEPT ![f] = 0]
      /\ gate' = [gate EXCEPT ![t] = f]
      /\ provider' = [provider EXCEPT ![t] = p]
      /\ callPc' = [callPc EXCEPT ![t] = "cloned"]
      /\ restores' = restores
  BY <1>0, <1>1, <1>2
<1> HIDE DEF kept, found
<1>7. /\ tracked \in [Providers -> Gates \cup {NoGate}] /\ inUse \in [Gates -> Nat]
      /\ callPc \in [Callers -> {"idle", "cloned", "holding", "dropping"}]
      /\ provider \in [Callers -> Providers \cup {NoProvider}]
      /\ gate \in [Callers -> Gates \cup {NoGate}] /\ restores \in 0..MaxRestores
      /\ NoGate \notin Gates /\ NoProvider \notin Providers
  BY BulkheadAssumption DEF BulkInv, BulkTypeOK
<1>8. /\ f \in Gates
      /\ \A u \in Callers : gate[u] = f => provider[u] = p
      /\ \A q \in Providers \ {p} : m[q] # f
      /\ m[p] = NoGate => ~Shared(f)
  <2>1. CASE m[p] # NoGate
    <3>1. f = m[p] /\ f = tracked[p] /\ f \in Gates
      BY <1>3, <1>5, <2>1
    <3> QED BY <1>3, <1>7, <2>1, <3>1 DEF BulkInv, GatesSeparate
  <2>2. CASE m[p] = NoGate
    BY <1>4, <1>5, <2>2 DEF Shared
  <2> QED BY <2>1, <2>2
<1>9. /\ tracked'[p] = f /\ \A q \in Providers \ {p} : tracked'[q] = m[q]
      /\ gate'[t] = f /\ \A u \in Callers \ {t} : gate'[u] = gate[u]
      /\ provider'[t] = p /\ \A u \in Callers \ {t} : provider'[u] = provider[u]
      /\ callPc'[t] = "cloned" /\ \A u \in Callers \ {t} : callPc'[u] = callPc[u]
  BY <1>3, <1>6, <1>7
<1>10. gate[t] = NoGate
  BY <1>6 DEF BulkInv, CallersPlaced
<1>11. BulkTypeOK'
  BY <1>3, <1>6, <1>7, <1>8 DEF BulkTypeOK
<1>12. CallersPlaced'
  BY <1>7, <1>8, <1>9 DEF BulkInv, CallersPlaced
<1>13. SlotsCounted'
  <2>1. ASSUME NEW g \in Gates PROVE GateHolders(g)' = GateHolders(g)
    BY <1>6, <1>9 DEF GateHolders
  <2>2. CASE m[p] # NoGate
    BY <1>6, <2>1, <2>2 DEF BulkInv, SlotsCounted
  <2>3. CASE m[p] = NoGate
    <3>1. GateHolders(f) = {}
      BY <1>8, <2>3 DEF GateHolders, Shared
    <3>2. inUse'[f] = 0 /\ \A g \in Gates \ {f} : inUse'[g] = inUse[g]
      BY <1>6, <1>7, <1>8, <2>3
    <3>3. Cardinality(GateHolders(f)') = 0
      BY <1>8, <2>1, <3>1, FS_EmptySet
    <3>4. \A g \in Gates \ {f} : inUse'[g] = Cardinality(GateHolders(g)') /\ (Limit # 0 => inUse'[g] <= Limit)
      BY <2>1, <3>2 DEF BulkInv, SlotsCounted
    <3> QED BY <3>2, <3>3, <3>4, BulkheadAssumption DEF SlotsCounted
  <2> QED BY <2>2, <2>3
<1>14. OneProviderPerGate'
  BY <1>8, <1>9 DEF BulkInv, OneProviderPerGate
<1>15. GatesSeparate'
  <2>1. Cardinality(TrackedProviders(tracked')) <= MaxTracked
    <3>1. TrackedProviders(tracked') = TrackedProviders(m) \cup {p}
      BY <1>7, <1>8, <1>9 DEF TrackedProviders
    <3>2. IsFiniteSet(TrackedProviders(m)) /\ Cardinality(TrackedProviders(m)) \in Nat
          /\ Cardinality(TrackedProviders(m)) <= MaxTracked
      BY <1>1, RetainedPart DEF kept
    <3>3. p \notin TrackedProviders(m) => Cardinality(TrackedProviders(m)) < MaxTracked
      BY <1>6 DEF TrackedProviders, MapHasRoom
    <3>4. PICK P, n : P = TrackedProviders(m) /\ n = Cardinality(P)
      OBVIOUS
    <3>5. Cardinality(P \cup {p}) = IF p \in P THEN n ELSE n + 1
      BY <3>2, <3>4, FS_AddElement
    <3> QED BY <3>1, <3>2, <3>3, <3>4, <3>5, BulkheadAssumption
  <2>2. \A u \in Callers, q \in Providers :
          gate'[u] # NoGate /\ tracked'[q] = gate'[u] => provider'[u] = q
    <3>1. \A u \in Callers, q \in Providers :
          gate[u] # NoGate /\ m[q] = gate[u] => provider[u] = q
      BY <1>3 DEF BulkInv, GatesSeparate
    <3> QED BY <1>8, <1>9, <3>1
  <2>3. \A q, r \in Providers : tracked'[q] = tracked'[r] /\ tracked'[q] # NoGate => q = r
    <3>1. \A q, r \in Providers : m[q] = m[r] /\ m[q] # NoGate => q = r
      BY <1>3 DEF BulkInv, GatesSeparate
    <3> QED BY <1>8, <1>9, <3>1
  <2> QED BY <2>1, <2>2, <2>3 DEF GatesSeparate, TrackedProviders
<1>16. RestoresDetach'
  <2>1. ASSUME NEW q \in Providers, NEW g \in Detached(q)' PROVE g \in Detached(q)
    <3>1. g \in Gates /\ tracked'[q] # g
      BY <2>1 DEF Detached
    <3>2. PICK u \in Callers : gate'[u] = g /\ provider'[u] = q
      BY <2>1 DEF Detached
    <3>3. u # t
      BY <1>9, <3>1, <3>2
    <3>4. gate[u] = g /\ provider[u] = q
      BY <1>9, <3>2, <3>3
    <3>5. tracked[q] # g
      <4>1. SUFFICES ASSUME tracked[q] = g PROVE FALSE
        OBVIOUS
      <4>2. m[q] = g /\ m[q] # NoGate
        BY <1>3, <1>7, <3>1, <3>4, <4>1 DEF Shared
      <4>3. CASE q = p
        BY <1>5, <1>9, <3>1, <4>2, <4>3
      <4>4. CASE q # p
        BY <1>9, <3>1, <4>2, <4>4
      <4> QED BY <4>3, <4>4
    <3> QED BY <3>1, <3>4, <3>5 DEF Detached
  <2> QED BY <1>6, <2>1, DetachedPart
<1> QED BY <1>11, <1>12, <1>13, <1>14, <1>15, <1>16 DEF BulkInv

\* A lookup refused by the full map, and the deletion of a provider: only
\* gates nobody uses leave the map.
LEMMA BulkDrops ==
    ASSUME BulkInv, NEW p \in Providers, ClearProvider(p) \/ \E t \in Callers : LookupFull(t, p)
    PROVE  BulkInv'
<1>1. /\ tracked \in [Providers -> Gates \cup {NoGate}] /\ NoGate \notin Gates
  BY BulkheadAssumption DEF BulkInv, BulkTypeOK
<1>2. UNCHANGED <<inUse, callPc, provider, gate, restores>>
  BY DEF ClearProvider, LookupFull
<1>3. /\ tracked' \in [Providers -> Gates \cup {NoGate}]
      /\ \A q \in Providers : tracked'[q] # NoGate => tracked'[q] = tracked[q]
      /\ \A q \in Providers : tracked'[q] # tracked[q] => ~Shared(tracked[q])
  <2>1. CASE ClearProvider(p)
    BY <1>1, <2>1 DEF ClearProvider
  <2>2. CASE \E t \in Callers : LookupFull(t, p)
    <3>1. tracked' = Retained(tracked)
      BY <2>2 DEF LookupFull
    <3> QED BY <3>1, RetainedPart
  <2> QED BY <2>1, <2>2
<1>4. BulkTypeOK'
  BY <1>2, <1>3 DEF BulkInv, BulkTypeOK
<1>5. CallersPlaced' /\ SlotsCounted' /\ OneProviderPerGate' /\ GatesSeparate'
  BY <1>2, <1>3, MapShrinks
<1>6. \A q \in Providers : Detached(q)' \subseteq Detached(q)
  BY <1>2, <1>3 DEF Detached, Shared
<1>7. RestoresDetach'
  BY <1>2, <1>6, DetachedPart
<1> QED BY <1>4, <1>5, <1>7 DEF BulkInv

\* A restore detaches at most one gate of each provider.
LEMMA BulkRestore ==
    ASSUME BulkInv, Restore
    PROVE  BulkInv'
<1>1. /\ tracked \in [Providers -> Gates \cup {NoGate}] /\ NoGate \notin Gates
      /\ restores \in 0..MaxRestores /\ MaxRestores \in Nat
  BY BulkheadAssumption DEF BulkInv, BulkTypeOK
<1>2. UNCHANGED <<inUse, callPc, provider, gate>> /\ restores' = restores + 1 /\ restores < MaxRestores
  BY DEF Restore
<1>3. /\ tracked' \in [Providers -> Gates \cup {NoGate}]
      /\ \A q \in Providers : tracked'[q] # NoGate => tracked'[q] = tracked[q]
  BY <1>1 DEF Restore
<1>4. BulkTypeOK'
  BY <1>1, <1>2, <1>3 DEF BulkInv, BulkTypeOK
<1>5. CallersPlaced' /\ SlotsCounted' /\ OneProviderPerGate' /\ GatesSeparate'
  BY <1>2, <1>3, MapShrinks
<1>6. ASSUME NEW q \in Providers PROVE Cardinality(Detached(q)') <= restores'
  <2>1. PICK D, E, g : D = Detached(q) /\ E = Detached(q)' /\ g = tracked[q]
    OBVIOUS
  <2>2. E \subseteq D \cup {g} /\ D \subseteq Gates
    BY <1>2, <2>1 DEF Detached
  <2>3. IsFiniteSet(D)
    BY <2>2, FS_Subset, BulkheadAssumption
  <2>4. IsFiniteSet(D \cup {g}) /\ Cardinality(D \cup {g}) <= Cardinality(D) + 1
        /\ Cardinality(D) \in Nat
    BY <2>3, FS_AddElement, FS_CardinalityType
  <2>5. IsFiniteSet(E) /\ Cardinality(E) <= Cardinality(D \cup {g})
    BY <2>2, <2>4, FS_Subset
  <2>6. Cardinality(E) \in Nat /\ Cardinality(D \cup {g}) \in Nat
    BY <2>4, <2>5, FS_CardinalityType
  <2>7. Cardinality(D) <= restores
    BY <2>1 DEF BulkInv, RestoresDetach
  <2> QED BY <1>1, <1>2, <2>1, <2>4, <2>5, <2>6, <2>7
<1> QED BY <1>4, <1>5, <1>6 DEF BulkInv, RestoresDetach

\* A request that takes its slot, gives it back, or lets go of its gate.
LEMMA BulkCaller ==
    ASSUME BulkInv, NEW t \in Callers,
           TryAcquire(t) \/ BulkRefused(t) \/ ReleaseGate(t) \/ DropPermit(t)
    PROVE  BulkInv'
<1>1. /\ tracked \in [Providers -> Gates \cup {NoGate}] /\ inUse \in [Gates -> Nat]
      /\ callPc \in [Callers -> {"idle", "cloned", "holding", "dropping"}]
      /\ provider \in [Callers -> Providers \cup {NoProvider}]
      /\ gate \in [Callers -> Gates \cup {NoGate}] /\ restores \in 0..MaxRestores
      /\ NoGate \notin Gates /\ NoProvider \notin Providers /\ Limit \in Nat
  BY BulkheadAssumption DEF BulkInv, BulkTypeOK
<1>2. tracked' = tracked /\ restores' = restores /\ callPc[t] # "idle"
  BY DEF TryAcquire, BulkRefused, ReleaseGate, DropPermit
<1>3. PICK g \in Gates : g = gate[t]
  BY <1>1, <1>2 DEF BulkInv, CallersPlaced
<1>4. ASSUME NEW h \in Gates PROVE IsFiniteSet(GateHolders(h)) /\ Cardinality(GateHolders(h)) \in Nat
  BY FS_Subset, FS_CardinalityType, BulkheadAssumption DEF GateHolders
<1>5. CASE TryAcquire(t)
  <2>1. /\ callPc[t] = "cloned" /\ BulkHasRoom(g)
        /\ inUse' = [inUse EXCEPT ![g] = @ + 1] /\ callPc' = [callPc EXCEPT ![t] = "holding"]
        /\ UNCHANGED <<provider, gate>>
    BY <1>3, <1>5 DEF TryAcquire
  <2>2. callPc'[t] = "holding" /\ \A u \in Callers \ {t} : callPc'[u] = callPc[u]
    BY <1>1, <2>1
  <2>3. GateHolders(g)' = GateHolders(g) \cup {t} /\ t \notin GateHolders(g)
    BY <1>3, <2>1, <2>2 DEF GateHolders
  <2>4. \A h \in Gates \ {g} : GateHolders(h)' = GateHolders(h)
    BY <1>3, <2>1, <2>2 DEF GateHolders
  <2>5. Cardinality(GateHolders(g)') = Cardinality(GateHolders(g)) + 1
    BY <1>4, <2>3, FS_AddElement
  <2>6. inUse'[g] = inUse[g] + 1 /\ \A h \in Gates \ {g} : inUse'[h] = inUse[h]
    BY <1>1, <2>1
  <2>7. SlotsCounted'
    <3>1. inUse'[g] = Cardinality(GateHolders(g)') /\ (Limit # 0 => inUse'[g] <= Limit)
      BY <1>1, <2>1, <2>5, <2>6 DEF BulkInv, SlotsCounted, BulkHasRoom
    <3>2. \A h \in Gates \ {g} : inUse'[h] = Cardinality(GateHolders(h)') /\ (Limit # 0 => inUse'[h] <= Limit)
      BY <2>4, <2>6 DEF BulkInv, SlotsCounted
    <3> QED BY <3>1, <3>2 DEF SlotsCounted
  <2>8. BulkTypeOK'
    BY <1>1, <1>2, <2>1 DEF BulkTypeOK
  <2>9. CallersPlaced' /\ OneProviderPerGate' /\ GatesSeparate'
    BY <1>2, <2>1, <2>2 DEF BulkInv, CallersPlaced, OneProviderPerGate, GatesSeparate, TrackedProviders
  <2>10. RestoresDetach'
    BY <1>2, <2>1, DetachedPart DEF Detached
  <2> QED BY <2>7, <2>8, <2>9, <2>10 DEF BulkInv
<1>6. CASE ReleaseGate(t)
  <2>1. /\ callPc[t] = "holding"
        /\ inUse' = [inUse EXCEPT ![g] = @ - 1] /\ callPc' = [callPc EXCEPT ![t] = "dropping"]
        /\ UNCHANGED <<provider, gate>>
    BY <1>3, <1>6 DEF ReleaseGate
  <2>2. callPc'[t] = "dropping" /\ \A u \in Callers \ {t} : callPc'[u] = callPc[u]
    BY <1>1, <2>1
  <2>3. GateHolders(g)' = GateHolders(g) \ {t} /\ t \in GateHolders(g)
    BY <1>3, <2>1, <2>2 DEF GateHolders
  <2>4. \A h \in Gates \ {g} : GateHolders(h)' = GateHolders(h)
    BY <1>3, <2>1, <2>2 DEF GateHolders
  <2>5. Cardinality(GateHolders(g)') = Cardinality(GateHolders(g)) - 1
    BY <1>4, <2>3, FS_RemoveElement
  <2>6. inUse'[g] = inUse[g] - 1 /\ \A h \in Gates \ {g} : inUse'[h] = inUse[h]
    BY <1>1, <2>1
  <2>7. inUse[g] # 0
    BY <1>4, <2>3, FS_EmptySet DEF BulkInv, SlotsCounted
  <2>8. SlotsCounted'
    <3>1. inUse'[g] = Cardinality(GateHolders(g)') /\ (Limit # 0 => inUse'[g] <= Limit)
      BY <1>1, <2>5, <2>6 DEF BulkInv, SlotsCounted
    <3>2. \A h \in Gates \ {g} : inUse'[h] = Cardinality(GateHolders(h)') /\ (Limit # 0 => inUse'[h] <= Limit)
      BY <2>4, <2>6 DEF BulkInv, SlotsCounted
    <3> QED BY <3>1, <3>2 DEF SlotsCounted
  <2>9. BulkTypeOK'
    BY <1>1, <1>2, <2>1, <2>7 DEF BulkTypeOK
  <2>10. CallersPlaced' /\ OneProviderPerGate' /\ GatesSeparate'
    BY <1>2, <2>1, <2>2 DEF BulkInv, CallersPlaced, OneProviderPerGate, GatesSeparate, TrackedProviders
  <2>11. RestoresDetach'
    BY <1>2, <2>1, DetachedPart DEF Detached
  <2> QED BY <2>8, <2>9, <2>10, <2>11 DEF BulkInv
<1>7. CASE BulkRefused(t) \/ DropPermit(t)
  <2>1. callPc[t] \in {"cloned", "dropping"} /\ inUse' = inUse /\ DropArc(t)
    BY <1>7 DEF BulkRefused, DropPermit
  <2>2. /\ gate'[t] = NoGate /\ provider'[t] = NoProvider /\ callPc'[t] = "idle"
        /\ \A u \in Callers \ {t} : /\ gate'[u] = gate[u] /\ provider'[u] = provider[u]
                                    /\ callPc'[u] = callPc[u]
    BY <1>1, <2>1 DEF DropArc
  <2>3. BulkTypeOK'
    BY <1>1, <1>2, <2>1 DEF BulkTypeOK, DropArc
  <2>4. \A h \in Gates : GateHolders(h)' = GateHolders(h)
    BY <2>1, <2>2 DEF GateHolders
  <2>5. SlotsCounted'
    BY <2>1, <2>4 DEF BulkInv, SlotsCounted
  <2>6. CallersPlaced' /\ OneProviderPerGate' /\ GatesSeparate'
    BY <1>2, <2>2 DEF BulkInv, CallersPlaced, OneProviderPerGate, GatesSeparate, TrackedProviders
  <2>7. \A q \in Providers : Detached(q)' \subseteq Detached(q)
    BY <1>1, <1>2, <2>2 DEF Detached
  <2> QED BY <1>2, <2>3, <2>5, <2>6, <2>7, DetachedPart DEF BulkInv
<1> QED BY <1>5, <1>6, <1>7

\* The invariant holds at the start: no gate exists, no request runs.
LEMMA BulkInvInit ==
    BulkInit => BulkInv
<1> SUFFICES ASSUME BulkInit PROVE BulkInv
  OBVIOUS
<1>1. BulkTypeOK
  BY BulkheadAssumption DEF BulkInit, BulkTypeOK
<1>2. CallersPlaced /\ OneProviderPerGate
  BY DEF BulkInit, CallersPlaced, OneProviderPerGate
<1>3. SlotsCounted
  <2>1. \A g \in Gates : GateHolders(g) = {} /\ inUse[g] = 0
    BY DEF BulkInit, GateHolders
  <2> QED BY <2>1, FS_EmptySet, BulkheadAssumption DEF SlotsCounted
<1>4. GatesSeparate
  <2>1. TrackedProviders(tracked) = {}
    BY DEF BulkInit, TrackedProviders
  <2> QED BY <2>1, FS_EmptySet, BulkheadAssumption DEF BulkInit, GatesSeparate
<1>5. RestoresDetach
  <2>1. \A p \in Providers : Detached(p) = {}
    BY BulkheadAssumption DEF BulkInit, Detached
  <2> QED BY <2>1, FS_EmptySet DEF BulkInit, RestoresDetach
<1> QED BY <1>1, <1>2, <1>3, <1>4, <1>5 DEF BulkInv

\* What a restore can cost follows: the requests of a provider are at its
\* gate in the map or at one of the gates that restores detached.
LEMMA BulkInvCost ==
    BulkInv => RestoreCost
<1> SUFFICES ASSUME BulkInv, Limit # 0, NEW p \in Providers
             PROVE  Cardinality(BulkPermits(p)) <= Limit * (1 + restores)
  BY DEF RestoreCost
<1>0. /\ IsFiniteSet(Callers) /\ IsFiniteSet(Gates) /\ Limit \in Nat /\ restores \in Nat
      /\ gate \in [Callers -> Gates \cup {NoGate}] /\ NoGate \notin Gates
      /\ tracked \in [Providers -> Gates \cup {NoGate}] /\ NoProvider \notin Providers
  BY BulkheadAssumption DEF BulkInv, BulkTypeOK
<1> DEFINE S == BulkPermits(p)
<1> DEFINE G == (Detached(p) \cup {tracked[p]}) \ {NoGate}
<1>1. S \in SUBSET Callers /\ G \in SUBSET Gates
  BY <1>0 DEF BulkPermits, Detached
<1>2. \A t \in S : gate[t] \in G
  BY <1>0 DEF BulkPermits, Detached, BulkInv, CallersPlaced
<1>3. ASSUME NEW g \in G PROVE Cardinality({t \in S : gate[t] = g}) <= Limit
  <2>1. {t \in S : gate[t] = g} \subseteq GateHolders(g) /\ GateHolders(g) \subseteq Callers
    BY DEF BulkPermits, GateHolders
  <2>2. IsFiniteSet(GateHolders(g))
    BY <1>0, <2>1, FS_Subset
  <2>3. PICK A : A = {t \in S : gate[t] = g}
    OBVIOUS
  <2>4. IsFiniteSet(A) /\ Cardinality(A) <= Cardinality(GateHolders(g))
    BY <2>1, <2>2, <2>3, FS_Subset
  <2>5. Cardinality(GateHolders(g)) <= Limit
    BY <1>1 DEF BulkInv, SlotsCounted
  <2>6. Cardinality(A) \in Nat /\ Cardinality(GateHolders(g)) \in Nat
    BY <2>2, <2>4, FS_CardinalityType
  <2> QED BY <1>0, <2>3, <2>4, <2>5, <2>6
<1>4. Cardinality(S) <= Limit * Cardinality(G)
  <2> HIDE DEF S, G
  <2> QED BY <1>0, <1>1, <1>2, <1>3, PlacesBound
<1>5. Cardinality(G) \in Nat /\ Cardinality(G) <= 1 + restores
  <2>1. PICK D, g : D = Detached(p) /\ g = tracked[p]
    OBVIOUS
  <2>2. IsFiniteSet(D) /\ Cardinality(D) <= restores
    BY <1>0, <2>1, FS_Subset DEF Detached, BulkInv, RestoresDetach
  <2>3. IsFiniteSet(D \cup {g}) /\ Cardinality(D \cup {g}) <= Cardinality(D) + 1 /\ Cardinality(D) \in Nat
    BY <2>2, FS_AddElement, FS_CardinalityType
  <2>4. IsFiniteSet(G) /\ Cardinality(G) <= Cardinality(D \cup {g})
    BY <2>1, <2>3, FS_Subset
  <2>5. Cardinality(G) \in Nat /\ Cardinality(D \cup {g}) \in Nat
    BY <2>3, <2>4, FS_CardinalityType
  <2> QED BY <1>0, <2>2, <2>3, <2>4, <2>5
<1>6. Cardinality(S) \in Nat
  BY <1>0, <1>1, FS_Subset, FS_CardinalityType
<1>7. Limit * Cardinality(G) <= Limit * (1 + restores)
  <2>1. \A a, b, n \in Nat : a <= b => n * a <= n * b
    OBVIOUS
  <2> QED BY <1>0, <1>5, <2>1
<1>8. Limit * Cardinality(G) \in Nat /\ Limit * (1 + restores) \in Nat
  BY <1>0, <1>5
<1> HIDE DEF G
<1> QED BY <1>4, <1>6, <1>7, <1>8

\* For every finite number of requests and providers, every limit and every
\* cap of the map: the map stays within its cap, no gate serves two
\* providers, a gate's count is that of its permits, and requests in flight
\* to a provider exceed the limit by at most one limit for each restore.
THEOREM GatesAreSound == BulkSpec => []GatesSound
<1>1. BulkInv /\ [BulkNext]_bulkVars => BulkInv'
  <2>1. CASE BulkNext
    BY <2>1, BulkLookup, BulkDrops, BulkRestore, BulkCaller DEF BulkNext
  <2>2. CASE UNCHANGED bulkVars
    BY <2>2 DEF bulkVars, BulkInv, BulkTypeOK, CallersPlaced, SlotsCounted, GateHolders,
       OneProviderPerGate, GatesSeparate, TrackedProviders, RestoresDetach, Detached
  <2> QED BY <2>1, <2>2
<1>2. BulkInv => GatesSound
  BY BulkInvCost DEF BulkInv, GatesSound
<1> QED BY <1>1, <1>2, BulkInvInit, PTL DEF BulkSpec

---------------------------------------------------------------------------
(***************************************************************************)
(* Upstream usage and quota snapshots.                                     *)
(*                                                                         *)
(* UsageCorrect follows from what the holders of the refresh locks know:   *)
(* two reads past the table hold different locks (UsageExclusive), what a  *)
(* read is about to store carries the epoch and the lock of that read      *)
(* (StoresOwn), and a read that would store an answer without data saw     *)
(* none under its lock (NothingToForget), because nobody else writes under *)
(* it.                                                                     *)
(***************************************************************************)

(* The usage cache. *)

UsageLocks == UsageKeys \cup {"none", "fallback"}

UsageEntries == [held : BOOLEAN, snap : Nat, at : Nat, tried : Nat, failed : BOOLEAN,
                 born : Nat, via : UsageLocks]

UsageReads == [step : {"idle", "waiting", "entered", "queued", "fetching", "storing"},
               key : UsageKeys \cup {"none"}, row : Nat, force : BOOLEAN, lock : UsageLocks,
               epoch : Nat, snap : Nat, at : Nat, decided : Nat, next : UsageEntries]

UsageTyped ==
    /\ account \in [UsageKeys -> [path : Paths, mode : Modes, secret : Nat]]
    /\ cached \in [UsageKeys -> UsageEntries]
    /\ epoch \in Nat /\ tick \in Nat
    /\ purge \in [bump : Nat, clear : Nat]
    /\ reader \in [Readers -> UsageReads]
    /\ \A r \in Readers : reader[r].step # "idle" => reader[r].key \in UsageKeys

\* Holding a lock of the table, or the fallback.
InUsage(r) == reader[r].step \in {"entered", "queued", "fetching", "storing"}

UsageExclusive ==
    \A r, o \in Readers :
        r # o /\ InUsage(r) /\ InUsage(o) => reader[r].lock # reader[o].lock

\* What is stored next carries the epoch and the lock of its read.
StoresOwn ==
    \A r \in Readers : reader[r].step = "storing" =>
        /\ reader[r].next.born = reader[r].epoch
        /\ reader[r].next.via = reader[r].lock

\* A read that would store no answer saw none under its lock.
WouldForget(r) ==
    \/ reader[r].step \in {"queued", "fetching"} /\ reader[r].snap = 0
    \/ reader[r].step = "storing" /\ reader[r].next.snap = 0

NothingToForget ==
    \A r \in Readers :
        WouldForget(r) /\ cached[reader[r].key].via = reader[r].lock
            => cached[reader[r].key].snap = 0

UsageInv ==
    /\ UsageTyped
    /\ UsageExclusive /\ StoresOwn /\ NothingToForget
    /\ OldRefreshDropped /\ ReadsReuse

\* One step of LastGoodKept.
GoodKept ==
    \A k \in UsageKeys :
        (cached[k].snap # 0 /\ cached'[k].held /\ cached'[k].via = cached[k].via)
            => cached'[k].snap # 0

\* The cache only loses entries.
OnlyDrops == \A k \in UsageKeys : cached'[k] = cached[k] \/ cached'[k] = Nothing

\* The empty entry has its type.
LEMMA NothingTyped == Nothing \in UsageEntries /\ ~Nothing.held /\ Nothing.snap = 0
  BY DEF Nothing, UsageEntries, UsageLocks

\* The idle read has its type.
LEMMA NoReaderTyped == NoReader \in UsageReads /\ NoReader.step = "idle"
  BY NothingTyped DEF NoReader, UsageReads, UsageLocks

\* `retain` keeps an entry or drops it.
LEMMA AgedDrops ==
  ASSUME NEW c \in [UsageKeys -> UsageEntries]
  PROVE  /\ Aged(c) \in [UsageKeys -> UsageEntries]
         /\ \A k \in UsageKeys : Aged(c)[k] = c[k] \/ Aged(c)[k] = Nothing
  BY NothingTyped DEF Aged

\* An insertion stores its entry and changes no other, but for the eviction.
LEMMA InsertedShape ==
  ASSUME NEW c \in [UsageKeys -> UsageEntries], NEW k \in UsageKeys, NEW e \in UsageEntries,
         NEW d \in Inserted(c, k, e)
  PROVE  /\ d \in [UsageKeys -> UsageEntries]
         /\ d[k] = e
         /\ \A i \in UsageKeys \ {k} : d[i] = c[i] \/ d[i] = Nothing
<1> DEFINE kept == Aged(c)
<1>1. /\ kept \in [UsageKeys -> UsageEntries]
      /\ \A i \in UsageKeys : kept[i] = c[i] \/ kept[i] = Nothing
  BY AgedDrops
<1>2. \/ d = [kept EXCEPT ![k] = e]
      \/ \E j \in UsageKeys : d = [kept EXCEPT ![j] = Nothing, ![k] = e]
  BY DEF Inserted, HeldUsage
<1> HIDE DEF kept
<1>3. CASE d = [kept EXCEPT ![k] = e]
  BY <1>1, <1>3
<1>4. ASSUME NEW j \in UsageKeys, d = [kept EXCEPT ![j] = Nothing, ![k] = e]
      PROVE  /\ d \in [UsageKeys -> UsageEntries]
             /\ d[k] = e
             /\ \A i \in UsageKeys \ {k} : d[i] = c[i] \/ d[i] = Nothing
  BY <1>1, <1>4, NothingTyped
<1> QED BY <1>2, <1>3, <1>4

\* A step that only drops entries keeps the last good answers.
LEMMA DropsKeepGood ==
  ASSUME OnlyDrops
  PROVE  GoodKept
  BY NothingTyped DEF OnlyDrops, GoodKept

\* A change of one read.
LEMMA ReadChanged ==
  ASSUME UsageInv, cached' \in [UsageKeys -> UsageEntries], OnlyDrops,
         epoch' = epoch, purge' = purge,
         account' \in [UsageKeys -> [path : Paths, mode : Modes, secret : Nat]], tick' \in Nat,
         NEW r \in Readers, NEW x \in UsageReads, reader' = [reader EXCEPT ![r] = x],
         x.step # "idle" => x.key \in UsageKeys,
         x.step \in {"entered", "queued", "fetching", "storing"} =>
             \A o \in Readers \ {r} : InUsage(o) => reader[o].lock # x.lock,
         x.step = "storing" => x.next.born = x.epoch /\ x.next.via = x.lock,
         (\/ x.step \in {"queued", "fetching"} /\ x.snap = 0
          \/ x.step = "storing" /\ x.next.snap = 0) /\ cached'[x.key].via = x.lock
             => cached'[x.key].snap = 0,
         (/\ x.step \in {"queued", "fetching"} /\ ~x.force
          /\ cached'[x.key].via = x.lock) => ~Reusable(cached'[x.key], x.decided)
  PROVE  UsageInv'
<1>1. /\ reader' \in [Readers -> UsageReads]
      /\ reader'[r] = x
      /\ \A o \in Readers \ {r} : reader'[o] = reader[o]
  BY DEF UsageInv, UsageTyped
<1>2. UsageTyped'
  BY <1>1 DEF UsageInv, UsageTyped
<1>3. UsageExclusive'
  BY <1>1 DEF UsageInv, UsageExclusive, InUsage
<1>4. StoresOwn'
  BY <1>1 DEF UsageInv, StoresOwn
<1>5. ASSUME NEW o \in Readers \ {r}, reader[o].step # "idle"
      PROVE  reader[o].key \in UsageKeys
  BY <1>5 DEF UsageInv, UsageTyped
<1>6. NothingToForget'
  <2> SUFFICES ASSUME NEW o \in Readers, WouldForget(o)',
                      cached'[reader'[o].key].via = reader'[o].lock
               PROVE  cached'[reader'[o].key].snap = 0
    BY DEF NothingToForget
  <2>1. CASE o = r
    BY <2>1, <1>1 DEF WouldForget
  <2>2. CASE o # r
    <3>1. WouldForget(o) /\ reader[o].key \in UsageKeys
      BY <2>2, <1>1, <1>5 DEF WouldForget
    <3>2. cached'[reader[o].key] = cached[reader[o].key] \/ cached'[reader[o].key] = Nothing
      BY <3>1 DEF OnlyDrops
    <3> QED BY <3>1, <3>2, <2>2, <1>1, NothingTyped DEF UsageInv, NothingToForget
  <2> QED BY <2>1, <2>2
<1>7. OldRefreshDropped'
  BY NothingTyped DEF UsageInv, OldRefreshDropped, HeldUsage, OnlyDrops
<1>8. ReadsReuse'
  <2> SUFFICES ASSUME NEW o \in Readers, reader'[o].step \in {"queued", "fetching"},
                      ~reader'[o].force, cached'[reader'[o].key].via = reader'[o].lock
               PROVE  ~Reusable(cached'[reader'[o].key], reader'[o].decided)
    BY DEF ReadsReuse
  <2>1. CASE o = r
    BY <2>1, <1>1
  <2>2. CASE o # r
    <3>1. reader'[o] = reader[o] /\ reader[o].key \in UsageKeys
      BY <2>2, <1>1, <1>5
    <3>2. cached'[reader[o].key] = cached[reader[o].key] \/ cached'[reader[o].key] = Nothing
      BY <3>1 DEF OnlyDrops
    <3>3. ~Reusable(Nothing, reader[o].decided)
      BY NothingTyped DEF Reusable
    <3> QED BY <3>1, <3>2, <3>3 DEF UsageInv, ReadsReuse
  <2> QED BY <2>1, <2>2
<1> QED BY <1>2, <1>3, <1>4, <1>6, <1>7, <1>8 DEF UsageInv

\* A read that ends or is dropped.
LEMMA ReadEnds ==
  ASSUME UsageInv, cached' \in [UsageKeys -> UsageEntries], OnlyDrops,
         epoch' = epoch, purge' = purge, account' = account, tick' = tick,
         NEW r \in Readers, Answered(r)
  PROVE  UsageInv'
<1>1. account' \in [UsageKeys -> [path : Paths, mode : Modes, secret : Nat]] /\ tick' \in Nat
  BY DEF UsageInv, UsageTyped
<1> QED BY <1>1, NoReaderTyped, ReadChanged DEF Answered

\* A step that leaves the reads alone and only drops entries, with the purges
\* moved on as invalidations do.
LEMMA CacheChanged ==
  ASSUME UsageInv, cached' \in [UsageKeys -> UsageEntries], OnlyDrops, reader' = reader,
         account' \in [UsageKeys -> [path : Paths, mode : Modes, secret : Nat]], tick' \in Nat,
         epoch' \in Nat, purge' \in [bump : Nat, clear : Nat], OldRefreshDropped'
  PROVE  UsageInv'
<1>1. UsageTyped' /\ UsageExclusive' /\ StoresOwn'
  BY DEF UsageInv, UsageTyped, UsageExclusive, InUsage, StoresOwn
<1>2. \A o \in Readers : reader[o].step # "idle" => reader[o].key \in UsageKeys
  BY DEF UsageInv, UsageTyped
<1>3. NothingToForget'
  <2> SUFFICES ASSUME NEW o \in Readers, WouldForget(o)',
                      cached'[reader'[o].key].via = reader'[o].lock
               PROVE  cached'[reader'[o].key].snap = 0
    BY DEF NothingToForget
  <2>1. WouldForget(o) /\ reader[o].key \in UsageKeys
    BY <1>2 DEF WouldForget
  <2>2. cached'[reader[o].key] = cached[reader[o].key] \/ cached'[reader[o].key] = Nothing
    BY <2>1 DEF OnlyDrops
  <2> QED BY <2>1, <2>2, NothingTyped DEF UsageInv, NothingToForget
<1>4. ReadsReuse'
  <2> SUFFICES ASSUME NEW o \in Readers, reader[o].step \in {"queued", "fetching"},
                      ~reader[o].force, cached'[reader[o].key].via = reader[o].lock
               PROVE  ~Reusable(cached'[reader[o].key], reader[o].decided)
    BY DEF ReadsReuse
  <2>1. reader[o].key \in UsageKeys
    BY <1>2
  <2>2. cached'[reader[o].key] = cached[reader[o].key] \/ cached'[reader[o].key] = Nothing
    BY <2>1 DEF OnlyDrops
  <2>3. ~Reusable(Nothing, reader[o].decided)
    BY NothingTyped DEF Reusable
  <2> QED BY <2>2, <2>3 DEF UsageInv, ReadsReuse
<1> QED BY <1>1, <1>3, <1>4 DEF UsageInv

\* A read is opened, or answered at once.
LEMMA UsageOpen ==
  ASSUME UsageInv, NEW r \in Readers, NEW k \in UsageKeys, NEW force \in BOOLEAN,
         Open(r, k, force)
  PROVE  UsageInv' /\ GoodKept
<1>1. /\ account' = account /\ epoch' = epoch /\ purge' = purge /\ tick' = tick
  BY DEF Open
<1>2. cached \in [UsageKeys -> UsageEntries]
  BY DEF UsageInv, UsageTyped
<1>3. CASE cached' = Aged(cached) /\ reader' = reader
  <2>1. cached' \in [UsageKeys -> UsageEntries] /\ OnlyDrops
    BY <1>2, <1>3, AgedDrops DEF OnlyDrops
  <2>2. OldRefreshDropped'
    BY <2>1, <1>1, NothingTyped DEF UsageInv, OldRefreshDropped, HeldUsage, OnlyDrops
  <2> QED BY <2>1, <2>2, <1>1, <1>3, CacheChanged, DropsKeepGood DEF UsageInv, UsageTyped
<1>4. CASE cached' = cached /\ reader' # reader
  <2> DEFINE x == [NoReader EXCEPT !.step = "waiting", !.key = k, !.row = account[k].secret,
                                  !.force = force, !.lock = UsageLock(r, k)]
  <2>1. reader' = [reader EXCEPT ![r] = x]
    BY <1>4 DEF Open
  <2>2. account[k].secret \in Nat /\ UsageLock(r, k) \in UsageLocks
    BY DEF UsageInv, UsageTyped, UsageLock, UsageLocks
  <2>3. x \in UsageReads /\ x.step = "waiting" /\ x.key = k
    <3>1. NoReader \in UsageReads
      BY NoReaderTyped
    <3>2. k \in UsageKeys \cup {"none"} /\ force \in BOOLEAN
      OBVIOUS
    <3> QED BY <2>2, <3>1, <3>2 DEF UsageReads
  <2>4. OnlyDrops
    BY <1>4 DEF OnlyDrops
  <2>5. account' \in [UsageKeys -> [path : Paths, mode : Modes, secret : Nat]] /\ tick' \in Nat
    BY <1>1 DEF UsageInv, UsageTyped
  <2> HIDE DEF x
  <2>6. UsageInv'
    BY <1>1, <1>2, <1>4, <2>1, <2>3, <2>4, <2>5, ReadChanged
  <2> QED BY <2>4, <2>6, DropsKeepGood
<1>5. CASE cached' = cached /\ reader' = reader
  <2>1. OnlyDrops /\ OldRefreshDropped'
    BY <1>1, <1>5 DEF OnlyDrops, UsageInv, OldRefreshDropped, HeldUsage
  <2> QED BY <2>1, <1>1, <1>2, <1>5, CacheChanged, DropsKeepGood DEF UsageInv, UsageTyped
<1> QED BY <1>3, <1>4, <1>5 DEF Open

\* The lock is free and taken.
LEMMA UsageEnter ==
  ASSUME UsageInv, NEW r \in Readers, Enter(r)
  PROVE  UsageInv' /\ GoodKept
<1> DEFINE x == [reader[r] EXCEPT !.step = "entered", !.epoch = epoch]
<1>1. reader[r] \in UsageReads /\ epoch \in Nat /\ reader[r].key \in UsageKeys
  BY DEF UsageInv, UsageTyped, Enter
<1>2. reader' = [reader EXCEPT ![r] = x]
  BY DEF Enter, UsageInv, UsageTyped
<1>3. x \in UsageReads /\ x.step = "entered" /\ x.key = reader[r].key /\ x.lock = reader[r].lock
  BY <1>1 DEF UsageReads
<1> HIDE DEF x
<1>4. \A o \in Readers \ {r} : InUsage(o) => reader[o].lock # x.lock
  BY <1>3 DEF Enter, InUsage
<1>5. OnlyDrops /\ cached' = cached
  BY DEF Enter, OnlyDrops
<1>6. /\ account' \in [UsageKeys -> [path : Paths, mode : Modes, secret : Nat]] /\ tick' \in Nat
      /\ cached' \in [UsageKeys -> UsageEntries] /\ epoch' = epoch /\ purge' = purge
  BY DEF Enter, UsageInv, UsageTyped
<1>7. UsageInv'
  BY <1>1, <1>2, <1>3, <1>4, <1>5, <1>6, ReadChanged
<1> QED BY <1>5, <1>7, DropsKeepGood

\* The cache is read under the lock.
LEMMA UsageDecide ==
  ASSUME UsageInv, NEW r \in Readers, Decide(r)
  PROVE  UsageInv' /\ GoodKept
<1> DEFINE k == reader[r].key
           e == Aged(cached)[k]
           x == [reader[r] EXCEPT !.step = "queued", !.snap = e.snap, !.at = e.at, !.decided = tick]
<1>1. /\ reader[r] \in UsageReads /\ k \in UsageKeys /\ tick \in Nat /\ InUsage(r)
      /\ cached \in [UsageKeys -> UsageEntries]
  BY DEF UsageInv, UsageTyped, Decide, InUsage
<1>2. /\ cached' = Aged(cached) /\ cached' \in [UsageKeys -> UsageEntries] /\ OnlyDrops
      /\ epoch' = epoch /\ purge' = purge /\ account' = account /\ tick' = tick
  BY <1>1, AgedDrops DEF Decide, OnlyDrops
<1>3. e \in UsageEntries /\ cached'[k] = e
  BY <1>1, <1>2
<1>4. CASE Answered(r)
  BY <1>2, <1>4, ReadEnds, DropsKeepGood
<1>5. CASE ~Answered(r)
  <2>1. reader' = [reader EXCEPT ![r] = x]
    BY <1>5 DEF Decide, UsageInv, UsageTyped
  <2>2. reader[r].force \/ ~Reusable(e, tick)
    BY <1>5 DEF Decide
  <2>3. /\ x \in UsageReads /\ x.step = "queued" /\ x.key = k /\ x.lock = reader[r].lock
        /\ x.snap = e.snap /\ x.decided = tick /\ x.force = reader[r].force
    BY <1>1, <1>3 DEF UsageReads, UsageEntries
  <2> HIDE DEF x, e
  <2>4. \A o \in Readers \ {r} : InUsage(o) => reader[o].lock # x.lock
    BY <1>1, <2>3 DEF UsageInv, UsageExclusive
  <2>5. /\ account' \in [UsageKeys -> [path : Paths, mode : Modes, secret : Nat]] /\ tick' \in Nat
    BY <1>2 DEF UsageInv, UsageTyped
  <2>6. UsageInv'
    <3>1. x.snap = 0 => cached'[x.key].snap = 0
      BY <1>3, <2>3
    <3>2. ~x.force => ~Reusable(cached'[x.key], x.decided)
      BY <1>3, <2>2, <2>3
    <3> QED BY <1>1, <1>2, <2>1, <2>3, <2>4, <2>5, <3>1, <3>2, ReadChanged
  <2> QED BY <1>2, <2>6, DropsKeepGood
<1> QED BY <1>4, <1>5

\* A permit is taken.
LEMMA UsageFetch ==
  ASSUME UsageInv, NEW r \in Readers, Fetch(r)
  PROVE  UsageInv' /\ GoodKept
<1> DEFINE x == [reader[r] EXCEPT !.step = "fetching"]
<1>1. reader[r] \in UsageReads /\ reader[r].key \in UsageKeys /\ InUsage(r)
  BY DEF UsageInv, UsageTyped, Fetch, InUsage
<1>2. reader' = [reader EXCEPT ![r] = x]
  BY DEF Fetch, UsageInv, UsageTyped
<1>3. /\ x \in UsageReads /\ x.step = "fetching" /\ x.key = reader[r].key /\ x.lock = reader[r].lock
      /\ x.snap = reader[r].snap /\ x.decided = reader[r].decided /\ x.force = reader[r].force
  BY <1>1 DEF UsageReads
<1> HIDE DEF x
<1>4. \A o \in Readers \ {r} : InUsage(o) => reader[o].lock # x.lock
  BY <1>1, <1>3 DEF UsageInv, UsageExclusive
<1>5. OnlyDrops /\ cached' = cached
  BY DEF Fetch, OnlyDrops
<1>6. /\ account' \in [UsageKeys -> [path : Paths, mode : Modes, secret : Nat]] /\ tick' \in Nat
      /\ cached' \in [UsageKeys -> UsageEntries] /\ epoch' = epoch /\ purge' = purge
  BY DEF Fetch, UsageInv, UsageTyped
<1>7. x.snap = 0 /\ cached'[x.key].via = x.lock => cached'[x.key].snap = 0
  BY <1>3, <1>5 DEF UsageInv, NothingToForget, WouldForget, Fetch
<1>8. ~x.force /\ cached'[x.key].via = x.lock => ~Reusable(cached'[x.key], x.decided)
  BY <1>3, <1>5 DEF UsageInv, ReadsReuse, Fetch
<1>9. UsageInv'
  BY <1>1, <1>2, <1>3, <1>4, <1>5, <1>6, <1>7, <1>8, ReadChanged
<1> QED BY <1>5, <1>9, DropsKeepGood

\* The provider answered or failed.
LEMMA UsageFetchReturns ==
  ASSUME UsageInv, NEW r \in Readers, FetchReturns(r)
  PROVE  UsageInv' /\ GoodKept
<1>1. /\ reader[r] \in UsageReads /\ reader[r].key \in UsageKeys /\ InUsage(r)
      /\ tick \in Nat /\ reader[r].row \in Nat /\ account[reader[r].key].secret \in Nat
  BY DEF UsageInv, UsageTyped, FetchReturns, InUsage, UsageReads
<1>2. /\ cached' = cached /\ cached \in [UsageKeys -> UsageEntries] /\ OnlyDrops
      /\ epoch' = epoch /\ purge' = purge /\ account' = account /\ tick' = tick
  BY DEF FetchReturns, OnlyDrops, UsageInv, UsageTyped
<1>3. PICK e \in {FailureOf(r)} \cup {AnswerOf(r, s) : s \in {SecretAsked(r)} \ {0}} :
         \/ reader' = [reader EXCEPT ![r] =
                  [NoReader EXCEPT !.step = "storing", !.key = reader[r].key, !.next = e,
                                   !.lock = reader[r].lock, !.epoch = reader[r].epoch]]
         \/ Answered(r)
  BY DEF FetchReturns
<1>4. CASE Answered(r)
  BY <1>2, <1>4, ReadEnds, DropsKeepGood
<1>5. CASE ~Answered(r)
  <2> DEFINE x == [NoReader EXCEPT !.step = "storing", !.key = reader[r].key, !.next = e,
                                   !.lock = reader[r].lock, !.epoch = reader[r].epoch]
  <2>1. reader' = [reader EXCEPT ![r] = x]
    BY <1>3, <1>5
  <2>2. /\ e \in UsageEntries /\ e.born = reader[r].epoch /\ e.via = reader[r].lock
        /\ e.snap = 0 => reader[r].snap = 0
    <3>1. CASE e = FailureOf(r)
      BY <1>1, <3>1 DEF FailureOf, UsageEntries, UsageReads
    <3>2. CASE \E s \in {SecretAsked(r)} \ {0} : e = AnswerOf(r, s)
      <4>1. PICK s \in {SecretAsked(r)} \ {0} : e = AnswerOf(r, s)
        BY <3>2
      <4>2. s \in Nat /\ s # 0
        BY <1>1 DEF SecretAsked
      <4> QED BY <1>1, <4>1, <4>2 DEF AnswerOf, UsageEntries, UsageReads
    <3> QED BY <3>1, <3>2, <1>3
  <2>3. /\ x \in UsageReads /\ x.step = "storing" /\ x.key = reader[r].key
        /\ x.lock = reader[r].lock /\ x.next = e /\ x.epoch = reader[r].epoch
    BY <1>1, <2>2, NoReaderTyped DEF UsageReads, NoReader
  <2> HIDE DEF x
  <2>4. \A o \in Readers \ {r} : InUsage(o) => reader[o].lock # x.lock
    BY <1>1, <2>3 DEF UsageInv, UsageExclusive
  <2>5. /\ account' \in [UsageKeys -> [path : Paths, mode : Modes, secret : Nat]] /\ tick' \in Nat
    BY <1>2 DEF UsageInv, UsageTyped
  <2>6. x.next.snap = 0 /\ cached'[x.key].via = x.lock => cached'[x.key].snap = 0
    BY <1>2, <2>2, <2>3 DEF UsageInv, NothingToForget, WouldForget, FetchReturns
  <2>7. UsageInv'
    BY <1>1, <1>2, <2>1, <2>2, <2>3, <2>4, <2>5, <2>6, ReadChanged
  <2> QED BY <1>2, <2>7, DropsKeepGood
<1> QED BY <1>4, <1>5

\* An entry is stored under the cache lock.
LEMMA UsageStore ==
  ASSUME UsageInv, NEW r \in Readers, Store(r)
  PROVE  UsageInv' /\ GoodKept
<1> DEFINE k == reader[r].key
           e == reader[r].next
<1>1. /\ reader[r] \in UsageReads /\ k \in UsageKeys /\ InUsage(r) /\ e \in UsageEntries
      /\ cached \in [UsageKeys -> UsageEntries]
      /\ e.born = reader[r].epoch /\ e.via = reader[r].lock
  BY DEF UsageInv, UsageTyped, Store, InUsage, UsageReads, StoresOwn
<1>2. /\ epoch' = epoch /\ purge' = purge /\ account' = account /\ tick' = tick /\ Answered(r)
  BY DEF Store
<1>3. CASE reader[r].epoch # epoch
  <2>1. cached' = cached /\ OnlyDrops
    BY <1>3 DEF Store, OnlyDrops
  <2> QED BY <2>1, <1>1, <1>2, ReadEnds, DropsKeepGood
<1>4. CASE reader[r].epoch = epoch
  <2>1. cached' \in Inserted(cached, k, e)
    BY <1>4 DEF Store
  <2>2. /\ cached' \in [UsageKeys -> UsageEntries] /\ cached'[k] = e
        /\ \A i \in UsageKeys \ {k} : cached'[i] = cached[i] \/ cached'[i] = Nothing
    BY <2>1, <1>1, InsertedShape
  <2>3. /\ reader' \in [Readers -> UsageReads] /\ reader'[r] = NoReader
        /\ \A o \in Readers \ {r} : reader'[o] = reader[o]
    BY <1>2, NoReaderTyped DEF Answered, UsageInv, UsageTyped
  <2>4. UsageTyped'
    BY <1>2, <2>2, <2>3, NoReaderTyped DEF UsageInv, UsageTyped
  <2>5. UsageExclusive' /\ StoresOwn'
    BY <2>3, NoReaderTyped DEF UsageInv, UsageExclusive, StoresOwn, InUsage
  <2>6. ASSUME NEW o \in Readers \ {r}, InUsage(o)
        PROVE  /\ reader[o].key \in UsageKeys
               /\ \/ cached'[reader[o].key].via # reader[o].lock
                  \/ cached'[reader[o].key] = cached[reader[o].key]
                  \/ cached'[reader[o].key] = Nothing
    <3>1. reader[o].key \in UsageKeys
      BY <2>6 DEF UsageInv, UsageTyped, InUsage
    <3>2. CASE reader[o].key = k
      BY <3>1, <3>2, <2>2, <2>6, <1>1 DEF UsageInv, UsageExclusive
    <3> QED BY <3>1, <3>2, <2>2
  <2>7. NothingToForget'
    <3> SUFFICES ASSUME NEW o \in Readers, WouldForget(o)',
                        cached'[reader'[o].key].via = reader'[o].lock
                 PROVE  cached'[reader'[o].key].snap = 0
      BY DEF NothingToForget
    <3>1. o # r /\ reader'[o] = reader[o] /\ WouldForget(o) /\ InUsage(o)
      BY <2>3, NoReaderTyped DEF WouldForget, InUsage
    <3> QED BY <3>1, <2>6, NothingTyped DEF UsageInv, NothingToForget
  <2>8. OldRefreshDropped'
    BY <1>1, <1>2, <1>4, <2>2, NothingTyped DEF UsageInv, OldRefreshDropped, HeldUsage
  <2>9. ReadsReuse'
    <3> SUFFICES ASSUME NEW o \in Readers, reader'[o].step \in {"queued", "fetching"},
                        ~reader'[o].force, cached'[reader'[o].key].via = reader'[o].lock
                 PROVE  ~Reusable(cached'[reader'[o].key], reader'[o].decided)
      BY DEF ReadsReuse
    <3>1. o # r /\ reader'[o] = reader[o] /\ InUsage(o)
      BY <2>3, NoReaderTyped DEF InUsage
    <3>2. ~Reusable(Nothing, reader[o].decided)
      BY NothingTyped DEF Reusable
    <3> QED BY <3>1, <3>2, <2>6 DEF UsageInv, ReadsReuse
  <2>10. GoodKept
    <3> SUFFICES ASSUME NEW i \in UsageKeys, cached[i].snap # 0, cached'[i].held,
                        cached'[i].via = cached[i].via
                 PROVE  cached'[i].snap # 0
      BY DEF GoodKept
    <3>1. CASE i # k
      BY <3>1, <2>2, NothingTyped
    <3>2. CASE i = k
      <4>1. reader[r].step = "storing"
        BY DEF Store
      <4>2. e.snap # 0
        BY <3>2, <4>1, <2>2, <1>1 DEF UsageInv, NothingToForget, WouldForget
      <4> QED BY <3>2, <4>2, <2>2
    <3> QED BY <3>1, <3>2
  <2> QED BY <2>4, <2>5, <2>7, <2>8, <2>9, <2>10 DEF UsageInv
<1> QED BY <1>3, <1>4

\* The dashboard goes away.
LEMMA UsageLeave ==
  ASSUME UsageInv, NEW r \in Readers, LeaveUsage(r)
  PROVE  UsageInv' /\ GoodKept
<1>1. /\ OnlyDrops /\ Answered(r) /\ cached' \in [UsageKeys -> UsageEntries]
      /\ epoch' = epoch /\ purge' = purge /\ account' = account /\ tick' = tick
  BY DEF LeaveUsage, OnlyDrops, UsageInv, UsageTyped
<1> QED BY <1>1, ReadEnds, DropsKeepGood

\* The credentials change, and the invalidation that follows; the clock.
LEMMA UsageChanges ==
  ASSUME UsageInv,
         \/ \E k \in UsageKeys :
               RemoveKey(k) \/ RestoreKey(k) \/ (\E m \in Modes : SetMode(k, m))
         \/ Reorder \/ PurgeEpoch \/ PurgeCache \/ Advance
  PROVE  UsageInv' /\ GoodKept
<1> DEFINE Rows == [UsageKeys -> [path : Paths, mode : Modes, secret : Nat]]
<1>1. /\ account \in Rows /\ epoch \in Nat /\ tick \in Nat
      /\ purge \in [bump : Nat, clear : Nat] /\ purge.bump \in Nat /\ purge.clear \in Nat
      /\ cached \in [UsageKeys -> UsageEntries]
  BY DEF UsageInv, UsageTyped
<1>2. reader' = reader
  BY DEF RemoveKey, RestoreKey, SetMode, Reorder, PurgeEpoch, PurgeCache, Advance
<1>3. account' \in Rows
  <2>1. ASSUME NEW k \in UsageKeys, NEW s \in Nat, NEW m \in Modes
        PROVE  /\ [account EXCEPT ![k].secret = s] \in Rows
               /\ [account EXCEPT ![k].secret = s, ![k].mode = m] \in Rows
               /\ [account EXCEPT ![k].mode = m] \in Rows
    BY <1>1
  <2>2. "active" \in Modes /\ epoch + purge.bump + 1 \in Nat
    BY <1>1 DEF Modes
  <2>3. CASE Reorder \/ PurgeEpoch \/ PurgeCache \/ Advance
    BY <1>1, <2>3 DEF Reorder, PurgeEpoch, PurgeCache, Advance
  <2>4. ASSUME NEW k \in UsageKeys, RemoveKey(k)
        PROVE  account' \in Rows
    BY <2>1, <2>2, <2>4 DEF RemoveKey
  <2>5. ASSUME NEW k \in UsageKeys, RestoreKey(k)
        PROVE  account' \in Rows
    BY <2>1, <2>2, <2>5 DEF RestoreKey
  <2>6. ASSUME NEW k \in UsageKeys, NEW m \in Modes, SetMode(k, m)
        PROVE  account' \in Rows
    BY <2>1, <2>6 DEF SetMode
  <2> QED BY <2>3, <2>4, <2>5, <2>6
<1>4. CASE PurgeEpoch
  <2>1. /\ cached' = cached /\ OnlyDrops /\ epoch' \in Nat /\ tick' \in Nat
        /\ purge' \in [bump : Nat, clear : Nat] /\ purge'.clear # 0
    BY <1>1, <1>4 DEF PurgeEpoch, OnlyDrops
  <2>2. OldRefreshDropped'
    BY <2>1 DEF OldRefreshDropped
  <2> QED BY <1>1, <1>2, <1>3, <2>1, <2>2, CacheChanged, DropsKeepGood
<1>5. CASE PurgeCache
  <2>1. /\ cached' = [k \in UsageKeys |-> Nothing] /\ epoch' = epoch /\ tick' = tick
        /\ purge' \in [bump : Nat, clear : Nat]
    BY <1>1, <1>5 DEF PurgeCache
  <2>2. cached' \in [UsageKeys -> UsageEntries] /\ OnlyDrops
    BY <2>1, NothingTyped DEF OnlyDrops
  <2>3. OldRefreshDropped'
    BY <2>1, NothingTyped DEF OldRefreshDropped, HeldUsage
  <2> QED BY <1>1, <1>2, <1>3, <2>1, <2>2, <2>3, CacheChanged, DropsKeepGood
<1>6. CASE ~PurgeEpoch /\ ~PurgeCache
  <2>1. /\ cached' = cached /\ epoch' = epoch /\ purge'.clear = purge.clear
        /\ purge' \in [bump : Nat, clear : Nat] /\ tick' \in Nat
    <3>1. /\ [purge EXCEPT !.bump = @ + 1] \in [bump : Nat, clear : Nat]
          /\ [purge EXCEPT !.bump = @ + 1].clear = purge.clear
      BY <1>1
    <3>2. CASE Advance
      BY <1>1, <3>2 DEF Advance
    <3>3. CASE Reorder
      BY <1>1, <3>1, <3>3 DEF Reorder, Invalidating
    <3>4. ASSUME NEW k \in UsageKeys,
                 RemoveKey(k) \/ RestoreKey(k) \/ (\E m \in Modes : SetMode(k, m))
          PROVE  /\ cached' = cached /\ epoch' = epoch /\ tick' = tick
                 /\ purge' = purge \/ purge' = [purge EXCEPT !.bump = @ + 1]
      BY <3>4 DEF RemoveKey, RestoreKey, SetMode, Invalidating
    <3> QED BY <1>1, <1>6, <3>1, <3>2, <3>3, <3>4
  <2>2. OnlyDrops /\ OldRefreshDropped'
    BY <2>1 DEF OnlyDrops, UsageInv, OldRefreshDropped, HeldUsage
  <2> QED BY <1>1, <1>2, <1>3, <2>1, <2>2, CacheChanged, DropsKeepGood
<1> QED BY <1>4, <1>5, <1>6

\* The cache starts empty, with no read.
LEMMA UsageInitInv ==
  ASSUME UsageInit
  PROVE  UsageInv
<1>1. UsageTyped
  BY NothingTyped, NoReaderTyped DEF UsageInit, UsageTyped, Modes
<1>2. \A r \in Readers : reader[r] = NoReader
  BY DEF UsageInit
<1>3. UsageExclusive /\ StoresOwn /\ NothingToForget /\ ReadsReuse
  BY <1>2, NoReaderTyped
     DEF UsageExclusive, StoresOwn, NothingToForget, ReadsReuse, WouldForget, InUsage
<1>4. OldRefreshDropped
  BY NothingTyped DEF UsageInit, OldRefreshDropped, HeldUsage
<1> QED BY <1>1, <1>3, <1>4 DEF UsageInv

\* Every step keeps the invariant and the last good answers.
LEMMA UsageStep ==
  ASSUME UsageInv, [UsageNext]_usageVars
  PROVE  UsageInv' /\ [GoodKept]_usageVars
<1>1. CASE UNCHANGED usageVars
  <2>1. /\ OnlyDrops /\ reader' = reader /\ cached' = cached /\ epoch' = epoch /\ purge' = purge
        /\ account' = account /\ tick' = tick
    BY <1>1 DEF usageVars, OnlyDrops
  <2>2. OldRefreshDropped'
    BY <2>1 DEF UsageInv, OldRefreshDropped, HeldUsage
  <2> QED BY <1>1, <2>1, <2>2, CacheChanged DEF UsageInv, UsageTyped
<1>2. CASE UsageNext
  BY <1>2, UsageOpen, UsageEnter, UsageDecide, UsageFetch, UsageFetchReturns, UsageStore,
     UsageLeave, UsageChanges DEF UsageNext
<1> QED BY <1>1, <1>2

\* For any credentials, readers and limits: nothing fetched before an
\* invalidation is left when it is over, reads under one lock share the
\* upstream answer, and a failed refresh keeps the last good answer
\* (insert and invalidate of provider_usage.rs, provider_usage_for_key).
THEOREM UsageCacheCorrect == UsageSpec => UsageCorrect
<1>1. UsageInit => UsageInv
  BY UsageInitInv
<1>2. UsageInv /\ [UsageNext]_usageVars => UsageInv' /\ [GoodKept]_usageVars
  BY UsageStep
<1>3. UsageInv => OldRefreshDropped /\ ReadsReuse
  BY DEF UsageInv
<1> QED BY <1>1, <1>2, <1>3, PTL DEF UsageSpec, UsageCorrect, LastGoodKept, GoodKept

---------------------------------------------------------------------------
(***************************************************************************)
(* Rejections of accounts and the requests of a provider.                  *)
(*                                                                         *)
(* The strikes of an entry are at most the rejections of its strike        *)
(* window, so that a pause nobody asked for has the rejections that        *)
(* justify it.  A slot of the ring counts exactly the requests of its      *)
(* second, and every request of the last round has its slot: the slot of a *)
(* request is taken over only by a request a whole round later.            *)
(***************************************************************************)

(* One account: its entry, its rejections and its announced pause. *)

Times == Nat \X Nat
Entries == [held : BOOLEAN, start : Nat, seen : Nat, strikes : Nat, until : Nat]
Pauses == [until : Nat, asked : BOOLEAN]

\* The rejections of the strike window that begins at t.
WithinWindow(r, t) == {x \in r : t <= x[1] /\ x[1] <= t + StrikeWindow}

\* Rejections that justify a pause nobody asked for.
Justified(r) ==
    \E s \in SUBSET r : /\ Cardinality(s) >= Strikes
                        /\ \A x, y \in s : x[1] - y[1] <= StrikeWindow

AccountOK(b, r, p, h) ==
    /\ b \in Entries /\ b.start <= h
    /\ r \in SUBSET Times /\ IsFiniteSet(r) /\ \A x \in r : x[2] < Cardinality(r)
    /\ p \in Pauses
    /\ p.until = b.until \/ p.until <= h
    /\ b.until > h => b.held
    /\ b.held => b.strikes <= Cardinality(WithinWindow(r, b.start))
    /\ b.until > h /\ ~p.asked => Justified(r)

\* An account without an entry.
LEMMA AccountUnknown ==
  ASSUME NEW h \in Nat
  PROVE  AccountOK(Untracked, {}, NoPause, h)
<1>1. Untracked \in Entries /\ Untracked.start = 0 /\ Untracked.until = 0 /\ Untracked.held = FALSE
  BY DEF Untracked, Entries
<1>2. NoPause \in Pauses /\ NoPause.until = 0
  BY DEF NoPause, Pauses
<1> QED BY <1>1, <1>2, FS_EmptySet DEF AccountOK

\* An entry that is dropped paused nobody any more.
LEMMA AccountDropped ==
  ASSUME NEW h \in Nat, NEW b, NEW r, NEW p, AccountOK(b, r, p, h), ~(b.until > h)
  PROVE  AccountOK(Untracked, r, p, h)
<1>1. Untracked \in Entries /\ Untracked.start = 0 /\ Untracked.until = 0 /\ Untracked.held = FALSE
  BY DEF Untracked, Entries
<1>2. p.until \in Nat /\ b.until \in Nat /\ p.until <= h
  BY DEF AccountOK, Pauses, Entries
<1> QED BY <1>1, <1>2 DEF AccountOK

\* The rotation asks.
LEMMA AccountAsked ==
  ASSUME NEW h \in Nat, NEW b, NEW r, NEW p, AccountOK(b, r, p, h)
  PROVE  AccountOK([b EXCEPT !.seen = h], r, p, h)
<1> DEFINE c == [b EXCEPT !.seen = h]
<1>1. b \in Entries
  BY DEF AccountOK
<1>2. c \in Entries /\ c.start = b.start /\ c.strikes = b.strikes /\ c.until = b.until
  BY <1>1 DEF Entries
<1>3. c.held = b.held
  BY <1>1 DEF Entries
<1> HIDE DEF c
<1>4. AccountOK(c, r, p, h)
  BY <1>2, <1>3 DEF AccountOK
<1> QED BY <1>4 DEF c

\* Time passes.
LEMMA AccountLater ==
  ASSUME NEW h \in Nat, NEW b, NEW r, NEW p, AccountOK(b, r, p, h)
  PROVE  AccountOK(b, r, p, h + 1)
<1>1. b.until \in Nat /\ p.until \in Nat /\ b.start \in Nat
  BY DEF AccountOK, Entries, Pauses
<1> QED BY <1>1 DEF AccountOK

\* The least of two numbers.
LEMMA LeastOfTwo ==
  ASSUME NEW m \in Nat, NEW n \in Nat
  PROVE  Min({m, n}) \in Nat /\ Min({m, n}) <= m /\ Min({m, n}) <= n
<1>1. \E x \in {m, n} : \A y \in {m, n} : x <= y
  <2>1. CASE m <= n
    BY <2>1
  <2>2. CASE ~(m <= n)
    BY <2>2
  <2> QED BY <2>1, <2>2
<1>2. Min({m, n}) \in {m, n} /\ \A y \in {m, n} : Min({m, n}) <= y
  BY <1>1 DEF Min
<1> QED BY <1>2

\* A rejection: one more strike, and a pause that was asked for or earned.
LEMMA AccountRejected ==
  ASSUME NEW b, NEW r, NEW p, half \in Nat, AccountOK(b, r, p, half), NEW retry \in Nat,
         NEW q, NEW c,
         LET e == Struck(b)
             long == PauseFor(e, retry)
         IN /\ c = [e EXCEPT !.until = IF long > 0 THEN half + long ELSE e.until]
            /\ q = IF long > 0 THEN [until |-> half + long, asked |-> retry > 0] ELSE p
  PROVE  AccountOK(c, r \cup {<<half, Cardinality(r)>>}, q, half)
<1> DEFINE e == Struck(b)
           long == PauseFor(e, retry)
           f == IF b.held /\ half - b.start <= StrikeWindow THEN b
                ELSE [b EXCEPT !.held = TRUE, !.start = half, !.strikes = 0]
           x == <<half, Cardinality(r)>>
           s == r \cup {x}
<1>1. /\ b \in Entries /\ b.start \in Nat /\ b.start <= half /\ b.until \in Nat /\ b.strikes \in Nat
      /\ r \in SUBSET Times /\ IsFiniteSet(r) /\ Cardinality(r) \in Nat
      /\ p \in Pauses /\ p.until \in Nat
  BY FS_CardinalityType DEF AccountOK, Entries, Pauses
<1>2. StrikeWindow \in Nat /\ Strikes \in Nat /\ PauseTime \in Nat /\ MaxRetryAfter \in Nat
  BY QuotaAssumption
<1>3. x \in Times /\ x \notin r /\ x[1] = half /\ x[2] = Cardinality(r)
  BY <1>1 DEF AccountOK, Times
<1>4. /\ s \in SUBSET Times /\ IsFiniteSet(s) /\ Cardinality(s) = Cardinality(r) + 1
      /\ \A y \in s : y[2] < Cardinality(s)
  <2>1. IsFiniteSet(s) /\ Cardinality(s) = Cardinality(r) + 1
    BY <1>1, <1>3, FS_AddElement
  <2>2. \A y \in r : y[2] \in Nat /\ y[2] < Cardinality(r)
    BY <1>1 DEF AccountOK, Times
  <2>3. \A y \in s : y[2] < Cardinality(r) + 1
    BY <1>1, <1>3, <2>2
  <2> QED BY <1>1, <1>3, <2>1, <2>3
<1>5. /\ f \in Entries /\ f.held = TRUE
      /\ f.start \in Nat /\ f.start <= half /\ half <= f.start + StrikeWindow /\ f.until = b.until
      /\ f.strikes \in Nat /\ f.strikes <= Cardinality(WithinWindow(r, f.start))
  <2>1. CASE b.held /\ half - b.start <= StrikeWindow
    <3>1. f = b
      BY <2>1
    <3>2. b.held = TRUE
      BY <1>1, <2>1 DEF Entries
    <3>3. half <= b.start + StrikeWindow
      BY <1>1, <1>2, <2>1
    <3> QED BY <1>1, <2>1, <3>1, <3>2, <3>3 DEF AccountOK
  <2>2. CASE ~(b.held /\ half - b.start <= StrikeWindow)
    <3>1. f = [b EXCEPT !.held = TRUE, !.start = half, !.strikes = 0]
      BY <2>2
    <3> HIDE DEF f
    <3>2. f \in Entries
      BY <1>1, <3>1 DEF Entries
    <3>3. f.held = TRUE
      BY <1>1, <3>1 DEF Entries
    <3>4. f.start = half /\ f.strikes = 0 /\ f.until = b.until
      BY <1>1, <3>1 DEF Entries
    <3>5. Cardinality(WithinWindow(r, half)) \in Nat
      BY <1>1, FS_Subset, FS_CardinalityType DEF WithinWindow
    <3> QED BY <1>1, <1>2, <3>2, <3>3, <3>4, <3>5
  <2> QED BY <2>1, <2>2
<1>6. Cardinality(WithinWindow(s, f.start)) = Cardinality(WithinWindow(r, f.start)) + 1
  <2> HIDE DEF f
  <2>1. WithinWindow(s, f.start) = WithinWindow(r, f.start) \cup {x}
    BY <1>3, <1>5 DEF WithinWindow
  <2>2. IsFiniteSet(WithinWindow(r, f.start)) /\ x \notin WithinWindow(r, f.start)
    BY <1>1, <1>3, FS_Subset DEF WithinWindow
  <2> QED BY <2>1, <2>2, FS_AddElement
<1>7. e = [f EXCEPT !.seen = half, !.strikes = Min({f.strikes + 1, Strikes})]
  BY DEF Struck
<1> HIDE DEF f, s, x, e
<1>8. LET n == Min({f.strikes + 1, Strikes}) IN n \in Nat /\ n <= f.strikes + 1
  BY <1>2, <1>5, LeastOfTwo
<1>9. /\ e \in Entries /\ e.start = f.start /\ e.until = b.until
      /\ e.strikes \in Nat /\ e.strikes <= f.strikes + 1
  BY <1>1, <1>5, <1>7, <1>8 DEF Entries
<1>10. e.held = TRUE
  BY <1>5, <1>7 DEF Entries
<1>11. e.strikes <= Cardinality(WithinWindow(s, e.start)) /\ Cardinality(WithinWindow(s, e.start)) \in Nat
  <2>1. Cardinality(WithinWindow(r, f.start)) \in Nat
    BY <1>1, FS_Subset, FS_CardinalityType DEF WithinWindow
  <2> QED BY <1>5, <1>6, <1>9, <2>1
<1>12. long \in Nat /\ (long > 0 /\ ~(retry > 0) => e.strikes >= Strikes)
  <2>1. Min({retry, MaxRetryAfter}) \in Nat
    BY <1>2, LeastOfTwo
  <2> QED BY <1>2, <2>1 DEF PauseFor
<1>13. c = [e EXCEPT !.until = IF long > 0 THEN half + long ELSE e.until]
       /\ q = IF long > 0 THEN [until |-> half + long, asked |-> (retry > 0)] ELSE p
  BY DEF e
<1> HIDE DEF long
<1>14. /\ c \in Entries /\ c.start = e.start /\ c.strikes = e.strikes
       /\ c.until = IF long > 0 THEN half + long ELSE b.until
  <2> DEFINE v == IF long > 0 THEN half + long ELSE e.until
  <2>1. c = [e EXCEPT !.until = v]
    BY <1>13
  <2>2. v \in Nat /\ v = IF long > 0 THEN half + long ELSE b.until
    BY <1>1, <1>9, <1>12
  <2> HIDE DEF v
  <2> QED BY <1>9, <2>1, <2>2 DEF Entries
<1>15. c.held = TRUE
  BY <1>9, <1>10, <1>13 DEF Entries
<1>16. q \in Pauses /\ (q.until = c.until \/ q.until <= half)
  <2>1. CASE long > 0
    <3>1. (retry > 0) \in BOOLEAN /\ half + long \in Nat
      BY <1>12
    <3>2. q \in Pauses /\ q.until = half + long
      <4> DEFINE z == (retry > 0)
                 v == half + long
      <4>1. q = [until |-> v, asked |-> z] /\ z \in BOOLEAN /\ v \in Nat
        BY <1>13, <2>1, <3>1
      <4> HIDE DEF z, v
      <4>2. q \in Pauses /\ q.until = v
        BY <4>1 DEF Pauses
      <4> QED BY <4>2 DEF v
    <3> QED BY <1>14, <2>1, <3>2
  <2>2. CASE ~(long > 0)
    BY <1>1, <1>13, <1>14, <2>2 DEF AccountOK
  <2> QED BY <2>1, <2>2
<1>17. ASSUME c.until > half, ~q.asked
       PROVE  Justified(s)
  <2>1. CASE long > 0
    <3>1. q.asked = (retry > 0)
      BY <1>13, <2>1
    <3>2. e.strikes >= Strikes
      BY <1>12, <1>17, <2>1, <3>1
    <3>3. Cardinality(WithinWindow(s, e.start)) >= Strikes
      BY <1>2, <1>9, <1>11, <3>2
    <3>4. WithinWindow(s, e.start) \in SUBSET s
      BY DEF WithinWindow
    <3>5. \A y, z \in WithinWindow(s, e.start) : y[1] - z[1] <= StrikeWindow
      <4>1. \A y \in s : y[1] \in Nat
        BY <1>4 DEF Times
      <4>2. e.start \in Nat
        BY <1>9, <1>5
      <4> QED BY <1>2, <4>1, <4>2 DEF WithinWindow
    <3> QED BY <3>3, <3>4, <3>5 DEF Justified
  <2>2. CASE ~(long > 0)
    <3>1. q = p /\ b.until > half
      BY <1>13, <1>14, <1>17, <2>2
    <3>2. Justified(r) /\ r \in SUBSET s
      BY <1>17, <3>1 DEF AccountOK, s
    <3> QED BY <3>2 DEF Justified
  <2> QED BY <2>1, <2>2
<1>18. AccountOK(c, s, q, half)
  BY <1>4, <1>5, <1>9, <1>11, <1>14, <1>15, <1>16, <1>17 DEF AccountOK
<1> QED BY <1>18 DEF s, x

---------------------------------------------------------------------------
(* One provider: its ring of slots and the requests it stands for. *)

Slots == [second : Int, n : Nat]
Rings == [held : BOOLEAN, active : Nat, slot : [0 .. Seconds - 1 -> Slots]]
SecondAt(h, g) == (h - g) \div 2

\* The requests of second t.
SentIn(s, t) == {x \in s : x[1] = t}

\* Slot i is unused, or counts the requests of one second; m is the present one.
SlotOK(w, s, i, m) ==
    \/ w.slot[i].second = -1
    \/ /\ w.slot[i].second \in Nat /\ w.slot[i].second % Seconds = i /\ w.slot[i].second <= m
       /\ SentIn(s, w.slot[i].second) = {w.slot[i].second} \X (1 .. w.slot[i].n)

\* A request of the last round has its slot; no request is younger than the
\* window's last activity, unless the window has been pruned since.
RequestOK(w, x, m, g) ==
    /\ x[1] <= m
    /\ (g <= w.active /\ x[1] <= SecondAt(w.active, g)) \/ m - x[1] >= Seconds
    /\ m - x[1] < Seconds => w.slot[x[1] % Seconds].second = x[1]

RingOK(w, s, h, g) ==
    /\ w \in Rings /\ w.active <= h
    /\ s \in SUBSET Times /\ IsFiniteSet(s)
    /\ \A i \in 0 .. Seconds - 1 : SlotOK(w, s, i, SecondAt(h, g))
    /\ \A x \in s : RequestOK(w, x, SecondAt(h, g), g)

\* Two seconds of one slot are a whole round apart.
LEMMA SlotsApart ==
  ASSUME NEW a \in Nat, NEW b \in Nat, a <= b, b - a < Seconds, a % Seconds = b % Seconds
  PROVE  a = b
<1>0. Seconds \in Nat /\ Seconds > 0
  BY QuotaAssumption
<1> DEFINE qa == a \div Seconds
           qb == b \div Seconds
           m == a % Seconds
<1>1. a = Seconds * qa + m /\ qa \in Nat /\ m \in Nat
  BY <1>0
<1>2. b = Seconds * qb + m /\ qb \in Nat
  BY <1>0
<1> HIDE DEF qa, qb, m
<1>3. b - a = Seconds * (qb - qa)
  BY <1>0, <1>1, <1>2
<1>4. CASE qb - qa >= 1
  <2>1. Seconds * (qb - qa) >= Seconds
    BY <1>0, <1>1, <1>2, <1>4
  <2> QED BY <1>0, <1>3, <2>1
<1>5. CASE qb - qa = 0
  BY <1>0, <1>3, <1>5
<1>6. CASE qb - qa <= -1
  <2>1. Seconds * (qb - qa) <= -Seconds
    BY <1>0, <1>1, <1>2, <1>6
  <2> QED BY <1>0, <1>3, <2>1
<1> QED BY <1>1, <1>2, <1>4, <1>5, <1>6

\* The slot of a second is one of the ring.
LEMMA SlotOf ==
  ASSUME NEW a \in Nat
  PROVE  a % Seconds \in 0 .. Seconds - 1
<1>0. Seconds \in Nat /\ Seconds > 0
  BY QuotaAssumption
<1> QED BY <1>0

\* The empty ring has its type and no second in it.
LEMMA RingEmpty ==
  NoWindow \in Rings /\ NoWindow.active = 0 /\ \A i \in 0 .. Seconds - 1 : NoWindow.slot[i].second = -1
<1> DEFINE z == [second |-> -1, n |-> 0]
           t == [i \in 0 .. Seconds - 1 |-> z]
<1>1. z \in Slots /\ z.second = -1
  BY DEF Slots
<1> HIDE DEF z
<1>2. t \in [0 .. Seconds - 1 -> Slots] /\ \A i \in 0 .. Seconds - 1 : t[i].second = -1
  BY <1>1
<1>3. NoWindow = [held |-> FALSE, active |-> 0, slot |-> t]
  BY DEF NoWindow, z
<1> HIDE DEF t
<1> QED BY <1>2, <1>3 DEF Rings

\* A provider without requests.
LEMMA RingNew ==
  ASSUME NEW h \in Nat, NEW g \in Nat, g <= h
  PROVE  RingOK(NoWindow, {}, h, g)
<1>1. IsFiniteSet({})
  BY FS_EmptySet
<1> QED BY <1>1, RingEmpty DEF RingOK, SlotOK

\* A window that is pruned has nothing left to show.
LEMMA RingPruned ==
  ASSUME NEW h \in Nat, NEW g \in Nat, g <= h, NEW w, NEW s, RingOK(w, s, h, g),
         ~(h - w.active < 2 * Seconds)
  PROVE  RingOK(NoWindow, s, h, g)
<1>1. Seconds \in Nat /\ w.active \in Nat /\ SecondAt(h, g) \in Nat
  <2>1. Seconds \in Nat
    BY QuotaAssumption
  <2>2. w.active \in Nat
    BY DEF RingOK, Rings
  <2>3. SecondAt(h, g) \in Nat
    BY DEF SecondAt
  <2> QED BY <2>1, <2>2, <2>3
<1> DEFINE m == SecondAt(h, g)
<1> HIDE DEF m
<1>2. ASSUME NEW x \in s
      PROVE  m - x[1] >= Seconds /\ x[1] <= m /\ x[1] \in Nat
  <2>0. RequestOK(w, x, m, g)
    BY <1>2 DEF RingOK, m
  <2>1. x[1] \in Nat /\ x[1] <= m
    BY <1>2, <2>0 DEF RingOK, Times, RequestOK
  <2>2. CASE g <= w.active /\ x[1] <= SecondAt(w.active, g)
    <3>1. m >= SecondAt(w.active, g) + Seconds
      BY <1>1, <2>2 DEF SecondAt, m
    <3>2. SecondAt(w.active, g) \in Nat
      BY <1>1, <2>2 DEF SecondAt
    <3> QED BY <1>1, <2>1, <2>2, <3>1, <3>2 DEF m
  <2> QED BY <2>0, <2>1, <2>2 DEF RequestOK
<1>3. \A x \in s : RequestOK(NoWindow, x, m, g)
  <2>1. m \in Nat
    BY <1>1 DEF m
  <2> QED BY <1>1, <1>2, <2>1 DEF RequestOK
<1>4. \A i \in 0 .. Seconds - 1 : SlotOK(NoWindow, s, i, m)
  BY RingEmpty DEF SlotOK
<1> QED BY <1>3, <1>4, RingEmpty DEF RingOK, m

\* Time passes.
LEMMA RingLater ==
  ASSUME NEW h \in Nat, NEW g \in Nat, g <= h, NEW w, NEW s, RingOK(w, s, h, g)
  PROVE  RingOK(w, s, h + 1, g)
<1> DEFINE m == SecondAt(h, g)
           n == SecondAt(h + 1, g)
<1>1. Seconds \in Nat /\ w.active \in Nat /\ w.active <= h
  BY QuotaAssumption DEF RingOK, Rings
<1>2. m \in Nat /\ n \in Nat /\ n >= m
  BY DEF SecondAt
<1> HIDE DEF m, n
<1>3. ASSUME NEW x \in s PROVE RequestOK(w, x, n, g)
  <2>1. RequestOK(w, x, m, g) /\ x[1] \in Nat
    BY <1>3 DEF RingOK, Times, m
  <2>2. x[1] <= n
    BY <1>2, <2>1 DEF RequestOK
  <2>3. m - x[1] >= Seconds => n - x[1] >= Seconds
    BY <1>1, <1>2, <2>1
  <2>4. n - x[1] < Seconds => m - x[1] < Seconds
    BY <1>1, <1>2, <2>1
  <2> QED BY <2>1, <2>2, <2>3, <2>4 DEF RequestOK
<1>4. ASSUME NEW i \in 0 .. Seconds - 1 PROVE SlotOK(w, s, i, n)
  <2>1. SlotOK(w, s, i, m)
    BY DEF RingOK, m
  <2> QED BY <1>2, <2>1 DEF SlotOK
<1>5. w.active <= h + 1
  BY <1>1
<1> QED BY <1>3, <1>4, <1>5 DEF RingOK, n

\* What is shown is what was sent.
LEMMA RingShows ==
  ASSUME half \in Nat, began \in Nat, began <= half, NEW w, NEW s, RingOK(w, s, half, began)
  PROVE  LastMinute(w) = Cardinality({x \in s : Second - x[1] < Seconds})
<1> DEFINE m == Second
           R == {x \in s : m - x[1] < Seconds}
           counted == {i \in 0 .. Seconds - 1 : w.slot[i].second >= 0 /\ m - w.slot[i].second < Seconds}
           U == UNION {{i} \X (1 .. w.slot[i].n) : i \in counted}
           f == [x \in R |-> <<x[1] % Seconds, x[2]>>]
<1>1. m = SecondAt(half, began) /\ m \in Nat
  BY DEF Second, SecondAt
<1> HIDE DEF m
<1>2. IsFiniteSet(R) /\ \A x \in s : x[1] \in Nat /\ x[2] \in Nat /\ x = <<x[1], x[2]>>
  BY FS_Subset DEF RingOK, Times
<1>3. ASSUME NEW x \in R
      PROVE  LET i == x[1] % Seconds
             IN i \in counted /\ w.slot[i].second = x[1] /\ x[2] \in 1 .. w.slot[i].n
  <2> DEFINE i == x[1] % Seconds
  <2>1. RequestOK(w, x, m, began) /\ x \in s /\ m - x[1] < Seconds
    BY <1>1, <1>3 DEF RingOK
  <2>2. w.slot[i].second = x[1] /\ x[1] \in Nat /\ i \in 0 .. Seconds - 1
    BY <1>2, <2>1, SlotOf DEF RequestOK
  <2>3. SlotOK(w, s, i, m)
    BY <1>1, <2>2 DEF RingOK
  <2> HIDE DEF i
  <2>4. SentIn(s, x[1]) = {x[1]} \X (1 .. w.slot[i].n)
    BY <2>2, <2>3 DEF SlotOK
  <2>5. x \in SentIn(s, x[1])
    BY <2>1 DEF SentIn
  <2>6. x[2] \in 1 .. w.slot[i].n
    BY <2>4, <2>5
  <2>7. i \in counted
    BY <2>1, <2>2
  <2> QED BY <2>2, <2>6, <2>7 DEF i
<1>4. f \in [R -> U]
  <2>1. ASSUME NEW x \in R PROVE <<x[1] % Seconds, x[2]>> \in U
    <3> DEFINE i == x[1] % Seconds
    <3>1. i \in counted /\ x[2] \in 1 .. w.slot[i].n
      BY <1>3
    <3> HIDE DEF i, counted
    <3>2. <<i, x[2]>> \in {i} \X (1 .. w.slot[i].n)
      BY <3>1
    <3>3. <<i, x[2]>> \in U
      BY <3>1, <3>2
    <3> QED BY <3>3 DEF i
  <2> HIDE DEF U, R
  <2> QED BY <2>1
<1>5. ASSUME NEW x \in R, NEW y \in R, f[x] = f[y] PROVE x = y
  <2>1. x[1] % Seconds = y[1] % Seconds /\ x[2] = y[2]
    BY <1>5
  <2>2. x[1] = y[1]
    BY <1>3, <2>1
  <2> QED BY <1>2, <2>1, <2>2
<1>6. ASSUME NEW u \in U PROVE \E x \in R : f[x] = u
  <2>1. PICK i \in counted : u \in {i} \X (1 .. w.slot[i].n)
    BY <1>6
  <2> DEFINE t == w.slot[i].second
             x == <<t, u[2]>>
  <2>2. i \in 0 .. Seconds - 1 /\ t >= 0 /\ m - t < Seconds
    BY <2>1
  <2>3. SlotOK(w, s, i, m)
    BY <1>1, <2>2 DEF RingOK
  <2>4. t \in Nat /\ t % Seconds = i /\ SentIn(s, t) = {t} \X (1 .. w.slot[i].n)
    BY <2>2, <2>3 DEF SlotOK
  <2> HIDE DEF t
  <2>5. x \in SentIn(s, t)
    BY <2>1, <2>4
  <2>6. x \in R /\ x[1] = t /\ x[2] = u[2]
    BY <2>2, <2>5 DEF SentIn
  <2>7. f[x] = <<t % Seconds, u[2]>>
    BY <2>6
  <2>8. u = <<i, u[2]>>
    BY <2>1
  <2> QED BY <2>4, <2>6, <2>7, <2>8
<1>7. f \in Bijection(R, U)
  <2> HIDE DEF f, R, U
  <2> QED BY <1>4, <1>5, <1>6 DEF Bijection, Injection, Surjection, IsInjective
<1>8. Cardinality(R) = Cardinality(U)
  <2> HIDE DEF f, R, U
  <2> QED BY <1>2, <1>7, FS_Bijection DEF ExistsBijection
<1>9. LastMinute(w) = Cardinality(U)
  BY DEF LastMinute, m
<1> QED BY <1>8, <1>9 DEF m

\* One more request, counted in its slot.
LEMMA RingCounts ==
  ASSUME half \in Nat, began \in Nat, began <= half, NEW w, NEW s, RingOK(w, s, half, began), NEW v,
         v \in Rings, v.active = half,
         v.slot = [w.slot EXCEPT ![Second % Seconds] = InSlot(w.slot[Second % Seconds])]
  PROVE  RingOK(v, s \cup {<<Second, Cardinality({x \in s : x[1] = Second}) + 1>>}, half, began)
<1> DEFINE m == Second
           j == m % Seconds
           c == Cardinality(SentIn(s, m))
           x == <<m, c + 1>>
           z == s \cup {x}
<1>1. m = SecondAt(half, began) /\ m \in Nat /\ Seconds \in Nat /\ Seconds > 0
  BY QuotaAssumption DEF Second, SecondAt
<1>2. InSlot(w.slot[j]) = [second |-> m, n |-> IF w.slot[j].second = m THEN w.slot[j].n + 1 ELSE 1]
  BY DEF InSlot
<1>3. SecondAt(half, began) = m
  BY <1>1
<1>4. j \in 0 .. Seconds - 1
  BY <1>1, SlotOf
<1> HIDE DEF m, j
<1>5. /\ w \in Rings /\ w.slot \in [0 .. Seconds - 1 -> Slots] /\ s \in SUBSET Times /\ IsFiniteSet(s)
      /\ \A i \in 0 .. Seconds - 1 : w.slot[i].n \in Nat
  BY DEF RingOK, Rings, Slots
<1>6. /\ v.slot[j].second = m /\ v.slot[j].n = IF w.slot[j].second = m THEN w.slot[j].n + 1 ELSE 1
      /\ \A i \in 0 .. Seconds - 1 : i # j => v.slot[i] = w.slot[i]
  <2> DEFINE y == InSlot(w.slot[j])
  <2>1. v.slot = [w.slot EXCEPT ![j] = y]
    BY DEF j, m
  <2>2. y.second = m /\ y.n = IF w.slot[j].second = m THEN w.slot[j].n + 1 ELSE 1
    BY <1>2
  <2> HIDE DEF y
  <2> QED BY <1>4, <1>5, <2>1, <2>2
<1>7. ASSUME NEW i \in 0 .. Seconds - 1 PROVE SlotOK(w, s, i, m)
  BY <1>3 DEF RingOK
<1>8. ASSUME NEW y \in s PROVE RequestOK(w, y, m, began) /\ y[1] \in Nat /\ y[1] <= m
  BY <1>3 DEF RingOK, RequestOK, Times
<1>9. SentIn(s, m) = {m} \X (1 .. v.slot[j].n - 1) /\ v.slot[j].n \in Nat /\ v.slot[j].n >= 1
  <2>1. CASE w.slot[j].second = m
    <3>1. v.slot[j].n - 1 = w.slot[j].n /\ v.slot[j].n \in Nat /\ v.slot[j].n >= 1
      BY <1>4, <1>5, <1>6, <2>1
    <3>2. SentIn(s, m) = {m} \X (1 .. w.slot[j].n)
      BY <1>1, <1>4, <1>7, <2>1 DEF SlotOK
    <3> QED BY <3>1, <3>2
  <2>2. CASE w.slot[j].second # m
    <3>1. v.slot[j].n = 1 /\ 1 .. (1 - 1) = {}
      BY <1>6, <2>2
    <3>2. ASSUME NEW y \in SentIn(s, m) PROVE FALSE
      <4>1. y \in s /\ y[1] = m
        BY <3>2 DEF SentIn
      <4>2. m - y[1] < Seconds
        BY <1>1, <4>1
      <4>3. w.slot[m % Seconds].second = m
        BY <1>8, <4>1, <4>2 DEF RequestOK
      <4> QED BY <2>2, <4>3 DEF j
    <3> QED BY <3>1, <3>2
  <2> QED BY <2>1, <2>2
<1>10. c = v.slot[j].n - 1
  <2> DEFINE k == v.slot[j].n - 1
             b == [i \in 1 .. k |-> <<m, i>>]
  <2>1. k \in Nat
    BY <1>9
  <2> HIDE DEF k
  <2>2. b \in Bijection(1 .. k, {m} \X (1 .. k))
    <3>1. b \in [1 .. k -> {m} \X (1 .. k)]
      OBVIOUS
    <3>2. \A i, l \in 1 .. k : b[i] = b[l] => i = l
      OBVIOUS
    <3>3. \A y \in {m} \X (1 .. k) : \E i \in 1 .. k : b[i] = y
      OBVIOUS
    <3> QED BY <3>1, <3>2, <3>3 DEF Bijection, Injection, Surjection, IsInjective
  <2>3. IsFiniteSet(1 .. k) /\ Cardinality(1 .. k) = k
    <3>1. 1 \in Int /\ k \in Int
      BY <2>1
    <3>2. IsFiniteSet(1 .. k) /\ Cardinality(1 .. k) = IF 1 > k THEN 0 ELSE k - 1 + 1
      BY <3>1, FS_Interval
    <3> QED BY <2>1, <3>2
  <2>4. Cardinality({m} \X (1 .. k)) = k
    BY <2>2, <2>3, FS_Bijection DEF ExistsBijection
  <2> QED BY <1>9, <2>4 DEF k
<1>11. x \in Times /\ x[1] = m /\ x = <<m, v.slot[j].n>>
  BY <1>1, <1>9, <1>10 DEF Times
<1> HIDE DEF x, c
<1>12. z \in SUBSET Times /\ IsFiniteSet(z)
  BY <1>5, <1>11, FS_AddElement
<1>13. ASSUME NEW i \in 0 .. Seconds - 1 PROVE SlotOK(v, z, i, m)
  <2>1. CASE i = j
    <3>1. SentIn(z, m) = SentIn(s, m) \cup {x}
      BY <1>11 DEF SentIn
    <3>2. {m} \X (1 .. v.slot[j].n) = ({m} \X (1 .. v.slot[j].n - 1)) \cup {<<m, v.slot[j].n>>}
      <4> DEFINE k == v.slot[j].n
      <4>1. k \in Nat /\ k >= 1
        BY <1>9
      <4> HIDE DEF k
      <4>2. 1 .. k = (1 .. k - 1) \cup {k}
        BY <4>1
      <4>3. {m} \X (1 .. k) = ({m} \X (1 .. k - 1)) \cup {<<m, k>>}
        BY <4>2
      <4> QED BY <4>3 DEF k
    <3>3. SentIn(z, m) = {m} \X (1 .. v.slot[j].n)
      BY <1>9, <1>11, <3>1, <3>2
    <3>4. m % Seconds = j
      BY DEF j
    <3>5. m \in Nat /\ m <= m /\ v.slot[j].second = m
      BY <1>1, <1>6
    <3>6. SlotOK(v, z, j, m)
      BY <3>3, <3>4, <3>5 DEF SlotOK
    <3> QED BY <2>1, <3>6
  <2>2. CASE i # j
    <3>1. v.slot[i] = w.slot[i] /\ SlotOK(w, s, i, m)
      BY <1>6, <1>7, <2>2
    <3>2. CASE w.slot[i].second = -1
      BY <3>1, <3>2 DEF SlotOK
    <3>3. CASE w.slot[i].second # -1
      <4>1. w.slot[i].second # m
        BY <2>2, <3>1, <3>3 DEF SlotOK, j
      <4>2. SentIn(z, w.slot[i].second) = SentIn(s, w.slot[i].second)
        BY <1>11, <4>1 DEF SentIn
      <4> QED BY <3>1, <3>3, <4>2 DEF SlotOK
    <3> QED BY <3>2, <3>3
  <2> QED BY <2>1, <2>2
<1>14. ASSUME NEW y \in z PROVE RequestOK(v, y, m, began)
  <2>1. y[1] \in Nat /\ y[1] <= m
    BY <1>1, <1>8, <1>11
  <2>2. began <= v.active /\ y[1] <= SecondAt(v.active, began)
    BY <1>3, <2>1
  <2>3. ASSUME m - y[1] < Seconds PROVE v.slot[y[1] % Seconds].second = y[1]
    <3>1. CASE y[1] % Seconds = j
      <4>1. y[1] = m
        BY <1>1, <2>1, <2>3, <3>1, SlotsApart DEF j
      <4> QED BY <1>6, <3>1, <4>1
    <3>2. CASE y[1] % Seconds # j
      <4>1. y \in s
        BY <1>11, <3>2 DEF j
      <4>2. y[1] % Seconds \in 0 .. Seconds - 1
        BY <2>1, SlotOf
      <4>3. w.slot[y[1] % Seconds].second = y[1]
        BY <1>8, <2>3, <4>1 DEF RequestOK
      <4> QED BY <1>6, <3>2, <4>2, <4>3
    <3> QED BY <3>1, <3>2
  <2> QED BY <2>1, <2>2, <2>3 DEF RequestOK
<1>15. v.active <= half
  OBVIOUS
<1>16. RingOK(v, z, half, began)
  BY <1>3, <1>12, <1>13, <1>14, <1>15 DEF RingOK
<1>17. c = Cardinality({y \in s : y[1] = Second})
  BY DEF c, SentIn, m
<1> QED BY <1>16, <1>17 DEF x, m

---------------------------------------------------------------------------
(* All accounts and providers. *)

AccountsInv == \A a \in Accounts : AccountOK(breaker[a], rejections[a], pause[a], half)
RingsInv ==
    /\ ring \in [Metered -> Rings] /\ sends \in [Metered -> SUBSET Times]
    /\ \A p \in Metered : RingOK(ring[p], sends[p], half, began)
QuotaInv == half \in Nat /\ began \in Nat /\ began <= half /\ AccountsInv /\ RingsInv

\* The first state has no entries.
LEMMA QuotaInitInv == ASSUME QuotaInit PROVE QuotaInv
<1>1. half = 0 /\ began = 0
  BY DEF QuotaInit
<1>2. AccountsInv
  BY <1>1, AccountUnknown DEF QuotaInit, AccountsInv
<1>3. ring \in [Metered -> Rings] /\ sends \in [Metered -> SUBSET Times]
  BY RingEmpty DEF QuotaInit
<1>4. RingsInv
  BY <1>1, <1>3, RingNew DEF QuotaInit, RingsInv
<1> QED BY <1>1, <1>2, <1>4 DEF QuotaInv

\* Dropping what is no longer fresh.
LEMMA FreshOK ==
  ASSUME QuotaInv, NEW a \in Accounts
  PROVE  AccountOK(FreshBreakers(breaker)[a], rejections[a], pause[a], half)
<1>1. AccountOK(breaker[a], rejections[a], pause[a], half) /\ half \in Nat
  BY DEF QuotaInv, AccountsInv
<1>2. CASE breaker[a].until > half \/ half - breaker[a].start <= StrikeWindow
  BY <1>1, <1>2 DEF FreshBreakers
<1>3. CASE ~(breaker[a].until > half \/ half - breaker[a].start <= StrikeWindow)
  <2>1. FreshBreakers(breaker)[a] = Untracked
    BY <1>3 DEF FreshBreakers
  <2> QED BY <1>1, <1>3, <2>1, AccountDropped
<1> QED BY <1>2, <1>3

\* Windows that were idle too long are dropped.
LEMMA KeptOK ==
  ASSUME QuotaInv
  PROVE  /\ Kept(ring) \in [Metered -> Rings]
         /\ \A p \in Metered : RingOK(Kept(ring)[p], sends[p], half, began)
<1>1. /\ half \in Nat /\ began \in Nat /\ began <= half /\ ring \in [Metered -> Rings]
      /\ \A p \in Metered : RingOK(ring[p], sends[p], half, began)
  BY DEF QuotaInv, RingsInv
<1>2. CASE ~PruneDue
  BY <1>1, <1>2 DEF Kept
<1>3. CASE PruneDue
  <2> DEFINE k == [p \in Metered |-> IF half - ring[p].active < 2 * Seconds THEN ring[p] ELSE NoWindow]
  <2>1. Kept(ring) = k
    BY <1>3 DEF Kept
  <2>2. ASSUME NEW p \in Metered PROVE RingOK(k[p], sends[p], half, began) /\ k[p] \in Rings
    <3>1. RingOK(k[p], sends[p], half, began)
      <4>1. CASE half - ring[p].active < 2 * Seconds
        BY <1>1, <4>1
      <4>2. CASE ~(half - ring[p].active < 2 * Seconds)
        BY <1>1, <4>2, RingPruned
      <4> QED BY <4>1, <4>2
    <3> QED BY <3>1 DEF RingOK
  <2>3. k \in [Metered -> Rings]
    BY <2>2
  <2> HIDE DEF k
  <2> QED BY <2>1, <2>2, <2>3
<1> QED BY <1>2, <1>3

\* The rings do not move.
LEMMA RingsKept ==
  ASSUME QuotaInv, UNCHANGED ringVars, half' = half
  PROVE  RingsInv' /\ half' \in Nat /\ began' \in Nat /\ began' <= half'
BY DEF QuotaInv, RingsInv, ringVars

\* record_rejection, with the pruning before it.
LEMMA QuotaRejects ==
  ASSUME QuotaInv, NEW a \in Accounts, NEW retry \in RetryAfters, Rejected(a, retry)
  PROVE  QuotaInv'
<1> DEFINE fresh == FreshBreakers(breaker)
           e == Struck(fresh[a])
           long == PauseFor(e, retry)
           r == rejections[a] \cup {<<half, Cardinality(rejections[a])>>}
           c == [e EXCEPT !.until = IF long > 0 THEN half + long ELSE e.until]
           q == IF long > 0 THEN [until |-> half + long, asked |-> retry > 0] ELSE pause[a]
<1>1. half \in Nat /\ half' = half /\ retry \in Nat /\ UNCHANGED ringVars
  BY QuotaAssumption DEF QuotaInv, Rejected
<1>2. PICK d \in Displaced(fresh, a) :
         /\ breaker' = [b \in Accounts |-> IF b = a THEN c ELSE IF b \in d THEN Untracked ELSE fresh[b]]
         /\ rejections' = [b \in Accounts |-> IF b = a THEN r ELSE IF b \in d THEN {} ELSE rejections[b]]
         /\ pause' = [b \in Accounts |->
                IF b = a /\ long > 0 THEN [until |-> half + long, asked |-> retry > 0]
                ELSE IF b \in d THEN NoPause ELSE pause[b]]
  BY DEF Rejected
<1>3. a \notin d
  <2>1. CASE fresh[a].held \/ Cardinality(HeldBreakers(fresh)) < MaxBreakers
    BY <1>2, <2>1 DEF Displaced
  <2>2. CASE ~(fresh[a].held \/ Cardinality(HeldBreakers(fresh)) < MaxBreakers)
    <3>1. a \notin HeldBreakers(fresh)
      BY <2>2 DEF HeldBreakers
    <3>2. PICK o \in HeldBreakers(fresh) : d = {o}
      BY <1>2, <2>2 DEF Displaced
    <3> QED BY <3>1, <3>2
  <2> QED BY <2>1, <2>2
<1>4. breaker'[a] = c /\ rejections'[a] = r /\ pause'[a] = q
  <2> HIDE DEF c, r, long, fresh, e
  <2> QED BY <1>2, <1>3
<1>5. AccountOK(c, r, q, half)
  <2>1. AccountOK(fresh[a], rejections[a], pause[a], half)
    BY FreshOK
  <2> QED BY <1>1, <2>1, AccountRejected
<1>6. ASSUME NEW b \in Accounts, b # a
      PROVE  AccountOK(breaker'[b], rejections'[b], pause'[b], half)
  <2> HIDE DEF c, r, long, e
  <2>1. CASE b \in d
    <3>1. breaker'[b] = Untracked /\ rejections'[b] = {} /\ pause'[b] = NoPause
      BY <1>2, <1>6, <2>1
    <3> QED BY <1>1, <3>1, AccountUnknown
  <2>2. CASE b \notin d
    <3>1. breaker'[b] = fresh[b] /\ rejections'[b] = rejections[b] /\ pause'[b] = pause[b]
      BY <1>2, <1>6, <2>2
    <3> QED BY <3>1, FreshOK
  <2> QED BY <2>1, <2>2
<1>7. AccountsInv'
  <2> HIDE DEF c, r, q
  <2> QED BY <1>1, <1>4, <1>5, <1>6 DEF AccountsInv
<1> QED BY <1>1, <1>7, RingsKept DEF QuotaInv

\* paused, with the pruning before it.
LEMMA QuotaAsks ==
  ASSUME QuotaInv, NEW a \in Accounts, AskPaused(a)
  PROVE  QuotaInv'
<1> DEFINE f == FreshBreakers(breaker)
<1>1. /\ half \in Nat /\ half' = half /\ UNCHANGED ringVars
      /\ rejections' = rejections /\ pause' = pause
      /\ breaker' = IF f[a].held THEN [f EXCEPT ![a].seen = half] ELSE f
  BY DEF QuotaInv, AskPaused
<1>2. DOMAIN f = Accounts
  BY DEF FreshBreakers
<1>3. ASSUME NEW b \in Accounts
      PROVE  AccountOK(breaker'[b], rejections[b], pause[b], half)
  <2>1. AccountOK(f[b], rejections[b], pause[b], half)
    BY FreshOK
  <2> HIDE DEF f
  <2>2. breaker'[b] = f[b] \/ breaker'[b] = [f[b] EXCEPT !.seen = half]
    BY <1>1, <1>2
  <2> QED BY <1>1, <2>1, <2>2, AccountAsked
<1>4. AccountsInv'
  BY <1>1, <1>3 DEF AccountsInv
<1> QED BY <1>1, <1>4, RingsKept DEF QuotaInv

\* Accounts that are forgotten have no entry, no rejections and no pause.
LEMMA AccountsForgotten ==
  ASSUME QuotaInv, NEW A, Forgotten(A), half' = half
  PROVE  AccountsInv'
<1>1. ASSUME NEW b \in Accounts
      PROVE  AccountOK(breaker'[b], rejections'[b], pause'[b], half)
  <2>0. half \in Nat
    BY DEF QuotaInv
  <2>1. CASE b \in A
    <3>1. breaker'[b] = Untracked /\ rejections'[b] = {} /\ pause'[b] = NoPause
      BY <2>1 DEF Forgotten
    <3> QED BY <2>0, <3>1, AccountUnknown
  <2>2. CASE b \notin A
    <3>1. breaker'[b] = breaker[b] /\ rejections'[b] = rejections[b] /\ pause'[b] = pause[b]
      BY <2>2 DEF Forgotten
    <3> QED BY <3>1 DEF QuotaInv, AccountsInv
  <2> QED BY <2>1, <2>2
<1> QED BY <1>1 DEF AccountsInv

\* The accounts do not move.
LEMMA AccountsKept ==
  ASSUME QuotaInv, UNCHANGED breakerVars, half' = half
  PROVE  AccountsInv'
BY DEF QuotaInv, AccountsInv, breakerVars

\* The three fields of a window that counted a request.
LEMMA RingWritten ==
  ASSUME NEW r \in Rings, NEW h \in Nat, NEW t \in [0 .. Seconds - 1 -> Slots]
  PROVE  [r EXCEPT !.held = TRUE, !.active = h, !.slot = t] = [held |-> TRUE, active |-> h, slot |-> t]
<1> DEFINE q == [r EXCEPT !.held = TRUE, !.active = h, !.slot = t]
<1>1. q \in Rings
  BY DEF Rings
<1>2. q.held = TRUE
  BY DEF Rings
<1>3. q.active = h /\ q.slot = t
  BY DEF Rings
<1> HIDE DEF q
<1>4. q = [held |-> q.held, active |-> q.active, slot |-> q.slot]
  BY <1>1 DEF Rings
<1>5. q = [held |-> TRUE, active |-> h, slot |-> t]
  BY <1>2, <1>3, <1>4, Zenon
<1> QED BY <1>5 DEF q

\* A request is counted in the ring of its provider.
LEMMA QuotaAttempts ==
  ASSUME QuotaInv, NEW p \in Metered, Attempt(p)
  PROVE  QuotaInv'
<1> DEFINE k == Kept(ring)
<1>1. /\ half \in Nat /\ began \in Nat /\ began <= half /\ sends \in [Metered -> SUBSET Times]
      /\ half' = half /\ began' = began /\ UNCHANGED breakerVars
  BY DEF QuotaInv, RingsInv, Attempt
<1>2. k \in [Metered -> Rings] /\ \A o \in Metered : RingOK(k[o], sends[o], half, began)
  BY KeptOK
<1>3. AccountsInv'
  BY <1>1, AccountsKept
<1>4. RingsInv'
  <2>1. CASE ring' = k /\ sends' = sends
    BY <1>1, <1>2, <2>1 DEF RingsInv
  <2>2. CASE /\ ring' = [k EXCEPT ![p].held = TRUE, ![p].active = half,
                                  ![p].slot[Second % Seconds] = InSlot(@)]
             /\ sends' = [sends EXCEPT ![p] = @ \cup {<<Second, Cardinality({x \in @ : x[1] = Second}) + 1>>}]
    <3> DEFINE i == Second % Seconds
               y == InSlot(k[p].slot[i])
               v == [held |-> TRUE, active |-> half, slot |-> [k[p].slot EXCEPT ![i] = y]]
               z == sends[p] \cup {<<Second, Cardinality({x \in sends[p] : x[1] = Second}) + 1>>}
    <3> HIDE DEF k
    <3>1. Second \in Nat /\ i \in 0 .. Seconds - 1
      <4>1. Second \in Nat
        BY <1>1 DEF Second
      <4> QED BY <4>1, SlotOf
    <3>2. k[p] \in Rings /\ k[p].slot \in [0 .. Seconds - 1 -> Slots]
      BY <1>2 DEF Rings
    <3>3. y \in Slots
      <4>1. k[p].slot[i] \in Slots
        BY <3>1, <3>2
      <4>2. k[p].slot[i].n \in Nat
        BY <4>1 DEF Slots
      <4> QED BY <3>1, <4>2 DEF InSlot, Slots
    <3> HIDE DEF y, i
    <3>4. [k[p].slot EXCEPT ![i] = y] \in [0 .. Seconds - 1 -> Slots]
      BY <3>1, <3>2, <3>3
    <3>5. v \in Rings /\ v.active = half /\ v.slot = [k[p].slot EXCEPT ![i] = y]
      BY <1>1, <3>4 DEF Rings
    <3>6. ring' = [k EXCEPT ![p] = v]
      <4>1. k[p] = [held |-> k[p].held, active |-> k[p].active, slot |-> k[p].slot]
        BY <3>2 DEF Rings
      <4>2. ring' = [k EXCEPT ![p] = [k[p] EXCEPT !.held = TRUE, !.active = half,
                                                 !.slot = [k[p].slot EXCEPT ![i] = y]]]
        BY <1>2, <2>2 DEF i, y
      <4>3. [k[p] EXCEPT !.held = TRUE, !.active = half, !.slot = [k[p].slot EXCEPT ![i] = y]] = v
        <5> HIDE DEF v
        <5> DEFINE t == [k[p].slot EXCEPT ![i] = y]
        <5>1. t \in [0 .. Seconds - 1 -> Slots] /\ half \in Nat /\ k[p] \in Rings
          BY <1>1, <3>2, <3>4
        <5>2. v = [held |-> TRUE, active |-> half, slot |-> t]
          BY DEF v
        <5> HIDE DEF t
        <5>3. [k[p] EXCEPT !.held = TRUE, !.active = half, !.slot = t] = v
          BY <5>1, <5>2, RingWritten
        <5> QED BY <5>3 DEF t
      <4> QED BY <4>2, <4>3
    <3> HIDE DEF v
    <3>7. RingOK(v, z, half, began)
      <4>1. v.slot = [k[p].slot EXCEPT ![Second % Seconds] = InSlot(k[p].slot[Second % Seconds])]
        BY <3>5 DEF i, y
      <4> QED BY <1>1, <1>2, <3>5, <4>1, RingCounts
    <3>8. sends' = [sends EXCEPT ![p] = z]
      BY <2>2
    <3> HIDE DEF z
    <3>9. z \in SUBSET Times
      BY <3>7 DEF RingOK
    <3>10. ring' \in [Metered -> Rings] /\ sends' \in [Metered -> SUBSET Times]
      BY <1>1, <1>2, <3>5, <3>6, <3>8, <3>9
    <3>11. \A o \in Metered : RingOK(ring'[o], sends'[o], half, began)
      BY <1>1, <1>2, <3>6, <3>7, <3>8
    <3> QED BY <1>1, <3>10, <3>11 DEF RingsInv
  <2> QED BY <2>1, <2>2 DEF Attempt
<1> QED BY <1>1, <1>3, <1>4 DEF QuotaInv

\* A look at the requests of the last minute changes no slot.
LEMMA QuotaLooks ==
  ASSUME QuotaInv, NEW p \in Metered, Look(p)
  PROVE  QuotaInv'
<1>1. /\ half' = half /\ began' = began /\ UNCHANGED breakerVars /\ ring' = Kept(ring) /\ sends' = sends
      /\ half \in Nat /\ began \in Nat /\ began <= half
  BY DEF QuotaInv, Look
<1>2. AccountsInv'
  BY <1>1, AccountsKept
<1>3. RingsInv'
  BY <1>1, KeptOK DEF QuotaInv, RingsInv
<1> QED BY <1>1, <1>2, <1>3 DEF QuotaInv

\* Reset of one provider, or of all.
LEMMA QuotaForgets ==
  ASSUME QuotaInv, (\E p \in Metered : ForgetProvider(p)) \/ ForgetAll
  PROVE  QuotaInv'
<1>1. half' = half /\ half \in Nat /\ began \in Nat /\ began <= half /\ (began' = began \/ began' = half)
  BY DEF QuotaInv, ForgetProvider, ForgetAll
<1>2. AccountsInv'
  BY <1>1, AccountsForgotten DEF ForgetProvider, ForgetAll
<1>3. ring \in [Metered -> Rings] /\ sends \in [Metered -> SUBSET Times]
      /\ \A p \in Metered : RingOK(ring[p], sends[p], half, began)
  BY DEF QuotaInv, RingsInv
<1>4. RingsInv'
  <2>1. CASE ForgetAll
    <3>1. /\ ring' = [o \in Metered |-> NoWindow] /\ sends' = [o \in Metered |-> {}] /\ began' = half
      BY <2>1 DEF ForgetAll
    <3>2. ring' \in [Metered -> Rings] /\ sends' \in [Metered -> SUBSET Times]
      BY <3>1, RingEmpty
    <3>3. RingOK(NoWindow, {}, half', began')
      BY <1>1, <3>1, RingNew
    <3> QED BY <3>1, <3>2, <3>3 DEF RingsInv
  <2>2. CASE \E p \in Metered : ForgetProvider(p)
    <3>1. PICK p \in Metered : ForgetProvider(p)
      BY <2>2
    <3>2. /\ ring' = [ring EXCEPT ![p] = NoWindow] /\ sends' = [sends EXCEPT ![p] = {}] /\ began' = began
      BY <3>1 DEF ForgetProvider
    <3>3. ring' \in [Metered -> Rings] /\ sends' \in [Metered -> SUBSET Times]
      BY <1>3, <3>2, RingEmpty
    <3>4. RingOK(NoWindow, {}, half, began)
      BY <1>1, RingNew
    <3> QED BY <1>1, <1>3, <3>2, <3>3, <3>4 DEF RingsInv
  <2> QED BY <2>1, <2>2
<1> QED BY <1>1, <1>2, <1>4 DEF QuotaInv

\* Every step keeps the invariant.
LEMMA QuotaInvStep == ASSUME QuotaInv, [QuotaNext]_quotaVars PROVE QuotaInv'
<1>1. CASE \E a \in Accounts, retry \in RetryAfters : Rejected(a, retry)
  BY <1>1, QuotaRejects
<1>2. CASE \E a \in Accounts : AskPaused(a)
  BY <1>2, QuotaAsks
<1>3. CASE \E a \in Accounts : Succeeded(a)
  <2>1. PICK a \in Accounts : Forgotten({a}) /\ UNCHANGED ringVars /\ half' = half
    BY <1>3 DEF Succeeded
  <2>2. AccountsInv'
    BY <2>1, AccountsForgotten
  <2> QED BY <2>1, <2>2, RingsKept DEF QuotaInv
<1>4. CASE \E p \in Metered : Attempt(p)
  BY <1>4, QuotaAttempts
<1>5. CASE \E p \in Metered : Look(p)
  BY <1>5, QuotaLooks
<1>6. CASE (\E p \in Metered : ForgetProvider(p)) \/ ForgetAll
  BY <1>6, QuotaForgets
<1>7. CASE Elapse
  <2>1. /\ half \in Nat /\ half' = half + 1 /\ began \in Nat /\ began <= half
        /\ breaker' = breaker /\ rejections' = rejections /\ pause' = pause
        /\ ring' = ring /\ began' = began /\ sends' = sends
    BY <1>7 DEF QuotaInv, Elapse, breakerVars, ringVars
  <2>2. AccountsInv'
    BY <2>1, AccountLater DEF QuotaInv, AccountsInv
  <2>3. RingsInv'
    BY <2>1, RingLater DEF QuotaInv, RingsInv
  <2> QED BY <2>1, <2>2, <2>3 DEF QuotaInv
<1>8. CASE UNCHANGED quotaVars
  BY <1>8 DEF QuotaInv, AccountsInv, RingsInv, quotaVars, breakerVars, ringVars
<1> QED BY <1>1, <1>2, <1>3, <1>4, <1>5, <1>6, <1>7, <1>8 DEF QuotaNext

\* The invariant says what the runs check.
LEMMA QuotaInvSound == ASSUME QuotaInv PROVE QuotaSound
<1>1. ASSUME NEW a \in Accounts
      PROVE  /\ pause[a].until > half => Paused(a)
             /\ (Paused(a) /\ ~pause[a].asked) => Justified(rejections[a])
  <2>1. AccountOK(breaker[a], rejections[a], pause[a], half) /\ half \in Nat
    BY DEF QuotaInv, AccountsInv
  <2>2. breaker[a].until \in Nat /\ pause[a].until \in Nat
    BY <2>1 DEF AccountOK, Entries, Pauses
  <2>3. pause[a].until > half => breaker[a].until > half
    BY <2>1, <2>2 DEF AccountOK
  <2> QED BY <2>1, <2>3 DEF AccountOK, Paused
<1>2. PauseHonoured
  BY <1>1 DEF PauseHonoured
<1>3. NoHastyPause
  BY <1>1 DEF NoHastyPause, Justified
<1>4. RpmExact
  <2>1. half \in Nat /\ began \in Nat /\ began <= half
    BY DEF QuotaInv
  <2> QED BY <2>1, KeptOK, RingShows DEF RpmExact
<1> QED BY <1>2, <1>3, <1>4 DEF QuotaSound

\* For every number of strikes, lengths of the windows and sizes of the
\* tables: an announced pause is honoured, none is imposed hastily, and the
\* ring shows exactly the requests of the last seconds.
THEOREM QuotaIsSound == QuotaSpec => []QuotaSound
<1>1. QuotaInit => QuotaInv
  BY QuotaInitInv
<1>2. QuotaInv /\ [QuotaNext]_quotaVars => QuotaInv'
  BY QuotaInvStep
<1>3. QuotaInv => QuotaSound
  BY QuotaInvSound
<1> QED BY <1>1, <1>2, <1>3, PTL DEF QuotaSpec
=============================================================================
