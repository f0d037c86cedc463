-------------------------- MODULE DynamicSemaphore --------------------------
(***************************************************************************)
(* The concurrency gate of src/state/runtime_controls.rs: a lock-free      *)
(* counter `active` compared with a `limit` that the settings page may     *)
(* change at any time, and a tokio Notify on which `acquire_owned` waits.  *)
(*                                                                         *)
(* One step of this module is one atomic access of the code: a load, a     *)
(* compare-and-exchange, a fetch_sub, a swap, or one call into Notify.     *)
(* The same gate guards the gateway's in-flight requests, its body and     *)
(* SSE processing, the stream continuity workers and, with a shared limit  *)
(* and without waiting, every provider.                                    *)
(***************************************************************************)
EXTENDS Naturals, FiniteSets, Sequences, SequencesExt

CONSTANTS Tasks,    \* the request tasks that use the gate
          Limits    \* the limits the administrator may set; 0 is "no limit"

ASSUME GateAssumption == /\ IsFiniteSet(Tasks)
                         /\ Limits \subseteq Nat
                         /\ Limits # {}

VARIABLES active,   \* AtomicUsize: slots taken
          limit,    \* AtomicUsize: the current limit
          pc,       \* where each task is inside the gate
          waits,    \* the task's call is acquire_owned, not try_acquire_owned
          seen,     \* the task's local copy of `active`
          queue,    \* Notify: registered waiters, oldest first
          notice,   \* Notify: what each task's Notified future has received
          permit,   \* Notify: the one stored notify_one permit
          admin,    \* set_limit is between its swap and its notify_waiters
          fresh     \* history: the task's slot was taken under the current limit

vars == <<active, limit, pc, waits, seen, queue, notice, permit, admin, fresh>>
notifyVars == <<queue, notice, permit>>

PCs == {"idle", "register", "load", "check", "cas", "recheck", "undo",
        "undo_notify", "parked", "granted", "holding", "drop_notify"}
Notices == {"none", "one", "all", "stored"}

(***************************************************************************)
(* tokio::sync::Notify, as runtime_controls.rs uses it.                    *)
(***************************************************************************)

\* notify_one: the oldest registered waiter, or the stored permit.
NotifyOne(q, n) ==
    IF q = <<>>
    THEN /\ permit' = TRUE
         /\ queue' = q
         /\ notice' = n
    ELSE /\ notice' = [n EXCEPT ![Head(q)] = "one"]
         /\ queue' = Tail(q)
         /\ UNCHANGED permit

\* The queue after t has left it; nobody is in it twice.
Without(q, t) ==
    IF Contains(q, t) THEN RemoveAt(q, CHOOSE i \in 1..Len(q) : q[i] = t) ELSE q

\* Dropping a Notified future: it leaves the queue, and a notify_one it
\* received but never used is passed on.
ForgetNotified(t) ==
    IF notice[t] = "one"
    THEN NotifyOne(queue, [notice EXCEPT ![t] = "none"])
    ELSE /\ queue' = Without(queue, t)
         /\ notice' = [notice EXCEPT ![t] = "none"]
         /\ UNCHANGED permit

(***************************************************************************)
(* The gate.                                                               *)
(***************************************************************************)

Init ==
    /\ active = 0
    /\ limit \in Limits
    /\ pc = [t \in Tasks |-> "idle"]
    /\ waits = [t \in Tasks |-> FALSE]
    /\ seen = [t \in Tasks |-> 0]
    /\ queue = <<>>
    /\ notice = [t \in Tasks |-> "none"]
    /\ permit = FALSE
    /\ admin = FALSE
    /\ fresh = [t \in Tasks |-> FALSE]

HasRoom(n) == limit = 0 \/ n < limit

Goto(t, label) == pc' = [pc EXCEPT ![t] = label]

\* try_acquire_owned is called on its own, or from a new acquire_owned.
StartTry(t) ==
    /\ pc[t] = "idle"
    /\ Goto(t, "load")
    /\ waits' = [waits EXCEPT ![t] = FALSE]
    /\ UNCHANGED <<active, limit, seen, notifyVars, admin, fresh>>

StartAcquire(t) ==
    /\ pc[t] = "idle"
    /\ Goto(t, "register")
    /\ waits' = [waits EXCEPT ![t] = TRUE]
    /\ UNCHANGED <<active, limit, seen, notifyVars, admin, fresh>>

\* notified() and enable(): take the stored permit or join the queue.
Register(t) ==
    /\ pc[t] = "register"
    /\ Goto(t, "load")
    /\ IF permit
       THEN /\ permit' = FALSE
            /\ notice' = [notice EXCEPT ![t] = "stored"]
            /\ UNCHANGED queue
       ELSE /\ queue' = Append(queue, t)
            /\ UNCHANGED <<permit, notice>>
    /\ UNCHANGED <<active, limit, waits, seen, admin, fresh>>

LoadActive(t) ==
    /\ pc[t] = "load"
    /\ seen' = [seen EXCEPT ![t] = active]
    /\ Goto(t, "check")
    /\ UNCHANGED <<active, limit, waits, notifyVars, admin, fresh>>

\* Without a permit try_acquire_owned returns None and acquire_owned awaits.
Refused(t) == Goto(t, IF waits[t] THEN "parked" ELSE "idle")

CheckLimit(t) ==
    /\ pc[t] = "check"
    /\ IF HasRoom(seen[t]) THEN Goto(t, "cas") ELSE Refused(t)
    /\ UNCHANGED <<active, limit, waits, seen, notifyVars, admin, fresh>>

\* compare_exchange_weak succeeds only on the value that was seen ...
Exchange(t) ==
    /\ pc[t] = "cas"
    /\ active = seen[t]
    /\ active' = seen[t] + 1
    /\ fresh' = [fresh EXCEPT ![t] = TRUE]
    /\ Goto(t, "recheck")
    /\ UNCHANGED <<limit, waits, seen, notifyVars, admin>>

\* ... and fails on another value, or spuriously.
ExchangeFails(t) ==
    /\ pc[t] = "cas"
    /\ seen' = [seen EXCEPT ![t] = active]
    /\ Goto(t, "check")
    /\ UNCHANGED <<active, limit, waits, notifyVars, admin, fresh>>

\* Mutant: a slot won against an outdated limit is kept.
RecheckSkipped(t) ==
    /\ pc[t] = "recheck"
    /\ Goto(t, IF waits[t] THEN "granted" ELSE "holding")
    /\ UNCHANGED <<active, limit, waits, seen, notifyVars, admin, fresh>>

\* Mutant: a lost recheck returns None without giving the slot back.
RecheckLeaks(t) ==
    /\ pc[t] = "recheck"
    /\ IF HasRoom(seen[t]) THEN Goto(t, IF waits[t] THEN "granted" ELSE "holding")
                           ELSE Refused(t)
    /\ UNCHANGED <<active, limit, waits, seen, notifyVars, admin, fresh>>

\* The limit is read again after the exchange.
Recheck(t) ==
    /\ pc[t] = "recheck"
    /\ Goto(t, IF ~HasRoom(seen[t]) THEN "undo"
               ELSE IF waits[t] THEN "granted" ELSE "holding")
    /\ UNCHANGED <<active, limit, waits, seen, notifyVars, admin, fresh>>

\* acquire_owned returns its permit and drops its Notified future.
Return(t) ==
    /\ pc[t] = "granted"
    /\ ForgetNotified(t)
    /\ Goto(t, "holding")
    /\ UNCHANGED <<active, limit, waits, seen, admin, fresh>>

\* release_slot, first half: from a lost recheck or from the permit's Drop.
ReleaseSlot(t) ==
    /\ pc[t] \in {"undo", "holding"}
    /\ active' = active - 1
    /\ fresh' = [fresh EXCEPT ![t] = FALSE]
    /\ Goto(t, IF pc[t] = "undo" THEN "undo_notify" ELSE "drop_notify")
    /\ UNCHANGED <<limit, waits, seen, notifyVars, admin>>

\* Mutant: nobody is told of the free slot.
ReleaseSilently(t) ==
    /\ pc[t] \in {"undo_notify", "drop_notify"}
    /\ IF pc[t] = "undo_notify" THEN Refused(t) ELSE Goto(t, "idle")
    /\ UNCHANGED <<active, limit, waits, seen, notifyVars, admin, fresh>>

\* release_slot, second half.
ReleaseNotify(t) ==
    /\ pc[t] \in {"undo_notify", "drop_notify"}
    /\ NotifyOne(queue, notice)
    /\ IF pc[t] = "undo_notify" THEN Refused(t) ELSE Goto(t, "idle")
    /\ UNCHANGED <<active, limit, waits, seen, admin, fresh>>

\* The awaited Notified future completes and the loop starts over.
Wake(t) ==
    /\ pc[t] = "parked"
    /\ notice[t] # "none"
    /\ notice' = [notice EXCEPT ![t] = "none"]
    /\ Goto(t, "register")
    /\ UNCHANGED <<active, limit, waits, seen, queue, permit, admin, fresh>>

\* The caller's queue timeout fires, or the client disconnects: the waiting
\* future is dropped at its await point, possibly just after being notified.
Cancel(t) ==
    /\ pc[t] = "parked"
    /\ ForgetNotified(t)
    /\ Goto(t, "idle")
    /\ UNCHANGED <<active, limit, waits, seen, admin, fresh>>

\* Mutant: the waiters are not told of a larger limit.
SetLimitSilently(l) ==
    /\ ~admin
    /\ limit' = l
    /\ fresh' = [t \in Tasks |-> FALSE]
    /\ UNCHANGED <<active, pc, waits, seen, notifyVars, admin>>

\* set_limit: the swap; callers hold the settings write lock.
SetLimit(l) ==
    /\ ~admin
    /\ limit' = l
    /\ admin' = (l = 0 \/ (limit # 0 /\ l > limit))
    /\ fresh' = [t \in Tasks |-> FALSE]
    /\ UNCHANGED <<active, pc, waits, seen, notifyVars>>

\* set_limit: notify_waiters wakes everyone registered and stores nothing.
NotifyWaiters ==
    /\ admin
    /\ admin' = FALSE
    /\ notice' = [t \in Tasks |-> IF Contains(queue, t) THEN "all" ELSE notice[t]]
    /\ queue' = <<>>
    /\ UNCHANGED <<active, limit, pc, waits, seen, permit, fresh>>

\* What a task does by itself once it has started a call.
Step(t) ==
    \/ Register(t) \/ LoadActive(t) \/ CheckLimit(t) \/ Exchange(t)
    \/ Recheck(t) \/ Return(t) \/ ReleaseNotify(t) \/ Wake(t)
    \/ (pc[t] = "undo" /\ ReleaseSlot(t))
    \/ (seen[t] # active /\ ExchangeFails(t))

Next ==
    \/ \E t \in Tasks :
        \/ StartTry(t) \/ StartAcquire(t) \/ Register(t) \/ LoadActive(t)
        \/ CheckLimit(t) \/ Exchange(t) \/ ExchangeFails(t) \/ Recheck(t)
        \/ Return(t) \/ ReleaseSlot(t) \/ ReleaseNotify(t)
        \/ Wake(t) \/ Cancel(t)
    \/ \E l \in Limits : SetLimit(l)
    \/ NotifyWaiters

Spec == Init /\ [][Next]_vars

(***************************************************************************)
(* Fairness: the runtime polls every runnable task and the settings task   *)
(* finishes; a weak exchange does not fail for ever on an unchanged value. *)
(* Nothing forces a request to arrive, to finish or to be cancelled, and   *)
(* nothing forces a settings change.                                       *)
(***************************************************************************)
Fairness ==
    /\ \A t \in Tasks : WF_vars(Step(t)) /\ SF_vars(Exchange(t))
    /\ WF_vars(NotifyWaiters)

FairSpec == Spec /\ Fairness

-----------------------------------------------------------------------------
(***************************************************************************)
(* Properties.                                                             *)
(***************************************************************************)

\* The state stays within its types; in particular `active` never wraps
\* below zero, which the debug_assert of release_slot only tests in debug
\* builds.
TypeOK ==
    /\ active \in Nat
    /\ limit \in Limits
    /\ pc \in [Tasks -> PCs]
    /\ waits \in [Tasks -> BOOLEAN]
    /\ seen \in [Tasks -> Nat]
    /\ queue \in Seq(Tasks)
    /\ notice \in [Tasks -> Notices]
    /\ permit \in BOOLEAN
    /\ admin \in BOOLEAN
    /\ fresh \in [Tasks -> BOOLEAN]

Owners == {t \in Tasks : pc[t] \in {"recheck", "undo", "granted", "holding"}}
Permits == {t \in Tasks : pc[t] \in {"granted", "holding"}}

\* `active` counts exactly the slots somebody owns and will give back: no
\* cancellation, lost exchange or lowered limit leaks a slot or frees one
\* twice (the debug_assert in release_slot).
SlotAccounting == active = Cardinality(Owners)

\* "Existing permits are allowed to finish when the limit is reduced; no new
\* permit is granted until the active count falls below the new limit": once
\* a permit is backed by a slot taken under the current limit, the permits
\* together respect that limit.
ReductionRespected ==
    (limit # 0 /\ \E t \in Permits : fresh[t]) => Cardinality(Permits) <= limit

WakeupPending ==
    \/ admin
    \/ \E t \in Tasks : \/ pc[t] \in {"undo_notify", "drop_notify"}
                        \/ notice[t] # "none"
                        \/ waits[t] /\ pc[t] \in {"register", "load", "check", "cas", "recheck", "undo"}

\* No lost wakeup: whenever a waiter sleeps without a notification although
\* the gate has room, somebody is still on the way to wake a waiter or to
\* look at the gate again.
NoLostWakeup ==
    (\E t \in Tasks : pc[t] = "parked" /\ notice[t] = "none") /\ HasRoom(active)
        => WakeupPending

\* A gate that keeps room does not leave a waiter asleep.
WaitersProgress ==
    \A t \in Tasks : <>[]HasRoom(active) => []<>(pc[t] # "parked")

\* The counters of the gate keep their ranges (`active` never goes below zero
\* in release_slot) and no waiter of acquire_owned is forgotten.
WakeupsSound ==
    /\ TypeOK
    /\ NoLostWakeup
=============================================================================
