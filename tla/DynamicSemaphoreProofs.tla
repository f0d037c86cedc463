----------------------- MODULE DynamicSemaphoreProofs -----------------------
(***************************************************************************)
(* Proofs about the gate (DynamicSemaphore) and the rate limiter           *)
(* (RateLimiter).                                                          *)
(*                                                                         *)
(* For any set of tasks and any limits: the gate keeps its types, `active` *)
(* counts the slots that are owned, a lowered limit is respected, and no   *)
(* waiter is left without a wakeup that is on its way.                     *)
(*                                                                         *)
(* ReductionRespected is not inductive: a slot between its exchange and    *)
(* its recheck is not yet a permit and may still become one.  The          *)
(* induction is about Candidates, the slots that are permits or will pass  *)
(* the recheck if the limit stays what it is.                              *)
(***************************************************************************)
EXTENDS DynamicSemaphore, RateLimiter, FiniteSetTheorems, SequenceTheorems, TLAPS

Candidates ==
    {t \in Tasks : \/ pc[t] \in {"granted", "holding"}
                   \/ pc[t] = "recheck" /\ HasRoom(seen[t])}

CandidatesFit ==
    (limit # 0 /\ \E t \in Candidates : fresh[t]) => Cardinality(Candidates) <= limit

GateInv == TypeOK /\ SlotAccounting /\ CandidatesFit

-----------------------------------------------------------------------------
(* Types.                                                                  *)

\* Removing one position of a sequence keeps its type.
LEMMA RemoveAtType ==
    ASSUME NEW S, NEW q \in Seq(S), NEW i \in 1..Len(q)
    PROVE  RemoveAt(q, i) \in Seq(S)
BY DEF RemoveAt

\* Leaving the queue keeps it a sequence of tasks.
LEMMA WithoutType ==
    ASSUME NEW S, NEW q \in Seq(S), NEW t
    PROVE  Without(q, t) \in Seq(S)
<1>1. CASE Contains(q, t)
  <2>1. \E i \in 1..Len(q) : q[i] = t
    BY <1>1 DEF Contains
  <2>2. (CHOOSE i \in 1..Len(q) : q[i] = t) \in 1..Len(q)
    BY <2>1
  <2>3. RemoveAt(q, CHOOSE i \in 1..Len(q) : q[i] = t) \in Seq(S)
    BY <2>2, RemoveAtType
  <2> QED
    BY <1>1, <2>3 DEF Without
<1>2. CASE ~Contains(q, t)
  BY <1>2 DEF Without
<1> QED
  BY <1>1, <1>2

\* notify_one keeps the types of the Notify state.
LEMMA NotifyOneType ==
    ASSUME NEW q \in Seq(Tasks), NEW n \in [Tasks -> Notices], permit \in BOOLEAN,
           NotifyOne(q, n)
    PROVE  queue' \in Seq(Tasks) /\ notice' \in [Tasks -> Notices] /\ permit' \in BOOLEAN
<1>1. CASE q = <<>>
  BY <1>1 DEF NotifyOne
<1>2. CASE q # <<>>
  <2>1. Head(q) \in Tasks /\ Tail(q) \in Seq(Tasks)
    BY <1>2
  <2> QED
    BY <1>2, <2>1 DEF NotifyOne, Notices
<1> QED
  BY <1>1, <1>2

\* Dropping a Notified future keeps them too.
LEMMA ForgetNotifiedType ==
    ASSUME TypeOK, NEW t \in Tasks, ForgetNotified(t)
    PROVE  queue' \in Seq(Tasks) /\ notice' \in [Tasks -> Notices] /\ permit' \in BOOLEAN
<1> DEFINE n == [notice EXCEPT ![t] = "none"]
<1>1. n \in [Tasks -> Notices]
  BY DEF TypeOK, Notices
<1>2. CASE notice[t] = "one"
  <2>1. NotifyOne(queue, n)
    BY <1>2 DEF ForgetNotified
  <2> QED
    BY <1>1, <2>1, NotifyOneType DEF TypeOK
<1>3. CASE notice[t] # "one"
  <2>1. queue' = Without(queue, t) /\ notice' = n /\ permit' = permit
    BY <1>3 DEF ForgetNotified
  <2>2. Without(queue, t) \in Seq(Tasks)
    BY WithoutType DEF TypeOK
  <2> QED
    BY <1>1, <2>1, <2>2 DEF TypeOK
<1> QED
  BY <1>2, <1>3

\* The initial state has its types.
LEMMA InitType ==
    ASSUME Init PROVE TypeOK
<1>1. queue \in Seq(Tasks)
  BY DEF Init
<1>2. limit \in Limits /\ active \in Nat /\ permit \in BOOLEAN /\ admin \in BOOLEAN
  BY DEF Init
<1>3. pc \in [Tasks -> PCs] /\ notice \in [Tasks -> Notices]
  BY DEF Init, PCs, Notices
<1>4. waits \in [Tasks -> BOOLEAN] /\ fresh \in [Tasks -> BOOLEAN]
  BY DEF Init
<1>5. seen \in [Tasks -> Nat]
  BY DEF Init
<1> QED
  BY <1>1, <1>2, <1>3, <1>4, <1>5 DEF TypeOK

\* A task that owns a slot is counted, so `active` is positive when the slot
\* is given back.
LEMMA OwnerCounted ==
    ASSUME TypeOK, SlotAccounting, NEW t \in Owners
    PROVE  active - 1 \in Nat
<1>1. IsFiniteSet(Owners) /\ Cardinality(Owners) \in Nat
  BY GateAssumption, FS_Subset, FS_CardinalityType DEF Owners
<1>2. Cardinality(Owners) # 0
  BY <1>1, FS_EmptySet
<1> QED
  BY <1>1, <1>2 DEF SlotAccounting, TypeOK

\* Every step keeps the types.
LEMMA TypeStep ==
    ASSUME TypeOK, SlotAccounting, Next
    PROVE  TypeOK'
<1>1. ASSUME NEW t \in Tasks, StartTry(t)
      PROVE  TypeOK'
  BY <1>1 DEF TypeOK, StartTry, Goto, PCs, notifyVars
<1>2. ASSUME NEW t \in Tasks, StartAcquire(t)
      PROVE  TypeOK'
  BY <1>2 DEF TypeOK, StartAcquire, Goto, PCs, notifyVars
<1>3. ASSUME NEW t \in Tasks, LoadActive(t)
      PROVE  TypeOK'
  BY <1>3 DEF TypeOK, LoadActive, Goto, PCs, notifyVars
<1>4. ASSUME NEW t \in Tasks, CheckLimit(t)
      PROVE  TypeOK'
  BY <1>4 DEF TypeOK, CheckLimit, Refused, Goto, PCs, notifyVars
<1>5. ASSUME NEW t \in Tasks, Exchange(t)
      PROVE  TypeOK'
  BY <1>5 DEF TypeOK, Exchange, Goto, PCs, notifyVars
<1>6. ASSUME NEW t \in Tasks, ExchangeFails(t)
      PROVE  TypeOK'
  BY <1>6 DEF TypeOK, ExchangeFails, Goto, PCs, notifyVars
<1>7. ASSUME NEW t \in Tasks, Recheck(t)
      PROVE  TypeOK'
  BY <1>7 DEF TypeOK, Recheck, Goto, PCs, notifyVars
<1>8. ASSUME NEW t \in Tasks, Register(t)
      PROVE  TypeOK'
  <2>1. queue' \in Seq(Tasks) /\ notice' \in [Tasks -> Notices] /\ permit' \in BOOLEAN
    <3>1. CASE permit
      BY <1>8, <3>1 DEF Register, TypeOK, Notices
    <3>2. CASE ~permit
      <4>1. queue' = Append(queue, t) /\ permit' = permit /\ notice' = notice
        BY <1>8, <3>2 DEF Register
      <4>2. Append(queue, t) \in Seq(Tasks)
        BY DEF TypeOK
      <4> QED
        BY <4>1, <4>2 DEF TypeOK
    <3> QED
      BY <3>1, <3>2
  <2>2. /\ pc' \in [Tasks -> PCs]
        /\ UNCHANGED <<active, limit, waits, seen, admin, fresh>>
    BY <1>8 DEF Register, Goto, TypeOK, PCs
  <2> QED
    BY <2>1, <2>2 DEF TypeOK
<1>9. ASSUME NEW t \in Tasks, Return(t)
      PROVE  TypeOK'
  <2>1. queue' \in Seq(Tasks) /\ notice' \in [Tasks -> Notices] /\ permit' \in BOOLEAN
    BY <1>9, ForgetNotifiedType DEF Return
  <2>2. /\ pc' \in [Tasks -> PCs]
        /\ UNCHANGED <<active, limit, waits, seen, admin, fresh>>
    BY <1>9 DEF Return, Goto, TypeOK, PCs
  <2> QED
    BY <2>1, <2>2 DEF TypeOK
<1>10. ASSUME NEW t \in Tasks, Cancel(t)
      PROVE  TypeOK'
  <2>1. queue' \in Seq(Tasks) /\ notice' \in [Tasks -> Notices] /\ permit' \in BOOLEAN
    BY <1>10, ForgetNotifiedType DEF Cancel
  <2>2. /\ pc' \in [Tasks -> PCs]
        /\ UNCHANGED <<active, limit, waits, seen, admin, fresh>>
    BY <1>10 DEF Cancel, Goto, TypeOK, PCs
  <2> QED
    BY <2>1, <2>2 DEF TypeOK
<1>11. ASSUME NEW t \in Tasks, ReleaseSlot(t)
      PROVE  TypeOK'
  <2>1. active' \in Nat
    BY <1>11, OwnerCounted DEF ReleaseSlot, Owners
  <2> QED
    BY <1>11, <2>1 DEF TypeOK, ReleaseSlot, Goto, PCs, notifyVars
<1>12. ASSUME NEW t \in Tasks, ReleaseNotify(t)
      PROVE  TypeOK'
  <2>1. queue' \in Seq(Tasks) /\ notice' \in [Tasks -> Notices] /\ permit' \in BOOLEAN
    BY <1>12, NotifyOneType DEF ReleaseNotify, TypeOK
  <2>2. /\ pc' \in [Tasks -> PCs]
        /\ UNCHANGED <<active, limit, waits, seen, admin, fresh>>
    BY <1>12 DEF ReleaseNotify, Refused, Goto, TypeOK, PCs
  <2> QED
    BY <2>1, <2>2 DEF TypeOK
<1>13. ASSUME NEW t \in Tasks, Wake(t)
      PROVE  TypeOK'
  BY <1>13 DEF TypeOK, Wake, Goto, PCs, Notices
<1>14. ASSUME NEW l \in Limits, SetLimit(l)
      PROVE  TypeOK'
  BY <1>14, GateAssumption DEF TypeOK, SetLimit, notifyVars
<1>15. ASSUME NotifyWaiters
      PROVE  TypeOK'
  <2>1. queue' \in Seq(Tasks)
    BY <1>15 DEF NotifyWaiters
  <2>2. notice' \in [Tasks -> Notices]
    BY <1>15 DEF NotifyWaiters, TypeOK, Notices
  <2> QED
    BY <1>15, <2>1, <2>2 DEF NotifyWaiters, TypeOK
<1> QED
  BY <1>1, <1>2, <1>3, <1>4, <1>5, <1>6, <1>7, <1>8, <1>9, <1>10, <1>11, <1>12, <1>13, <1>14, <1>15 DEF Next

-----------------------------------------------------------------------------
(* Slots.                                                                  *)

\* Every step keeps the count: only a won exchange adds an owner and only
\* release_slot removes one.
LEMMA CountStep ==
    ASSUME TypeOK, SlotAccounting, Next
    PROVE  SlotAccounting'
<1> USE DEF TypeOK
<1>1. ASSUME Owners' = Owners, active' = active
      PROVE  SlotAccounting'
  BY <1>1 DEF SlotAccounting
<1>2. IsFiniteSet(Owners)
  BY GateAssumption, FS_Subset DEF Owners
<1>3. ASSUME NEW t \in Tasks, StartTry(t)
      PROVE  SlotAccounting'
  BY <1>1, <1>3 DEF StartTry, Goto, Owners
<1>4. ASSUME NEW t \in Tasks, StartAcquire(t)
      PROVE  SlotAccounting'
  BY <1>1, <1>4 DEF StartAcquire, Goto, Owners
<1>5. ASSUME NEW t \in Tasks, Register(t)
      PROVE  SlotAccounting'
  BY <1>1, <1>5 DEF Register, Goto, Owners
<1>6. ASSUME NEW t \in Tasks, LoadActive(t)
      PROVE  SlotAccounting'
  BY <1>1, <1>6 DEF LoadActive, Goto, Owners
<1>7. ASSUME NEW t \in Tasks, CheckLimit(t)
      PROVE  SlotAccounting'
  BY <1>1, <1>7 DEF CheckLimit, Refused, Goto, Owners
<1>8. ASSUME NEW t \in Tasks, ExchangeFails(t)
      PROVE  SlotAccounting'
  BY <1>1, <1>8 DEF ExchangeFails, Goto, Owners
<1>9. ASSUME NEW t \in Tasks, Recheck(t)
      PROVE  SlotAccounting'
  BY <1>1, <1>9 DEF Recheck, Goto, Owners
<1>10. ASSUME NEW t \in Tasks, Return(t)
      PROVE  SlotAccounting'
  BY <1>1, <1>10 DEF Return, Goto, Owners
<1>11. ASSUME NEW t \in Tasks, ReleaseNotify(t)
      PROVE  SlotAccounting'
  BY <1>1, <1>11 DEF ReleaseNotify, Refused, Goto, Owners
<1>12. ASSUME NEW t \in Tasks, Wake(t)
      PROVE  SlotAccounting'
  BY <1>1, <1>12 DEF Wake, Goto, Owners
<1>13. ASSUME NEW t \in Tasks, Cancel(t)
      PROVE  SlotAccounting'
  BY <1>1, <1>13 DEF Cancel, Goto, Owners
<1>14. ASSUME NEW t \in Tasks, Exchange(t)
      PROVE  SlotAccounting'
  <2>1. t \notin Owners /\ Owners' = Owners \union {t} /\ active' = active + 1
    BY <1>14 DEF Exchange, Goto, Owners
  <2>2. Cardinality(Owners') = Cardinality(Owners) + 1
    BY <1>2, <2>1, FS_AddElement
  <2> QED
    BY <2>1, <2>2 DEF SlotAccounting
<1>15. ASSUME NEW t \in Tasks, ReleaseSlot(t)
      PROVE  SlotAccounting'
  <2>1. t \in Owners /\ Owners' = Owners \ {t} /\ active' = active - 1
    BY <1>15 DEF ReleaseSlot, Goto, Owners
  <2>2. Cardinality(Owners') = Cardinality(Owners) - 1
    BY <1>2, <2>1, FS_RemoveElement
  <2> QED
    BY <2>1, <2>2 DEF SlotAccounting
<1>16. ASSUME NEW l \in Limits, SetLimit(l)
      PROVE  SlotAccounting'
  BY <1>1, <1>16 DEF SetLimit, Owners
<1>17. ASSUME NotifyWaiters
      PROVE  SlotAccounting'
  BY <1>1, <1>17 DEF NotifyWaiters, Owners
<1> QED
  BY <1>3, <1>4, <1>5, <1>6, <1>7, <1>8, <1>9, <1>10, <1>11, <1>12, <1>13, <1>14, <1>15, <1>16, <1>17 DEF Next

\* Every step keeps the candidates within the limit once one of them took
\* its slot under that limit.
LEMMA FitStep ==
    ASSUME TypeOK, SlotAccounting, CandidatesFit, Next
    PROVE  CandidatesFit'
<1> USE DEF TypeOK
<1>1. /\ IsFiniteSet(Owners)
      /\ Candidates \subseteq Owners
      /\ IsFiniteSet(Candidates)
      /\ Cardinality(Candidates) \in Nat
  BY GateAssumption, FS_Subset, FS_CardinalityType DEF Owners, Candidates
<1>2. limit \in Nat
  BY GateAssumption
<1>3. ASSUME Candidates' \subseteq Candidates, limit' = limit,
             \A t \in Candidates' : fresh'[t] => fresh[t]
      PROVE  CandidatesFit'
  <2>1. Cardinality(Candidates') <= Cardinality(Candidates) /\ Cardinality(Candidates') \in Nat
    BY <1>1, <1>3, FS_Subset, FS_CardinalityType
  <2> QED
    BY <1>1, <1>2, <1>3, <2>1 DEF CandidatesFit
<1>4. ASSUME NEW t \in Tasks, StartTry(t)
      PROVE  CandidatesFit'
  BY <1>3, <1>4 DEF StartTry, Goto, Candidates, HasRoom
<1>5. ASSUME NEW t \in Tasks, StartAcquire(t)
      PROVE  CandidatesFit'
  BY <1>3, <1>5 DEF StartAcquire, Goto, Candidates, HasRoom
<1>6. ASSUME NEW t \in Tasks, Register(t)
      PROVE  CandidatesFit'
  BY <1>3, <1>6 DEF Register, Goto, Candidates, HasRoom
<1>7. ASSUME NEW t \in Tasks, LoadActive(t)
      PROVE  CandidatesFit'
  BY <1>3, <1>7 DEF LoadActive, Goto, Candidates, HasRoom
<1>8. ASSUME NEW t \in Tasks, CheckLimit(t)
      PROVE  CandidatesFit'
  BY <1>3, <1>8 DEF CheckLimit, Refused, Goto, Candidates, HasRoom
<1>9. ASSUME NEW t \in Tasks, ExchangeFails(t)
      PROVE  CandidatesFit'
  BY <1>3, <1>9 DEF ExchangeFails, Goto, Candidates, HasRoom
<1>10. ASSUME NEW t \in Tasks, Recheck(t)
      PROVE  CandidatesFit'
  BY <1>3, <1>10 DEF Recheck, Goto, Candidates, HasRoom
<1>11. ASSUME NEW t \in Tasks, Return(t)
      PROVE  CandidatesFit'
  BY <1>3, <1>11 DEF Return, Goto, Candidates, HasRoom
<1>12. ASSUME NEW t \in Tasks, ReleaseSlot(t)
      PROVE  CandidatesFit'
  BY <1>3, <1>12 DEF ReleaseSlot, Goto, Candidates, HasRoom
<1>13. ASSUME NEW t \in Tasks, ReleaseNotify(t)
      PROVE  CandidatesFit'
  BY <1>3, <1>13 DEF ReleaseNotify, Refused, Goto, Candidates, HasRoom
<1>14. ASSUME NEW t \in Tasks, Wake(t)
      PROVE  CandidatesFit'
  BY <1>3, <1>14 DEF Wake, Goto, Candidates, HasRoom
<1>15. ASSUME NEW t \in Tasks, Cancel(t)
      PROVE  CandidatesFit'
  BY <1>3, <1>15 DEF Cancel, Goto, Candidates, HasRoom
<1>16. ASSUME NEW t \in Tasks, Exchange(t)
      PROVE  CandidatesFit'
  <2>1. CASE HasRoom(seen[t])
    <3>1. SUFFICES ASSUME limit # 0
                   PROVE  Cardinality(Candidates') <= limit
      BY <1>16 DEF Exchange, CandidatesFit
    <3>2. seen[t] < limit /\ active' = seen[t] + 1 /\ active' \in Nat
      BY <1>16, <2>1, <3>1 DEF Exchange, HasRoom
    <3>3. Candidates' \subseteq Owners' /\ IsFiniteSet(Owners')
      BY GateAssumption, FS_Subset DEF Owners, Candidates
    <3>4. active' = Cardinality(Owners')
      BY CountStep DEF SlotAccounting
    <3>5. Cardinality(Candidates') <= Cardinality(Owners') /\ Cardinality(Candidates') \in Nat
      BY <3>3, FS_Subset, FS_CardinalityType
    <3> QED
      BY <1>2, <3>2, <3>4, <3>5
  <2>2. CASE ~HasRoom(seen[t])
    BY <1>3, <1>16, <2>2 DEF Exchange, Goto, Candidates, HasRoom
  <2> QED
    BY <2>1, <2>2
<1>17. ASSUME NEW l \in Limits, SetLimit(l)
      PROVE  CandidatesFit'
  BY <1>17 DEF SetLimit, CandidatesFit, Candidates
<1>18. ASSUME NotifyWaiters
      PROVE  CandidatesFit'
  BY <1>3, <1>18 DEF NotifyWaiters, Candidates, HasRoom
<1> QED
  BY <1>4, <1>5, <1>6, <1>7, <1>8, <1>9, <1>10, <1>11, <1>12, <1>13, <1>14, <1>15, <1>16, <1>17, <1>18 DEF Next

-----------------------------------------------------------------------------
(* The theorems.                                                           *)

\* The induction: the initial state and every step satisfy GateInv.
LEMMA GateInvariant == Spec => []GateInv
<1>1. Init => GateInv
  <2> SUFFICES ASSUME Init PROVE GateInv
    OBVIOUS
  <2>1. Owners = {} /\ Candidates = {}
    BY DEF Init, Owners, Candidates
  <2>2. SlotAccounting
    BY <2>1, FS_EmptySet DEF Init, SlotAccounting
  <2>3. CandidatesFit
    BY <2>1 DEF CandidatesFit
  <2> QED
    BY InitType, <2>2, <2>3 DEF GateInv
<1>2. GateInv /\ [Next]_vars => GateInv'
  <2>1. CASE Next
    BY <2>1, TypeStep, CountStep, FitStep DEF GateInv
  <2>2. CASE UNCHANGED vars
    BY <2>2 DEF GateInv, vars, TypeOK, SlotAccounting, Owners, CandidatesFit,
                Candidates, HasRoom
  <2> QED
    BY <2>1, <2>2
<1> QED
  BY <1>1, <1>2, PTL DEF Spec

\* The gate's state keeps its types for any tasks and limits; `active` never
\* falls below zero in release_slot.
THEOREM GateTypes == Spec => []TypeOK
<1>1. GateInv => TypeOK
  BY DEF GateInv
<1> QED
  BY <1>1, GateInvariant, PTL

\* `active` is the number of owned slots: no cancellation, lost exchange or
\* limit change leaks a slot or frees one twice.
THEOREM GateSlots == Spec => []SlotAccounting
<1>1. GateInv => SlotAccounting
  BY DEF GateInv
<1> QED
  BY <1>1, GateInvariant, PTL

\* Once a permit rests on a slot taken under the current limit, the permits
\* respect that limit, whatever limits came before.
THEOREM GateReduction == Spec => []ReductionRespected
<1>1. GateInv => ReductionRespected
  <2> SUFFICES ASSUME GateInv, limit # 0, \E t \in Permits : fresh[t]
               PROVE  Cardinality(Permits) <= limit
    BY DEF ReductionRespected
  <2>1. Permits \subseteq Candidates
    BY DEF Permits, Candidates
  <2>2. IsFiniteSet(Candidates)
    BY GateAssumption, FS_Subset DEF Candidates
  <2>3. /\ Cardinality(Permits) <= Cardinality(Candidates)
        /\ Cardinality(Permits) \in Nat /\ Cardinality(Candidates) \in Nat
    BY <2>1, <2>2, FS_Subset, FS_CardinalityType
  <2>4. Cardinality(Candidates) <= limit
    BY <2>1 DEF GateInv, CandidatesFit
  <2>5. limit \in Nat
    BY GateAssumption DEF GateInv, TypeOK
  <2> QED
    BY <2>3, <2>4, <2>5
<1> QED
  BY <1>1, GateInvariant, PTL
-----------------------------------------------------------------------------
(***************************************************************************)
(* Wakeups.  NoLostWakeup says that somebody is on the way whenever a      *)
(* waiter sleeps beside a free slot; what is inductive is a count.  A      *)
(* token is a release that has yet to notify, a notify_one that has been   *)
(* received and not used, or a waiter that will take a slot if it finds    *)
(* `active` below l.  As long as somebody in the queue is asleep, or has   *)
(* already seen too many slots taken and will be, the tokens are as many   *)
(* as the slots that are free under l, for every l up to the limit: a      *)
(* lower l is what the limit may become while the waiter is on its way.    *)
(***************************************************************************)

InQueue(t) == Contains(queue, t)

\* Where a call of acquire_owned is while its Notified future is registered.
Registered == {"load", "check", "cas", "recheck", "undo", "undo_notify", "parked", "granted"}

Distinct(q) == \A i, j \in 1..Len(q) : q[i] = q[j] => i = j

\* The Notify state and the tasks agree on who waits for a notification.
QueueInv ==
    /\ Distinct(queue)
    /\ \A t \in Tasks : InQueue(t) <=> waits[t] /\ pc[t] \in Registered /\ notice[t] = "none"
    /\ \A t \in Tasks : notice[t] # "none" => waits[t] /\ pc[t] \in Registered
    /\ \A t \in Tasks : pc[t] \in {"register", "parked"} => waits[t]
    /\ permit => \A t \in Tasks : ~InQueue(t)

Notifying(t) == pc[t] \in {"undo_notify", "drop_notify"}
Looking(t, l) ==
    /\ waits[t]
    /\ pc[t] \in {"register", "load"} \/ (pc[t] \in {"check", "cas"} /\ seen[t] < l)
Asleep(t, l) ==
    /\ InQueue(t)
    /\ \/ pc[t] \in {"parked", "undo", "undo_notify"}
       \/ pc[t] \in {"check", "cas", "recheck"} /\ seen[t] >= l

Tokens(l) ==
    {x \in Tasks \X {"notifying", "notified", "looking"} :
        \/ x[2] = "notifying" /\ Notifying(x[1])
        \/ x[2] = "notified" /\ notice[x[1]] = "one"
        \/ x[2] = "looking" /\ Looking(x[1], l)}

\* The limits the tokens are counted for.
Within(l) == l \in Nat \ {0} /\ (limit = 0 \/ l <= limit)

TokensCover ==
    \A l \in Nat : Within(l) /\ ~admin /\ (\E t \in Tasks : Asleep(t, l))
        => l <= active + Cardinality(Tokens(l))

\* Without a limit nobody goes to sleep, and set_limit has woken the others.
NobodyStranded ==
    limit = 0 /\ ~admin => \A t \in Tasks : InQueue(t) => pc[t] \notin {"parked", "undo", "undo_notify"}

WakeInv == QueueInv /\ TokensCover /\ NobodyStranded

-----------------------------------------------------------------------------
(* The queue as a set of members.                                          *)

\* Taking the head off a queue removes that member and no other.
LEMMA TailMembers ==
    ASSUME NEW q \in Seq(Tasks), q # <<>>, Distinct(q)
    PROVE  /\ Head(q) \in Tasks /\ Contains(q, Head(q))
           /\ Distinct(Tail(q))
           /\ \A t \in Tasks : Contains(Tail(q), t) <=> Contains(q, t) /\ t # Head(q)
<1>1. /\ Len(q) \in Nat /\ Len(q) > 0 /\ Head(q) = q[1] /\ Head(q) \in Tasks
      /\ Len(Tail(q)) = Len(q) - 1
      /\ \A i \in 1..Len(q) - 1 : Tail(q)[i] = q[i + 1]
  OBVIOUS
<1>2. Contains(q, Head(q))
  BY <1>1 DEF Contains
<1>3. Distinct(Tail(q))
  BY <1>1 DEF Distinct
<1>4. ASSUME NEW t \in Tasks
      PROVE  Contains(Tail(q), t) <=> Contains(q, t) /\ t # Head(q)
  <2>1. ASSUME Contains(Tail(q), t) PROVE Contains(q, t) /\ t # Head(q)
    <3>1. PICK i \in 1..Len(q) - 1 : q[i + 1] = t
      BY <1>1, <2>1 DEF Contains
    <3> QED
      BY <1>1, <3>1 DEF Contains, Distinct
  <2>2. ASSUME Contains(q, t), t # Head(q) PROVE Contains(Tail(q), t)
    <3>1. PICK i \in 1..Len(q) : q[i] = t
      BY <2>2 DEF Contains
    <3>2. i - 1 \in 1..Len(q) - 1 /\ (i - 1) + 1 = i
      BY <1>1, <2>2, <3>1
    <3> QED
      BY <1>1, <3>1, <3>2 DEF Contains
  <2> QED
    BY <2>1, <2>2
<1> QED
  BY <1>1, <1>2, <1>3, <1>4

\* Joining the queue adds one member.
LEMMA AppendMembers ==
    ASSUME NEW q \in Seq(Tasks), NEW u \in Tasks, Distinct(q), ~Contains(q, u)
    PROVE  /\ Distinct(Append(q, u))
           /\ \A t \in Tasks : Contains(Append(q, u), t) <=> Contains(q, t) \/ t = u
<1>1. /\ Len(q) \in Nat /\ Len(Append(q, u)) = Len(q) + 1
      /\ \A i \in 1..Len(q) : Append(q, u)[i] = q[i]
      /\ Append(q, u)[Len(q) + 1] = u
  OBVIOUS
<1> QED
  BY <1>1 DEF Distinct, Contains

\* Leaving the queue removes one member.
LEMMA WithoutMembers ==
    ASSUME NEW q \in Seq(Tasks), NEW u \in Tasks, Distinct(q)
    PROVE  /\ Distinct(Without(q, u))
           /\ \A t \in Tasks : Contains(Without(q, u), t) <=> Contains(q, t) /\ t # u
<1>1. CASE ~Contains(q, u)
  BY <1>1 DEF Without
<1>2. CASE Contains(q, u)
  <2> DEFINE k == CHOOSE i \in 1..Len(q) : q[i] = u
             w == RemoveAt(q, k)
  <2>1. k \in 1..Len(q) /\ q[k] = u /\ Len(q) \in Nat
    BY <1>2 DEF Contains
  <2>2. Without(q, u) = w
    BY <1>2 DEF Without
  <2> HIDE DEF k
  <2>3. /\ Len(w) = Len(q) - 1
        /\ \A i \in 1..Len(q) - 1 : w[i] = IF i < k THEN q[i] ELSE q[i + 1]
    <3> DEFINE a == SubSeq(q, 1, k - 1)
               b == SubSeq(q, k + 1, Len(q))
    <3>1. a \in Seq(Tasks) /\ Len(a) = k - 1 /\ \A i \in 1..k - 1 : a[i] = q[i]
      BY <2>1
    <3>2. b \in Seq(Tasks) /\ Len(b) = Len(q) - k /\ \A i \in 1..Len(q) - k : b[i] = q[k + i]
      BY <2>1
    <3>3. w = a \o b
      BY DEF RemoveAt
    <3> HIDE DEF a, b, w
    <3>4. Len(w) = Len(q) - 1
      BY <2>1, <3>1, <3>2, <3>3
    <3>5. ASSUME NEW i \in 1..Len(q) - 1
          PROVE  w[i] = IF i < k THEN q[i] ELSE q[i + 1]
      <4>1. CASE i < k
        BY <2>1, <3>1, <3>2, <3>3, <4>1
      <4>2. CASE ~(i < k)
        <5>1. i - (k - 1) \in 1..Len(q) - k /\ k + (i - (k - 1)) = i + 1
          BY <2>1, <4>2
        <5>2. w[i] = b[i - (k - 1)]
          BY <2>1, <3>1, <3>2, <3>3, <5>1
        <5> QED
          BY <3>2, <4>2, <5>1, <5>2
      <4> QED
        BY <4>1, <4>2
    <3> QED
      BY <3>4, <3>5
  <2> HIDE DEF w
  <2>4. Distinct(w)
    BY <2>1, <2>3 DEF Distinct
  <2>5. ASSUME NEW t \in Tasks
        PROVE  Contains(w, t) <=> Contains(q, t) /\ t # u
    <3>1. ASSUME Contains(w, t) PROVE Contains(q, t) /\ t # u
      <4>1. PICK i \in 1..Len(q) - 1 : w[i] = t
        BY <2>3, <3>1 DEF Contains
      <4> QED
        BY <2>1, <2>3, <4>1 DEF Contains, Distinct
    <3>2. ASSUME Contains(q, t), t # u PROVE Contains(w, t)
      <4>1. PICK i \in 1..Len(q) : q[i] = t
        BY <3>2 DEF Contains
      <4>2. CASE i < k
        BY <2>1, <2>3, <4>1, <4>2 DEF Contains
      <4>3. CASE i > k
        <5>1. i - 1 \in 1..Len(q) - 1 /\ ~(i - 1 < k) /\ (i - 1) + 1 = i
          BY <2>1, <4>1, <4>3
        <5> QED
          BY <2>3, <4>1, <5>1 DEF Contains
      <4> QED
        BY <2>1, <3>2, <4>1, <4>2, <4>3
    <3> QED
      BY <3>1, <3>2
  <2> QED
    BY <2>2, <2>4, <2>5
<1> QED
  BY <1>1, <1>2

\* What notify_one does: it stores the permit when nobody is registered, and
\* otherwise picks one member h of the queue.
LEMMA NotifyOneEffect ==
    ASSUME TypeOK, Distinct(queue), NEW n \in [Tasks -> Notices], NotifyOne(queue, n)
    PROVE  /\ Distinct(queue')
           /\ \/ /\ \A t \in Tasks : ~Contains(queue, t) /\ ~Contains(queue', t)
                 /\ notice' = n
              \/ \E h \in Tasks :
                    /\ Contains(queue, h) /\ notice' = [n EXCEPT ![h] = "one"]
                    /\ permit' = permit
                    /\ \A t \in Tasks : Contains(queue', t) <=> Contains(queue, t) /\ t # h
<1>1. CASE queue = <<>>
  BY <1>1 DEF NotifyOne, Contains
<1>2. CASE queue # <<>>
  <2>1. /\ notice' = [n EXCEPT ![Head(queue)] = "one"] /\ queue' = Tail(queue)
        /\ permit' = permit
    BY <1>2 DEF NotifyOne
  <2>2. /\ Head(queue) \in Tasks /\ Contains(queue, Head(queue)) /\ Distinct(Tail(queue))
        /\ \A t \in Tasks : Contains(Tail(queue), t) <=> Contains(queue, t) /\ t # Head(queue)
    BY <1>2, TailMembers DEF TypeOK
  <2> QED
    BY <2>1, <2>2
<1> QED
  BY <1>1, <1>2

\* What dropping the Notified future of t does.
LEMMA ForgetEffect ==
    ASSUME TypeOK, Distinct(queue), NEW t \in Tasks, ForgetNotified(t)
    PROVE  /\ Distinct(queue')
           /\ \/ /\ notice[t] = "one"
                 /\ \/ /\ \A u \in Tasks : ~Contains(queue, u) /\ ~Contains(queue', u)
                       /\ notice' = [notice EXCEPT ![t] = "none"]
                    \/ \E h \in Tasks :
                          /\ Contains(queue, h) /\ permit' = permit
                          /\ notice' = [[notice EXCEPT ![t] = "none"] EXCEPT ![h] = "one"]
                          /\ \A u \in Tasks : Contains(queue', u) <=> Contains(queue, u) /\ u # h
              \/ /\ notice[t] # "one" /\ permit' = permit
                 /\ notice' = [notice EXCEPT ![t] = "none"]
                 /\ \A u \in Tasks : Contains(queue', u) <=> Contains(queue, u) /\ u # t
<1> DEFINE n == [notice EXCEPT ![t] = "none"]
<1>1. n \in [Tasks -> Notices]
  BY DEF TypeOK, Notices
<1>2. CASE notice[t] = "one"
  <2>1. NotifyOne(queue, n)
    BY <1>2 DEF ForgetNotified
  <2> QED
    BY <1>1, <1>2, <2>1, NotifyOneEffect
<1>3. CASE notice[t] # "one"
  <2>1. queue' = Without(queue, t) /\ notice' = n /\ permit' = permit
    BY <1>3 DEF ForgetNotified
  <2> QED
    BY <1>3, <2>1, WithoutMembers DEF TypeOK
<1> QED
  BY <1>2, <1>3

-----------------------------------------------------------------------------
(* Every step keeps the queue and the tasks in agreement.                  *)

\* A task that returns or gives up leaves the queue, and what it had received
\* goes to another member.
LEMMA LeaveQueue ==
    ASSUME TypeOK, QueueInv, NEW t \in Tasks, ForgetNotified(t),
           pc[t] \in Registered, NEW x \in {"idle", "holding"},
           pc' = [pc EXCEPT ![t] = x], waits' = waits
    PROVE  QueueInv'
<1> USE DEF TypeOK, QueueInv, InQueue, Registered
<1>1. Distinct(queue')
  BY ForgetEffect
<1>2. \A u \in Tasks : pc'[u] = IF u = t THEN x ELSE pc[u]
  OBVIOUS
<1>3. CASE notice[t] # "one"
  <2>1. /\ permit' = permit
        /\ \A u \in Tasks : notice'[u] = IF u = t THEN "none" ELSE notice[u]
        /\ \A u \in Tasks : Contains(queue', u) <=> Contains(queue, u) /\ u # t
    BY <1>3, ForgetEffect
  <2> QED
    BY <1>1, <1>2, <2>1
<1>4. CASE /\ notice[t] = "one"
           /\ \A u \in Tasks : ~Contains(queue, u) /\ ~Contains(queue', u)
           /\ notice' = [notice EXCEPT ![t] = "none"]
  BY <1>1, <1>2, <1>4
<1>5. ASSUME notice[t] = "one", NEW h \in Tasks, Contains(queue, h), permit' = permit,
             notice' = [[notice EXCEPT ![t] = "none"] EXCEPT ![h] = "one"],
             \A u \in Tasks : Contains(queue', u) <=> Contains(queue, u) /\ u # h
      PROVE  QueueInv'
  <2>1. h # t
    BY <1>5
  <2>2. \A u \in Tasks : notice'[u] = IF u = h THEN "one" ELSE IF u = t THEN "none" ELSE notice[u]
    BY <1>5, <2>1
  <2>3. \A u \in Tasks : Contains(queue', u)
                            <=> waits'[u] /\ pc'[u] \in Registered /\ notice'[u] = "none"
    BY <1>2, <1>5, <2>1, <2>2
  <2> QED
    BY <1>1, <1>2, <1>5, <2>1, <2>2, <2>3
<1> QED
  BY <1>3, <1>4, <1>5, ForgetEffect

\* Every step keeps QueueInv.
LEMMA QueueStep ==
    ASSUME TypeOK, QueueInv, Next
    PROVE  QueueInv'
<1> USE DEF TypeOK, QueueInv, InQueue, Registered, PCs
<1>1. ASSUME NEW t \in Tasks, StartTry(t)
      PROVE  QueueInv'
  BY <1>1 DEF StartTry, Goto, notifyVars
<1>2. ASSUME NEW t \in Tasks, StartAcquire(t)
      PROVE  QueueInv'
  BY <1>2 DEF StartAcquire, Goto, notifyVars
<1>3. ASSUME NEW t \in Tasks, Register(t)
      PROVE  QueueInv'
  <2>0. waits[t]
    BY <1>3 DEF Register
  <2>1. CASE permit
    BY <1>3, <2>1 DEF Register, Goto, Notices
  <2>2. CASE ~permit
    <3>1. /\ queue' = Append(queue, t) /\ permit' = permit /\ notice' = notice
          /\ waits' = waits /\ Goto(t, "load") /\ ~Contains(queue, t)
      BY <1>3, <2>2 DEF Register
    <3>2. /\ Distinct(queue')
          /\ \A u \in Tasks : Contains(queue', u) <=> Contains(queue, u) \/ u = t
      BY <3>1, AppendMembers
    <3>3. /\ pc[t] = "register" /\ waits[t] /\ notice[t] = "none"
          /\ \A u \in Tasks : pc'[u] = IF u = t THEN "load" ELSE pc[u]
      BY <1>3, <3>1 DEF Goto, Register
    <3>4. \A u \in Tasks : Contains(queue', u)
                              <=> waits'[u] /\ pc'[u] \in Registered /\ notice'[u] = "none"
      BY <3>1, <3>2, <3>3
    <3> QED
      BY <2>2, <3>1, <3>2, <3>3, <3>4
  <2> QED
    BY <2>1, <2>2
<1>4. ASSUME NEW t \in Tasks, LoadActive(t) \/ Exchange(t) \/ ExchangeFails(t)
      PROVE  QueueInv'
  <2>1. /\ queue' = queue /\ notice' = notice /\ permit' = permit /\ waits' = waits
        /\ pc[t] \in {"load", "cas"}
        /\ pc' = [pc EXCEPT ![t] = "check"] \/ pc' = [pc EXCEPT ![t] = "recheck"]
    BY <1>4 DEF LoadActive, Exchange, ExchangeFails, Goto, notifyVars
  <2> QED
    BY <2>1
<1>5. ASSUME NEW t \in Tasks, CheckLimit(t)
      PROVE  QueueInv'
  BY <1>5 DEF CheckLimit, Refused, Goto, notifyVars
<1>6. ASSUME NEW t \in Tasks, Recheck(t)
      PROVE  QueueInv'
  BY <1>6 DEF Recheck, Goto, notifyVars
<1>7. ASSUME NEW t \in Tasks, Return(t)
      PROVE  QueueInv'
  BY <1>7, LeaveQueue DEF Return, Goto
<1>8. ASSUME NEW t \in Tasks, Cancel(t)
      PROVE  QueueInv'
  BY <1>8, LeaveQueue DEF Cancel, Goto
<1>9. ASSUME NEW t \in Tasks, ReleaseSlot(t)
      PROVE  QueueInv'
  BY <1>9 DEF ReleaseSlot, Goto, notifyVars
<1>10. ASSUME NEW t \in Tasks, ReleaseNotify(t)
       PROVE  QueueInv'
  <2>1. /\ NotifyOne(queue, notice) /\ waits' = waits
        /\ \/ pc[t] = "undo_notify" /\ waits[t] /\ pc' = [pc EXCEPT ![t] = "parked"]
           \/ pc[t] = "undo_notify" /\ ~waits[t] /\ pc' = [pc EXCEPT ![t] = "idle"]
           \/ pc[t] = "drop_notify" /\ pc' = [pc EXCEPT ![t] = "idle"]
    BY <1>10 DEF ReleaseNotify, Refused, Goto
  <2>2. Distinct(queue') /\ notice \in [Tasks -> Notices]
    BY <2>1, NotifyOneEffect
  <2>3. \A u \in Tasks : /\ (waits'[u] /\ pc'[u] \in Registered) <=> (waits[u] /\ pc[u] \in Registered)
                         /\ pc'[u] \in {"register", "parked"} => waits'[u]
    <3> TAKE u \in Tasks
    <3>1. CASE u = t
      BY <2>1, <3>1
    <3>2. CASE u # t
      BY <2>1, <3>2
    <3> QED
      BY <3>1, <3>2
  <2>4. CASE /\ \A u \in Tasks : ~Contains(queue, u) /\ ~Contains(queue', u)
             /\ notice' = notice
    BY <2>1, <2>2, <2>4
  <2>5. CASE \E h \in Tasks :
                /\ Contains(queue, h) /\ notice' = [notice EXCEPT ![h] = "one"]
                /\ permit' = permit
                /\ \A u \in Tasks : Contains(queue', u) <=> Contains(queue, u) /\ u # h
    <3>1. PICK h \in Tasks :
              /\ Contains(queue, h) /\ notice' = [notice EXCEPT ![h] = "one"]
              /\ permit' = permit
              /\ \A u \in Tasks : Contains(queue', u) <=> Contains(queue, u) /\ u # h
      BY <2>5
    <3>2. \A u \in Tasks : notice'[u] = IF u = h THEN "one" ELSE notice[u]
      BY <3>1
    <3>3. waits[h] /\ pc[h] \in Registered /\ notice[h] = "none"
      BY <3>1
    <3>4. \A u \in Tasks : Contains(queue', u)
                              <=> waits'[u] /\ pc'[u] \in Registered /\ notice'[u] = "none"
      BY <2>1, <2>3, <3>1, <3>2
    <3>5. \A u \in Tasks : notice'[u] # "none" => waits'[u] /\ pc'[u] \in Registered
      BY <2>1, <2>3, <3>2, <3>3
    <3>6. permit' => \A u \in Tasks : ~Contains(queue', u)
      BY <3>1
    <3> QED
      BY <2>1, <2>2, <2>3, <3>4, <3>5, <3>6
  <2> QED
    BY <2>1, <2>4, <2>5, NotifyOneEffect
<1>11. ASSUME NEW t \in Tasks, Wake(t)
       PROVE  QueueInv'
  BY <1>11 DEF Wake, Goto, Notices
<1>12. ASSUME NEW l \in Limits, SetLimit(l)
       PROVE  QueueInv'
  BY <1>12 DEF SetLimit, notifyVars
<1>13. ASSUME NotifyWaiters
       PROVE  QueueInv'
  BY <1>13 DEF NotifyWaiters, Contains, Distinct, Notices
<1> QED
  BY <1>1, <1>2, <1>3, <1>4, <1>5, <1>6, <1>7, <1>8, <1>9, <1>10, <1>11, <1>12, <1>13 DEF Next

\* Joining the queue disturbs no other member of it.
LEMMA RegisterEffect ==
    ASSUME TypeOK, QueueInv, NEW t \in Tasks, Register(t)
    PROVE  \A u \in Tasks : u # t => (Contains(queue', u) => Contains(queue, u))
<1>1. CASE permit
  BY <1>1 DEF Register
<1>2. CASE ~permit
  <2>1. queue' = Append(queue, t) /\ ~Contains(queue, t)
    BY <1>2 DEF Register, QueueInv, InQueue, Registered
  <2>2. \A u \in Tasks : Contains(queue', u) <=> Contains(queue, u) \/ u = t
    BY <2>1, AppendMembers DEF TypeOK, QueueInv
  <2> QED
    BY <2>2
<1> QED
  BY <1>1, <1>2

-----------------------------------------------------------------------------
(* Every step keeps the tokens as many as the free slots.                  *)

\* The tokens are finitely many, before and after a step.
LEMMA TokensFinite ==
    ASSUME NEW l
    PROVE  /\ IsFiniteSet(Tokens(l)) /\ Cardinality(Tokens(l)) \in Nat
           /\ IsFiniteSet(Tokens(l)') /\ Cardinality(Tokens(l)') \in Nat
<1> DEFINE P == Tasks \X {"notifying", "notified", "looking"}
<1>1. IsFiniteSet({"notifying", "notified", "looking"})
  <2>1. IsFiniteSet({"notifying"})
    BY FS_Singleton
  <2>2. IsFiniteSet({"notifying"} \cup {"notified"})
    BY <2>1, FS_AddElement
  <2>3. IsFiniteSet(({"notifying"} \cup {"notified"}) \cup {"looking"})
    BY <2>2, FS_AddElement
  <2>4. ({"notifying"} \cup {"notified"}) \cup {"looking"} = {"notifying", "notified", "looking"}
    OBVIOUS
  <2> QED
    BY <2>3, <2>4
<1>2. IsFiniteSet(P)
  BY <1>1, GateAssumption, FS_Product
<1>3. Tokens(l) \in SUBSET P /\ Tokens(l)' \in SUBSET P
  BY DEF Tokens
<1> QED
  BY <1>2, <1>3, FS_Subset, FS_CardinalityType

\* Tokens that are all kept, and one more.
LEMMA TokensGrow ==
    ASSUME NEW l, Tokens(l) \subseteq Tokens(l)'
    PROVE  /\ Cardinality(Tokens(l)) <= Cardinality(Tokens(l)')
           /\ \A y : y \in Tokens(l)' /\ y \notin Tokens(l)
                => Cardinality(Tokens(l)) + 1 <= Cardinality(Tokens(l)')
<1> DEFINE S == Tokens(l)
           T == Tokens(l)'
<1>1. IsFiniteSet(S) /\ IsFiniteSet(T) /\ S \subseteq T
      /\ Cardinality(S) \in Nat /\ Cardinality(T) \in Nat
  BY TokensFinite
<1> HIDE DEF S, T
<1>2. Cardinality(S) <= Cardinality(T)
  BY <1>1, FS_Subset
<1>3. ASSUME NEW y, y \in T, y \notin S
      PROVE  Cardinality(S) + 1 <= Cardinality(T)
  <2>1. Cardinality(S \cup {y}) = Cardinality(S) + 1
    BY <1>1, <1>3, FS_AddElement
  <2>2. S \cup {y} \in SUBSET T
    BY <1>1, <1>3
  <2>3. Cardinality(S \cup {y}) <= Cardinality(T)
    BY <1>1, <2>2, FS_Subset
  <2> QED
    BY <2>1, <2>3
<1> QED
  BY <1>2, <1>3 DEF S, T

\* One token at most is used up.
LEMMA TokenUsed ==
    ASSUME NEW l, NEW x, Tokens(l) \ {x} \subseteq Tokens(l)'
    PROVE  /\ Cardinality(Tokens(l)) <= Cardinality(Tokens(l)') + 1
           /\ \A y : y \in Tokens(l)' /\ y \notin Tokens(l)
                => Cardinality(Tokens(l)) <= Cardinality(Tokens(l)')
<1> DEFINE S == Tokens(l)
           R == Tokens(l) \ {x}
           T == Tokens(l)'
<1>1. IsFiniteSet(S) /\ IsFiniteSet(T) /\ R \subseteq T
      /\ Cardinality(S) \in Nat /\ Cardinality(T) \in Nat
  BY TokensFinite
<1>2. /\ IsFiniteSet(R) /\ Cardinality(R) \in Nat
      /\ Cardinality(R) = IF x \in S THEN Cardinality(S) - 1 ELSE Cardinality(S)
  BY <1>1, FS_RemoveElement, FS_CardinalityType
<1>3. R \subseteq S
  OBVIOUS
<1> HIDE DEF S, T, R
<1>4. Cardinality(R) <= Cardinality(T)
  BY <1>1, FS_Subset
<1>5. ASSUME NEW y, y \in T, y \notin S
      PROVE  Cardinality(S) <= Cardinality(T)
  <2>1. Cardinality(R \cup {y}) = Cardinality(R) + 1
    BY <1>2, <1>3, <1>5, FS_AddElement
  <2>2. R \cup {y} \in SUBSET T
    BY <1>1, <1>5
  <2>3. Cardinality(R \cup {y}) <= Cardinality(T)
    BY <1>1, <2>2, FS_Subset
  <2> QED
    BY <1>1, <1>2, <2>1, <2>3
<1>6. Cardinality(S) <= Cardinality(T) + 1
  BY <1>1, <1>2, <1>4
<1> QED
  BY <1>5, <1>6 DEF S, T

\* Tokens of one kind each.
LEMMA TokenKinds ==
    ASSUME NEW l, NEW t \in Tasks
    PROVE  /\ <<t, "notifying">> \in Tokens(l) <=> Notifying(t)
           /\ <<t, "notified">> \in Tokens(l) <=> notice[t] = "one"
           /\ <<t, "looking">> \in Tokens(l) <=> Looking(t, l)
           /\ <<t, "notifying">> \in Tokens(l)' <=> Notifying(t)'
           /\ <<t, "notified">> \in Tokens(l)' <=> notice'[t] = "one"
           /\ <<t, "looking">> \in Tokens(l)' <=> Looking(t, l)'
BY DEF Tokens

\* What remains of the tokens when one of them, x, may be gone.
LEMMA TokensKept ==
    ASSUME NEW l, NEW x,
           \A t \in Tasks :
              /\ Notifying(t) /\ x # <<t, "notifying">> => Notifying(t)'
              /\ notice[t] = "one" /\ x # <<t, "notified">> => notice'[t] = "one"
              /\ Looking(t, l) /\ x # <<t, "looking">> => Looking(t, l)'
    PROVE  Tokens(l) \ {x} \subseteq Tokens(l)'
BY DEF Tokens

\* What remains of them when none is gone.
LEMMA TokensAllKept ==
    ASSUME NEW l,
           \A t \in Tasks : /\ Notifying(t) => Notifying(t)'
                            /\ notice[t] = "one" => notice'[t] = "one"
                            /\ Looking(t, l) => Looking(t, l)'
    PROVE  Tokens(l) \subseteq Tokens(l)'
BY DEF Tokens

\* Every step keeps TokensCover.
LEMMA TokenStep ==
    ASSUME TypeOK, TypeOK', QueueInv, QueueInv', TokensCover, Next
    PROVE  TokensCover'
<1> SUFFICES ASSUME NEW l \in Nat, Within(l)', ~admin', NEW s \in Tasks, Asleep(s, l)'
             PROVE  l <= active' + Cardinality(Tokens(l)')
  BY DEF TokensCover
<1> USE DEF TypeOK, Notifying, Looking, Asleep
<1>0. /\ IsFiniteSet(Tokens(l)) /\ Cardinality(Tokens(l)) \in Nat
      /\ IsFiniteSet(Tokens(l)') /\ Cardinality(Tokens(l)') \in Nat
      /\ active \in Nat /\ active' \in Nat
  BY TokensFinite
<1>1. ASSUME Within(l), ~admin, \E u \in Tasks : Asleep(u, l)
      PROVE  l <= active + Cardinality(Tokens(l))
  BY <1>1 DEF TokensCover
<1>2. ASSUME limit' = limit, admin' = admin, Asleep(s, l), active' = active,
             Tokens(l) \subseteq Tokens(l)'
      PROVE  l <= active' + Cardinality(Tokens(l)')
  <2>1. l <= active + Cardinality(Tokens(l))
    BY <1>1, <1>2 DEF Within
  <2>2. Cardinality(Tokens(l)) <= Cardinality(Tokens(l)')
    BY <1>2, TokensGrow
  <2> QED
    BY <1>0, <1>2, <2>1, <2>2
<1>3. ASSUME active' >= l
      PROVE  l <= active' + Cardinality(Tokens(l)')
  BY <1>0, <1>3
<1>4. ASSUME NEW t \in Tasks, StartTry(t)
      PROVE  l <= active' + Cardinality(Tokens(l)')
  <2>1. notice[t] = "none"
    BY <1>4 DEF StartTry, QueueInv, Registered
  <2>2. Tokens(l) \subseteq Tokens(l)'
    BY <1>4, TokensAllKept DEF StartTry, Goto, notifyVars
  <2>3. Asleep(s, l)
    BY <1>4 DEF StartTry, Goto, notifyVars, InQueue
  <2> QED
    BY <1>2, <1>4, <2>2, <2>3 DEF StartTry
<1>5. ASSUME NEW t \in Tasks, StartAcquire(t)
      PROVE  l <= active' + Cardinality(Tokens(l)')
  <2>1. Tokens(l) \subseteq Tokens(l)'
    BY <1>5, TokensAllKept DEF StartAcquire, Goto, notifyVars
  <2>2. Asleep(s, l)
    BY <1>5 DEF StartAcquire, Goto, notifyVars, InQueue
  <2> QED
    BY <1>2, <1>5, <2>1, <2>2 DEF StartAcquire
<1>6. ASSUME NEW t \in Tasks, Register(t)
      PROVE  l <= active' + Cardinality(Tokens(l)')
  <2>1. \A u \in Tasks : u # t => (Contains(queue', u) => Contains(queue, u))
    BY <1>6, RegisterEffect
  <2>2. notice[t] = "none"
    BY <1>6 DEF Register, QueueInv, Registered
  <2>3. Tokens(l) \subseteq Tokens(l)'
    BY <1>6, <2>2, TokensAllKept DEF Register, Goto
  <2>4. Asleep(s, l)
    BY <1>6, <2>1 DEF Register, Goto, InQueue
  <2> QED
    BY <1>2, <1>6, <2>3, <2>4 DEF Register
<1>7. ASSUME NEW t \in Tasks, LoadActive(t)
      PROVE  l <= active' + Cardinality(Tokens(l)')
  <2>1. CASE active >= l
    BY <1>3, <1>7, <2>1 DEF LoadActive
  <2>2. CASE active < l
    <3>1. Tokens(l) \subseteq Tokens(l)'
      BY <1>7, <2>2, TokensAllKept DEF LoadActive, Goto, notifyVars
    <3>2. Asleep(s, l)
      BY <1>7, <2>2 DEF LoadActive, Goto, notifyVars, InQueue
    <3> QED
      BY <1>2, <1>7, <3>1, <3>2 DEF LoadActive
  <2> QED
    BY <1>0, <2>1, <2>2
<1>8. ASSUME NEW t \in Tasks, CheckLimit(t)
      PROVE  l <= active' + Cardinality(Tokens(l)')
  <2>1. CASE HasRoom(seen[t])
    <3>1. Tokens(l) \subseteq Tokens(l)'
      BY <1>8, <2>1, TokensAllKept DEF CheckLimit, Goto, notifyVars
    <3>2. Asleep(s, l)
      BY <1>8, <2>1 DEF CheckLimit, Goto, notifyVars, InQueue
    <3> QED
      BY <1>2, <1>8, <3>1, <3>2 DEF CheckLimit
  <2>2. CASE ~HasRoom(seen[t])
    <3>1. seen[t] >= l /\ ~(seen[t] < l)
      BY <1>8, <2>2, GateAssumption DEF CheckLimit, HasRoom, Within
    <3>2. Tokens(l) \subseteq Tokens(l)'
      BY <1>8, <2>2, <3>1, TokensAllKept DEF CheckLimit, Refused, Goto, notifyVars
    <3>3. Asleep(s, l)
      BY <1>8, <2>2, <3>1 DEF CheckLimit, Refused, Goto, notifyVars, InQueue
    <3> QED
      BY <1>2, <1>8, <3>2, <3>3 DEF CheckLimit
  <2> QED
    BY <2>1, <2>2
<1>9. ASSUME NEW t \in Tasks, Exchange(t)
      PROVE  l <= active' + Cardinality(Tokens(l)')
  <2>1. Tokens(l) \ {<<t, "looking">>} \subseteq Tokens(l)'
    BY <1>9, TokensKept DEF Exchange, Goto, notifyVars
  <2>2. Asleep(s, l) /\ active' = active + 1
    BY <1>9 DEF Exchange, Goto, notifyVars, InQueue
  <2>3. l <= active + Cardinality(Tokens(l))
    BY <1>1, <1>9, <2>2 DEF Exchange, Within
  <2>4. Cardinality(Tokens(l)) <= Cardinality(Tokens(l)') + 1
    BY <2>1, TokenUsed
  <2> QED
    BY <1>0, <2>2, <2>3, <2>4
<1>10. ASSUME NEW t \in Tasks, ExchangeFails(t)
       PROVE  l <= active' + Cardinality(Tokens(l)')
  <2>1. CASE active >= l
    BY <1>3, <1>10, <2>1 DEF ExchangeFails
  <2>2. CASE active < l
    <3>1. Tokens(l) \subseteq Tokens(l)'
      BY <1>10, <2>2, TokensAllKept DEF ExchangeFails, Goto, notifyVars
    <3>2. Asleep(s, l)
      BY <1>10, <2>2 DEF ExchangeFails, Goto, notifyVars, InQueue
    <3> QED
      BY <1>2, <1>10, <3>1, <3>2 DEF ExchangeFails
  <2> QED
    BY <1>0, <2>1, <2>2
<1>11. ASSUME NEW t \in Tasks, Recheck(t)
       PROVE  l <= active' + Cardinality(Tokens(l)')
  <2>1. Tokens(l) \subseteq Tokens(l)'
    BY <1>11, TokensAllKept DEF Recheck, Goto, notifyVars
  <2>2. CASE s # t
    BY <1>2, <1>11, <2>1, <2>2 DEF Recheck, Goto, notifyVars, InQueue
  <2>3. CASE s = t
    <3>1. ~HasRoom(seen[t])
      BY <1>11, <2>3 DEF Recheck, Goto
    <3>2. seen[t] >= l
      BY <1>11, <3>1, GateAssumption DEF Recheck, HasRoom, Within
    <3>3. Asleep(s, l)
      BY <1>11, <2>3, <3>2 DEF Recheck, Goto, notifyVars, InQueue
    <3> QED
      BY <1>2, <1>11, <2>1, <3>3 DEF Recheck
  <2> QED
    BY <2>2, <2>3
<1>12. ASSUME NEW t \in Tasks, ForgetNotified(t), pc[t] \in {"granted", "parked"},
              NEW x \in {"idle", "holding"}, Goto(t, x),
              UNCHANGED <<active, limit, waits, seen, admin>>
       PROVE  l <= active' + Cardinality(Tokens(l)')
  <2>0. \A u \in Tasks : pc'[u] = IF u = t THEN x ELSE pc[u]
    BY <1>12 DEF Goto
  <2>1. s # t
    BY <1>12, <2>0
  <2>2. CASE notice[t] # "one"
    <3>1. /\ \A u \in Tasks : notice'[u] = IF u = t THEN "none" ELSE notice[u]
          /\ \A u \in Tasks : Contains(queue', u) <=> Contains(queue, u) /\ u # t
      BY <2>2, <1>12, ForgetEffect DEF QueueInv
    <3>2. Tokens(l) \subseteq Tokens(l)'
      BY <1>12, <2>0, <2>2, <3>1, TokensAllKept
    <3>3. Asleep(s, l)
      BY <1>12, <2>0, <2>1, <3>1 DEF InQueue
    <3> QED
      BY <1>2, <1>12, <3>2, <3>3
  <2>3. CASE \A u \in Tasks : ~Contains(queue', u)
    BY <2>3 DEF InQueue
  <2>4. ASSUME notice[t] = "one", NEW h \in Tasks, Contains(queue, h),
               notice' = [[notice EXCEPT ![t] = "none"] EXCEPT ![h] = "one"],
               \A u \in Tasks : Contains(queue', u) <=> Contains(queue, u) /\ u # h
        PROVE  l <= active' + Cardinality(Tokens(l)')
    <3>1. notice[h] = "none" /\ h # t
      BY <2>4 DEF QueueInv, InQueue
    <3>2. \A u \in Tasks : notice'[u] = IF u = h THEN "one" ELSE IF u = t THEN "none" ELSE notice[u]
      BY <2>4, <3>1
    <3>3. Tokens(l) \ {<<t, "notified">>} \subseteq Tokens(l)'
      BY <1>12, <2>0, <3>1, <3>2, TokensKept
    <3>4. <<h, "notified">> \notin Tokens(l) /\ <<h, "notified">> \in Tokens(l)'
      BY <3>1, <3>2, TokenKinds
    <3>5. Asleep(s, l)
      BY <1>12, <2>0, <2>1, <2>4 DEF InQueue
    <3>6. l <= active + Cardinality(Tokens(l))
      BY <1>1, <1>12, <3>5 DEF Within
    <3>7. Cardinality(Tokens(l)) <= Cardinality(Tokens(l)')
      BY <3>3, <3>4, TokenUsed
    <3> QED
      BY <1>0, <1>12, <3>6, <3>7
  <2>5. ASSUME notice[t] = "one"
        PROVE  \/ \A u \in Tasks : ~Contains(queue', u)
               \/ \E h \in Tasks :
                     /\ Contains(queue, h)
                     /\ notice' = [[notice EXCEPT ![t] = "none"] EXCEPT ![h] = "one"]
                     /\ \A u \in Tasks : Contains(queue', u) <=> Contains(queue, u) /\ u # h
    BY <1>12, <2>5, ForgetEffect DEF QueueInv
  <2> QED
    BY <2>2, <2>3, <2>4, <2>5
<1>13. ASSUME NEW t \in Tasks, Return(t) \/ Cancel(t)
       PROVE  l <= active' + Cardinality(Tokens(l)')
  BY <1>12, <1>13 DEF Return, Cancel
<1>14. ASSUME NEW t \in Tasks, ReleaseSlot(t)
       PROVE  l <= active' + Cardinality(Tokens(l)')
  <2>1. Tokens(l) \subseteq Tokens(l)'
    BY <1>14, TokensAllKept DEF ReleaseSlot, Goto, notifyVars
  <2>2. <<t, "notifying">> \notin Tokens(l) /\ <<t, "notifying">> \in Tokens(l)'
    BY <1>14, TokenKinds DEF ReleaseSlot, Goto
  <2>3. Asleep(s, l) /\ active' = active - 1
    BY <1>14 DEF ReleaseSlot, Goto, notifyVars, InQueue
  <2>4. l <= active + Cardinality(Tokens(l))
    BY <1>1, <1>14, <2>3 DEF ReleaseSlot, Within
  <2>5. Cardinality(Tokens(l)) + 1 <= Cardinality(Tokens(l)')
    BY <2>1, <2>2, TokensGrow
  <2> QED
    BY <1>0, <2>3, <2>4, <2>5
<1>15. ASSUME NEW t \in Tasks, ReleaseNotify(t)
       PROVE  l <= active' + Cardinality(Tokens(l)')
  <2>1. /\ NotifyOne(queue, notice) /\ waits' = waits /\ seen' = seen /\ active' = active
        /\ limit' = limit /\ admin' = admin /\ pc[t] \in {"undo_notify", "drop_notify"}
    BY <1>15 DEF ReleaseNotify
  <2>2. /\ \A u \in Tasks : u # t => pc'[u] = pc[u]
        /\ pc'[t] \in {"parked", "idle"} /\ (pc'[t] = "parked" => pc[t] = "undo_notify")
    BY <1>15 DEF ReleaseNotify, Refused, Goto
  <2>3. CASE \A u \in Tasks : ~Contains(queue', u)
    BY <2>3 DEF InQueue
  <2>4. ASSUME NEW h \in Tasks, Contains(queue, h), notice' = [notice EXCEPT ![h] = "one"],
               \A u \in Tasks : Contains(queue', u) <=> Contains(queue, u) /\ u # h
        PROVE  l <= active' + Cardinality(Tokens(l)')
    <3>1. notice[h] = "none"
      BY <2>4 DEF QueueInv, InQueue
    <3>2. Tokens(l) \ {<<t, "notifying">>} \subseteq Tokens(l)'
      BY <2>1, <2>2, <2>4, TokensKept
    <3>3. <<h, "notified">> \notin Tokens(l) /\ <<h, "notified">> \in Tokens(l)'
      BY <2>4, <3>1, TokenKinds
    <3>4. Asleep(s, l)
      BY <2>1, <2>2, <2>4 DEF InQueue
    <3>5. l <= active + Cardinality(Tokens(l))
      BY <1>1, <2>1, <3>4 DEF Within
    <3>6. Cardinality(Tokens(l)) <= Cardinality(Tokens(l)')
      BY <3>2, <3>3, TokenUsed
    <3> QED
      BY <1>0, <2>1, <3>5, <3>6
  <2> QED
    BY <2>1, <2>3, <2>4, NotifyOneEffect DEF QueueInv
<1>16. ASSUME NEW t \in Tasks, Wake(t)
       PROVE  l <= active' + Cardinality(Tokens(l)')
  <2>0. waits[t]
    BY <1>16 DEF Wake, QueueInv
  <2>1. Asleep(s, l)
    BY <1>16 DEF Wake, Goto, InQueue
  <2>2. Tokens(l) \ {<<t, "notified">>} \subseteq Tokens(l)'
    BY <1>16, TokensKept DEF Wake, Goto
  <2>3. <<t, "looking">> \notin Tokens(l) /\ <<t, "looking">> \in Tokens(l)'
    BY <1>16, <2>0, TokenKinds DEF Wake, Goto
  <2>4. l <= active + Cardinality(Tokens(l)) /\ active' = active
    BY <1>1, <1>16, <2>1 DEF Wake, Within
  <2>5. Cardinality(Tokens(l)) <= Cardinality(Tokens(l)')
    BY <2>2, <2>3, TokenUsed
  <2> QED
    BY <1>0, <2>4, <2>5
<1>17. ASSUME NEW m \in Limits, SetLimit(m)
       PROVE  l <= active' + Cardinality(Tokens(l)')
  <2>1. Within(l) /\ ~admin /\ active' = active
    <3>1. limit \in Nat /\ m \in Nat /\ limit' = m /\ active' = active /\ ~admin
      BY <1>17, GateAssumption DEF SetLimit
    <3>2. ~(m = 0 \/ (limit # 0 /\ m > limit))
      BY <1>17, Zenon DEF SetLimit
    <3> QED
      BY <3>1, <3>2 DEF Within
  <2>2. Asleep(s, l)
    BY <1>17 DEF SetLimit, notifyVars, InQueue
  <2>3. Tokens(l) \subseteq Tokens(l)'
    BY <1>17, TokensAllKept DEF SetLimit, notifyVars
  <2>4. Cardinality(Tokens(l)) <= Cardinality(Tokens(l)')
    BY <2>3, TokensGrow
  <2>5. l <= active + Cardinality(Tokens(l))
    BY <1>1, <2>1, <2>2
  <2> QED
    BY <1>0, <2>1, <2>4, <2>5
<1>18. ASSUME NotifyWaiters
       PROVE  l <= active' + Cardinality(Tokens(l)')
  BY <1>18 DEF NotifyWaiters, InQueue, Contains
<1> QED
  BY <1>4, <1>5, <1>6, <1>7, <1>8, <1>9, <1>10, <1>11, <1>13, <1>14, <1>15, <1>16, <1>17, <1>18
     DEF Next

\* Every step keeps NobodyStranded.
LEMMA StrandedStep ==
    ASSUME TypeOK, TypeOK', QueueInv, QueueInv', NobodyStranded, Next
    PROVE  NobodyStranded'
<1> SUFFICES ASSUME limit' = 0, ~admin', NEW s \in Tasks, InQueue(s)'
             PROVE  pc'[s] \notin {"parked", "undo", "undo_notify"}
  BY DEF NobodyStranded
<1> USE DEF TypeOK, InQueue
<1>1. ASSUME limit = 0, ~admin, InQueue(s), pc'[s] = pc[s]
      PROVE  pc'[s] \notin {"parked", "undo", "undo_notify"}
  BY <1>1 DEF NobodyStranded
<1>2. ASSUME NEW t \in Tasks,
             StartTry(t) \/ StartAcquire(t) \/ LoadActive(t) \/ Exchange(t)
                \/ ExchangeFails(t) \/ Wake(t)
      PROVE  pc'[s] \notin {"parked", "undo", "undo_notify"}
  <2>1. limit' = limit /\ admin' = admin /\ queue' = queue
        /\ (pc'[s] = pc[s] \/ pc'[s] \in {"load", "register", "check", "recheck"})
    BY <1>2 DEF StartTry, StartAcquire, LoadActive, Exchange, ExchangeFails, Wake, Goto, notifyVars
  <2> QED
    BY <1>1, <2>1
<1>3. ASSUME NEW t \in Tasks, CheckLimit(t) \/ Recheck(t)
      PROVE  pc'[s] \notin {"parked", "undo", "undo_notify"}
  <2>1. limit' = limit /\ admin' = admin /\ queue' = queue
        /\ (pc'[s] = pc[s] \/ pc'[s] \in {"cas", "granted", "holding"})
    BY <1>3 DEF CheckLimit, Recheck, HasRoom, Goto, notifyVars
  <2> QED
    BY <1>1, <2>1
<1>4. ASSUME NEW t \in Tasks, Register(t)
      PROVE  pc'[s] \notin {"parked", "undo", "undo_notify"}
  <2>1. s # t => InQueue(s)
    BY <1>4, RegisterEffect
  <2> QED
    BY <1>1, <1>4, <2>1 DEF Register, Goto
<1>5. ASSUME NEW t \in Tasks, Return(t) \/ Cancel(t)
      PROVE  pc'[s] \notin {"parked", "undo", "undo_notify"}
  <2>1. ForgetNotified(t) /\ (Goto(t, "holding") \/ Goto(t, "idle"))
        /\ limit' = limit /\ admin' = admin
    BY <1>5 DEF Return, Cancel
  <2>2. InQueue(s)
    BY <2>1, ForgetEffect DEF QueueInv
  <2> QED
    BY <1>1, <2>1, <2>2 DEF Goto
<1>6. ASSUME NEW t \in Tasks, ReleaseSlot(t)
      PROVE  pc'[s] \notin {"parked", "undo", "undo_notify"}
  BY <1>6 DEF ReleaseSlot, Goto, notifyVars, NobodyStranded, QueueInv, Registered
<1>7. ASSUME NEW t \in Tasks, ReleaseNotify(t)
      PROVE  pc'[s] \notin {"parked", "undo", "undo_notify"}
  <2>1. InQueue(s)
    BY <1>7, NotifyOneEffect DEF ReleaseNotify, QueueInv
  <2> QED
    BY <1>7, <2>1 DEF ReleaseNotify, Refused, Goto, NobodyStranded, QueueInv, Registered
<1>8. ASSUME NEW m \in Limits, SetLimit(m)
      PROVE  pc'[s] \notin {"parked", "undo", "undo_notify"}
  BY <1>8 DEF SetLimit
<1>9. ASSUME NotifyWaiters
      PROVE  pc'[s] \notin {"parked", "undo", "undo_notify"}
  BY <1>9 DEF NotifyWaiters, Contains
<1> QED
  BY <1>2, <1>3, <1>4, <1>5, <1>6, <1>7, <1>8, <1>9 DEF Next

\* The induction: the initial state and every step satisfy WakeInv.
LEMMA WakeInvariant == Spec => []WakeInv
<1>1. Init => WakeInv
  <2> SUFFICES ASSUME Init PROVE WakeInv
    OBVIOUS
  <2>1. \A t \in Tasks : ~InQueue(t)
    BY DEF Init, InQueue, Contains
  <2>2. QueueInv
    BY <2>1 DEF Init, QueueInv, Distinct, Registered
  <2> QED
    BY <2>1, <2>2 DEF WakeInv, TokensCover, NobodyStranded, Asleep
<1>2. GateInv /\ WakeInv /\ [Next]_vars => WakeInv'
  <2> SUFFICES ASSUME GateInv, WakeInv, [Next]_vars PROVE WakeInv'
    OBVIOUS
  <2>1. CASE Next
    BY <2>1, TypeStep, QueueStep, TokenStep, StrandedStep DEF GateInv, WakeInv
  <2>2. CASE UNCHANGED vars
    BY <2>2 DEF vars, WakeInv, QueueInv, InQueue, TokensCover, Within, Asleep, Tokens,
                Notifying, Looking, NobodyStranded
  <2> QED
    BY <2>1, <2>2
<1> QED
  BY <1>1, <1>2, GateInvariant, PTL DEF Spec

\* No waiter of acquire_owned is forgotten, for any number of tasks and any
\* sequence of limits: when a slot is free and somebody sleeps, somebody else
\* is on the way to wake a waiter or to take the slot.
THEOREM GateWakeups == Spec => []WakeupsSound
<1>1. GateInv /\ WakeInv => WakeupsSound
  <2> SUFFICES ASSUME GateInv, WakeInv, NEW t \in Tasks, pc[t] = "parked",
                      notice[t] = "none", HasRoom(active), ~admin
               PROVE  WakeupPending
    BY DEF GateInv, WakeupsSound, NoLostWakeup, WakeupPending
  <2>1. InQueue(t)
    BY DEF WakeInv, QueueInv, Registered, InQueue
  <2>2. limit # 0 /\ limit \in Nat
    BY <2>1, GateAssumption DEF WakeInv, NobodyStranded, GateInv, TypeOK
  <2>3. active < limit /\ active \in Nat
    BY <2>2 DEF HasRoom, GateInv, TypeOK
  <2>4. limit <= active + Cardinality(Tokens(limit))
    BY <2>1, <2>2 DEF WakeInv, TokensCover, Within, Asleep
  <2>5. Cardinality(Tokens(limit)) # 0
    BY <2>2, <2>3, <2>4
  <2>6. PICK x \in Tokens(limit) : TRUE
    BY <2>5, FS_EmptySet
  <2>7. x[1] \in Tasks
    BY <2>6 DEF Tokens
  <2> QED
    BY <2>6, <2>7 DEF Tokens, Notifying, Looking, WakeupPending
<1> QED
  BY <1>1, GateInvariant, WakeInvariant, PTL

---------------------------------------------------------------------------
(***************************************************************************)
(* The rate limiter.                                                       *)
(*                                                                         *)
(* The count of an identity and what is left of its quota are bounded      *)
(* together, for every moment since which one counts: by the capacity and  *)
(* the intervals up to the last refill (BucketOK), or by the cap of the    *)
(* window and the one before it (WindowOK).  That pruning is invisible     *)
(* rests on comparing the limiter with one that never forgets: where their *)
(* entries differ, the other one is whole again (TiedOK).                  *)
(***************************************************************************)

(* Whole intervals.                                                        *)

\* Multiples of a positive number, by the sign of the factor.
LEMMA ProductGrows ==
  ASSUME NEW w \in Nat \ {0}, NEW d \in Int
  PROVE  /\ w * d \in Int
         /\ (d >= 0) => w * d >= 0
         /\ (d >= 1) => w * d >= w
         /\ (d < 0) => w * d < 0
         /\ (d < 0) => w * d <= -w
OBVIOUS

\* Multiplication over sums and differences.
LEMMA ProductParts ==
  ASSUME NEW w \in Int, NEW d \in Int, NEW k \in Int
  PROVE  /\ w * (d + k) = w * d + w * k
         /\ w * (d - k) = w * d - w * k
         /\ w * d = d * w
         /\ w * (d - 1) = w * d - w
OBVIOUS

\* A number lies between its quotient and the next one.
LEMMA QuotientBounds ==
  ASSUME NEW w \in Nat \ {0}, NEW x \in Int
  PROVE  /\ x \div w \in Int
         /\ w * (x \div w) <= x /\ x < w * (x \div w) + w
OBVIOUS

\* The quotient rounded up is the first that reaches the number.
LEMMA CeilBounds ==
  ASSUME NEW w \in Nat \ {0}, NEW x \in Int
  PROVE  /\ CeilDiv(x, w) \in Int
         /\ w * CeilDiv(x, w) >= x /\ w * CeilDiv(x, w) < x + w
<1> DEFINE y == x + w - 1
<1>1. y \in Int
  OBVIOUS
<1>2. CeilDiv(x, w) = y \div w
  BY DEF CeilDiv
<1> HIDE DEF y
<1>3. y \div w \in Int /\ w * (y \div w) <= y /\ y < w * (y \div w) + w
  BY <1>1, QuotientBounds
<1>4. w * (y \div w) \in Int
  BY <1>3
<1> QED BY <1>2, <1>3, <1>4 DEF y

\* A larger number needs no fewer intervals.
LEMMA CeilMonotone ==
  ASSUME NEW w \in Nat \ {0}, NEW x \in Int, NEW y \in Int, x <= y
  PROVE  CeilDiv(x, w) <= CeilDiv(y, w)
<1> DEFINE p == CeilDiv(x, w)  q == CeilDiv(y, w)
<1>1. /\ p \in Int /\ q \in Int /\ w * p \in Int /\ w * q \in Int
      /\ w * p < x + w /\ w * q >= y
  <2>1. p \in Int /\ w * p < x + w
    BY CeilBounds
  <2>2. q \in Int /\ w * q >= y
    BY CeilBounds
  <2> HIDE DEF p, q
  <2> QED BY <2>1, <2>2
<1> HIDE DEF p, q
<1>2. w * (q - p) = w * q - w * p
  BY <1>1, ProductParts
<1>3. w * (q - p) > -w
  BY <1>1, <1>2
<1>4. ~(q - p < 0)
  BY <1>1, <1>3, ProductGrows
<1> QED BY <1>1, <1>4 DEF p, q

\* Whole intervals add to the quotient.
LEMMA CeilShift ==
  ASSUME NEW w \in Nat \ {0}, NEW x \in Int, NEW k \in Int
  PROVE  k * w \in Int /\ CeilDiv(x + k * w, w) = CeilDiv(x, w) + k
<1> DEFINE y == x + k * w
           p == CeilDiv(x, w)  q == CeilDiv(y, w)
<1>1. y \in Int /\ k * w \in Int /\ w * k = k * w
  OBVIOUS
<1>1a. y = x + w * k
  BY <1>1
<1>2. /\ p \in Int /\ q \in Int /\ w * p \in Int /\ w * q \in Int
      /\ w * p < x + w /\ w * q >= y /\ w * p >= x /\ w * q < y + w
  <2>1. p \in Int /\ w * p < x + w /\ w * p >= x
    BY CeilBounds
  <2> HIDE DEF y
  <2>2. q \in Int /\ w * q >= y /\ w * q < y + w
    BY <1>1, CeilBounds
  <2> HIDE DEF p, q
  <2> QED BY <2>1, <2>2
<1> HIDE DEF p, q, y
<1>3. /\ w * (q - (p + k)) = w * q - w * (p + k)
      /\ w * ((p + k) - q) = w * (p + k) - w * q
      /\ w * (p + k) = w * p + w * k
      /\ w * k \in Int
  BY <1>2, ProductParts
<1>4. w * (q - (p + k)) > -w /\ w * ((p + k) - q) > -w
  BY <1>1, <1>1a, <1>2, <1>3
<1>5. ~(q - (p + k) < 0) /\ ~((p + k) - q < 0)
  BY <1>2, <1>4, ProductGrows
<1> QED BY <1>1, <1>2, <1>5 DEF p, q, y

\* More than minus one interval rounds up to at least none.
LEMMA CeilSign ==
  ASSUME NEW w \in Nat \ {0}, NEW x \in Int, x > -w
  PROVE  CeilDiv(x, w) \in Nat
<1> DEFINE p == CeilDiv(x, w)
<1>1. p \in Int /\ w * p \in Int /\ w * p >= x
  BY CeilBounds
<1> HIDE DEF p
<1>2. ~(p < 0)
  BY <1>1, ProductGrows
<1> QED BY <1>1, <1>2 DEF p

\* Reaching the quotient rounded up is reaching the number.
LEMMA CeilReached ==
  ASSUME NEW w \in Nat \ {0}, NEW x \in Int, NEW k \in Int
  PROVE  /\ k * w \in Int
         /\ k >= CeilDiv(x, w) => k * w >= x
         /\ k < CeilDiv(x, w) => k * w < x
<1> DEFINE p == CeilDiv(x, w)
<1>1. p \in Int /\ w * p \in Int /\ w * p >= x /\ w * p < x + w
  BY CeilBounds
<1> HIDE DEF p
<1>2. /\ w * (k - p) = w * k - w * p
      /\ w * k = k * w /\ w * k \in Int
  BY <1>1, ProductParts
<1>3. ASSUME k >= p PROVE k * w >= x
  <2>1. w * (k - p) >= 0
    BY <1>1, <1>3, ProductGrows
  <2> QED BY <1>1, <1>2, <2>1
<1>4. ASSUME k < p PROVE k * w < x
  <2>1. w * (k - p) <= -w
    BY <1>1, <1>4, ProductGrows
  <2> QED BY <1>1, <1>2, <2>1
<1> QED BY <1>2, <1>3, <1>4 DEF p

\* A larger number has no smaller quotient.
LEMMA QuotientMonotone ==
  ASSUME NEW w \in Nat \ {0}, NEW x \in Int, NEW y \in Int, x <= y
  PROVE  x \div w <= y \div w
<1> DEFINE p == x \div w  q == y \div w
<1>1. p \in Int /\ w * p <= x
  BY QuotientBounds
<1>2. q \in Int /\ y < w * q + w
  BY QuotientBounds
<1> HIDE DEF p, q
<1>3. w * (q - p) = w * q - w * p /\ w * q \in Int /\ w * p \in Int
  BY <1>1, <1>2, ProductParts
<1>4. w * (q - p) > -w
  BY <1>1, <1>2, <1>3
<1>5. ~(q - p < 0)
  BY <1>1, <1>2, <1>4, ProductGrows
<1> QED BY <1>1, <1>2, <1>5 DEF p, q

---------------------------------------------------------------------------
(* The inductive invariant of the limiter.                                 *)
Quotas == [left : Int, at : Int, seen : Int]
Since(g, a) == Cardinality({n \in 1..Len(g) : a <= g[n]})

\* A bucket: what was granted since a and what is left come from the capacity
\* and the intervals between a and the last one that was added.
BucketOK(pol, e, g) ==
    /\ 0 <= e.left /\ (e.left = pol.cap => g = <<>>)
    /\ \A a \in 0..e.seen : Since(g, a) + e.left <= pol.cap + pol.refill * CeilDiv(e.at - a, pol.window)
\* A window: its own requests are within the cap, those after its first within
\* one less, and so are those less than a window before it.
WindowOK(pol, e, g) ==
    /\ Since(g, e.at) + e.left <= pol.cap /\ (e.left < 0 => Since(g, e.at) = 0)
    /\ Since(g, e.at + 1) + e.left <= pol.cap - 1
    /\ \A a \in 0..e.at : a > e.at - pol.window => Since(g, a) <= pol.cap - 1 + Since(g, e.at)
QuotaOK(pol, e, g, now) ==
    /\ e.at \in 0..now /\ e.seen \in 0..now /\ e.left <= pol.cap /\ e.seen - e.at < pol.window
    /\ \A n \in 1..Len(g) : g[n] <= e.seen
    /\ IF pol.kind = "bucket" THEN BucketOK(pol, e, g) ELSE WindowOK(pol, e, g)
\* The quota is back to what a new entry would get.
Whole(pol, e, now) ==
    /\ e # NoEntry
    /\ IF pol.kind = "window" THEN now - e.at >= pol.window
       ELSE (now - e.at) \div pol.window >= CeilDiv(pol.cap - e.left, pol.refill) /\ e.left < pol.cap

LimTyped ==
    /\ policy \in Policies /\ clock \in Nat
    /\ entries \in [Ids -> Quotas] /\ ideal \in [Ids -> Quotas] /\ grants \in [Ids -> Seq(Nat)]
QueueOK(q, es) ==
    /\ q \in Seq(Ids) /\ {q[n] : n \in 1..Len(q)} = Held(es)
    /\ Len(q) = Cardinality(Held(es)) /\ Len(q) <= MaxEntries
IdealOK(is, gs, pol, now) ==
    \A i \in Ids : IF is[i] = NoEntry THEN gs[i] = <<>> ELSE QuotaOK(pol, is[i], gs[i], now)
TiedOK(es, is, pol, now) == \A i \in Ids : es[i] = is[i] \/ (es[i] = NoEntry /\ Whole(pol, is[i], now))
HeldOK(gs, pol, now) ==
    \A i \in Ids : \A a \in 0..now : \A b \in a..now :
        IF pol.kind = "bucket"
        THEN Granted(gs[i], a, b) <= pol.cap + pol.refill * CeilDiv(b - a, pol.window)
        ELSE b - a < pol.window => Granted(gs[i], a, b) <= 2 * pol.cap - 1
LimInv ==
    /\ LimTyped /\ QueueOK(pruneQueue, entries)
    /\ IdealOK(ideal, grants, policy, clock) /\ TiedOK(entries, ideal, policy, clock)
    /\ HeldOK(grants, policy, clock) /\ PruningInvisible

---------------------------------------------------------------------------
(* Counting the requests that were let through.                            *)

\* The grants since a moment are finitely many.
LEMMA SinceCounts ==
  ASSUME NEW g \in Seq(Nat), NEW a \in Int
  PROVE  Since(g, a) \in Nat /\ IsFiniteSet({n \in 1..Len(g) : a <= g[n]})
<1> DEFINE T == {n \in 1..Len(g) : a <= g[n]}
<1>1. IsFiniteSet(1..Len(g))
  BY FS_Interval
<1>2. IsFiniteSet(T)
  BY <1>1, FS_Subset
<1>3. Cardinality(T) \in Nat
  BY <1>2, FS_CardinalityType
<1> QED BY <1>2, <1>3 DEF Since

\* There are no more of them since a later moment.
LEMMA SinceFalls ==
  ASSUME NEW g \in Seq(Nat), NEW a \in Int, NEW b \in Int, a <= b
  PROVE  Since(g, b) <= Since(g, a)
<1> DEFINE T == {n \in 1..Len(g) : a <= g[n]}
           U == {n \in 1..Len(g) : b <= g[n]}
<1>1. \A n \in 1..Len(g) : g[n] \in Nat
  OBVIOUS
<1>2. U \in SUBSET T
  BY <1>1
<1>3. IsFiniteSet(T)
  BY SinceCounts
<1> HIDE DEF T, U
<1>4. Cardinality(U) <= Cardinality(T)
  BY <1>2, <1>3, FS_Subset
<1> QED BY <1>4 DEF Since, T, U

\* No grant is counted since a moment after all of them.
LEMMA SinceNone ==
  ASSUME NEW g \in Seq(Nat), NEW a \in Int, \A n \in 1..Len(g) : g[n] < a
  PROVE  Since(g, a) = 0
<1>1. {n \in 1..Len(g) : a <= g[n]} = {}
  <2>1. \A n \in 1..Len(g) : g[n] \in Nat
    OBVIOUS
  <2> QED BY <2>1
<1> QED BY <1>1, FS_EmptySet DEF Since

\* One grant more is counted from the moments up to it.
LEMMA SinceAppend ==
  ASSUME NEW g \in Seq(Nat), NEW a \in Int, NEW t \in Nat
  PROVE  /\ Append(g, t) \in Seq(Nat)
         /\ Since(Append(g, t), a) = IF a <= t THEN Since(g, a) + 1 ELSE Since(g, a)
<1> DEFINE h == Append(g, t)
           T == {n \in 1..Len(g) : a <= g[n]}
           U == {n \in 1..Len(h) : a <= h[n]}
<1>1. /\ h \in Seq(Nat) /\ Len(h) = Len(g) + 1 /\ Len(g) \in Nat /\ h[Len(g) + 1] = t
      /\ \A n \in 1..Len(g) : h[n] = g[n]
  OBVIOUS
<1> HIDE DEF h
<1>2. IsFiniteSet(T) /\ Len(g) + 1 \notin T
  <2>1. IsFiniteSet(T)
    BY SinceCounts
  <2> QED BY <1>1, <2>1
<1>3. CASE a <= t
  <2>1. U = T \cup {Len(g) + 1}
    BY <1>1, <1>3
  <2> HIDE DEF T, U
  <2>2. Cardinality(U) = Cardinality(T) + 1
    BY <1>2, <2>1, FS_AddElement
  <2> QED BY <1>1, <1>3, <2>2 DEF Since, T, U, h
<1>4. CASE ~(a <= t)
  <2>1. U = T
    BY <1>1, <1>4
  <2> QED BY <1>1, <1>4, <2>1 DEF Since, h
<1> QED BY <1>3, <1>4

\* A stretch that ends after the last grant counts all since its start.
LEMMA GrantedAll ==
  ASSUME NEW g \in Seq(Nat), NEW a \in Int, NEW b \in Int, \A n \in 1..Len(g) : g[n] <= b
  PROVE  Granted(g, a, b) = Since(g, a)
<1>1. {n \in 1..Len(g) : a <= g[n] /\ g[n] <= b} = {n \in 1..Len(g) : a <= g[n]}
  OBVIOUS
<1> QED BY <1>1 DEF Granted, Since

\* A grant after a stretch is not counted in it.
LEMMA GrantedLater ==
  ASSUME NEW g \in Seq(Nat), NEW a \in Int, NEW b \in Int, NEW t \in Nat, b < t
  PROVE  Granted(Append(g, t), a, b) = Granted(g, a, b)
<1> DEFINE h == Append(g, t)
<1>1. /\ Len(h) = Len(g) + 1 /\ Len(g) \in Nat /\ h[Len(g) + 1] = t
      /\ \A n \in 1..Len(g) : h[n] = g[n]
  OBVIOUS
<1> HIDE DEF h
<1>2. {n \in 1..Len(h) : a <= h[n] /\ h[n] <= b} = {n \in 1..Len(g) : a <= g[n] /\ g[n] <= b}
  BY <1>1
<1> QED BY <1>2 DEF Granted, h

---------------------------------------------------------------------------
(* One identity at one policy.                                             *)
LEMMA PolicyFields ==
  ASSUME NEW pol \in Policies
  PROVE  /\ pol.kind \in {"window", "bucket"} /\ pol.cap \in Nat \ {0} /\ pol.refill \in Nat
         /\ pol.window \in Nat \ {0} /\ (pol.kind = "bucket" => pol.refill \in Nat \ {0})
BY LimiterAssumption

\* What refill_bucket returns, by the number of intervals that ended.
LEMMA RefilledFields ==
  ASSUME NEW pol \in Policies, pol.kind = "bucket", NEW e \in Quotas, NEW now \in Nat,
         NEW k, k = (now - e.at) \div pol.window, e.left <= pol.cap, e.at <= now
  PROVE  /\ k \in Nat
         /\ Refilled(pol, e, now) \in Quotas /\ Refilled(pol, e, now).seen = e.seen
         /\ \/ k = 0 /\ Refilled(pol, e, now) = e
            \/ /\ k > 0 /\ k >= CeilDiv(pol.cap - e.left, pol.refill)
               /\ Refilled(pol, e, now).left = pol.cap /\ Refilled(pol, e, now).at = now
            \/ /\ k > 0 /\ k < CeilDiv(pol.cap - e.left, pol.refill)
               /\ k * pol.refill \in Int /\ k * pol.window \in Int
               /\ Refilled(pol, e, now).left = e.left + k * pol.refill
               /\ Refilled(pol, e, now).at = e.at + k * pol.window
<1> DEFINE r == Refilled(pol, e, now)
           c == CeilDiv(pol.cap - e.left, pol.refill)
<1>1. /\ pol.cap \in Nat /\ pol.refill \in Nat \ {0} /\ pol.window \in Nat \ {0}
      /\ e.left \in Int /\ e.at \in Int /\ e.seen \in Int
  BY PolicyFields DEF Quotas
<1>2. k \in Int /\ pol.window * k \in Int /\ pol.window * k <= now - e.at /\ now - e.at < pol.window * k + pol.window
  <2>1. now - e.at \in Int
    BY <1>1
  <2>2. k \in Int /\ pol.window * k <= now - e.at /\ now - e.at < pol.window * k + pol.window
    BY <1>1, <2>1, QuotientBounds
  <2> QED BY <1>1, <2>2
<1>3. k \in Nat
  <2>1. pol.window * k > -pol.window
    BY <1>1, <1>2
  <2>2. ~(k < 0)
    BY <1>1, <1>2, <2>1, ProductGrows
  <2> QED BY <1>2, <2>2
<1>4. c \in Int
  <2>1. pol.cap - e.left \in Int
    BY <1>1
  <2> QED BY <1>1, <2>1, CeilBounds
<1>5. k * pol.refill \in Int /\ k * pol.window \in Int
  BY <1>1, <1>3
<1> DEFINE m == k * pol.refill  n == k * pol.window
<1>6. r = IF k = 0 THEN e
          ELSE IF k >= c THEN [e EXCEPT !.left = pol.cap, !.at = now]
          ELSE [e EXCEPT !.left = @ + m, !.at = @ + n]
  BY DEF Refilled
<1>7. m \in Int /\ n \in Int
  BY <1>5
<1> HIDE DEF r, c, m, n
<1>8. CASE k = 0
  BY <1>3, <1>6, <1>8 DEF r
<1>9. CASE k # 0 /\ k >= c
  <2>1. r = [e EXCEPT !.left = pol.cap, !.at = now]
    BY <1>6, <1>9
  <2>2. r \in Quotas
    <3>1. pol.cap \in Int /\ now \in Int
      BY <1>1
    <3> QED BY <2>1, <3>1 DEF Quotas
  <2>3. r.left = pol.cap /\ r.at = now /\ r.seen = e.seen
    BY <2>1 DEF Quotas
  <2> QED BY <1>3, <1>9, <2>2, <2>3 DEF r, c
<1>10. CASE k # 0 /\ ~(k >= c)
  <2>1. r = [e EXCEPT !.left = @ + m, !.at = @ + n]
    BY <1>6, <1>10
  <2>2. r \in Quotas
    <3>1. e.left + m \in Int /\ e.at + n \in Int
      BY <1>1, <1>7
    <3> QED BY <2>1, <3>1 DEF Quotas
  <2>4. r.left = e.left + m /\ r.at = e.at + n /\ r.seen = e.seen
    BY <2>1 DEF Quotas
  <2>3. k > 0 /\ k < c
    BY <1>3, <1>4, <1>10
  <2> QED BY <1>3, <1>5, <2>2, <2>3, <2>4 DEF r, c, m, n
<1> QED BY <1>8, <1>9, <1>10

\* The promise of a bucket after it was refilled, for every stretch up to now.
Promise(pol, r, g, now) ==
    /\ r.at \in 0..now /\ now - r.at < pol.window /\ 0 <= r.left /\ r.left <= pol.cap
    /\ \A a \in 0..now : Since(g, a) + r.left <= pol.cap + pol.refill * CeilDiv(r.at - a, pol.window)

\* refill_bucket keeps the promise of a bucket.
LEMMA BucketRefilled ==
  ASSUME NEW pol \in Policies, pol.kind = "bucket", NEW e \in Quotas, NEW g \in Seq(Nat), NEW now \in Nat,
         QuotaOK(pol, e, g, now)
  PROVE  Promise(pol, Refilled(pol, e, now), g, now)
<1> DEFINE r == Refilled(pol, e, now)
           k == (now - e.at) \div pol.window
           w == pol.window  f == pol.refill
<1>1. /\ pol.cap \in Nat /\ f \in Nat \ {0} /\ w \in Nat \ {0}
      /\ e.left \in Int /\ e.at \in Int /\ e.seen \in Int
  BY PolicyFields DEF Quotas
<1>2. /\ e.at \in 0..now /\ e.seen \in 0..now /\ e.left <= pol.cap /\ e.seen - e.at < w
      /\ 0 <= e.left /\ \A n \in 1..Len(g) : g[n] <= e.seen
      /\ \A a \in 0..e.seen : Since(g, a) + e.left <= pol.cap + f * CeilDiv(e.at - a, w)
  BY DEF QuotaOK, BucketOK
<1>3. /\ k \in Nat /\ r \in Quotas
      /\ \/ k = 0 /\ r = e
         \/ k > 0 /\ k >= CeilDiv(pol.cap - e.left, f) /\ r.left = pol.cap /\ r.at = now
         \/ /\ k > 0 /\ k < CeilDiv(pol.cap - e.left, f) /\ k * f \in Int /\ k * w \in Int
            /\ r.left = e.left + k * f /\ r.at = e.at + k * w
  BY <1>2, RefilledFields
<1>4. w * k \in Int /\ w * k <= now - e.at /\ now - e.at < w * k + w /\ w * k = k * w
  <2>1. now - e.at \in Int
    BY <1>1
  <2>2. w * k <= now - e.at /\ now - e.at < w * k + w
    BY <1>1, <2>1, QuotientBounds
  <2> HIDE DEF k, w
  <2> QED BY <1>1, <1>3, <2>2, ProductParts
<1> HIDE DEF r, k, w, f
\* Nothing was granted after the entry was last seen.
<1>5. ASSUME NEW a \in 0..now, a > e.seen
      PROVE  Since(g, a) = 0
  <2>1. \A n \in 1..Len(g) : g[n] < a
    BY <1>1, <1>2, <1>5
  <2> QED BY <2>1, SinceNone
<1>6. ASSUME NEW a \in 0..now, NEW x \in Int, x > a - w
      PROVE  CeilDiv(x - a, w) \in Nat /\ f * CeilDiv(x - a, w) \in Nat
  <2>0. x - a \in Int /\ x - a > -w
    BY <1>1, <1>6
  <2>1. CeilDiv(x - a, w) \in Nat
    BY <1>1, <2>0, CeilSign
  <2> QED BY <1>1, <2>1
<1>7. \A a \in 0..now : Since(g, a) \in Nat
  <2>1. \A a \in 0..now : a \in Int
    OBVIOUS
  <2> QED BY <2>1, SinceCounts
<1>0. \A a \in 0..now : e.at - a \in Int /\ now - a \in Int /\ a \in Nat
  BY <1>1
<1>8. CASE k = 0 /\ r = e
  <2>1. now - e.at < w
    BY <1>1, <1>4, <1>8
  <2>2. ASSUME NEW a \in 0..now
        PROVE  Since(g, a) + r.left <= pol.cap + f * CeilDiv(r.at - a, w)
    <3>1. CASE a <= e.seen
      BY <1>1, <1>2, <1>8, <3>1
    <3>2. CASE a > e.seen
      <4>1. e.at > a - w
        BY <1>1, <2>1
      <4>2. f * CeilDiv(e.at - a, w) \in Nat
        BY <1>1, <1>6, <4>1
      <4>3. Since(g, a) = 0
        BY <1>5, <3>2
      <4> QED BY <1>1, <1>2, <1>8, <4>2, <4>3
    <3> QED BY <1>1, <3>1, <3>2
  <2> QED BY <1>1, <1>2, <1>8, <2>1, <2>2 DEF Promise, w, f, r
<1>9. CASE k > 0 /\ k >= CeilDiv(pol.cap - e.left, f) /\ r.left = pol.cap /\ r.at = now
  <2>0. pol.cap - e.left \in Int /\ k \in Int
    BY <1>1, <1>3
  <2>1. k * f \in Int /\ k * f >= pol.cap - e.left
    BY <1>1, <2>0, <1>9, CeilReached
  <2>2. ASSUME NEW a \in 0..now
        PROVE  Since(g, a) + r.left <= pol.cap + f * CeilDiv(r.at - a, w)
    <3>1. CASE a <= e.seen
      <4> DEFINE p == CeilDiv(e.at - a, w)  q == CeilDiv(now - a, w)
      <4>1. Since(g, a) + e.left <= pol.cap + f * p
        BY <1>1, <1>2, <3>1
      <4>2. p \in Int /\ q \in Int
        BY <1>0, <1>1, CeilBounds
      <4>3. p + k <= q
        <5>1. CeilDiv((e.at - a) + k * w, w) = p + k
          <6> DEFINE x == e.at - a
          <6>1. x \in Int /\ k \in Int
            BY <1>0, <1>3
          <6> HIDE DEF x
          <6>2. CeilDiv(x + k * w, w) = CeilDiv(x, w) + k
            BY <1>1, <6>1, CeilShift
          <6> QED BY <6>2 DEF x, p
        <5>2. (e.at - a) + k * w <= now - a /\ k * w \in Int
          BY <1>1, <1>4
        <5>3. (e.at - a) + k * w \in Int
          BY <1>0, <5>2
        <5> QED BY <1>0, <1>1, <5>1, <5>2, <5>3, CeilMonotone
      <4> HIDE DEF p, q
      <4>4. f * q \in Int /\ f * p \in Int /\ f * k \in Int /\ f * k = k * f
            /\ f * (q - (p + k)) = f * q - f * (p + k) /\ f * (p + k) = f * p + f * k
        BY <1>1, <1>3, <4>2, ProductParts
      <4>5. f * (q - (p + k)) >= 0
        BY <1>1, <1>3, <4>2, <4>3, ProductGrows
      <4>6. Since(g, a) <= f * q
        <5> DEFINE fq == f * q  fp == f * p  fk == k * f  fpk == f * (p + k)
        <5>1. fq \in Int /\ fp \in Int /\ fk \in Int /\ fpk = fp + fk /\ fq - fpk >= 0
          BY <4>4, <4>5
        <5>2. fk >= pol.cap - e.left /\ Since(g, a) + e.left <= pol.cap + fp /\ Since(g, a) \in Nat
          BY <1>7, <2>1, <4>1
        <5> HIDE DEF fq, fp, fk, fpk
        <5>3. Since(g, a) <= fq
          BY <1>1, <5>1, <5>2
        <5> QED BY <5>3 DEF fq
      <4>7. f * q = f * CeilDiv(r.at - a, w)
        BY <1>9 DEF q
      <4> DEFINE fq == f * q
      <4>8. fq \in Int /\ Since(g, a) \in Nat /\ Since(g, a) <= fq
        BY <1>7, <4>4, <4>6
      <4> HIDE DEF fq
      <4>9. Since(g, a) + r.left <= pol.cap + fq
        BY <1>1, <1>9, <4>8
      <4> QED BY <4>7, <4>9 DEF fq
    <3>2. CASE a > e.seen
      <4>1. f * CeilDiv(now - a, w) \in Nat
        <5>1. now > a - w /\ now \in Int
          BY <1>1
        <5> QED BY <1>6, <5>1
      <4> QED BY <1>1, <1>5, <1>9, <3>2, <4>1
    <3> QED BY <1>1, <3>1, <3>2
  <2> QED BY <1>1, <1>2, <1>9, <2>2 DEF Promise, w, f, r
<1>10. CASE /\ k > 0 /\ k < CeilDiv(pol.cap - e.left, f) /\ k * f \in Int /\ k * w \in Int
            /\ r.left = e.left + k * f /\ r.at = e.at + k * w
  <2>1. k * f < pol.cap - e.left /\ k * f >= 0
    <3>0. pol.cap - e.left \in Int /\ k \in Int
      BY <1>1, <1>3
    <3>1. k * f < pol.cap - e.left
      BY <1>1, <3>0, <1>10, CeilReached
    <3>2. f * k >= 0 /\ f * k = k * f
      BY <1>1, <1>3, ProductGrows, ProductParts
    <3> QED BY <3>1, <3>2
  <2>2. r.at \in 0..now /\ now - r.at < w /\ 0 <= r.left /\ r.left <= pol.cap /\ r.left \in Int /\ r.at \in Int
    <3>1. w * k >= 0
      BY <1>1, <1>3, ProductGrows
    <3> DEFINE kw == k * w  kf == k * f
    <3>2. kw \in Int /\ kf \in Int /\ kw >= 0 /\ kw <= now - e.at /\ now - e.at < kw + w /\ kf >= 0
          /\ kf < pol.cap - e.left
      BY <1>4, <1>10, <2>1, <3>1
    <3>3. r.left = e.left + kf /\ r.at = e.at + kw
      BY <1>10
    <3> HIDE DEF kw, kf
    <3> DEFINE l == e.left  t == e.at
    <3>6. l \in Int /\ t \in Int /\ 0 <= l /\ l <= pol.cap /\ 0 <= t /\ t <= now
      BY <1>1, <1>2
    <3> HIDE DEF l, t
    <3>4. r.left \in Int /\ r.at \in Int /\ 0 <= r.left /\ r.left <= pol.cap
      BY <1>1, <3>2, <3>3, <3>6 DEF l, t
    <3>5. 0 <= r.at /\ r.at <= now /\ now - r.at < w
      BY <1>1, <3>2, <3>3, <3>6 DEF l, t
    <3> QED BY <3>4, <3>5
  <2>3. ASSUME NEW a \in 0..now
        PROVE  Since(g, a) + r.left <= pol.cap + f * CeilDiv(r.at - a, w)
    <3>1. CASE a <= e.seen
      <4> DEFINE p == CeilDiv(e.at - a, w)  q == CeilDiv(r.at - a, w)
      <4>1. Since(g, a) + e.left <= pol.cap + f * p
        BY <1>1, <1>2, <3>1
      <4>2. p \in Int
        BY <1>0, <1>1, CeilBounds
      <4>3. q = p + k
        <5>1. CeilDiv((e.at - a) + k * w, w) = p + k
          <6> DEFINE x == e.at - a
          <6>1. x \in Int /\ k \in Int
            BY <1>0, <1>3
          <6> HIDE DEF x
          <6>2. CeilDiv(x + k * w, w) = CeilDiv(x, w) + k
            BY <1>1, <6>1, CeilShift
          <6> QED BY <6>2 DEF x, p
        <5>2. r.at - a = (e.at - a) + k * w
          BY <1>1, <1>10
        <5> QED BY <5>1, <5>2
      <4> HIDE DEF p, q
      <4>4. f * q \in Int /\ f * p \in Int /\ f * k \in Int /\ f * k = k * f
            /\ f * (p + k) = f * p + f * k
        BY <1>1, <1>3, <4>2, <4>3, ProductParts
      <4>5. Since(g, a) + r.left <= pol.cap + f * q
        <5> DEFINE fq == f * q  fp == f * p  fk == k * f
        <5>1. fq \in Int /\ fp \in Int /\ fk \in Int /\ fq = fp + fk
          BY <4>3, <4>4
        <5>2. r.left = e.left + fk /\ Since(g, a) + e.left <= pol.cap + fp /\ Since(g, a) \in Nat
          BY <1>7, <1>10, <4>1
        <5> HIDE DEF fq, fp, fk
        <5>3. Since(g, a) + r.left <= pol.cap + fq
          BY <1>1, <5>1, <5>2
        <5> QED BY <5>3 DEF fq
      <4> QED BY <4>5 DEF q
    <3>2. CASE a > e.seen
      <4>1. r.at > a - w
        BY <1>1, <2>2
      <4>2. f * CeilDiv(r.at - a, w) \in Nat
        BY <1>6, <2>2, <4>1
      <4>3. Since(g, a) = 0
        BY <1>5, <3>2
      <4> QED BY <1>1, <2>2, <4>2, <4>3
    <3> QED BY <1>1, <3>1, <3>2
  <2> QED BY <1>1, <2>2, <2>3 DEF Promise, w, f, r
<1> QED BY <1>3, <1>8, <1>9, <1>10

\* A request takes one of what is left.
LEMMA SpentFields ==
  ASSUME NEW q \in Quotas
  PROVE  /\ Spend(q) \in Quotas /\ Spend(q).at = q.at /\ Spend(q).seen = q.seen
         /\ Spend(q).left = IF q.left > 0 THEN q.left - 1 ELSE q.left
<1> DEFINE l == IF q.left > 0 THEN q.left - 1 ELSE q.left
<1>1. l \in Int
  BY DEF Quotas
<1>2. Spend(q) = [q EXCEPT !.left = l]
  BY DEF Spend
<1> HIDE DEF l
<1>3. Spend(q) \in Quotas
  BY <1>1, <1>2 DEF Quotas
<1>4. Spend(q).at = q.at /\ Spend(q).seen = q.seen /\ Spend(q).left = l
  BY <1>2 DEF Quotas
<1> QED BY <1>3, <1>4 DEF l

\* The times of the grants after one more.
LEMMA GrantOne ==
  ASSUME NEW g \in Seq(Nat), NEW now \in Nat, \A n \in 1..Len(g) : g[n] <= now
  PROVE  /\ Append(g, now) \in Seq(Nat) /\ \A n \in 1..Len(Append(g, now)) : Append(g, now)[n] <= now
         /\ \A a \in Int : Since(g, a) \in Nat /\ Since(Append(g, now), a) \in Nat
         /\ \A a \in 0..now : Since(Append(g, now), a) = Since(g, a) + 1
         /\ Since(Append(g, now), now + 1) = 0
<1> DEFINE h == Append(g, now)
<1>1. h \in Seq(Nat) /\ \A n \in 1..Len(h) : h[n] <= now
  <2>1. /\ h \in Seq(Nat) /\ Len(h) = Len(g) + 1 /\ h[Len(g) + 1] = now /\ Len(g) \in Nat
        /\ \A n \in 1..Len(g) : h[n] = g[n]
    OBVIOUS
  <2> HIDE DEF h
  <2>2. ASSUME NEW n \in 1..Len(h) PROVE h[n] <= now
    <3>1. CASE n = Len(g) + 1
      BY <2>1, <3>1
    <3>2. CASE n # Len(g) + 1
      <4>1. n \in 1..Len(g)
        BY <2>1, <3>2
      <4> QED BY <2>1, <4>1
    <3> QED BY <3>1, <3>2
  <2> QED BY <2>1, <2>2
<1>2. now + 1 \in Int
  OBVIOUS
<1>3. \A a \in 0..now : Since(h, a) = Since(g, a) + 1
  <2>1. TAKE a \in 0..now
  <2>2. a \in Int /\ a <= now
    OBVIOUS
  <2> QED BY <2>2, SinceAppend
<1> HIDE DEF h
<1>4. Since(h, now + 1) = 0
  <2>1. \A n \in 1..Len(h) : h[n] < now + 1
    BY <1>1
  <2> QED BY <1>1, <1>2, <2>1, SinceNone
<1>5. \A a \in Int : Since(g, a) \in Nat /\ Since(h, a) \in Nat
  BY <1>1, SinceCounts
<1> QED BY <1>1, <1>3, <1>4, <1>5 DEF h

\* A request of a refilled bucket keeps its promise.
LEMMA BucketSpent ==
  ASSUME NEW pol \in Policies, pol.kind = "bucket", NEW q \in Quotas, NEW g \in Seq(Nat), NEW now \in Nat,
         q.seen = now, Promise(pol, q, g, now), \A n \in 1..Len(g) : g[n] <= now,
         NEW h, h = IF q.left > 0 THEN Append(g, now) ELSE g
  PROVE  QuotaOK(pol, Spend(q), h, now)
<1> DEFINE s == Spend(q)
<1>1. /\ pol.cap \in Nat \ {0} /\ pol.window \in Nat \ {0} /\ pol.refill \in Nat
      /\ q.left \in Int /\ q.at \in Int
  BY PolicyFields DEF Quotas
<1>2. /\ s \in Quotas /\ s.at = q.at /\ s.seen = now
      /\ s.left = IF q.left > 0 THEN q.left - 1 ELSE q.left
  BY SpentFields
<1> HIDE DEF s
<1>3. /\ h \in Seq(Nat) /\ \A n \in 1..Len(h) : h[n] <= now
      /\ \A a \in Int : Since(g, a) \in Nat /\ Since(h, a) \in Nat
  <2>1. CASE q.left > 0
    BY <2>1, GrantOne
  <2>2. CASE ~(q.left > 0)
    BY <2>2, SinceCounts
  <2> QED BY <2>1, <2>2
<1>3a. ASSUME q.left > 0
       PROVE  /\ \A a \in 0..now : Since(h, a) = Since(g, a) + 1
              /\ Since(h, now + 1) = 0
  BY <1>3a, GrantOne
<1>3b. ASSUME ~(q.left > 0) PROVE h = g
  BY <1>3b
<1>4. /\ q.at \in 0..now /\ now - q.at < pol.window /\ 0 <= q.left /\ q.left <= pol.cap
  BY DEF Promise
<1>5. 0 <= s.left /\ s.left < pol.cap /\ s.left \in Int
  BY <1>1, <1>2, <1>4
<1>6. ASSUME NEW a \in 0..s.seen
      PROVE  Since(h, a) + s.left <= pol.cap + pol.refill * CeilDiv(s.at - a, pol.window)
  <2> DEFINE x == pol.cap + pol.refill * CeilDiv(q.at - a, pol.window)
  <2>1. a \in 0..now /\ a \in Int
    BY <1>2
  <2>2. Since(g, a) + q.left <= x
    BY <2>1 DEF Promise
  <2>3. x = pol.cap + pol.refill * CeilDiv(s.at - a, pol.window)
    BY <1>2
  <2> HIDE DEF x
  <2>4. Since(h, a) + s.left = Since(g, a) + q.left
    <3>1. Since(g, a) \in Nat /\ Since(h, a) \in Nat
      BY <1>3, <2>1
    <3>2. CASE q.left > 0
      <4>1. Since(h, a) = Since(g, a) + 1 /\ s.left = q.left - 1
        BY <1>2, <1>3a, <2>1, <3>2
      <4> DEFINE y == Since(g, a)  l == q.left
      <4>2. y \in Nat /\ l \in Int /\ Since(h, a) = y + 1 /\ s.left = l - 1
        BY <1>1, <3>1, <4>1
      <4> HIDE DEF y, l
      <4>3. Since(h, a) + s.left = y + l
        BY <4>2
      <4> QED BY <4>3 DEF y, l
    <3>3. CASE ~(q.left > 0)
      BY <1>2, <1>3b, <3>3
    <3> QED BY <3>2, <3>3
  <2> QED BY <2>2, <2>3, <2>4
<1>7. BucketOK(pol, s, h)
  BY <1>1, <1>5, <1>6 DEF BucketOK
<1>8. s.at \in 0..now /\ s.seen \in 0..now /\ s.left <= pol.cap /\ s.seen - s.at < pol.window
  BY <1>1, <1>2, <1>4, <1>5
<1>9. \A n \in 1..Len(h) : h[n] <= s.seen
  BY <1>2, <1>3
<1> QED BY <1>7, <1>8, <1>9 DEF QuotaOK, s

\* A request in a window that goes on.
LEMMA WindowSpent ==
  ASSUME NEW pol \in Policies, pol.kind = "window", NEW q \in Quotas, NEW g \in Seq(Nat), NEW now \in Nat,
         q.seen = now, q.at \in 0..now, now - q.at < pol.window, q.left <= pol.cap, WindowOK(pol, q, g),
         \A n \in 1..Len(g) : g[n] <= now,
         NEW h, h = IF q.left > 0 THEN Append(g, now) ELSE g
  PROVE  QuotaOK(pol, Spend(q), h, now)
<1> DEFINE s == Spend(q)
<1>1. /\ pol.cap \in Nat \ {0} /\ pol.window \in Nat \ {0}
      /\ q.left \in Int /\ q.at \in Int
  BY PolicyFields DEF Quotas
<1>2. /\ s \in Quotas /\ s.at = q.at /\ s.seen = now
      /\ s.left = IF q.left > 0 THEN q.left - 1 ELSE q.left
  BY SpentFields
<1> HIDE DEF s
<1>3. /\ h \in Seq(Nat) /\ \A n \in 1..Len(h) : h[n] <= now
      /\ \A a \in Int : Since(g, a) \in Nat /\ Since(h, a) \in Nat
  <2>1. CASE q.left > 0
    BY <2>1, GrantOne
  <2>2. CASE ~(q.left > 0)
    BY <2>2, SinceCounts
  <2> QED BY <2>1, <2>2
<1>3a. ASSUME q.left > 0
       PROVE  /\ \A a \in 0..now : Since(h, a) = Since(g, a) + 1
              /\ Since(h, now + 1) = 0
  BY <1>3a, GrantOne
<1>3b. ASSUME ~(q.left > 0) PROVE h = g
  BY <1>3b
<1>4. /\ Since(g, q.at) + q.left <= pol.cap /\ (q.left < 0 => Since(g, q.at) = 0)
      /\ Since(g, q.at + 1) + q.left <= pol.cap - 1
  BY DEF WindowOK
<1>5. \A a \in 0..q.at : a > q.at - pol.window => Since(g, a) <= pol.cap - 1 + Since(g, q.at)
  BY DEF WindowOK
<1>6. q.at + 1 \in Int /\ now + 1 \in Int /\ q.at \in 0..now
  BY <1>1
<1>7. ASSUME ~(q.left > 0) PROVE WindowOK(pol, s, h)
  <2>1. h = g /\ s.left = q.left
    BY <1>2, <1>3b, <1>7
  <2> QED BY <1>2, <1>4, <1>5, <2>1 DEF WindowOK
<1>8. ASSUME q.left > 0 PROVE WindowOK(pol, s, h)
  <2> DEFINE x == Since(g, q.at)  y == Since(g, q.at + 1)  v == Since(h, q.at)  z == Since(h, q.at + 1)
             l == q.left  c == pol.cap
  <2>1. x \in Nat /\ y \in Nat /\ v \in Nat /\ z \in Nat /\ l \in Int /\ c \in Nat /\ l > 0
    BY <1>1, <1>3, <1>6, <1>8
  <2>2. x + l <= c /\ y + l <= c - 1
    BY <1>4
  <2>3. v = x + 1
    BY <1>3a, <1>6, <1>8
  <2>4. z <= y + 1
    <3>1. CASE q.at = now
      <4>1. z = 0
        BY <1>3a, <1>8, <3>1
      <4> HIDE DEF y, z
      <4> QED BY <2>1, <4>1
    <3>2. CASE q.at # now
      <4>1. q.at + 1 \in 0..now
        BY <1>6, <3>2
      <4>2. z = y + 1
        BY <1>3a, <1>8, <4>1
      <4> HIDE DEF y, z
      <4> QED BY <2>1, <4>2
    <3> QED BY <3>1, <3>2
  <2>5. s.left = l - 1 /\ s.at = q.at
    BY <1>2, <1>8
  <2>6. ASSUME NEW a \in 0..q.at, a > q.at - pol.window
        PROVE  Since(h, a) <= c - 1 + v
    <3>1. Since(g, a) <= c - 1 + x
      BY <1>5, <2>6
    <3>2. a \in 0..now /\ a \in Int
      BY <1>6
    <3>3. Since(h, a) = Since(g, a) + 1 /\ Since(g, a) \in Nat
      BY <1>3, <1>3a, <1>8, <3>2
    <3> HIDE DEF x, v, c
    <3> QED BY <2>1, <2>3, <3>1, <3>3
  <2>7. Since(h, s.at) = v /\ Since(h, s.at + 1) = z
    BY <2>5
  <2>8. ASSUME NEW a \in 0..s.at, a > s.at - pol.window
        PROVE  Since(h, a) <= pol.cap - 1 + Since(h, s.at)
    BY <2>5, <2>6, <2>8
  <2> HIDE DEF x, y, v, z, l
  <2>9. v + (l - 1) <= c /\ ~(l - 1 < 0) /\ z + (l - 1) <= c - 1
    <3> HIDE DEF c
    <3> QED BY <2>1, <2>2, <2>3, <2>4
  <2> QED BY <2>5, <2>7, <2>8, <2>9 DEF WindowOK
<1>11. WindowOK(pol, s, h)
  BY <1>7, <1>8
<1>12. s.at \in 0..now /\ s.seen \in 0..now /\ s.left <= pol.cap /\ s.seen - s.at < pol.window
  BY <1>1, <1>2
<1>13. \A n \in 1..Len(h) : h[n] <= s.seen
  BY <1>2, <1>3
<1> QED BY <1>11, <1>12, <1>13 DEF QuotaOK, s

\* The first request of a window.
LEMMA WindowBegun ==
  ASSUME NEW pol \in Policies, pol.kind = "window", NEW q \in Quotas, NEW g \in Seq(Nat), NEW now \in Nat,
         q.seen = now, q.at = now, q.left = pol.cap, Since(g, now) = 0,
         \A a \in 0..now : a > now - pol.window => Since(g, a) <= pol.cap - 1,
         \A n \in 1..Len(g) : g[n] <= now
  PROVE  QuotaOK(pol, Spend(q), Append(g, now), now)
<1> DEFINE s == Spend(q)  h == Append(g, now)
<1>1. pol.cap \in Nat \ {0} /\ pol.window \in Nat \ {0}
  BY PolicyFields
<1>2. s \in Quotas /\ s.at = now /\ s.seen = now /\ s.left = pol.cap - 1
  BY <1>1, SpentFields
<1>3. /\ h \in Seq(Nat) /\ \A n \in 1..Len(h) : h[n] <= now
      /\ \A a \in Int : Since(g, a) \in Nat /\ Since(h, a) \in Nat
      /\ \A a \in 0..now : Since(h, a) = Since(g, a) + 1
      /\ Since(h, now + 1) = 0
  BY GrantOne
<1> HIDE DEF s, h
<1>4. Since(h, now) = 1
  BY <1>3
<1>5. \A a \in 0..now : a > now - pol.window => Since(h, a) <= pol.cap
  <2>1. SUFFICES ASSUME NEW a \in 0..now, a > now - pol.window PROVE Since(h, a) <= pol.cap
    OBVIOUS
  <2>2. Since(g, a) <= pol.cap - 1 /\ a \in Int
    BY <2>1
  <2>4. Since(h, a) = Since(g, a) + 1
    BY <1>3
  <2>3. Since(g, a) \in Nat
    BY <1>3, <2>2
  <2> QED BY <1>1, <2>2, <2>3, <2>4
<1>6. WindowOK(pol, s, h)
  <2> DEFINE c == pol.cap
  <2>1. Since(h, s.at) = 1 /\ Since(h, s.at + 1) = 0 /\ s.left = c - 1 /\ c \in Nat \ {0}
    BY <1>1, <1>2, <1>3, <1>4
  <2>2. \A a \in 0..s.at : a > s.at - pol.window => Since(h, a) <= c
    BY <1>2, <1>5
  <2> HIDE DEF c
  <2>3. Since(h, s.at) + s.left <= c /\ ~(s.left < 0) /\ Since(h, s.at + 1) + s.left <= c - 1
    BY <2>1
  <2>4. c - 1 + Since(h, s.at) = c
    BY <2>1
  <2> QED BY <2>2, <2>3, <2>4 DEF WindowOK, c
<1>7. s.at \in 0..now /\ s.seen \in 0..now /\ s.left <= pol.cap /\ s.seen - s.at < pol.window
  BY <1>1, <1>2
<1>8. \A n \in 1..Len(h) : h[n] <= s.seen
  BY <1>2, <1>3
<1> QED BY <1>6, <1>7, <1>8 DEF QuotaOK, s, h

\* One request of an identity: what Check makes of its quota and its grants.
LEMMA QuotaChecked ==
  ASSUME NEW pol \in Policies, NEW e \in Quotas, NEW g \in Seq(Nat), NEW now \in Nat,
         IF e = NoEntry THEN g = <<>> ELSE QuotaOK(pol, e, g, now),
         NEW q, q = Quota(pol, e, now),
         NEW h, h = IF q.left > 0 THEN Append(g, now) ELSE g
  PROVE  /\ q \in Quotas /\ Spend(q) \in Quotas /\ Spend(q) # NoEntry
         /\ h \in Seq(Nat) /\ QuotaOK(pol, Spend(q), h, now)
<1>1. /\ pol.kind \in {"window", "bucket"} /\ pol.cap \in Nat \ {0} /\ pol.window \in Nat \ {0}
      /\ pol.refill \in Nat
      /\ e.left \in Int /\ e.at \in Int /\ e.seen \in Int
  BY PolicyFields DEF Quotas
<1>2. ASSUME q \in Quotas, QuotaOK(pol, Spend(q), h, now), \A n \in 1..Len(g) : g[n] <= now
      PROVE  /\ q \in Quotas /\ Spend(q) \in Quotas /\ Spend(q) # NoEntry
             /\ h \in Seq(Nat) /\ QuotaOK(pol, Spend(q), h, now)
  <2>1. Spend(q) \in Quotas
    BY <1>2, SpentFields
  <2>2. Spend(q) # NoEntry
    BY <1>2 DEF QuotaOK, NoEntry
  <2>3. h \in Seq(Nat)
    BY <1>2, GrantOne
  <2> QED BY <1>2, <2>1, <2>2, <2>3
<1>3. CASE e = NoEntry
  <2>1. q = Fresh(pol, now) /\ g = <<>>
    BY <1>3 DEF Quota
  <2>2. q \in Quotas /\ q.left = pol.cap /\ q.at = now /\ q.seen = now
    BY <1>1, <2>1 DEF Fresh, Quotas
  <2>3. \A n \in 1..Len(g) : g[n] <= now
    BY <2>1
  <2>4. \A a \in Int : Since(g, a) = 0
    <3>1. TAKE a \in Int
    <3>2. \A n \in 1..Len(g) : g[n] < a
      BY <2>1
    <3> QED BY <3>2, SinceNone
  <2>5. CASE pol.kind = "bucket"
    <3>1. ASSUME NEW a \in 0..now
          PROVE  Since(g, a) + q.left <= pol.cap + pol.refill * CeilDiv(q.at - a, pol.window)
      <4>1. now - a \in Int /\ now - a > -pol.window /\ a \in Int
        BY <1>1
      <4>2. CeilDiv(now - a, pol.window) \in Nat
        BY <1>1, <4>1, CeilSign
      <4>3. pol.refill * CeilDiv(now - a, pol.window) \in Nat
        BY <1>1, <4>2
      <4> QED BY <1>1, <2>2, <2>4, <4>1, <4>3
    <3>2. Promise(pol, q, g, now)
      BY <1>1, <2>2, <3>1 DEF Promise
    <3>3. QuotaOK(pol, Spend(q), h, now)
      BY <2>2, <2>3, <2>5, <3>2, BucketSpent
    <3> QED BY <1>2, <2>2, <2>3, <3>3
  <2>6. CASE pol.kind = "window"
    <3>1. \A a \in 0..now : Since(g, a) <= pol.cap - 1
      BY <1>1, <2>4
    <3>2. h = Append(g, now)
      BY <1>1, <2>2
    <3>3. QuotaOK(pol, Spend(q), h, now)
      BY <2>2, <2>3, <2>4, <2>6, <3>1, <3>2, WindowBegun
    <3> QED BY <1>2, <2>2, <2>3, <3>3
  <2> QED BY <1>1, <2>5, <2>6
<1>4. CASE e # NoEntry
  <2> DEFINE r == Refreshed(pol, e, now)
  <2>1. /\ QuotaOK(pol, e, g, now) /\ q = [r EXCEPT !.seen = now]
    BY <1>4 DEF Quota
  <2>2. /\ e.at \in 0..now /\ e.seen \in 0..now /\ e.left <= pol.cap /\ e.seen - e.at < pol.window
        /\ \A n \in 1..Len(g) : g[n] <= e.seen
    BY <2>1 DEF QuotaOK
  <2>3. \A n \in 1..Len(g) : g[n] <= now
    BY <1>1, <2>2
  <2>4. ASSUME r \in Quotas
        PROVE  q \in Quotas /\ q.left = r.left /\ q.at = r.at /\ q.seen = now
    <3> HIDE DEF r
    <3>1. q \in Quotas
      BY <2>1, <2>4 DEF Quotas
    <3>2. q.left = r.left /\ q.at = r.at /\ q.seen = now
      BY <2>1, <2>4 DEF Quotas
    <3> QED BY <3>1, <3>2
  <2>5. CASE pol.kind = "bucket"
    <3>1. r = Refilled(pol, e, now)
      BY <2>5 DEF Refreshed
    <3>2. r \in Quotas
      BY <2>2, <2>5, <3>1, RefilledFields
    <3>3. Promise(pol, r, g, now)
      BY <2>1, <2>5, <3>1, BucketRefilled
    <3> HIDE DEF r
    <3>4. q \in Quotas /\ q.left = r.left /\ q.at = r.at /\ q.seen = now
      BY <2>4, <3>2
    <3>5. Promise(pol, q, g, now)
      BY <3>3, <3>4 DEF Promise
    <3>6. QuotaOK(pol, Spend(q), h, now)
      BY <2>3, <2>5, <3>4, <3>5, BucketSpent
    <3> QED BY <1>2, <2>3, <3>4, <3>6
  <2>6. CASE pol.kind = "window" /\ ~(now - e.at >= pol.window)
    <3>1. r = e
      BY <2>6 DEF Refreshed
    <3> HIDE DEF r
    <3>2. q \in Quotas /\ q.left = e.left /\ q.at = e.at /\ q.seen = now
      BY <2>4, <3>1
    <3>3. WindowOK(pol, q, g)
      BY <2>1, <2>6, <3>2 DEF QuotaOK, WindowOK
    <3>5. q.at \in 0..now /\ now - q.at < pol.window /\ q.left <= pol.cap
      BY <1>1, <2>2, <2>6, <3>2
    <3>4. QuotaOK(pol, Spend(q), h, now)
      BY <2>3, <2>6, <3>2, <3>3, <3>5, WindowSpent
    <3> QED BY <1>2, <2>3, <3>2, <3>4
  <2>7. CASE pol.kind = "window" /\ now - e.at >= pol.window
    <3>1. r = [e EXCEPT !.left = pol.cap, !.at = now]
      BY <2>7 DEF Refreshed
    <3> HIDE DEF r
    <3>2. r \in Quotas
      <4>1. pol.cap \in Int /\ now \in Int
        BY <1>1
      <4> QED BY <3>1, <4>1 DEF Quotas
    <3>3. r.left = pol.cap /\ r.at = now
      BY <3>1 DEF Quotas
    <3>4. q \in Quotas /\ q.left = pol.cap /\ q.at = now /\ q.seen = now
      BY <2>4, <3>2, <3>3
    <3>5. WindowOK(pol, e, g)
      BY <2>1, <2>7 DEF QuotaOK
    <3>6. Since(g, now) = 0
      <4>0. e.seen < now
        BY <1>1, <2>2, <2>7
      <4>1. \A n \in 1..Len(g) : g[n] < now
        BY <1>1, <2>2, <4>0
      <4> QED BY <4>1, SinceNone
    <3>7. Since(g, e.at + 1) <= pol.cap - 1
      <4> DEFINE x == Since(g, e.at)  y == Since(g, e.at + 1)  l == e.left  c == pol.cap
      <4>1. e.at + 1 \in Int /\ e.at <= e.at + 1
        BY <1>1
      <4>2. x \in Nat /\ y \in Nat /\ y <= x
        BY <1>1, <4>1, SinceCounts, SinceFalls
      <4>3. (l < 0 => x = 0) /\ y + l <= c - 1 /\ l \in Int /\ c \in Nat \ {0}
        BY <1>1, <3>5 DEF WindowOK
      <4> HIDE DEF x, y, l, c
      <4>4. y <= c - 1
        BY <4>2, <4>3
      <4> QED BY <4>4 DEF y, c
    <3>8. ASSUME NEW a \in 0..now, a > now - pol.window
          PROVE  Since(g, a) <= pol.cap - 1
      <4>1. a \in Int /\ e.at + 1 \in Int /\ e.at + 1 <= a
        BY <1>1, <2>7, <3>8
      <4>2. Since(g, a) <= Since(g, e.at + 1) /\ Since(g, a) \in Nat /\ Since(g, e.at + 1) \in Nat
        BY <4>1, SinceFalls, SinceCounts
      <4> QED BY <1>1, <3>7, <4>2
    <3>9. h = Append(g, now)
      BY <1>1, <3>4
    <3>10. QuotaOK(pol, Spend(q), h, now)
      BY <2>3, <2>7, <3>4, <3>6, <3>8, <3>9, WindowBegun
    <3> QED BY <1>2, <2>3, <3>4, <3>10
  <2> QED BY <1>1, <2>5, <2>6, <2>7
<1> QED BY <1>3, <1>4

\* Nothing changes as time passes.
LEMMA QuotaWaits ==
  ASSUME NEW pol \in Policies, NEW e \in Quotas, NEW g \in Seq(Nat), NEW now \in Nat, QuotaOK(pol, e, g, now)
  PROVE  QuotaOK(pol, e, g, now + 1)
<1>1. e.at \in 0..now + 1 /\ e.seen \in 0..now + 1
  BY DEF QuotaOK
<1> QED BY <1>1 DEF QuotaOK

\* The promise at this moment, for every stretch that ends now.
LEMMA QuotaPromise ==
  ASSUME NEW pol \in Policies, NEW e \in Quotas, NEW g \in Seq(Nat), NEW now \in Nat, QuotaOK(pol, e, g, now),
         NEW a \in 0..now
  PROVE  IF pol.kind = "bucket"
         THEN Granted(g, a, now) <= pol.cap + pol.refill * CeilDiv(now - a, pol.window)
         ELSE now - a < pol.window => Granted(g, a, now) <= 2 * pol.cap - 1
<1>1. /\ pol.kind \in {"window", "bucket"} /\ pol.cap \in Nat \ {0} /\ pol.window \in Nat \ {0}
      /\ pol.refill \in Nat
      /\ e.left \in Int /\ e.at \in Int /\ e.seen \in Int
  BY PolicyFields DEF Quotas
<1>2. /\ e.at \in 0..now /\ e.seen \in 0..now /\ \A n \in 1..Len(g) : g[n] <= e.seen
  BY DEF QuotaOK
<1>3. \A n \in 1..Len(g) : g[n] <= now
  BY <1>1, <1>2
<1>4. a \in Int /\ Granted(g, a, now) = Since(g, a) /\ Since(g, a) \in Nat
  <2>1. a \in Int /\ now \in Int
    OBVIOUS
  <2> QED BY <1>3, <2>1, GrantedAll, SinceCounts
<1>5. CASE pol.kind = "bucket"
  <2> DEFINE p == CeilDiv(e.at - a, pol.window)  q == CeilDiv(now - a, pol.window)
  <2>0. now - a \in Int /\ now - a > -pol.window /\ e.at - a \in Int /\ e.at - a <= now - a
    BY <1>1, <1>2
  <2>1. p \in Int /\ q \in Nat /\ p <= q
    BY <1>1, <2>0, CeilBounds, CeilSign, CeilMonotone
  <2>2. CASE a <= e.seen
    <3>1. Since(g, a) + e.left <= pol.cap + pol.refill * p /\ 0 <= e.left
      BY <1>1, <1>5, <2>2 DEF QuotaOK, BucketOK
    <3> HIDE DEF p, q
    <3>2. /\ pol.refill * p \in Int /\ pol.refill * q \in Int
          /\ pol.refill * (q - p) = pol.refill * q - pol.refill * p
      BY <1>1, <2>1, ProductParts
    <3>3. pol.refill * (q - p) >= 0
      <4>1. q - p \in Nat
        BY <2>1
      <4> QED BY <1>1, <4>1
    <3> DEFINE fp == pol.refill * p  fq == pol.refill * q
    <3>4. fp \in Int /\ fq \in Int /\ fq - fp >= 0 /\ Since(g, a) + e.left <= pol.cap + fp
      BY <3>1, <3>2, <3>3
    <3> HIDE DEF fp, fq
    <3>5. Since(g, a) <= pol.cap + fq
      BY <1>1, <1>4, <3>1, <3>4
    <3> QED BY <1>4, <1>5, <3>5 DEF fq, q
  <2>3. CASE a > e.seen
    <3>1. \A n \in 1..Len(g) : g[n] < a
      BY <1>1, <1>2, <1>4, <2>3
    <3>2. Since(g, a) = 0
      BY <1>4, <3>1, SinceNone
    <3> HIDE DEF p, q
    <3>3. pol.refill * q \in Nat
      BY <1>1, <2>1
    <3>4. Since(g, a) <= pol.cap + pol.refill * q
      BY <1>1, <3>2, <3>3
    <3> QED BY <1>4, <1>5, <3>4 DEF q
  <2> QED BY <1>1, <1>4, <2>2, <2>3
<1>6. CASE pol.kind = "window"
  <2>1. SUFFICES ASSUME now - a < pol.window PROVE Granted(g, a, now) <= 2 * pol.cap - 1
    BY <1>6
  <2> DEFINE x == Since(g, e.at)  y == Since(g, e.at + 1)  l == e.left  c == pol.cap
  <2>2. e.at + 1 \in Int /\ e.at <= e.at + 1
    BY <1>1
  <2>3. x \in Nat /\ y \in Nat /\ y <= x
    BY <1>1, <2>2, SinceCounts, SinceFalls
  <2>4. (l < 0 => x = 0) /\ x + l <= c /\ y + l <= c - 1 /\ l \in Int /\ c \in Nat \ {0}
    BY <1>1, <1>6 DEF WindowOK, QuotaOK
  <2>5. CASE a <= e.at
    <3>1. a \in 0..e.at /\ a > e.at - pol.window
      BY <1>1, <1>2, <2>1, <2>5
    <3>2. Since(g, a) <= c - 1 + x
      BY <1>6, <3>1 DEF WindowOK, QuotaOK
    <3> HIDE DEF x, y, l, c
    <3>3. x <= c
      BY <2>3, <2>4
    <3>4. Since(g, a) <= 2 * c - 1
      BY <1>4, <2>3, <2>4, <3>2, <3>3
    <3> QED BY <1>4, <3>4 DEF c
  <2>6. CASE a > e.at
    <3>1. e.at + 1 <= a
      BY <1>1, <2>6
    <3>2. Since(g, a) <= y
      BY <1>4, <2>2, <3>1, SinceFalls
    <3> HIDE DEF x, y, l, c
    <3>3. y <= c - 1
      BY <2>3, <2>4
    <3>4. Since(g, a) <= 2 * c - 1
      BY <1>4, <2>3, <2>4, <3>2, <3>3
    <3> QED BY <1>4, <3>4 DEF c
  <2> QED BY <1>1, <1>4, <2>5, <2>6
<1> QED BY <1>1, <1>5, <1>6

\* A quota that is whole again is a new one.
LEMMA WholeFresh ==
  ASSUME NEW pol \in Policies, NEW e \in Quotas, NEW now \in Nat, Whole(pol, e, now), e.at <= now, e.left <= pol.cap
  PROVE  Quota(pol, e, now) = Fresh(pol, now)
<1> DEFINE r == Refreshed(pol, e, now)  q == [r EXCEPT !.seen = now]
<1>1. /\ pol.kind \in {"window", "bucket"} /\ pol.cap \in Nat \ {0} /\ pol.window \in Nat \ {0}
      /\ e.left \in Int /\ e.at \in Int /\ e.seen \in Int
  BY PolicyFields DEF Quotas
<1>2. Quota(pol, e, now) = q
  BY DEF Quota, Whole
<1>3. r \in Quotas /\ r.left = pol.cap /\ r.at = now
  <2>1. CASE pol.kind = "window"
    <3>1. r = [e EXCEPT !.left = pol.cap, !.at = now]
      BY <2>1 DEF Refreshed, Whole
    <3> HIDE DEF r
    <3>2. r \in Quotas
      <4>1. pol.cap \in Int /\ now \in Int
        BY <1>1
      <4> QED BY <3>1, <4>1 DEF Quotas
    <3>3. r.left = pol.cap /\ r.at = now
      BY <3>1 DEF Quotas
    <3> QED BY <3>2, <3>3
  <2>2. CASE pol.kind = "bucket"
    <3> DEFINE k == (now - e.at) \div pol.window  c == CeilDiv(pol.cap - e.left, pol.refill)  f == pol.refill
    <3>1. r = Refilled(pol, e, now)
      BY <2>2 DEF Refreshed
    <3>2. k >= c /\ e.left < pol.cap
      BY <2>2 DEF Whole
    <3>3. f \in Nat \ {0} /\ pol.cap - e.left \in Int /\ pol.cap - e.left > 0
      BY <1>1, <2>2, <3>2, PolicyFields
    <3>4. c \in Int /\ f * c >= pol.cap - e.left
      BY <3>3, CeilBounds
    <3>5. /\ k \in Nat /\ r \in Quotas
          /\ \/ k = 0
             \/ k > 0 /\ r.left = pol.cap /\ r.at = now
             \/ k > 0 /\ k < c
      BY <2>2, <3>1, RefilledFields
    <3> HIDE DEF k, c, r, f
    <3>6. c > 0
      <4>1. CASE c = 0
        <5>1. f * c = 0
          BY <3>3, <4>1
        <5> QED BY <3>3, <3>4, <5>1
      <4>2. CASE c < 0
        <5>1. f * c < 0
          BY <3>3, <3>4, <4>2, ProductGrows
        <5> QED BY <3>3, <3>4, <5>1
      <4> QED BY <3>4, <4>1, <4>2
    <3> QED BY <3>2, <3>4, <3>5, <3>6
  <2> QED BY <1>1, <2>1, <2>2
<1> HIDE DEF r
<1>4. q \in Quotas
  BY <1>3 DEF Quotas
<1>5. q.left = pol.cap /\ q.at = now /\ q.seen = now
  BY <1>3 DEF Quotas
<1> HIDE DEF q
<1>6. q = [left |-> q.left, at |-> q.at, seen |-> q.seen]
  BY <1>4 DEF Quotas
<1> QED BY <1>2, <1>5, <1>6 DEF Fresh

\* A bucket is whole once its missing tokens are due.
LEMMA WholeBucket ==
  ASSUME NEW pol, NEW e, NEW t, e # NoEntry, pol.kind # "window", e.left < pol.cap,
         (t - e.at) \div pol.window >= CeilDiv(pol.cap - e.left, pol.refill)
  PROVE  Whole(pol, e, t)
BY Zenon DEF Whole

\* A quota that is whole stays whole.
LEMMA WholeWaits ==
  ASSUME NEW pol \in Policies, NEW e \in Quotas, NEW now \in Nat, Whole(pol, e, now)
  PROVE  Whole(pol, e, now + 1)
<1>1. /\ pol.kind \in {"window", "bucket"} /\ pol.cap \in Nat \ {0} /\ pol.window \in Nat \ {0}
      /\ e.left \in Int /\ e.at \in Int
  BY PolicyFields DEF Quotas
<1>2. CASE pol.kind = "window"
  BY <1>1, <1>2 DEF Whole
<1>3. CASE pol.kind = "bucket"
  <2> DEFINE x == now - e.at  y == (now + 1) - e.at  c == CeilDiv(pol.cap - e.left, pol.refill)
             p == x \div pol.window  q == y \div pol.window
  <2>1. x \in Int /\ y \in Int /\ x <= y
    BY <1>1
  <2> HIDE DEF x, y
  <2>2. p <= q /\ p \in Int /\ q \in Int
    BY <1>1, <2>1, QuotientMonotone, QuotientBounds
  <2>3. c \in Int
    <3>1. pol.cap - e.left \in Int /\ pol.refill \in Nat \ {0}
      BY <1>1, <1>3, PolicyFields
    <3> QED BY <3>1, CeilBounds
  <2>4. p >= c /\ e.left < pol.cap /\ e # NoEntry
    BY <1>3 DEF Whole, x
  <2> HIDE DEF p, q, c
  <2>5. q >= c
    BY <2>2, <2>3, <2>4
  <2>6. ((now + 1) - e.at) \div pol.window >= CeilDiv(pol.cap - e.left, pol.refill)
    BY <2>5 DEF q, c, y
  <2>7. pol.kind # "window"
    BY <1>3
  <2> QED BY <2>4, <2>6, <2>7, WholeBucket
<1> QED BY <1>1, <1>2, <1>3

\* The promise while time passes, and of an identity that was granted nothing.
LEMMA PromiseWaits ==
  ASSUME NEW pol \in Policies, NEW now \in Nat, NEW gs \in [Ids -> Seq(Nat)],
         \A i \in Ids : \A n \in 1..Len(gs[i]) : gs[i][n] <= now, HeldOK(gs, pol, now)
  PROVE  HeldOK(gs, pol, now + 1)
<1>1. /\ pol.kind \in {"window", "bucket"} /\ pol.cap \in Nat \ {0} /\ pol.window \in Nat \ {0}
      /\ pol.refill \in Nat
  BY PolicyFields
<1>2. SUFFICES ASSUME NEW i \in Ids, NEW a \in 0..now + 1, NEW b \in a..now + 1
      PROVE  IF pol.kind = "bucket"
             THEN Granted(gs[i], a, b) <= pol.cap + pol.refill * CeilDiv(b - a, pol.window)
             ELSE b - a < pol.window => Granted(gs[i], a, b) <= 2 * pol.cap - 1
  BY DEF HeldOK
<1> DEFINE g == gs[i]
<1>3. g \in Seq(Nat) /\ \A n \in 1..Len(g) : g[n] <= now
  OBVIOUS
<1> HIDE DEF g
<1>4. CASE b <= now
  <2>1. a \in 0..now /\ b \in a..now
    BY <1>4
  <2> QED BY <2>1 DEF HeldOK
<1>5. CASE b = now + 1 /\ a <= now
  <2>0. a \in 0..now /\ now \in a..now /\ a \in Int /\ now \in Int
    BY <1>5
  <2>1. Granted(g, a, b) = Since(g, a)
    <3>1. \A n \in 1..Len(g) : g[n] <= b
      BY <1>3, <1>5
    <3> QED BY <1>3, <2>0, <3>1, GrantedAll
  <2>2. Granted(g, a, now) = Since(g, a) /\ Since(g, a) \in Nat
    BY <1>3, <2>0, GrantedAll, SinceCounts
  <2>3. IF pol.kind = "bucket"
        THEN Granted(g, a, now) <= pol.cap + pol.refill * CeilDiv(now - a, pol.window)
        ELSE now - a < pol.window => Granted(g, a, now) <= 2 * pol.cap - 1
    BY <2>0 DEF HeldOK, g
  <2>4. CASE pol.kind = "bucket"
    <3> DEFINE p == CeilDiv(now - a, pol.window)  q == CeilDiv(b - a, pol.window)
    <3>1. now - a \in Int /\ b - a \in Int /\ now - a <= b - a
      BY <1>5, <2>0
    <3>2. p \in Int /\ q \in Int /\ p <= q
      BY <1>1, <3>1, CeilBounds, CeilMonotone
    <3>3. Since(g, a) <= pol.cap + pol.refill * p
      BY <2>2, <2>3, <2>4
    <3> HIDE DEF p, q
    <3>4. /\ pol.refill * p \in Int /\ pol.refill * q \in Int
          /\ pol.refill * (q - p) = pol.refill * q - pol.refill * p
      BY <1>1, <3>2, ProductParts
    <3>5. pol.refill * (q - p) >= 0
      <4>1. q - p \in Nat
        BY <3>2
      <4> QED BY <1>1, <4>1
    <3> DEFINE fp == pol.refill * p  fq == pol.refill * q
    <3>6. fp \in Int /\ fq \in Int /\ fq - fp >= 0 /\ Since(g, a) <= pol.cap + fp
      BY <3>3, <3>4, <3>5
    <3> HIDE DEF fp, fq
    <3>7. Since(g, a) <= pol.cap + fq
      BY <1>1, <2>2, <3>6
    <3> QED BY <2>1, <2>4, <3>7 DEF fq, q, g
  <2>5. CASE pol.kind = "window"
    <3>1. b - a < pol.window => now - a < pol.window
      BY <1>1, <1>5, <2>0
    <3> QED BY <2>1, <2>2, <2>3, <2>5, <3>1 DEF g
  <2> QED BY <1>1, <2>4, <2>5
<1>6. CASE a = now + 1
  <2>0. a \in Int /\ b = a
    BY <1>6
  <2>1. Granted(g, a, b) = 0
    <3>1. {n \in 1..Len(g) : a <= g[n] /\ g[n] <= b} = {}
      BY <1>3, <1>6
    <3> QED BY <3>1, FS_EmptySet DEF Granted
  <2>2. b - a = 0
    BY <2>0
  <2>3. CeilDiv(0, pol.window) \in Nat
    <3>1. 0 \in Int /\ 0 > -pol.window
      BY <1>1
    <3> QED BY <1>1, <3>1, CeilSign
  <2>4. pol.refill * CeilDiv(0, pol.window) \in Nat
    BY <1>1, <2>3
  <2>5. 0 <= pol.cap + pol.refill * CeilDiv(b - a, pol.window) /\ 0 <= 2 * pol.cap - 1
    BY <1>1, <2>2, <2>4
  <2> QED BY <2>1, <2>5 DEF g
<1> QED BY <1>4, <1>5, <1>6

\* Nothing was granted, so that every promise is kept.
LEMMA NothingGranted ==
  ASSUME NEW pol \in Policies, NEW now \in Nat, NEW gs, \A i \in Ids : gs[i] = <<>>
  PROVE  HeldOK(gs, pol, now)
<1>1. /\ pol.kind \in {"window", "bucket"} /\ pol.cap \in Nat \ {0} /\ pol.window \in Nat \ {0}
      /\ pol.refill \in Nat
  BY PolicyFields
<1>2. SUFFICES ASSUME NEW i \in Ids, NEW a \in 0..now, NEW b \in a..now
      PROVE  IF pol.kind = "bucket"
             THEN Granted(gs[i], a, b) <= pol.cap + pol.refill * CeilDiv(b - a, pol.window)
             ELSE b - a < pol.window => Granted(gs[i], a, b) <= 2 * pol.cap - 1
  BY DEF HeldOK
<1>3. Granted(gs[i], a, b) = 0
  <2>1. {n \in 1..Len(gs[i]) : a <= gs[i][n] /\ gs[i][n] <= b} = {}
    BY <1>2
  <2> QED BY <2>1, FS_EmptySet DEF Granted
<1>4. b - a \in Int /\ b - a > -pol.window
  BY <1>1
<1>5. CeilDiv(b - a, pol.window) \in Nat
  BY <1>1, <1>4, CeilSign
<1>6. pol.refill * CeilDiv(b - a, pol.window) \in Nat
  BY <1>1, <1>5
<1>7. 0 <= pol.cap + pol.refill * CeilDiv(b - a, pol.window) /\ 0 <= 2 * pol.cap - 1
  BY <1>1, <1>6
<1> QED BY <1>3, <1>7

---------------------------------------------------------------------------
(* The queue of the pruning.                                               *)
PlaceRank(P, n) == Cardinality({m \in P : m <= n})

\* The ranks of a set of places run from one to their number.
LEMMA PlaceRanks ==
  ASSUME NEW L \in Nat, NEW P \in SUBSET (1..L)
  PROVE  /\ IsFiniteSet(P) /\ Cardinality(P) \in Nat
         /\ \A n \in P : PlaceRank(P, n) \in 1..Cardinality(P)
         /\ \A m, n \in P : PlaceRank(P, m) = PlaceRank(P, n) => m = n
         /\ \A k \in 1..Cardinality(P) : \E n \in P : PlaceRank(P, n) = k
<1>0. \A n \in P : n \in Int
  OBVIOUS
<1>1. IsFiniteSet(P)
  <2>1. IsFiniteSet(1..L)
    BY FS_Interval
  <2> QED BY <2>1, FS_Subset
<1>2. Cardinality(P) \in Nat
  BY <1>1, FS_CardinalityType
<1> DEFINE U(n) == {m \in P : m <= n}
<1>3. ASSUME NEW n \in P
      PROVE  IsFiniteSet(U(n)) /\ Cardinality(U(n)) \in 1..Cardinality(P)
  <2>1. U(n) \in SUBSET P /\ n \in U(n)
    OBVIOUS
  <2>2. IsFiniteSet(U(n)) /\ Cardinality(U(n)) <= Cardinality(P)
    BY <1>1, <2>1, FS_Subset
  <2>3. Cardinality(U(n)) \in Nat /\ Cardinality(U(n)) # 0
    BY <2>1, <2>2, FS_CardinalityType, FS_EmptySet
  <2> QED BY <1>2, <2>2, <2>3
<1>4. ASSUME NEW m \in P, NEW n \in P, m < n
      PROVE  Cardinality(U(m)) < Cardinality(U(n))
  <2>0. m \in Int /\ n \in Int
    BY <1>0
  <2>1. U(m) \in SUBSET U(n) /\ n \in U(n) /\ n \notin U(m)
    <3>1. \A x \in P : x <= m => x <= n
      BY <1>0, <1>4, <2>0
    <3>2. n <= n /\ ~(n <= m)
      BY <1>4, <2>0
    <3> QED BY <3>1, <3>2
  <2>2. U(m) # U(n)
    BY <2>1
  <2>3. IsFiniteSet(U(n)) /\ Cardinality(U(m)) \in Nat /\ Cardinality(U(n)) \in Nat
    BY <1>2, <1>3
  <2> HIDE DEF U
  <2>4. Cardinality(U(m)) <= Cardinality(U(n)) /\ Cardinality(U(m)) # Cardinality(U(n))
    BY <2>1, <2>2, <2>3, FS_Subset
  <2> QED BY <2>3, <2>4
<1>5. \A n \in P : PlaceRank(P, n) \in 1..Cardinality(P)
  BY <1>3 DEF PlaceRank
<1>6. ASSUME NEW m \in P, NEW n \in P, PlaceRank(P, m) = PlaceRank(P, n)
      PROVE  m = n
  <2>1. m \in Int /\ n \in Int
    OBVIOUS
  <2>2. Cardinality(U(m)) = Cardinality(U(n)) /\ Cardinality(U(m)) \in Int
    BY <1>2, <1>3, <1>6 DEF PlaceRank
  <2> HIDE DEF U
  <2>3. ~(m < n) /\ ~(n < m)
    BY <1>4, <2>2
  <2> QED BY <2>1, <2>3
<1>7. \A k \in 1..Cardinality(P) : \E n \in P : PlaceRank(P, n) = k
  <2> DEFINE C == 1..Cardinality(P)
             f == [n \in P |-> PlaceRank(P, n)]
  <2>1. f \in Injection(P, C)
    BY <1>5, <1>6 DEF Injection, IsInjective
  <2>2. IsFiniteSet(C) /\ Cardinality(C) = Cardinality(P)
    <3>1. IsFiniteSet(C) /\ Cardinality(C) = IF 1 > Cardinality(P) THEN 0 ELSE Cardinality(P) - 1 + 1
      BY <1>2, FS_Interval
    <3> QED BY <1>2, <3>1
  <2> HIDE DEF C
  <2>3. f \in Surjection(P, C)
    BY <2>1, <2>2, FS_Injection
  <2> QED BY <2>3 DEF Surjection, C
<1> QED BY <1>1, <1>2, <1>5, <1>6, <1>7

\* AtPlaces lists the members at its places, and no others.
LEMMA AtPlacesList ==
  ASSUME NEW S, NEW s \in Seq(S), NEW P \in SUBSET (1..Len(s))
  PROVE  /\ AtPlaces(s, P) \in Seq(S) /\ Len(AtPlaces(s, P)) = Cardinality(P)
         /\ \A k \in 1..Len(AtPlaces(s, P)) : \E n \in P : AtPlaces(s, P)[k] = s[n]
         /\ \A n \in P : \E k \in 1..Len(AtPlaces(s, P)) : AtPlaces(s, P)[k] = s[n]
<1> DEFINE r == AtPlaces(s, P)
<1>1. /\ Cardinality(P) \in Nat
      /\ \A n \in P : PlaceRank(P, n) \in 1..Cardinality(P)
      /\ \A m, n \in P : PlaceRank(P, m) = PlaceRank(P, n) => m = n
      /\ \A k \in 1..Cardinality(P) : \E n \in P : PlaceRank(P, n) = k
  <2>1. Len(s) \in Nat
    OBVIOUS
  <2> QED BY <2>1, PlaceRanks
<1> DEFINE at(k) == CHOOSE n \in P : PlaceRank(P, n) = k
<1>2. r = [k \in 1..Cardinality(P) |-> s[at(k)]]
  BY DEF AtPlaces, PlaceRank
<1> HIDE DEF r
<1>3. \A k \in 1..Cardinality(P) : at(k) \in P /\ PlaceRank(P, at(k)) = k
  <2>1. TAKE k \in 1..Cardinality(P)
  <2>2. \E n \in P : PlaceRank(P, n) = k
    BY <1>1
  <2> QED BY <2>2
<1> HIDE DEF at
<1>4. \A k \in 1..Cardinality(P) : s[at(k)] \in S
  <2>1. \A k \in 1..Cardinality(P) : at(k) \in 1..Len(s)
    BY <1>3
  <2> QED BY <2>1
<1>5. r \in Seq(S) /\ Len(r) = Cardinality(P)
  BY <1>1, <1>2, <1>4
<1>6. ASSUME NEW n \in P PROVE PlaceRank(P, n) \in 1..Len(r) /\ r[PlaceRank(P, n)] = s[n]
  <2>1. PlaceRank(P, n) \in 1..Cardinality(P)
    BY <1>1
  <2>2. at(PlaceRank(P, n)) = n
    BY <1>1, <1>3, <2>1
  <2> QED BY <1>2, <1>5, <2>1, <2>2
<1>7. ASSUME NEW k \in 1..Len(r) PROVE at(k) \in P /\ r[k] = s[at(k)]
  BY <1>2, <1>3, <1>5
<1> QED BY <1>5, <1>6, <1>7 DEF r

\* A batch from the front, its members in `gone` dropped, the others at the back.
Turned(q, m, gone) ==
    LET front == SubSeq(q, 1, m)
    IN SubSeq(q, m + 1, Len(q)) \o AtPlaces(front, {n \in 1..Len(front) : front[n] \notin gone})

\* A batch from the front of the queue, and what is left of it at the back.
LEMMA QueueTurned ==
  ASSUME NEW q \in Seq(Ids), NEW H \in SUBSET Ids, Len(q) = Cardinality(H),
         \A n \in 1..Len(q) : q[n] \in H, \A i \in H : \E n \in 1..Len(q) : q[n] = i,
         NEW m \in 0..Len(q), NEW gone, \A i \in gone : \E n \in 1..m : q[n] = i
  PROVE  /\ Turned(q, m, gone) \in Seq(Ids)
         /\ \A n \in 1..Len(Turned(q, m, gone)) : Turned(q, m, gone)[n] \in H \ gone
         /\ \A i \in H \ gone : \E n \in 1..Len(Turned(q, m, gone)) : Turned(q, m, gone)[n] = i
         /\ Len(Turned(q, m, gone)) = Cardinality(H \ gone) /\ Len(Turned(q, m, gone)) <= Len(q)
<1> DEFINE r == Turned(q, m, gone)  front == SubSeq(q, 1, m)
<1> DEFINE L == Len(q)
           back == SubSeq(q, m + 1, Len(q))
           stay == {n \in 1..Len(front) : front[n] \notin gone}
           t == AtPlaces(front, stay)
<1>1. L \in Nat /\ m \in Nat /\ m <= L
  OBVIOUS
<1>2. IsFiniteSet(H)
  BY LimiterAssumption, FS_Subset
<1>3. \A x, y \in 1..L : q[x] = q[y] => x = y
  <2> DEFINE f == [n \in 1..L |-> q[n]]
  <2>1. f \in Surjection(1..L, H)
    BY DEF Surjection
  <2>2. IsFiniteSet(1..L) /\ Cardinality(1..L) = L
    <3> HIDE DEF L
    <3>0. 1 \in Int /\ L \in Int
      BY <1>1
    <3>1. IsFiniteSet(1..L) /\ Cardinality(1..L) = IF 1 > L THEN 0 ELSE L - 1 + 1
      BY <3>0, FS_Interval
    <3> QED BY <1>1, <3>1
  <2>3. f \in Injection(1..L, H)
    BY <2>1, <2>2, FS_SurjSameCardinalityImpliesInj
  <2> QED BY <2>3 DEF Injection, IsInjective
<1>4. front \in Seq(Ids) /\ Len(front) = m /\ \A n \in 1..m : front[n] = q[n]
  BY <1>1
<1>5. back \in Seq(Ids) /\ Len(back) = L - m /\ \A n \in 1..(L - m) : back[n] = q[m + n]
  BY <1>1
<1>6. stay \in SUBSET (1..Len(front))
  OBVIOUS
<1>7. /\ t \in Seq(Ids) /\ Len(t) = Cardinality(stay)
      /\ \A k \in 1..Len(t) : \E n \in stay : t[k] = front[n]
      /\ \A n \in stay : \E k \in 1..Len(t) : t[k] = front[n]
  <2>1. t = AtPlaces(front, stay)
    OBVIOUS
  <2> HIDE DEF t, stay
  <2>2. front \in Seq(Ids)
    BY <1>4
  <2>3. /\ AtPlaces(front, stay) \in Seq(Ids) /\ Len(AtPlaces(front, stay)) = Cardinality(stay)
        /\ \A k \in 1..Len(AtPlaces(front, stay)) : \E n \in stay : AtPlaces(front, stay)[k] = front[n]
        /\ \A n \in stay : \E k \in 1..Len(AtPlaces(front, stay)) : AtPlaces(front, stay)[k] = front[n]
    BY <1>6, <2>2, AtPlacesList
  <2> QED BY <2>1, <2>3
<1>8. r = back \o t
  BY DEF Turned
<1>9. stay = {n \in 1..m : q[n] \notin gone}
  BY <1>4
<1> HIDE DEF back, t, stay, front, r
<1>10. /\ r \in Seq(Ids) /\ Len(r) = Len(back) + Len(t)
       /\ \A n \in 1..Len(back) : r[n] = back[n]
       /\ \A n \in 1..Len(t) : r[Len(back) + n] = t[n]
  <2>1. /\ back \o t \in Seq(Ids) /\ Len(back \o t) = Len(back) + Len(t)
        /\ \A n \in 1..Len(back) + Len(t) : (back \o t)[n] = IF n <= Len(back) THEN back[n] ELSE t[n - Len(back)]
    <3>1. back \in Seq(Ids) /\ t \in Seq(Ids)
      BY <1>5, <1>7
    <3> QED BY <3>1, ConcatProperties
  <2>2. Len(back) \in Nat /\ Len(t) \in Nat
    BY <1>5, <1>7
  <2>3. \A n \in 1..Len(back) : (back \o t)[n] = back[n]
    BY <2>1, <2>2
  <2>4. ASSUME NEW n \in 1..Len(t) PROVE (back \o t)[Len(back) + n] = t[n]
    <3>1. Len(back) + n \in 1..Len(back) + Len(t) /\ ~(Len(back) + n <= Len(back)) /\ Len(back) + n - Len(back) = n
      BY <2>2
    <3> QED BY <2>1, <3>1
  <2> QED BY <1>8, <2>1, <2>3, <2>4
<1> DEFINE out == {n \in 1..m : q[n] \in gone}
<1>11. IsFiniteSet(out) /\ Cardinality(gone) = Cardinality(out) /\ IsFiniteSet(gone)
  <2>1. IsFiniteSet(1..m)
    BY <1>1, FS_Interval
  <2>2. IsFiniteSet(out)
    BY <2>1, FS_Subset
  <2> DEFINE f == [n \in out |-> q[n]]
  <2>3. f \in Bijection(out, gone)
    <3>1. f \in Injection(out, gone)
      BY <1>1, <1>3 DEF Injection, IsInjective
    <3>2. f \in Surjection(out, gone)
      BY <1>1 DEF Surjection
    <3> QED BY <3>1, <3>2 DEF Bijection
  <2>4. ExistsBijection(out, gone)
    BY <2>3 DEF ExistsBijection
  <2> HIDE DEF out
  <2> QED BY <2>2, <2>4, FS_Bijection
<1>12. Cardinality(stay) = m - Cardinality(gone)
  <2>1. IsFiniteSet(1..m) /\ Cardinality(1..m) = m
    <3>1. IsFiniteSet(1..m) /\ Cardinality(1..m) = IF 1 > m THEN 0 ELSE m - 1 + 1
      BY <1>1, FS_Interval
    <3> QED BY <1>1, <3>1
  <2>2. stay = (1..m) \ out /\ (1..m) \cap out = out
    BY <1>9
  <2> HIDE DEF out
  <2>3. Cardinality((1..m) \ out) = Cardinality(1..m) - Cardinality((1..m) \cap out)
    BY <2>1, FS_Difference
  <2> QED BY <1>11, <2>1, <2>2, <2>3
<1>13. Cardinality(H \ gone) = L - Cardinality(gone)
  <2>1. H \cap gone = gone
    <3>1. gone \subseteq H
      <4>1. \A n \in 1..m : n \in 1..L
        BY <1>1
      <4> QED BY <4>1
    <3> QED BY <3>1
  <2>2. Cardinality(H \ gone) = Cardinality(H) - Cardinality(H \cap gone)
    BY <1>2, FS_Difference
  <2> QED BY <2>1, <2>2
<1>14. Cardinality(gone) \in Nat /\ Cardinality(stay) \in Nat
  <2>1. IsFiniteSet(stay)
    <3>1. IsFiniteSet(1..m)
      BY <1>1, FS_Interval
    <3> QED BY <3>1, <1>9, FS_Subset
  <2> QED BY <1>11, <2>1, FS_CardinalityType
<1> DEFINE x == Cardinality(gone)  y == Cardinality(stay)  lb == Len(back)  lt == Len(t)  lr == Len(r)
<1>a. /\ L \in Nat /\ m \in Nat /\ m <= L /\ x \in Nat /\ y \in Nat /\ y = m - x
      /\ lb = L - m /\ lt = y /\ lr = lb + lt
  BY <1>1, <1>5, <1>7, <1>10, <1>12, <1>14
<1>15. Len(r) = Cardinality(H \ gone) /\ Len(r) <= L
  <2> HIDE DEF x, y, lb, lt, lr, L
  <2>1. lr = L - x /\ lr <= L
    BY <1>a
  <2> QED BY <1>13, <2>1 DEF lr, x
<1>16. ASSUME NEW n \in 1..Len(r) PROVE r[n] \in H \ gone
  <2>1. CASE n <= L - m
    <3>1. n \in 1..(L - m) /\ m + n \in 1..L
      BY <1>1, <2>1
    <3>2. r[n] = q[m + n]
      BY <1>5, <1>10, <3>1
    <3>3. q[m + n] \notin gone
      <4>1. SUFFICES ASSUME NEW z \in 1..m, q[z] = q[m + n] PROVE FALSE
        OBVIOUS
      <4>2. z \in 1..L
        BY <1>1
      <4>3. z = m + n
        BY <1>3, <3>1, <4>1, <4>2
      <4> QED BY <1>1, <3>1, <4>3
    <3> QED BY <3>1, <3>2, <3>3
  <2>2. CASE ~(n <= L - m)
    <3> DEFINE k == n - (L - m)
    <3>1. k \in 1..Len(t) /\ n = Len(back) + k
      <4>1. n \in 1..lr
        OBVIOUS
      <4> HIDE DEF x, y, lb, lt, lr, L
      <4>2. k \in 1..lt /\ n = lb + k
        BY <1>a, <2>2, <4>1
      <4> QED BY <4>2 DEF lt, lb
    <3> HIDE DEF k
    <3>2. r[n] = t[k]
      BY <1>10, <3>1
    <3>3. PICK z \in stay : t[k] = front[z]
      BY <1>7, <3>1
    <3>4. z \in 1..L /\ z \in 1..m /\ q[z] \notin gone
      BY <1>1, <1>9
    <3> QED BY <1>4, <3>2, <3>3, <3>4
  <2> QED BY <2>1, <2>2
<1>17. ASSUME NEW i \in H \ gone PROVE \E n \in 1..Len(r) : r[n] = i
  <2>1. PICK z \in 1..L : q[z] = i
    OBVIOUS
  <2>2. CASE z <= m
    <3>1. z \in stay /\ front[z] = i
      BY <1>1, <1>4, <1>9, <2>1, <2>2
    <3>2. PICK k \in 1..Len(t) : t[k] = i
      BY <1>7, <3>1
    <3>3. Len(back) + k \in 1..Len(r)
      <4>1. k \in 1..lt
        OBVIOUS
      <4> HIDE DEF x, y, lb, lt, lr, L
      <4>2. lb + k \in 1..lr
        BY <1>a, <4>1
      <4> QED BY <4>2 DEF lb, lr
    <3>4. r[Len(back) + k] = i
      BY <1>10, <3>2
    <3> QED BY <3>3, <3>4
  <2>3. CASE z > m
    <3>1. z - m \in 1..(L - m) /\ m + (z - m) = z
      BY <1>1, <2>3
    <3>2. r[z - m] = i
      BY <1>5, <1>10, <2>1, <3>1
    <3>3. z - m \in 1..Len(r)
      <4> HIDE DEF x, y, lb, lt, lr, L
      <4>1. z - m \in 1..lr
        BY <1>a, <3>1
      <4> QED BY <4>1 DEF lr
    <3> QED BY <3>2, <3>3
  <2>4. z <= m \/ z > m
    BY <1>1
  <2> QED BY <2>2, <2>3, <2>4
<1> QED BY <1>10, <1>15, <1>16, <1>17 DEF r

---------------------------------------------------------------------------
(* The steps of the limiter.                                               *)
LEMMA LimInitInv == ASSUME RlInit PROVE LimInv
<1>1. /\ policy \in Policies /\ clock = 0 /\ pruneQueue = <<>> /\ decided = [real |-> TRUE, ideal |-> TRUE, full |-> FALSE]
      /\ entries = [i \in Ids |-> NoEntry] /\ ideal = entries /\ grants = [i \in Ids |-> <<>>]
  BY DEF RlInit
<1>2. NoEntry \in Quotas
  BY DEF NoEntry, Quotas
<1>3. LimTyped
  BY <1>1, <1>2 DEF LimTyped
<1>4. QueueOK(pruneQueue, entries)
  <2>1. Held(entries) = {} /\ MaxEntries \in Nat
    BY <1>1, LimiterAssumption DEF Held
  <2>2. pruneQueue \in Seq(Ids) /\ Len(pruneQueue) = 0 /\ {pruneQueue[n] : n \in 1..Len(pruneQueue)} = {}
    BY <1>1
  <2> QED BY <2>1, <2>2, FS_EmptySet DEF QueueOK
<1>5. IdealOK(ideal, grants, policy, clock) /\ TiedOK(entries, ideal, policy, clock)
  BY <1>1 DEF IdealOK, TiedOK
<1>6. HeldOK(grants, policy, clock)
  BY <1>1, NothingGranted
<1>7. PruningInvisible
  BY <1>1 DEF PruningInvisible
<1> QED BY <1>3, <1>4, <1>5, <1>6, <1>7 DEF LimInv

\* A pruning batch: the queue follows, and what is forgotten was whole.
LEMMA PrunedOK ==
  ASSUME LimInv, NEW p, p = Pruned
  PROVE  /\ p.entries \in [Ids -> Quotas] /\ p.ideal \in [Ids -> Quotas]
         /\ QueueOK(p.queue, p.entries)
         /\ IdealOK(p.ideal, grants, policy, clock) /\ TiedOK(p.entries, p.ideal, policy, clock)
<1>1. /\ policy \in Policies /\ clock \in Nat /\ entries \in [Ids -> Quotas] /\ ideal \in [Ids -> Quotas]
      /\ grants \in [Ids -> Seq(Nat)] /\ QueueOK(pruneQueue, entries)
      /\ IdealOK(ideal, grants, policy, clock) /\ TiedOK(entries, ideal, policy, clock)
  BY DEF LimInv, LimTyped
<1>2. CASE clock < nextPrune
  <2>1. p.entries = entries /\ p.ideal = ideal /\ p.queue = pruneQueue
    BY <1>2 DEF Pruned
  <2> QED BY <1>1, <2>1
<1>3. CASE ~(clock < nextPrune)
  <2> DEFINE m == IF Len(pruneQueue) < RlPruneBatch THEN Len(pruneQueue) ELSE RlPruneBatch
             front == PruneNow
             gone == {i \in {front[n] : n \in 1..Len(front)} : Prunable(policy, entries[i], clock)}
             es == [i \in Ids |-> IF i \in gone THEN NoEntry ELSE entries[i]]
             is == [i \in Ids |-> IF i \in gone /\ entries[i].left = policy.cap THEN NoEntry ELSE ideal[i]]
             q == SubSeq(pruneQueue, Len(front) + 1, Len(pruneQueue))
                  \o AtPlaces(front, {n \in 1..Len(front) : front[n] \notin gone})
  <2>1. p = [entries |-> es, ideal |-> is, queue |-> q, next |-> clock + PruneInterval]
    BY <1>3 DEF Pruned
  <2>2. p.entries = es /\ p.ideal = is /\ p.queue = q
    <3> HIDE DEF es, is, q
    <3> QED BY <2>1
  <2>3. /\ pruneQueue \in Seq(Ids) /\ {pruneQueue[n] : n \in 1..Len(pruneQueue)} = Held(entries)
        /\ Len(pruneQueue) = Cardinality(Held(entries)) /\ Len(pruneQueue) <= MaxEntries
    BY <1>1 DEF QueueOK
  <2>4. m \in 0..Len(pruneQueue) /\ MaxEntries \in Nat
    <3>1. RlPruneBatch \in Nat /\ Len(pruneQueue) \in Nat /\ MaxEntries \in Nat
      <4>1. Len(pruneQueue) \in Nat
        BY <2>3
      <4> QED BY <4>1, LimiterAssumption
    <3> QED BY <3>1
  <2>5. front = SubSeq(pruneQueue, 1, m)
    BY DEF PruneNow
  <2> HIDE DEF m, front
  <2>6. Len(front) = m /\ \A n \in 1..m : front[n] = pruneQueue[n]
    BY <2>3, <2>4, <2>5
  <2>7. /\ gone \in SUBSET {pruneQueue[n] : n \in 1..m} /\ gone \subseteq Ids
        /\ \A i \in gone : Prunable(policy, entries[i], clock)
    <3>1. \A n \in 1..m : pruneQueue[n] \in Ids
      BY <2>3, <2>4
    <3> QED BY <2>6, <3>1
  <2> HIDE DEF gone
  <2>8. NoEntry \in Quotas
    BY DEF NoEntry, Quotas
  <2>9. es \in [Ids -> Quotas] /\ is \in [Ids -> Quotas]
    BY <1>1, <2>8
  <2>10. QueueOK(q, es)
    <3>1. Held(es) = Held(entries) \ gone
      BY DEF Held
    <3>2. q = Turned(pruneQueue, m, gone)
      BY <2>5, <2>6 DEF Turned
    <3>3. Held(entries) \in SUBSET Ids
      BY DEF Held
    <3> DEFINE H == Held(entries)
    <3> HIDE DEF q, es, H
    <3>4. /\ q \in Seq(Ids) /\ \A n \in 1..Len(q) : q[n] \in H \ gone
          /\ \A i \in H \ gone : \E n \in 1..Len(q) : q[n] = i
          /\ Len(q) = Cardinality(H \ gone) /\ Len(q) <= Len(pruneQueue)
      <4>1. /\ H \in SUBSET Ids /\ Len(pruneQueue) = Cardinality(H) /\ pruneQueue \in Seq(Ids)
        BY <2>3, <3>3 DEF H
      <4>2. /\ \A n \in 1..Len(pruneQueue) : pruneQueue[n] \in H
            /\ \A i \in H : \E n \in 1..Len(pruneQueue) : pruneQueue[n] = i
        BY <2>3 DEF H
      <4>3. \A i \in gone : \E n \in 1..m : pruneQueue[n] = i
        BY <2>7
      <4>4. m \in 0..Len(pruneQueue)
        BY <2>4
      <4>5. /\ Turned(pruneQueue, m, gone) \in Seq(Ids)
            /\ \A n \in 1..Len(Turned(pruneQueue, m, gone)) : Turned(pruneQueue, m, gone)[n] \in H \ gone
            /\ \A i \in H \ gone : \E n \in 1..Len(Turned(pruneQueue, m, gone)) : Turned(pruneQueue, m, gone)[n] = i
            /\ Len(Turned(pruneQueue, m, gone)) = Cardinality(H \ gone)
            /\ Len(Turned(pruneQueue, m, gone)) <= Len(pruneQueue)
        BY <4>1, <4>2, <4>3, <4>4, QueueTurned
      <4> QED BY <3>2, <4>5
    <3>5. Len(q) <= MaxEntries
      <4>1. Len(q) \in Nat /\ Len(pruneQueue) \in Nat
        BY <2>3, <3>4
      <4> QED BY <2>3, <2>4, <3>4, <4>1
    <3>6. {q[n] : n \in 1..Len(q)} = H \ gone
      BY <3>4
    <3> QED BY <3>1, <3>4, <3>5, <3>6 DEF QueueOK, H
  <2>11. ASSUME NEW i \in Ids, i \in gone
         PROVE  /\ entries[i] = ideal[i] /\ entries[i] # NoEntry
                /\ ideal[i].left = policy.cap => grants[i] = <<>>
                /\ ideal[i].left # policy.cap => Whole(policy, ideal[i], clock)
    <3> DEFINE e == ideal[i]  g == grants[i]
    <3>1. Prunable(policy, entries[i], clock)
      BY <2>7, <2>11
    <3>2. entries[i] # NoEntry
      BY <3>1 DEF Prunable
    <3>3. entries[i] = ideal[i]
      BY <1>1, <3>2 DEF TiedOK
    <3>4. QuotaOK(policy, e, g, clock) /\ e \in Quotas /\ g \in Seq(Nat)
      BY <1>1, <3>2, <3>3 DEF IdealOK
    <3>5. /\ policy.kind \in {"window", "bucket"} /\ policy.cap \in Nat /\ e.left \in Int /\ e.at \in Int
          /\ e.left <= policy.cap
      BY <1>1, <3>4, PolicyFields DEF Quotas, QuotaOK
    <3> HIDE DEF e, g
    <3>6. ASSUME e.left = policy.cap PROVE g = <<>>
      <4>1. CASE policy.kind = "bucket"
        BY <3>4, <3>6, <4>1 DEF QuotaOK, BucketOK
      <4>2. CASE policy.kind = "window"
        <5>1. Since(g, e.at + 1) + e.left <= policy.cap - 1
          BY <3>4, <4>2 DEF QuotaOK, WindowOK
        <5>2. Since(g, e.at + 1) \in Nat
          <6>1. e.at + 1 \in Int
            BY <3>5
          <6> QED BY <3>4, <6>1, SinceCounts
        <5> QED BY <3>5, <3>6, <5>1, <5>2
      <4> QED BY <3>5, <4>1, <4>2
    <3>7. ASSUME e.left # policy.cap PROVE Whole(policy, e, clock)
      <4>1. e # NoEntry /\ Prunable(policy, e, clock)
        BY <3>1, <3>2, <3>3 DEF e
      <4>2. CASE policy.kind = "window"
        BY <4>1, <4>2, Zenon DEF Prunable, Whole
      <4>3. CASE policy.kind = "bucket"
        <5>1. (clock - e.at) \div policy.window >= CeilDiv(policy.cap - e.left, policy.refill)
          BY <4>1, <4>3 DEF Prunable
        <5>2. e.left < policy.cap
          BY <3>5, <3>7
        <5> QED BY <4>1, <4>3, <5>1, <5>2, WholeBucket
      <4> QED BY <3>5, <4>2, <4>3
    <3> QED BY <3>2, <3>3, <3>6, <3>7 DEF e, g
  <2>12. ASSUME NEW i \in Ids
         PROVE  /\ IF is[i] = NoEntry THEN grants[i] = <<>> ELSE QuotaOK(policy, is[i], grants[i], clock)
                /\ es[i] = is[i] \/ (es[i] = NoEntry /\ Whole(policy, is[i], clock))
    <3>1. CASE i \notin gone
      <4>1. es[i] = entries[i] /\ is[i] = ideal[i]
        BY <3>1
      <4> HIDE DEF es, is
      <4> QED BY <1>1, <4>1 DEF IdealOK, TiedOK
    <3>2. CASE i \in gone /\ ideal[i].left = policy.cap
      <4>1. es[i] = NoEntry /\ is[i] = NoEntry /\ grants[i] = <<>>
        BY <2>11, <3>2
      <4> QED BY <4>1
    <3>3. CASE i \in gone /\ ideal[i].left # policy.cap
      <4>1. es[i] = NoEntry /\ is[i] = ideal[i] /\ Whole(policy, ideal[i], clock)
        BY <2>11, <3>3
      <4> HIDE DEF es, is
      <4> QED BY <1>1, <4>1 DEF IdealOK
    <3> QED BY <3>1, <3>2, <3>3
  <2>13. IdealOK(is, grants, policy, clock)
    BY <2>12 DEF IdealOK
  <2>14. TiedOK(es, is, policy, clock)
    BY <2>12 DEF TiedOK
  <2> HIDE DEF es, is, q
  <2> QED BY <2>2, <2>9, <2>10, <2>13, <2>14
<1> QED BY <1>2, <1>3

\* check_at_internal for an identity with a place in the map, or room for one.
LEMMA CheckGranted ==
  ASSUME LimInv, NEW i \in Ids, NEW es \in [Ids -> Quotas], NEW is \in [Ids -> Quotas], NEW q,
         QueueOK(q, es), IdealOK(is, grants, policy, clock), TiedOK(es, is, policy, clock),
         es[i] # NoEntry \/ Cardinality(Held(es)) < MaxEntries,
         NEW x, x = Quota(policy, is[i], clock),
         entries' = [es EXCEPT ![i] = Spend(x)], ideal' = [is EXCEPT ![i] = Spend(x)],
         pruneQueue' = IF es[i] # NoEntry THEN q ELSE Append(q, i),
         grants' = IF x.left > 0 THEN [grants EXCEPT ![i] = Append(@, clock)] ELSE grants,
         UNCHANGED <<policy, clock>>, PruningInvisible'
  PROVE  LimInv'
<1>1. /\ policy \in Policies /\ clock \in Nat /\ grants \in [Ids -> Seq(Nat)] /\ HeldOK(grants, policy, clock)
      /\ policy' = policy /\ clock' = clock
  BY DEF LimInv, LimTyped
<1> DEFINE g == grants[i]
           h == IF x.left > 0 THEN Append(g, clock) ELSE g
<1>2. /\ is[i] \in Quotas /\ g \in Seq(Nat)
      /\ IF is[i] = NoEntry THEN g = <<>> ELSE QuotaOK(policy, is[i], g, clock)
  BY <1>1 DEF IdealOK
<1>3. /\ x \in Quotas /\ Spend(x) \in Quotas /\ Spend(x) # NoEntry
      /\ h \in Seq(Nat) /\ QuotaOK(policy, Spend(x), h, clock)
  <2> DEFINE e == is[i]
  <2>1. e \in Quotas /\ x = Quota(policy, e, clock) /\ (IF e = NoEntry THEN g = <<>> ELSE QuotaOK(policy, e, g, clock))
    BY <1>2
  <2>2. h = IF x.left > 0 THEN Append(g, clock) ELSE g
    OBVIOUS
  <2> HIDE DEF e, g, h
  <2> QED BY <1>1, <1>2, <2>1, <2>2, QuotaChecked
<1>4. grants' = [grants EXCEPT ![i] = h]
  <2>1. CASE x.left > 0
    BY <2>1
  <2>2. CASE ~(x.left > 0)
    BY <1>1, <2>2
  <2> QED BY <2>1, <2>2
<1>4a. h = Append(g, clock) \/ h = g
  OBVIOUS
<1> HIDE DEF h
<1>5. LimTyped'
  BY <1>1, <1>3, <1>4 DEF LimTyped
<1>6. QueueOK(pruneQueue', entries')
  <2>1. /\ q \in Seq(Ids) /\ {q[n] : n \in 1..Len(q)} = Held(es)
        /\ Len(q) = Cardinality(Held(es)) /\ Len(q) <= MaxEntries
    BY DEF QueueOK
  <2>2. Held(entries') = Held(es) \cup {i}
    BY <1>3 DEF Held
  <2>3. CASE es[i] # NoEntry
    <3>1. Held(entries') = Held(es)
      BY <2>2, <2>3 DEF Held
    <3> QED BY <2>1, <2>3, <3>1 DEF QueueOK
  <2>4. CASE es[i] = NoEntry
    <3>1. i \notin Held(es) /\ pruneQueue' = Append(q, i) /\ Cardinality(Held(es)) < MaxEntries
      BY <2>4 DEF Held
    <3>2. IsFiniteSet(Held(es))
      <4>1. Held(es) \in SUBSET Ids
        BY DEF Held
      <4> QED BY <4>1, LimiterAssumption, FS_Subset
    <3>3. Cardinality(Held(es) \cup {i}) = Cardinality(Held(es)) + 1
      BY <3>1, <3>2, FS_AddElement
    <3> DEFINE r == Append(q, i)
    <3>4. /\ r \in Seq(Ids) /\ Len(r) = Len(q) + 1 /\ r[Len(q) + 1] = i /\ Len(q) \in Nat
          /\ \A n \in 1..Len(q) : r[n] = q[n]
      BY <2>1
    <3> HIDE DEF r
    <3>5. {r[n] : n \in 1..Len(r)} = Held(es) \cup {i}
      <4>1. ASSUME NEW n \in 1..Len(r) PROVE r[n] \in Held(es) \cup {i}
        <5>1. CASE n = Len(q) + 1
          BY <3>4, <5>1
        <5>2. CASE n # Len(q) + 1
          <6>1. n \in 1..Len(q)
            BY <3>4, <5>2
          <6> QED BY <2>1, <3>4, <6>1
        <5> QED BY <5>1, <5>2
      <4>2. ASSUME NEW j \in Held(es) \cup {i} PROVE \E n \in 1..Len(r) : r[n] = j
        <5>1. CASE j = i
          <6>1. Len(q) + 1 \in 1..Len(r)
            BY <3>4
          <6> QED BY <3>4, <5>1, <6>1
        <5>2. CASE j \in Held(es)
          <6>1. PICK n \in 1..Len(q) : q[n] = j
            BY <2>1, <5>2
          <6>2. n \in 1..Len(r)
            BY <3>4
          <6> QED BY <3>4, <6>1, <6>2
        <5> QED BY <5>1, <5>2
      <4> QED BY <4>1, <4>2
    <3>6. Len(r) <= MaxEntries
      <4>1. MaxEntries \in Nat
        BY LimiterAssumption
      <4> QED BY <2>1, <3>1, <3>4, <4>1
    <3>7. Len(r) = Cardinality(Held(es) \cup {i})
      BY <2>1, <3>3, <3>4
    <3>8. pruneQueue' = r
      BY <3>1 DEF r
    <3>9. /\ {r[n] : n \in 1..Len(r)} = Held(entries') /\ Len(r) = Cardinality(Held(entries'))
      BY <2>2, <3>5, <3>7
    <3>10. QueueOK(r, entries')
      BY <3>4, <3>6, <3>9 DEF QueueOK
    <3> QED BY <3>8, <3>10
  <2> QED BY <2>3, <2>4
<1>7. IdealOK(ideal', grants', policy, clock)
  <2>1. SUFFICES ASSUME NEW j \in Ids
                 PROVE  IF ideal'[j] = NoEntry THEN grants'[j] = <<>> ELSE QuotaOK(policy, ideal'[j], grants'[j], clock)
    BY DEF IdealOK
  <2>2. CASE j = i
    BY <1>1, <1>3, <1>4, <2>2
  <2>3. CASE j # i
    <3>1. ideal'[j] = is[j] /\ grants'[j] = grants[j]
      BY <1>1, <1>4, <2>3
    <3> QED BY <3>1 DEF IdealOK
  <2> QED BY <2>2, <2>3
<1>8. TiedOK(entries', ideal', policy, clock)
  <2>1. SUFFICES ASSUME NEW j \in Ids
                 PROVE  entries'[j] = ideal'[j] \/ (entries'[j] = NoEntry /\ Whole(policy, ideal'[j], clock))
    BY DEF TiedOK
  <2>2. CASE j = i
    BY <2>2
  <2>3. CASE j # i
    <3>1. ideal'[j] = is[j] /\ entries'[j] = es[j]
      BY <2>3
    <3> QED BY <3>1 DEF TiedOK
  <2> QED BY <2>2, <2>3
<1>9. HeldOK(grants', policy, clock)
  <2>1. SUFFICES ASSUME NEW j \in Ids, NEW a \in 0..clock, NEW b \in a..clock
        PROVE  IF policy.kind = "bucket"
               THEN Granted(grants'[j], a, b) <= policy.cap + policy.refill * CeilDiv(b - a, policy.window)
               ELSE b - a < policy.window => Granted(grants'[j], a, b) <= 2 * policy.cap - 1
    BY DEF HeldOK
  <2>2. IF policy.kind = "bucket"
        THEN Granted(grants[j], a, b) <= policy.cap + policy.refill * CeilDiv(b - a, policy.window)
        ELSE b - a < policy.window => Granted(grants[j], a, b) <= 2 * policy.cap - 1
    BY <1>1 DEF HeldOK
  <2>3. CASE j # i
    <3>1. grants'[j] = grants[j]
      BY <1>1, <1>4, <2>3
    <3> QED BY <2>2, <3>1
  <2>4. CASE j = i /\ b = clock
    <3>1. grants'[j] = h
      BY <1>1, <1>4, <2>4
    <3>2. IF policy.kind = "bucket"
          THEN Granted(h, a, clock) <= policy.cap + policy.refill * CeilDiv(clock - a, policy.window)
          ELSE clock - a < policy.window => Granted(h, a, clock) <= 2 * policy.cap - 1
      BY <1>1, <1>3, QuotaPromise
    <3> QED BY <2>4, <3>1, <3>2
  <2>5. CASE j = i /\ b # clock
    <3>1. Granted(h, a, b) = Granted(g, a, b)
      <4>1. a \in Int /\ b \in Int /\ b < clock
        BY <1>1, <2>5
      <4>2. Granted(Append(g, clock), a, b) = Granted(g, a, b)
        BY <1>1, <1>2, <4>1, GrantedLater
      <4> QED BY <1>4a, <4>2
    <3>2. grants'[j] = h
      BY <1>1, <1>4, <2>5
    <3> QED BY <2>2, <2>5, <3>1, <3>2
  <2> QED BY <2>3, <2>4, <2>5
<1> QED BY <1>1, <1>5, <1>6, <1>7, <1>8, <1>9 DEF LimInv

\* check_at_internal: the pruning batch, then the quota of the identity.
LEMMA LimChecks ==
  ASSUME LimInv, NEW i \in Ids, Check(i)
  PROVE  LimInv'
<1> DEFINE p == Pruned
           full == p.entries[i] = NoEntry /\ Cardinality(Held(p.entries)) >= MaxEntries
           mine == Quota(policy, p.entries[i], clock)
           its == Quota(policy, p.ideal[i], clock)
           ok == ~full /\ mine.left > 0
<1>1. /\ entries' = IF full THEN p.entries ELSE [p.entries EXCEPT ![i] = Spend(mine)]
      /\ pruneQueue' = IF full \/ p.entries[i] # NoEntry THEN p.queue ELSE Append(p.queue, i)
      /\ ideal' = IF full THEN p.ideal ELSE [p.ideal EXCEPT ![i] = Spend(its)]
      /\ decided' = [real |-> ok, ideal |-> its.left > 0, full |-> full]
      /\ grants' = IF ok THEN [grants EXCEPT ![i] = Append(@, clock)] ELSE grants
      /\ UNCHANGED <<policy, clock>>
  BY DEF Check
<1>2. /\ p.entries \in [Ids -> Quotas] /\ p.ideal \in [Ids -> Quotas]
      /\ QueueOK(p.queue, p.entries)
      /\ IdealOK(p.ideal, grants, policy, clock) /\ TiedOK(p.entries, p.ideal, policy, clock)
  <2> HIDE DEF p
  <2>1. p = Pruned
    BY DEF p
  <2> QED BY <2>1, PrunedOK
<1>3. policy \in Policies /\ clock \in Nat /\ grants \in [Ids -> Seq(Nat)]
  BY DEF LimInv, LimTyped
<1> HIDE DEF p
<1>4. mine = its
  <2>1. CASE p.entries[i] = p.ideal[i]
    BY <2>1
  <2>2. CASE p.entries[i] = NoEntry /\ Whole(policy, p.ideal[i], clock)
    <3> DEFINE e == p.ideal[i]
    <3>1. mine = Fresh(policy, clock)
      BY <2>2 DEF Quota
    <3>2. e \in Quotas /\ e # NoEntry
      BY <1>2, <2>2 DEF Whole
    <3>3. QuotaOK(policy, e, grants[i], clock)
      BY <1>2, <3>2 DEF IdealOK
    <3>4. e.at <= clock /\ e.left <= policy.cap
      BY <1>3, <3>3 DEF QuotaOK
    <3>5. Quota(policy, e, clock) = Fresh(policy, clock)
      <4> HIDE DEF e
      <4>1. Whole(policy, e, clock)
        BY <2>2 DEF e
      <4> QED BY <1>3, <3>2, <3>4, <4>1, WholeFresh
    <3> QED BY <3>1, <3>5
  <2> QED BY <1>2, <2>1, <2>2 DEF TiedOK
<1> HIDE DEF mine, its
<1>5. CASE full
  <2>1. /\ entries' = p.entries /\ pruneQueue' = p.queue /\ ideal' = p.ideal /\ grants' = grants
        /\ policy' = policy /\ clock' = clock
    BY <1>1, <1>5
  <2>2. decided'.full
    BY <1>1, <1>5
  <2>3. PruningInvisible'
    BY <2>2 DEF PruningInvisible
  <2>4. LimTyped'
    BY <1>2, <1>3, <2>1 DEF LimTyped
  <2>5. HeldOK(grants, policy, clock)
    BY DEF LimInv
  <2> QED BY <1>2, <2>1, <2>3, <2>4, <2>5 DEF LimInv
<1>6. CASE ~full
  <2>1. /\ entries' = [p.entries EXCEPT ![i] = Spend(its)] /\ ideal' = [p.ideal EXCEPT ![i] = Spend(its)]
        /\ pruneQueue' = IF p.entries[i] # NoEntry THEN p.queue ELSE Append(p.queue, i)
        /\ grants' = IF its.left > 0 THEN [grants EXCEPT ![i] = Append(@, clock)] ELSE grants
    BY <1>1, <1>4, <1>6
  <2>2. p.entries[i] # NoEntry \/ Cardinality(Held(p.entries)) < MaxEntries
    <3>1. Cardinality(Held(p.entries)) \in Nat /\ MaxEntries \in Nat
      <4>1. Held(p.entries) \in SUBSET Ids
        BY DEF Held
      <4> QED BY <4>1, LimiterAssumption, FS_Subset, FS_CardinalityType
    <3> QED BY <1>6, <3>1
  <2>3. decided'.real = (its.left > 0) /\ decided'.ideal = (its.left > 0)
    BY <1>1, <1>4, <1>6
  <2>4. PruningInvisible'
    BY <2>3, Zenon DEF PruningInvisible
  <2>5. its = Quota(policy, p.ideal[i], clock)
    BY DEF its
  <2> DEFINE es == p.entries  is == p.ideal  q == p.queue
  <2>6. /\ es \in [Ids -> Quotas] /\ is \in [Ids -> Quotas] /\ QueueOK(q, es)
        /\ IdealOK(is, grants, policy, clock) /\ TiedOK(es, is, policy, clock)
        /\ es[i] # NoEntry \/ Cardinality(Held(es)) < MaxEntries
        /\ its = Quota(policy, is[i], clock)
        /\ entries' = [es EXCEPT ![i] = Spend(its)] /\ ideal' = [is EXCEPT ![i] = Spend(its)]
        /\ pruneQueue' = IF es[i] # NoEntry THEN q ELSE Append(q, i)
    BY <1>2, <2>1, <2>2, <2>5
  <2> HIDE DEF es, is, q
  <2>7. UNCHANGED <<policy, clock>>
    BY <1>1
  <2>8. grants' = IF its.left > 0 THEN [grants EXCEPT ![i] = Append(@, clock)] ELSE grants
    BY <2>1
  <2> QED BY <2>4, <2>6, <2>7, <2>8, CheckGranted, Zenon
<1> QED BY <1>5, <1>6

\* reconfigure on one entry.
LEMMA CarriedOK ==
  ASSUME NEW pol \in Policies, policy \in Policies, pol.kind = policy.kind, clock \in Nat,
         NEW e \in Quotas, NEW g \in Seq(Nat), QuotaOK(policy, e, g, clock),
         NEW c, c = CarriedOver(pol, e, clock)
  PROVE  c \in Quotas /\ c # NoEntry /\ QuotaOK(pol, c, <<>>, clock)
<1>1. /\ pol.kind \in {"window", "bucket"} /\ pol.cap \in Nat \ {0} /\ pol.window \in Nat \ {0} /\ pol.refill \in Nat
      /\ policy.cap \in Nat \ {0} /\ policy.window \in Nat \ {0}
      /\ e.left \in Int /\ e.at \in Int /\ e.seen \in Int
  BY PolicyFields DEF Quotas
<1>2. e.seen \in 0..clock /\ e.at \in 0..clock /\ e.left <= policy.cap
  BY DEF QuotaOK
<1>3. \A a \in Int : Since(<<>>, a) = 0
  <2>1. TAKE a \in Int
  <2>2. <<>> \in Seq(Nat) /\ \A n \in 1..Len(<<>>) : <<>>[n] < a
    OBVIOUS
  <2> QED BY <2>2, SinceNone
<1>4. CASE pol.kind = "window"
  <2> DEFINE l == pol.cap - (policy.cap - e.left)
  <2>1. c = [e EXCEPT !.at = clock, !.left = l]
    BY <1>4 DEF CarriedOver
  <2>2. l \in Int /\ clock \in Int
    BY <1>1
  <2>3. l <= pol.cap - 1
    <3>1. Since(g, e.at + 1) + e.left <= policy.cap - 1
      BY <1>4 DEF QuotaOK, WindowOK
    <3>2. Since(g, e.at + 1) \in Nat
      <4>1. e.at + 1 \in Int
        BY <1>1
      <4> QED BY <4>1, SinceCounts
    <3> QED BY <1>1, <3>1, <3>2
  <2> HIDE DEF l
  <2>4. c \in Quotas
    BY <2>1, <2>2 DEF Quotas
  <2>5. c.at = clock /\ c.left = l /\ c.seen = e.seen
    BY <2>1 DEF Quotas
  <2>6. c # NoEntry
    BY <2>5 DEF NoEntry
  <2>7. WindowOK(pol, c, <<>>)
    <3>1. Since(<<>>, c.at) = 0 /\ Since(<<>>, c.at + 1) = 0
      <4>1. c.at \in Int /\ c.at + 1 \in Int
        BY <2>5
      <4> QED BY <1>3, <4>1
    <3>2. \A a \in 0..c.at : Since(<<>>, a) = 0
      BY <1>3
    <3>3. Since(<<>>, c.at) + c.left <= pol.cap /\ Since(<<>>, c.at + 1) + c.left <= pol.cap - 1
      BY <1>1, <2>2, <2>3, <2>5, <3>1
    <3>4. 0 <= pol.cap - 1 + Since(<<>>, c.at)
      BY <1>1, <3>1
    <3> QED BY <3>1, <3>2, <3>3, <3>4 DEF WindowOK
  <2>8. c.at \in 0..clock /\ c.seen \in 0..clock /\ c.left <= pol.cap /\ c.seen - c.at < pol.window
    BY <1>1, <1>2, <2>2, <2>3, <2>5
  <2>9. \A n \in 1..Len(<<>>) : <<>>[n] <= c.seen
    OBVIOUS
  <2> QED BY <1>4, <2>4, <2>6, <2>7, <2>8, <2>9 DEF QuotaOK
<1>5. CASE pol.kind = "bucket"
  <2> DEFINE r == Refilled(policy, e, clock)
             l == IF r.left > pol.cap THEN pol.cap ELSE r.left
  <2>1. c = [r EXCEPT !.at = clock, !.left = l]
    BY <1>5 DEF CarriedOver
  <2>2. Promise(policy, r, g, clock)
    BY <1>5, BucketRefilled
  <2>3. r \in Quotas /\ r.seen = e.seen
    <3> DEFINE k == (clock - e.at) \div policy.window
    <3>1. k = (clock - e.at) \div policy.window /\ e.at <= clock /\ policy.kind = "bucket"
      BY <1>2, <1>5
    <3> HIDE DEF k
    <3> QED BY <1>2, <3>1, RefilledFields
  <2> HIDE DEF r
  <2>4. 0 <= r.left /\ r.left \in Int
    BY <2>2, <2>3 DEF Promise, Quotas
  <2>5. l \in Int /\ 0 <= l /\ l <= pol.cap /\ clock \in Int
    BY <1>1, <2>4
  <2> HIDE DEF l
  <2>6. c \in Quotas
    BY <2>1, <2>3, <2>5 DEF Quotas
  <2>7. c.at = clock /\ c.left = l /\ c.seen = e.seen
    BY <2>1, <2>3 DEF Quotas
  <2>8. c # NoEntry
    BY <2>7 DEF NoEntry
  <2>9. ASSUME NEW a \in 0..c.seen
        PROVE  Since(<<>>, a) + c.left <= pol.cap + pol.refill * CeilDiv(c.at - a, pol.window)
    <3>1. a \in Int /\ a <= clock
      BY <1>1, <1>2, <2>7
    <3>2. clock - a \in Int /\ clock - a > -pol.window
      BY <1>1, <3>1
    <3>3. CeilDiv(clock - a, pol.window) \in Nat
      BY <1>1, <3>2, CeilSign
    <3>4. pol.refill * CeilDiv(clock - a, pol.window) \in Nat
      BY <1>1, <3>3
    <3>5. Since(<<>>, a) = 0
      BY <1>3, <3>1
    <3> QED BY <1>1, <2>5, <2>7, <3>4, <3>5
  <2>10. BucketOK(pol, c, <<>>)
    BY <2>5, <2>7, <2>9 DEF BucketOK
  <2>11. c.at \in 0..clock /\ c.seen \in 0..clock /\ c.left <= pol.cap /\ c.seen - c.at < pol.window
    BY <1>1, <1>2, <2>5, <2>7
  <2>12. \A n \in 1..Len(<<>>) : <<>>[n] <= c.seen
    OBVIOUS
  <2> QED BY <1>5, <2>6, <2>8, <2>10, <2>11, <2>12 DEF QuotaOK
<1> QED BY <1>1, <1>4, <1>5

\* reconfigure changes every entry to the new policy and starts the counts again.
LEMMA LimReconfigures ==
  ASSUME LimInv, NEW pol \in Policies, Reconfigure(pol)
  PROVE  LimInv'
<1>1. /\ policy \in Policies /\ clock \in Nat /\ entries \in [Ids -> Quotas] /\ ideal \in [Ids -> Quotas]
      /\ grants \in [Ids -> Seq(Nat)] /\ QueueOK(pruneQueue, entries)
      /\ IdealOK(ideal, grants, policy, clock) /\ TiedOK(entries, ideal, policy, clock)
  BY DEF LimInv, LimTyped
<1>2. /\ pol.kind = policy.kind /\ policy' = pol /\ clock' = clock /\ pruneQueue' = pruneQueue /\ decided' = decided
      /\ grants' = [i \in Ids |-> <<>>]
      /\ entries' = [i \in Ids |-> IF entries[i] = NoEntry THEN NoEntry ELSE CarriedOver(pol, entries[i], clock)]
      /\ ideal' = [i \in Ids |-> IF entries[i] = NoEntry THEN NoEntry ELSE CarriedOver(pol, ideal[i], clock)]
  BY DEF Reconfigure
<1>3. ASSUME NEW i \in Ids
      PROVE  /\ entries'[i] = ideal'[i] /\ entries'[i] \in Quotas /\ grants'[i] = <<>>
             /\ (entries'[i] = NoEntry) <=> (entries[i] = NoEntry)
             /\ entries'[i] # NoEntry => QuotaOK(pol, entries'[i], <<>>, clock)
  <2>1. CASE entries[i] = NoEntry
    <3>1. NoEntry \in Quotas
      BY DEF NoEntry, Quotas
    <3> QED BY <1>2, <2>1, <3>1
  <2>2. CASE entries[i] # NoEntry
    <3> DEFINE e == entries[i]  c == CarriedOver(pol, e, clock)
    <3>1. ideal[i] = e
      BY <1>1, <2>2 DEF TiedOK
    <3>2. QuotaOK(policy, e, grants[i], clock) /\ e \in Quotas /\ grants[i] \in Seq(Nat)
      BY <1>1, <2>2, <3>1 DEF IdealOK
    <3>3. entries'[i] = c /\ ideal'[i] = c /\ grants'[i] = <<>>
      BY <1>2, <2>2, <3>1
    <3>4. c = CarriedOver(pol, e, clock)
      OBVIOUS
    <3>6. e # NoEntry
      BY <2>2
    <3> HIDE DEF c, e
    <3>5. c \in Quotas /\ c # NoEntry /\ QuotaOK(pol, c, <<>>, clock)
      BY <1>1, <1>2, <3>2, <3>4, CarriedOK
    <3> QED BY <3>3, <3>5, <3>6 DEF e
  <2> QED BY <2>1, <2>2
<1>4. LimTyped'
  <2>1. entries' \in [Ids -> Quotas]
    BY <1>2, <1>3
  <2>2. ideal' \in [Ids -> Quotas]
    BY <1>2, <1>3
  <2>3. grants' \in [Ids -> Seq(Nat)]
    BY <1>2
  <2> QED BY <1>1, <1>2, <2>1, <2>2, <2>3 DEF LimTyped
<1>5. QueueOK(pruneQueue', entries')
  <2>1. Held(entries') = Held(entries)
    BY <1>3 DEF Held
  <2> QED BY <1>1, <1>2, <2>1 DEF QueueOK
<1>6. IdealOK(ideal', grants', policy', clock')
  BY <1>2, <1>3 DEF IdealOK
<1>7. TiedOK(entries', ideal', policy', clock')
  BY <1>3 DEF TiedOK
<1>8. HeldOK(grants', policy', clock')
  BY <1>1, <1>2, <1>3, NothingGranted
<1>9. PruningInvisible'
  BY <1>2 DEF LimInv, PruningInvisible
<1> QED BY <1>4, <1>5, <1>6, <1>7, <1>8, <1>9 DEF LimInv

\* A second passes.
LEMMA LimTicks ==
  ASSUME LimInv, RlTick
  PROVE  LimInv'
<1>1. /\ policy \in Policies /\ clock \in Nat /\ entries \in [Ids -> Quotas] /\ ideal \in [Ids -> Quotas]
      /\ grants \in [Ids -> Seq(Nat)] /\ QueueOK(pruneQueue, entries)
      /\ IdealOK(ideal, grants, policy, clock) /\ TiedOK(entries, ideal, policy, clock)
      /\ HeldOK(grants, policy, clock)
  BY DEF LimInv, LimTyped
<1>2. clock' = clock + 1 /\ UNCHANGED <<entries, ideal, pruneQueue, policy, decided, grants>>
  BY DEF RlTick
<1>3. LimTyped'
  BY <1>1, <1>2 DEF LimTyped
<1>4. IdealOK(ideal, grants, policy, clock + 1)
  BY <1>1, QuotaWaits DEF IdealOK
<1>5. TiedOK(entries, ideal, policy, clock + 1)
  BY <1>1, WholeWaits DEF TiedOK
<1>6. \A i \in Ids : \A n \in 1..Len(grants[i]) : grants[i][n] <= clock
  <2>1. TAKE i \in Ids
  <2>2. CASE ideal[i] = NoEntry
    <3>1. grants[i] = <<>>
      BY <1>1, <2>2 DEF IdealOK
    <3> QED BY <3>1
  <2>3. CASE ideal[i] # NoEntry
    <3>1. QuotaOK(policy, ideal[i], grants[i], clock)
      BY <1>1, <2>3 DEF IdealOK
    <3>2. ideal[i].seen \in 0..clock /\ \A n \in 1..Len(grants[i]) : grants[i][n] <= ideal[i].seen
      BY <3>1 DEF QuotaOK
    <3>3. grants[i] \in Seq(Nat)
      BY <1>1
    <3> QED BY <1>1, <3>2, <3>3
  <2> QED BY <2>2, <2>3
<1>7. HeldOK(grants, policy, clock + 1)
  BY <1>1, <1>6, PromiseWaits
<1>8. PruningInvisible'
  BY <1>2 DEF LimInv, PruningInvisible
<1> QED BY <1>1, <1>2, <1>3, <1>4, <1>5, <1>7, <1>8 DEF LimInv

\* Every step keeps the invariant.
LEMMA LimInvStep == ASSUME LimInv, [RlNext]_rlVars PROVE LimInv'
<1>1. CASE \E i \in Ids : Check(i)
  BY <1>1, LimChecks
<1>2. CASE \E pol \in Policies : Reconfigure(pol)
  BY <1>2, LimReconfigures
<1>3. CASE RlTick
  BY <1>3, LimTicks
<1>4. CASE UNCHANGED rlVars
  <2>1. UNCHANGED <<entries, ideal, pruneQueue, policy, clock, decided, grants>>
    BY <1>4 DEF rlVars
  <2>2. LimTyped' /\ PruningInvisible'
    BY <2>1 DEF LimInv, LimTyped, PruningInvisible
  <2> QED BY <2>1, <2>2 DEF LimInv
<1> QED BY <1>1, <1>2, <1>3, <1>4 DEF RlNext

\* The invariant says what the runs check.
LEMMA LimInvSound == ASSUME LimInv PROVE LimiterSound
<1>1. QuotaHeld
  BY DEF LimInv, HeldOK, QuotaHeld
<1>2. RlTypeOK
  <2>1. ASSUME NEW i \in Held(entries) PROVE entries[i].left <= policy.cap /\ entries[i].at <= clock
    <3>1. i \in Ids /\ entries[i] # NoEntry
      BY DEF Held
    <3>2. entries[i] = ideal[i]
      BY <3>1 DEF LimInv, TiedOK
    <3>3. QuotaOK(policy, entries[i], grants[i], clock) /\ clock \in Nat
      BY <3>1, <3>2 DEF LimInv, IdealOK, LimTyped
    <3> QED BY <3>3 DEF QuotaOK
  <2> QED BY <2>1 DEF LimInv, QueueOK, RlTypeOK
<1> QED BY <1>1, <1>2 DEF LimInv, LimiterSound

(***************************************************************************)
(* The limiter keeps its promise for every policy, number of identities    *)
(* and length of a behaviour: no stretch of time sees more grants than the *)
(* capacity and the intervals that ended in it, a window lets at most      *)
(* 2 * cap - 1 through in its length, and pruning changes no answer.       *)
(***************************************************************************)
THEOREM LimiterIsSound == RlSpec => []LimiterSound
<1>1. RlInit => LimInv
  BY LimInitInv
<1>2. LimInv /\ [RlNext]_rlVars => LimInv'
  BY LimInvStep
<1>3. LimInv => LimiterSound
  BY LimInvSound
<1> QED BY <1>1, <1>2, <1>3, PTL DEF RlSpec
=============================================================================
