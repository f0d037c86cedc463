--------------------------- MODULE AdminAccessProofs ---------------------------
(***************************************************************************)
(* Proofs about sessions (AdminAccess), sign-ins of provider accounts      *)
(* (ProviderSignIn) and the settings (SettingsRestore).                    *)
(*                                                                         *)
(* For any number of requests in flight, any ids a login may draw, any cap *)
(* on the families and any number of passwords: the sessions are those of  *)
(* the present password, the table of families never outgrows its cap, a   *)
(* family has one live token, a restore acts for a session in good         *)
(* standing and the gateway is closed while the password must be changed.  *)
(*                                                                         *)
(* None of that is inductive by itself.  Most of it rests on the lock: a   *)
(* request past its first step holds admin_auth_lock, so that the password *)
(* it verified is still the stored one when it issues a session (WorkOK).  *)
(* The cap rests on the index listing every family once, so that an index  *)
(* without an expired family is as long as there are active ones (RowsOK). *)
(***************************************************************************)
EXTENDS AdminAccess, ProviderSignIn, SettingsRestore, FiniteSetTheorems,
        WellFoundedInduction, TLAPS

FamilyRow ==
    [state : {"none", "active", "revoked", "expired"}, must : BOOLEAN, epoch : 0..MaxEpoch]
Tables ==
    [family : [Families -> FamilyRow], created : Seq(Families),
     unconsumed : SUBSET Tokens, consumed : SUBSET Tokens]

Listed(r) ==
    \A f \in Families :
        r.family[f].state # "none" <=> \E i \in 1..Len(r.created) : r.created[i] = f
ListedOnce(r) ==
    \A i, j \in 1..Len(r.created) : r.created[i] = r.created[j] => i = j
TokensOwned(r) ==
    \A t \in r.unconsumed \cup r.consumed : r.family[t[1]].state # "none"
TokensOrdered(r) ==
    /\ \A t, u \in r.unconsumed : t[1] = u[1] => t = u
    /\ \A t \in r.consumed, u \in r.unconsumed : t[1] = u[1] => t[2] < u[2]
RowsOK(r) ==
    r \in Tables /\ Listed(r) /\ ListedOnce(r) /\ TokensOwned(r) /\ TokensOrdered(r)

-----------------------------------------------------------------------------
(* The tables of sessions.                                                 *)

\* A nonempty set of numbers has a least one.
LEMMA LeastPlace ==
    ASSUME NEW T \in SUBSET Nat, T # {}
    PROVE  \E i \in T : \A j \in T : i <= j
<1>1. PICK i \in T : \A j \in T : ~(<<j, i>> \in OpToRel(<, Nat))
  BY NatLessThanWellFounded, WFMin
<1>2. \A j \in T : ~(j < i)
  BY <1>1, Zenon DEF OpToRel
<1> QED
  BY <1>2

\* The oldest family of F: a place in the index, or none of them is listed.
LEMMA OldestPlace ==
    ASSUME NEW r \in Tables, NEW F
    PROVE  \/ Oldest(r, F) = 0 /\ \A j \in 1..Len(r.created) : r.created[j] \notin F
           \/ Oldest(r, F) \in 1..Len(r.created) /\ r.created[Oldest(r, F)] \in F
<1> DEFINE places == {i \in 1..Len(r.created) : r.created[i] \in F}
<1>0. Len(r.created) \in Nat
  BY DEF Tables
<1>1. CASE places = {}
  BY <1>1 DEF Oldest
<1>2. CASE places # {}
  <2>0. places \in SUBSET Nat
    BY <1>0
  <2>1. \E i \in places : \A j \in places : i <= j
    <3> HIDE DEF places
    <3> QED
      BY <1>2, <2>0, LeastPlace
  <2>2. Oldest(r, F) \in places
    BY <1>2, <2>1 DEF Oldest
  <2> QED
    BY <2>2
<1> QED
  BY <1>1, <1>2

\* A sequence without one of its places.
LEMMA RemoveAtPlaces ==
    ASSUME NEW S, NEW q \in Seq(S), NEW k \in 1..Len(q)
    PROVE  /\ RemoveAt(q, k) \in Seq(S) /\ Len(RemoveAt(q, k)) = Len(q) - 1
           /\ \A i \in 1..Len(q) - 1 : RemoveAt(q, k)[i] = IF i < k THEN q[i] ELSE q[i + 1]
<1> DEFINE a == SubSeq(q, 1, k - 1)
           b == SubSeq(q, k + 1, Len(q))
           w == RemoveAt(q, k)
<1>0. Len(q) \in Nat
  OBVIOUS
<1>1. a \in Seq(S) /\ Len(a) = k - 1 /\ \A i \in 1..k - 1 : a[i] = q[i]
  BY <1>0
<1>2. b \in Seq(S) /\ Len(b) = Len(q) - k /\ \A i \in 1..Len(q) - k : b[i] = q[k + i]
  BY <1>0
<1>3. w = a \o b
  BY DEF RemoveAt
<1> HIDE DEF a, b, w
<1>4. w \in Seq(S) /\ Len(w) = Len(q) - 1
  BY <1>0, <1>1, <1>2, <1>3
<1>5. ASSUME NEW i \in 1..Len(q) - 1
      PROVE  w[i] = IF i < k THEN q[i] ELSE q[i + 1]
  <2>1. CASE i < k
    BY <1>0, <1>1, <1>2, <1>3, <2>1
  <2>2. CASE ~(i < k)
    <3>1. i - (k - 1) \in 1..Len(q) - k /\ k + (i - (k - 1)) = i + 1
      BY <1>0, <2>2
    <3>2. w[i] = b[i - (k - 1)]
      BY <1>0, <1>1, <1>2, <1>3, <3>1, <2>2
    <3> QED
      BY <1>2, <2>2, <3>1, <3>2
  <2> QED
    BY <2>1, <2>2
<1> QED
  BY <1>4, <1>5 DEF w

\* remove_session_family_ref takes one family out of every table.
LEMMA RemovedRows ==
    ASSUME NEW r, RowsOK(r), NEW k \in 1..Len(r.created), NEW w, w = Removed(r, k)
    PROVE  /\ RowsOK(w) /\ Len(w.created) = Len(r.created) - 1 /\ r.created[k] \in Families
           /\ w.unconsumed = {t \in r.unconsumed : t[1] # r.created[k]}
           /\ w.consumed = {t \in r.consumed : t[1] # r.created[k]}
           /\ \A f \in Families : w.family[f] = IF f = r.created[k] THEN NoFamily ELSE r.family[f]
<1> DEFINE g == r.created[k]
<1>1. /\ r.family \in [Families -> FamilyRow] /\ r.created \in Seq(Families)
      /\ r.unconsumed \subseteq Tokens /\ r.consumed \subseteq Tokens
      /\ Len(r.created) \in Nat /\ g \in Families
  BY DEF RowsOK, Tables
<1>2. NoFamily \in FamilyRow /\ NoFamily.state = "none"
  BY AccessAssumption DEF NoFamily, FamilyRow
<1>3. /\ w.family = [r.family EXCEPT ![g] = NoFamily] /\ w.created = RemoveAt(r.created, k)
      /\ w.unconsumed = {t \in r.unconsumed : t[1] # g}
      /\ w.consumed = {t \in r.consumed : t[1] # g}
      /\ w = [family |-> w.family, created |-> w.created,
              unconsumed |-> w.unconsumed, consumed |-> w.consumed]
  BY DEF Removed
<1>4. /\ w.created \in Seq(Families) /\ Len(w.created) = Len(r.created) - 1
      /\ \A i \in 1..Len(r.created) - 1 :
            w.created[i] = IF i < k THEN r.created[i] ELSE r.created[i + 1]
  BY <1>1, <1>3, RemoveAtPlaces
<1>5. /\ w.family \in [Families -> FamilyRow]
      /\ \A f \in Families : w.family[f] = IF f = g THEN NoFamily ELSE r.family[f]
  BY <1>1, <1>2, <1>3
<1> HIDE DEF g
<1>6. w \in Tables
  BY <1>1, <1>3, <1>4, <1>5 DEF Tables
<1>7. ASSUME NEW i \in 1..Len(w.created), NEW j \in 1..Len(w.created), w.created[i] = w.created[j]
      PROVE  i = j
  <2>1. /\ i \in 1..Len(r.created) /\ i + 1 \in 1..Len(r.created)
        /\ j \in 1..Len(r.created) /\ j + 1 \in 1..Len(r.created)
        /\ i \in 1..Len(r.created) - 1 /\ j \in 1..Len(r.created) - 1
    BY <1>1, <1>4
  <2>2. /\ w.created[i] = IF i < k THEN r.created[i] ELSE r.created[i + 1]
        /\ w.created[j] = IF j < k THEN r.created[j] ELSE r.created[j + 1]
    BY <1>4, <2>1
  <2>3. \A x, y \in 1..Len(r.created) : r.created[x] = r.created[y] => x = y
    BY DEF RowsOK, ListedOnce
  <2>4. CASE i < k /\ j < k
    BY <1>7, <2>1, <2>2, <2>3, <2>4
  <2>5. CASE i < k /\ ~(j < k)
    <3>1. i = j + 1
      BY <1>7, <2>1, <2>2, <2>3, <2>5
    <3> QED
      BY <1>1, <2>5, <3>1
  <2>6. CASE ~(i < k) /\ j < k
    <3>1. i + 1 = j
      BY <1>7, <2>1, <2>2, <2>3, <2>6
    <3> QED
      BY <1>1, <2>6, <3>1
  <2>7. CASE ~(i < k) /\ ~(j < k)
    <3>1. i + 1 = j + 1
      BY <1>7, <2>1, <2>2, <2>3, <2>7
    <3> QED
      BY <3>1
  <2> QED
    BY <2>4, <2>5, <2>6, <2>7
<1>8. ASSUME NEW f \in Families
      PROVE  w.family[f].state # "none" <=> \E i \in 1..Len(w.created) : w.created[i] = f
  <2>1. ASSUME NEW i \in 1..Len(w.created), w.created[i] = f PROVE f # g /\ r.family[f].state # "none"
    <3>1. /\ i \in 1..Len(r.created) /\ i + 1 \in 1..Len(r.created)
          /\ i \in 1..Len(r.created) - 1 /\ k \in 1..Len(r.created)
      BY <1>1, <1>4
    <3>2. PICK x \in {i, i + 1} : x # k /\ w.created[i] = r.created[x]
      BY <1>4, <3>1
    <3>3. x \in 1..Len(r.created) /\ r.created[x] = f /\ r.created[k] = g
      BY <2>1, <3>1, <3>2 DEF g
    <3>4. f # g
      BY <3>1, <3>2, <3>3 DEF RowsOK, ListedOnce
    <3> QED BY <3>3, <3>4 DEF RowsOK, Listed
  <2>2. ASSUME f # g, r.family[f].state # "none" PROVE \E i \in 1..Len(w.created) : w.created[i] = f
    <3>1. PICK i \in 1..Len(r.created) : r.created[i] = f
      BY <2>2 DEF RowsOK, Listed
    <3>2. CASE i < k
      <4>1. i \in 1..Len(r.created) - 1
        BY <1>1, <3>2
      <4> QED
        BY <1>4, <3>1, <3>2, <4>1
    <3>3. CASE i > k
      <4>1. i - 1 \in 1..Len(r.created) - 1 /\ ~(i - 1 < k) /\ (i - 1) + 1 = i
        BY <1>1, <3>3
      <4> QED
        BY <1>4, <3>1, <4>1
    <3> QED
      BY <1>1, <2>2, <3>1, <3>2, <3>3 DEF g
  <2> QED
    BY <1>2, <1>5, <2>1, <2>2
<1>9. TokensOwned(w)
  <2>1. ASSUME NEW t \in w.unconsumed \cup w.consumed PROVE w.family[t[1]].state # "none"
    <3>1. t \in r.unconsumed \cup r.consumed /\ t[1] # g /\ t[1] \in Families
      BY <1>1, <1>3 DEF Tokens
    <3> QED
      BY <1>5, <3>1 DEF RowsOK, TokensOwned
  <2> QED
    BY <2>1 DEF TokensOwned
<1>10. TokensOrdered(w)
  BY <1>3 DEF RowsOK, TokensOrdered
<1> QED
  BY <1>1, <1>3, <1>4, <1>5, <1>6, <1>7, <1>8, <1>9, <1>10
     DEF RowsOK, Listed, ListedOnce, g

\* An index without a family that is no longer active is as long as there are
\* active families.
LEMMA AllActive ==
    ASSUME NEW r, RowsOK(r), \A i \in 1..Len(r.created) : r.created[i] \in ActiveIn(r)
    PROVE  Cardinality(ActiveIn(r)) = Len(r.created)
<1>1. r.created \in Seq(Families) /\ Len(r.created) \in Nat
  BY DEF RowsOK, Tables
<1> DEFINE n == Len(r.created)
           A == ActiveIn(r)
           h == [i \in 1..n |-> r.created[i]]
<1>2. h \in [1..n -> A]
  OBVIOUS
<1>3. \A i, j \in 1..n : h[i] = h[j] => i = j
  BY DEF RowsOK, ListedOnce
<1>4. \A f \in A : \E i \in 1..n : h[i] = f
  BY DEF ActiveIn, RowsOK, Listed
<1> HIDE DEF h, A
<1>5. h \in Bijection(1..n, A)
  BY <1>2, <1>3, <1>4 DEF Bijection, Injection, Surjection, IsInjective
<1>6. ExistsBijection(1..n, A)
  BY <1>5 DEF ExistsBijection
<1>7. IsFiniteSet(1..n) /\ Cardinality(1..n) = n
  BY <1>1, FS_Interval
<1>8. Cardinality(A) = Cardinality(1..n)
  BY <1>6, <1>7, FS_Bijection
<1> QED
  BY <1>7, <1>8 DEF A

\* cleanup_one_expired_session_family removes a family that is not active, or
\* there is none in the index.
LEMMA CleanedRows ==
    ASSUME NEW r, RowsOK(r), NEW w, w = Cleaned(r)
    PROVE  /\ RowsOK(w) /\ Len(w.created) <= Len(r.created)
           /\ \A f \in Families : \/ w.family[f] = r.family[f]
                                  \/ w.family[f] = NoFamily /\ r.family[f].state # "active"
           /\ \A t \in Tokens : t \in r.consumed /\ w.family[t[1]].state # "none" => t \in w.consumed
           /\ w.unconsumed \subseteq r.unconsumed
           /\ \/ Len(w.created) < Len(r.created)
              \/ w = r /\ \A i \in 1..Len(r.created) : r.created[i] \in ActiveIn(r)
<1> DEFINE i == Oldest(r, Families \ ActiveIn(r))
<1>0. /\ r \in Tables /\ Len(r.created) \in Nat
      /\ \A j \in 1..Len(r.created) : r.created[j] \in Families
  BY DEF RowsOK, Tables
<1>1. CASE i = 0
  <2>1. w = r
    BY <1>1 DEF Cleaned
  <2>2. \A j \in 1..Len(r.created) : r.created[j] \notin Families \ ActiveIn(r)
    BY <1>0, <1>1, OldestPlace
  <2> QED
    BY <1>0, <2>1, <2>2
<1>2. CASE i # 0
  <2>1. i \in 1..Len(r.created) /\ r.created[i] \in Families \ ActiveIn(r)
    BY <1>0, <1>2, OldestPlace
  <2>2. w = Removed(r, i)
    BY <1>2 DEF Cleaned
  <2> HIDE DEF i
  <2>3. /\ RowsOK(w) /\ Len(w.created) = Len(r.created) - 1
        /\ w.unconsumed = {t \in r.unconsumed : t[1] # r.created[i]}
        /\ w.consumed = {t \in r.consumed : t[1] # r.created[i]}
        /\ \A f \in Families : w.family[f] = IF f = r.created[i] THEN NoFamily ELSE r.family[f]
    BY <2>1, <2>2, RemovedRows
  <2>4. r.family[r.created[i]].state # "active"
    BY <2>1 DEF ActiveIn
  <2>5. ASSUME NEW t \in Tokens, t \in r.consumed, w.family[t[1]].state # "none" PROVE t \in w.consumed
    <3>1. t[1] \in Families /\ NoFamily.state = "none"
      BY DEF Tokens, NoFamily
    <3> QED
      BY <2>3, <2>5, <3>1
  <2> QED
    BY <1>0, <2>3, <2>4, <2>5
<1> QED
  BY <1>1, <1>2

\* After the cleanup and the eviction there is room for one more family.
LEMMA RoomMade ==
    ASSUME NEW r, RowsOK(r), Len(r.created) <= FamilyCap, NEW c, c = Cleaned(r),
           NEW w, w = MadeRoom(c)
    PROVE  /\ RowsOK(w) /\ Len(w.created) < FamilyCap
           /\ \A f \in Families : w.family[f] \in {r.family[f], NoFamily}
           /\ Evicted(c) \subseteq Families
<1>0. FamilyCap \in Nat \ {0}
  BY AccessAssumption
<1>1. /\ RowsOK(c) /\ Len(c.created) <= Len(r.created)
      /\ \A f \in Families : c.family[f] \in {r.family[f], NoFamily}
      /\ \/ Len(c.created) < Len(r.created)
         \/ c = r /\ \A i \in 1..Len(r.created) : r.created[i] \in ActiveIn(r)
  BY CleanedRows
<1>2. Len(r.created) \in Nat /\ Len(c.created) \in Nat /\ c \in Tables
  BY <1>1 DEF RowsOK, Tables
<1>3. CASE AtCap(c)
  <2> DEFINE i == Oldest(c, ActiveIn(c))
  <2>1. i \in 1..Len(c.created) /\ c.created[i] \in ActiveIn(c)
    <3>1. CASE i = 0
      <4>1. ASSUME NEW f \in ActiveIn(c) PROVE FALSE
        <5>1. \A j \in 1..Len(c.created) : c.created[j] \notin ActiveIn(c)
          BY <1>2, <3>1, OldestPlace
        <5>2. f \in Families /\ c.family[f].state # "none"
          BY DEF ActiveIn
        <5> QED
          BY <1>1, <5>1, <5>2 DEF RowsOK, Listed
      <4>2. Cardinality(ActiveIn(c)) = 0
        BY <4>1, FS_EmptySet
      <4> QED
        BY <1>0, <1>3, <4>2 DEF AtCap
    <3> QED
      BY <1>2, <3>1, OldestPlace
  <2>2. w = Removed(c, i) /\ Evicted(c) = {c.created[i]}
    BY <1>3 DEF MadeRoom, Evicted
  <2> HIDE DEF i
  <2>3. /\ RowsOK(w) /\ Len(w.created) = Len(c.created) - 1 /\ c.created[i] \in Families
        /\ \A f \in Families : w.family[f] = IF f = c.created[i] THEN NoFamily ELSE c.family[f]
    BY <1>1, <2>1, <2>2, RemovedRows
  <2> QED
    BY <1>0, <1>1, <1>2, <2>2, <2>3
<1>4. CASE ~AtCap(c)
  <2>1. w = c /\ Evicted(c) = {}
    BY <1>4 DEF MadeRoom, Evicted
  <2>2. CASE Len(c.created) < Len(r.created)
    BY <1>0, <1>1, <1>2, <2>1, <2>2
  <2>3. CASE c = r /\ \A i \in 1..Len(r.created) : r.created[i] \in ActiveIn(r)
    <3>1. Cardinality(ActiveIn(r)) = Len(r.created)
      BY <2>3, AllActive
    <3> QED
      BY <1>0, <1>1, <1>2, <1>4, <2>1, <2>3, <3>1 DEF AtCap
  <2> QED
    BY <1>1, <2>2, <2>3
<1> QED
  BY <1>3, <1>4

\* issue_admin_session stores a family that was not there, with its token.
LEMMA IssuedRows ==
    ASSUME NEW r, RowsOK(r), NEW f \in Families, r.family[f].state = "none",
           NEW m \in BOOLEAN, NEW e \in 0..MaxEpoch, NEW w, w = Issued(r, f, m, e)
    PROVE  /\ RowsOK(w) /\ Len(w.created) = Len(r.created) + 1
           /\ w.family[f].epoch = e
           /\ \A g \in Families \ {f} : w.family[g] = r.family[g]
<1> DEFINE row == [state |-> "active", must |-> m, epoch |-> e]
<1>1. /\ r.family \in [Families -> FamilyRow] /\ r.created \in Seq(Families)
      /\ r.unconsumed \subseteq Tokens /\ r.consumed \subseteq Tokens
      /\ Len(r.created) \in Nat
  BY DEF RowsOK, Tables
<1>2. row \in FamilyRow /\ row.state = "active" /\ row.epoch = e
  BY DEF FamilyRow
<1>3. /\ w.family = [r.family EXCEPT ![f] = row] /\ w.created = Append(r.created, f)
      /\ w.unconsumed = r.unconsumed \cup {<<f, 0>>} /\ w.consumed = r.consumed
      /\ w = [family |-> w.family, created |-> w.created,
              unconsumed |-> w.unconsumed, consumed |-> w.consumed]
  BY DEF Issued
<1> HIDE DEF row
<1>4. /\ w.created \in Seq(Families) /\ Len(w.created) = Len(r.created) + 1
      /\ w.created[Len(r.created) + 1] = f
      /\ \A i \in 1..Len(r.created) : w.created[i] = r.created[i]
  BY <1>1, <1>3
<1>5. /\ w.family \in [Families -> FamilyRow] /\ w.family[f] = row
      /\ \A g \in Families \ {f} : w.family[g] = r.family[g]
  BY <1>1, <1>2, <1>3
<1>6. <<f, 0>> \in Tokens
  BY AccessAssumption DEF Tokens
<1>7. w \in Tables
  BY <1>1, <1>3, <1>4, <1>5, <1>6 DEF Tables
<1>8. \A i \in 1..Len(r.created) : r.created[i] # f
  BY DEF RowsOK, Listed
<1>9. \A t \in r.unconsumed \cup r.consumed : t[1] # f /\ t[1] \in Families
  BY <1>1 DEF RowsOK, TokensOwned, Tokens
<1>10. ListedOnce(w)
  <2>1. ASSUME NEW i \in 1..Len(w.created), NEW j \in 1..Len(w.created), w.created[i] = w.created[j]
        PROVE  i = j
    <3>1. \A x \in 1..Len(w.created) : x \in 1..Len(r.created) \/ x = Len(r.created) + 1
      BY <1>1, <1>4
    <3>2. \A x, y \in 1..Len(r.created) : r.created[x] = r.created[y] => x = y
      BY DEF RowsOK, ListedOnce
    <3> QED
      BY <1>4, <1>8, <2>1, <3>1, <3>2
  <2> QED
    BY <2>1 DEF ListedOnce
<1>11. ASSUME NEW g \in Families
       PROVE  w.family[g].state # "none" <=> \E i \in 1..Len(w.created) : w.created[i] = g
  <2>1. CASE g = f
    <3>1. Len(r.created) + 1 \in 1..Len(w.created)
      BY <1>1, <1>4
    <3> QED
      BY <1>2, <1>4, <1>5, <2>1, <3>1
  <2>2. CASE g # f
    <3>1. (\E i \in 1..Len(w.created) : w.created[i] = g)
             <=> \E i \in 1..Len(r.created) : r.created[i] = g
      <4>1. \A x \in 1..Len(w.created) : x \in 1..Len(r.created) \/ x = Len(r.created) + 1
        BY <1>1, <1>4
      <4>2. \A x \in 1..Len(r.created) : x \in 1..Len(w.created)
        BY <1>1, <1>4
      <4> QED
        BY <1>4, <2>2, <4>1, <4>2
    <3> QED
      BY <1>5, <2>2, <3>1 DEF RowsOK, Listed
  <2> QED
    BY <2>1, <2>2
<1>12. TokensOwned(w)
  BY <1>2, <1>3, <1>5, <1>9 DEF RowsOK, TokensOwned
<1>13. TokensOrdered(w)
  BY <1>3, <1>9 DEF RowsOK, TokensOrdered
<1> QED
  BY <1>2, <1>4, <1>5, <1>7, <1>10, <1>11, <1>12, <1>13 DEF RowsOK, Listed

\* revoke_family_record changes the state of one row at most.
LEMMA RevokedRows ==
    ASSUME NEW r, RowsOK(r), NEW f \in Families, NEW w, w = Revoked(r, f)
    PROVE  /\ RowsOK(w) /\ w.created = r.created /\ w.family[f].state # "active"
           /\ \A g \in Families \ {f} : w.family[g] = r.family[g]
<1>1. CASE r.family[f].state = "none"
  BY <1>1 DEF Revoked
<1>2. CASE r.family[f].state # "none"
  <2> DEFINE row == [r.family[f] EXCEPT !.state = "revoked"]
  <2>1. r \in Tables /\ r.family \in [Families -> FamilyRow]
    BY DEF RowsOK, Tables
  <2>2. row \in FamilyRow /\ row.state = "revoked"
    BY <2>1 DEF FamilyRow
  <2>3. w = [r EXCEPT !.family = [@ EXCEPT ![f] = row]]
    BY <1>2 DEF Revoked
  <2> HIDE DEF row
  <2>4. /\ w \in Tables /\ w.family = [r.family EXCEPT ![f] = row] /\ w.created = r.created
        /\ w.unconsumed = r.unconsumed /\ w.consumed = r.consumed
    BY <2>1, <2>2, <2>3 DEF Tables
  <2>5. /\ w.family[f] = row /\ \A g \in Families \ {f} : w.family[g] = r.family[g]
    BY <2>1, <2>4
  <2>6. \A g \in Families : w.family[g].state # "none" <=> r.family[g].state # "none"
    BY <1>2, <2>2, <2>5
  <2>7. Listed(w) /\ ListedOnce(w) /\ TokensOrdered(w)
    BY <2>4, <2>6 DEF RowsOK, Listed, ListedOnce, TokensOrdered
  <2>8. TokensOwned(w)
    <3>1. \A t \in r.unconsumed \cup r.consumed : t[1] \in Families
      BY <2>1 DEF Tables, Tokens
    <3> QED
      BY <2>4, <2>6, <3>1 DEF RowsOK, TokensOwned
  <2> QED
    BY <2>2, <2>4, <2>5, <2>7, <2>8 DEF RowsOK
<1> QED
  BY <1>1, <1>2

\* rotate_refresh_token uses up the live token of a family and stores the next.
LEMMA RotatedRows ==
    ASSUME NEW r, RowsOK(r), NEW f \in Families, NEW g \in Nat, g < MaxGeneration,
           <<f, g>> \in r.unconsumed, NEW w, w = Rotated(r, f, g)
    PROVE  RowsOK(w) /\ w.created = r.created /\ w.family = r.family
<1>1. r \in Tables
  BY DEF RowsOK
<1>2. <<f, g>> \in Tokens /\ <<f, g + 1>> \in Tokens
  BY AccessAssumption DEF Tokens
<1>3. /\ w \in Tables /\ w.created = r.created /\ w.family = r.family
      /\ w.consumed = r.consumed \cup {<<f, g>>}
      /\ w.unconsumed = (r.unconsumed \ {<<f, g>>}) \cup {<<f, g + 1>>}
  BY <1>1, <1>2 DEF Tables, Rotated
<1>4. \A t \in r.unconsumed \cup r.consumed : t \in Families \X Nat
  BY <1>1, AccessAssumption DEF Tables, Tokens
<1>5. Listed(w) /\ ListedOnce(w)
  BY <1>3 DEF RowsOK, Listed, ListedOnce
<1>6. TokensOwned(w)
  BY <1>3 DEF RowsOK, TokensOwned
<1>7. \A t \in r.unconsumed : t[1] = f => t = <<f, g>>
  BY DEF RowsOK, TokensOrdered
<1>8. \A t \in r.consumed : t[1] = f => t[2] < g
  BY DEF RowsOK, TokensOrdered
<1>9. \A t, u \in w.unconsumed : t[1] = u[1] => t = u
  BY <1>3, <1>7 DEF RowsOK, TokensOrdered
<1>10. ASSUME NEW t \in w.consumed, NEW u \in w.unconsumed, t[1] = u[1] PROVE t[2] < u[2]
  <2>1. CASE u = <<f, g + 1>>
    <3>1. t = <<f, g>> \/ t \in r.consumed
      BY <1>3
    <3> QED
      BY <1>4, <1>8, <1>10, <2>1, <3>1
  <2>2. CASE u \in r.unconsumed /\ u # <<f, g>>
    <3>1. t = <<f, g>> \/ t \in r.consumed
      BY <1>3
    <3>2. t # <<f, g>>
      BY <1>7, <1>10, <2>2
    <3> QED
      BY <1>10, <2>2, <3>1, <3>2 DEF RowsOK, TokensOrdered
  <2> QED
    BY <1>3, <2>1, <2>2
<1> QED
  BY <1>3, <1>5, <1>6, <1>9, <1>10 DEF RowsOK, TokensOrdered

-----------------------------------------------------------------------------
(* The invariant.                                                          *)

Work ==
    [kind : {"none", "issue", "change", "refresh", "logout", "import"},
     step : {"none", "verified", "changed", "stored", "committed", "locked", "revoking",
             "upload", "restore", "restore_blocked"},
     family : Families \cup {"none"}, gen : Nat]

\* What a request is doing, step by step.
WorkOK(p) ==
    LET w == op[p] IN
    /\ w.kind = "none" => w = Resting
    /\ w.kind = "issue" => w.step \in {"verified", "changed", "stored"}
    /\ w.kind = "change" => w.step = "committed"
    /\ w.kind = "refresh" => w.step \in {"locked", "stored", "revoking"}
    /\ w.kind = "logout" => w.step = "revoking"
    /\ w.kind = "import" => w.step \in {"upload", "restore", "restore_blocked", "committed"}
    /\ w.kind \in {"refresh", "logout", "import"} \/ w.step = "stored" => w.family \in Families

\* Everyone past his first step holds the lock, but an upload under way.
LockHeld(p) ==
    op[p].kind # "none" /\ op[p].step # "upload" => authLock = p

\* What a request learned under the lock is still so.
LearnedHolds(p) ==
    /\ op[p].step \in {"verified", "changed"} => op[p].gen = auth.epoch
    /\ op[p].step = "changed" \/ op[p].kind = "change" => ~auth.must
    /\ Restoring(p) => blocked /\ family[op[p].family].state \in {"active", "expired"}
    /\ op[p].kind = "import" /\ op[p].step = "restore" => ~auth.must

RequestOK(p) == WorkOK(p) /\ LockHeld(p) /\ LearnedHolds(p)

MemoryOK ==
    /\ auth \in [epoch : 0..MaxEpoch, must : BOOLEAN, weak : BOOLEAN] /\ blocked \in BOOLEAN
    /\ access \subseteq Families /\ proofs \subseteq Families
    /\ authLock \in AdminProcs \cup {"free"}
    /\ op \in [AdminProcs -> Work]

AdmInv ==
    /\ MemoryOK
    /\ RowsOK(Rows)
    /\ FamilyCapHeld
    /\ SessionsFollowPassword
    /\ GatewayClosed
    /\ \A p \in AdminProcs : RequestOK(p)

\* The invariant and what it says of the families' tokens give SessionsSound.
LEMMA AdmInvSound == AdmInv => SessionsSound
<1> SUFFICES ASSUME AdmInv PROVE SessionsSound
  OBVIOUS
<1>1. /\ family \in [Families -> FamilyRow] /\ created \in Seq(Families)
      /\ unconsumed \subseteq Tokens /\ consumed \subseteq Tokens
  BY DEF AdmInv, RowsOK, Tables, Rows
<1>2. {created[i] : i \in 1..Len(created)} = {f \in Families : family[f].state # "none"}
  <2>1. \A i \in 1..Len(created) : created[i] \in Families
    BY <1>1
  <2> QED
    BY <2>1 DEF AdmInv, RowsOK, Listed, Rows
<1>3. AdmTypeOK
  BY <1>1, <1>2 DEF AdmInv, MemoryOK, AdmTypeOK, FamilyRow
<1>4. ASSUME NEW f \in Families PROVE Cardinality({t \in unconsumed : t[1] = f}) <= 1
  <2> DEFINE S == {t \in unconsumed : t[1] = f}
  <2>1. CASE S = {}
    BY <2>1, FS_EmptySet
  <2>2. CASE S # {}
    <3>1. PICK t \in S : TRUE
      BY <2>2
    <3>2. S = {t}
      BY <3>1 DEF AdmInv, RowsOK, TokensOrdered, Rows
    <3>3. Cardinality({t}) = 1
      BY FS_Singleton
    <3> QED
      BY <3>2, <3>3
  <2> QED
    BY <2>1, <2>2
<1>5. OneLiveToken
  BY <1>4 DEF OneLiveToken, AdmInv, RowsOK, TokensOrdered, Rows
<1>6. ImportAuthorised
  BY DEF ImportAuthorised, AdmInv, RequestOK, LearnedHolds
<1> QED
  BY <1>3, <1>5, <1>6 DEF SessionsSound, AdmInv

\* The tables a step leaves behind are those it computed.
LEMMA TablesSet ==
    ASSUME NEW w, SetRows(w), RowsOK(w)
    PROVE  RowsOK(Rows)'
<1>1. w = [family |-> w.family, created |-> w.created,
           unconsumed |-> w.unconsumed, consumed |-> w.consumed]
  BY DEF RowsOK, Tables
<1>2. Rows' = w
  BY <1>1 DEF SetRows, Rows
<1>3. RowsOK(Rows') <=> RowsOK(w)
  BY <1>2
<1>4. RowsOK(Rows)' <=> RowsOK(Rows')
  BY DEF RowsOK, Tables, Listed, ListedOnce, TokensOwned, TokensOrdered, Tokens, FamilyRow
<1> QED
  BY <1>3, <1>4

\* While the lock is free a request is at rest or uploading.
LEMMA NoOneHolds ==
    ASSUME AdmInv, authLock = "free", NEW p \in AdminProcs
    PROVE  op[p].kind = "none" \/ (op[p].kind = "import" /\ op[p].step = "upload")
BY AccessAssumption DEF AdmInv, RequestOK, LockHeld, WorkOK, MemoryOK, Work

\* While one request holds the lock the others are at rest or uploading.
LEMMA OthersWait ==
    ASSUME AdmInv, NEW p \in AdminProcs, authLock = p, NEW q \in AdminProcs \ {p}
    PROVE  op[q].kind = "none" \/ (op[q].kind = "import" /\ op[q].step = "upload")
BY DEF AdmInv, RequestOK, LockHeld, WorkOK, MemoryOK, Work

\* A step under the lock, or one that takes it, disturbs no other request.
LEMMA OthersKept ==
    ASSUME AdmInv, NEW p \in AdminProcs, authLock \in {"free", p},
           NEW w \in Work, op' = [op EXCEPT ![p] = w]
    PROVE  /\ op' \in [AdminProcs -> Work] /\ op'[p] = w
           /\ \A q \in AdminProcs \ {p} : RequestOK(q)'
<1>1. op \in [AdminProcs -> Work]
  BY DEF AdmInv, MemoryOK
<1>2. op' \in [AdminProcs -> Work] /\ op'[p] = w /\ \A q \in AdminProcs \ {p} : op'[q] = op[q]
  BY <1>1
<1>3. ASSUME NEW q \in AdminProcs \ {p} PROVE RequestOK(q)'
  <2>1. op[q].kind = "none" \/ (op[q].kind = "import" /\ op[q].step = "upload")
    BY NoOneHolds, OthersWait
  <2>2. WorkOK(q) /\ op'[q] = op[q] /\ op[q] \in Work
    BY <1>1, <1>2 DEF AdmInv, RequestOK
  <2>3. WorkOK(q)'
    BY <2>2 DEF WorkOK
  <2>4. op[q].step \in {"none", "upload"}
    BY <2>1, <2>2 DEF WorkOK, Resting
  <2>5. LockHeld(q)' /\ LearnedHolds(q)'
    BY <2>1, <2>2, <2>4 DEF LockHeld, LearnedHolds, Restoring
  <2> QED
    BY <2>3, <2>5 DEF RequestOK
<1> QED
  BY <1>2, <1>3

\* A request at rest satisfies its part whatever the rest of the state is.
LEMMA AtRest ==
    ASSUME NEW p \in AdminProcs, op'[p] = Resting
    PROVE  RequestOK(p)'
BY DEF RequestOK, WorkOK, LockHeld, LearnedHolds, Restoring, Resting

\* A step that leaves the rows, the password, the flag and the lock alone
\* leaves the invariant alone.
LEMMA MemoryOnly ==
    ASSUME AdmInv, UNCHANGED <<auth, sessionRows, blocked, authLock, op>>,
           access' \subseteq Families, proofs' \subseteq Families
    PROVE  AdmInv'
<1>1. UNCHANGED Rows
  BY DEF Rows, sessionRows
<1>2. RowsOK(Rows)'
  <2>1. RowsOK(Rows)' <=> RowsOK(Rows')
    BY DEF RowsOK, Tables, Listed, ListedOnce, TokensOwned, TokensOrdered, Tokens, FamilyRow
  <2> QED
    BY <1>1, <2>1 DEF AdmInv
<1>3. MemoryOK'
  BY DEF AdmInv, MemoryOK
<1>4. FamilyCapHeld' /\ SessionsFollowPassword' /\ GatewayClosed'
  BY DEF AdmInv, FamilyCapHeld, SessionsFollowPassword, GatewayClosed, Active, sessionRows
<1>5. ASSUME NEW p \in AdminProcs PROVE RequestOK(p)'
  BY DEF AdmInv, RequestOK, WorkOK, LockHeld, LearnedHolds, Restoring, sessionRows
<1> QED
  BY <1>2, <1>3, <1>4, <1>5 DEF AdmInv

\* The parts of the invariant that speak of rows only, when no row changes.
LEMMA RowsKept ==
    ASSUME AdmInv, UNCHANGED sessionRows
    PROVE  /\ RowsOK(Rows)' /\ FamilyCapHeld'
           /\ auth'.epoch = auth.epoch => SessionsFollowPassword'
<1>1. UNCHANGED Rows
  BY DEF Rows, sessionRows
<1>2. RowsOK(Rows)' <=> RowsOK(Rows')
  BY DEF RowsOK, Tables, Listed, ListedOnce, TokensOwned, TokensOrdered, Tokens, FamilyRow
<1> QED
  BY <1>1, <1>2 DEF AdmInv, FamilyCapHeld, SessionsFollowPassword, Active, sessionRows

\* The holder of the lock.
LEMMA Holder ==
    ASSUME AdmInv, NEW p \in AdminProcs, op[p].kind # "none", op[p].step # "upload"
    PROVE  authLock = p
BY DEF AdmInv, RequestOK, LockHeld

-----------------------------------------------------------------------------
(* One lemma per handler.                                                  *)

\* Login takes the lock and remembers the password it verified.
LEMMA LoginStep ==
    ASSUME AdmInv, NEW p \in AdminProcs, LoginRead(p)
    PROVE  AdmInv'
<1> DEFINE w == [kind |-> "issue", step |-> "verified", family |-> "none", gen |-> auth.epoch]
<1>1. /\ authLock = "free" /\ authLock' = p /\ op' = [op EXCEPT ![p] = w]
      /\ UNCHANGED <<auth, sessionRows, access, proofs, blocked>>
  BY DEF LoginRead, Become
<1>2. w \in Work /\ auth.epoch \in 0..MaxEpoch
  BY AccessAssumption DEF Work, AdmInv, MemoryOK
<1>3. op' \in [AdminProcs -> Work] /\ op'[p] = w /\ \A q \in AdminProcs \ {p} : RequestOK(q)'
  <2> HIDE DEF w
  <2> QED
    BY <1>1, <1>2, OthersKept
<1>4. RequestOK(p)'
  BY <1>1, <1>3 DEF RequestOK, WorkOK, LockHeld, LearnedHolds, Restoring
<1>5. MemoryOK' /\ GatewayClosed'
  BY <1>1, <1>3 DEF AdmInv, MemoryOK, GatewayClosed
<1> QED
  BY <1>1, <1>3, <1>4, <1>5, RowsKept DEF AdmInv

\* A session is issued for the password that was verified or just set.
LEMMA IssueStep ==
    ASSUME AdmInv, NEW p \in AdminProcs, NEW f \in Families, IssueCommit(p, f)
    PROVE  AdmInv'
<1> DEFINE w == [kind |-> "issue", step |-> "stored", family |-> f, gen |-> 0]
           must == op[p].step = "verified" /\ (auth.must \/ auth.weak)
           c == Cleaned(Rows)
           m == MadeRoom(c)
           r == Issued(m, f, must, op[p].gen)
<1>1. /\ op[p].kind = "issue" /\ op[p].step \in {"verified", "changed"} /\ family[f] = NoFamily
      /\ SetRows(r) /\ ForgetFamilies(Evicted(c))
      /\ blocked' = IF op[p].step = "verified" THEN must ELSE blocked
      /\ op' = [op EXCEPT ![p] = w] /\ UNCHANGED <<auth, authLock>>
  BY DEF IssueCommit, Become
<1>2. authLock = p
  BY <1>1, Holder
<1>3. op' \in [AdminProcs -> Work] /\ op'[p] = w /\ \A q \in AdminProcs \ {p} : RequestOK(q)'
  <2>1. w \in Work
    BY DEF Work
  <2> HIDE DEF w
  <2> QED
    BY <1>1, <1>2, <2>1, OthersKept
<1>4. RequestOK(p)'
  BY <1>1, <1>2, <1>3 DEF RequestOK, WorkOK, LockHeld, LearnedHolds, Restoring
<1>5. op[p].gen = auth.epoch /\ auth.epoch \in 0..MaxEpoch /\ must \in BOOLEAN
      /\ (op[p].step = "changed" => ~auth.must)
  BY <1>1 DEF AdmInv, RequestOK, LearnedHolds, MemoryOK
<1>6. RowsOK(Rows) /\ Len(Rows.created) <= FamilyCap /\ Rows.family = family
  BY DEF AdmInv, FamilyCapHeld, Rows
<1>7. MemoryOK' /\ GatewayClosed'
  <2>1. blocked' \in BOOLEAN /\ (auth.must => blocked')
    BY <1>1, <1>5 DEF AdmInv, MemoryOK, GatewayClosed
  <2> QED
    BY <1>1, <1>3, <2>1 DEF AdmInv, MemoryOK, GatewayClosed, ForgetFamilies
<1> HIDE DEF must, w
<1>8. /\ RowsOK(m) /\ Len(m.created) < FamilyCap
      /\ \A g \in Families : m.family[g] \in {family[g], NoFamily}
  <2> HIDE DEF c, m
  <2> QED
    BY <1>6, RoomMade DEF c, m
<1>9. m.family[f].state = "none"
  BY <1>1, <1>8 DEF NoFamily
<1>10. /\ RowsOK(r) /\ Len(r.created) = Len(m.created) + 1 /\ r.family[f].epoch = op[p].gen
       /\ \A g \in Families \ {f} : r.family[g] = m.family[g]
  <2> HIDE DEF m, r
  <2> QED
    BY <1>5, <1>8, <1>9, IssuedRows DEF r
<1> HIDE DEF r, m
<1>11. RowsOK(Rows)'
  BY <1>1, <1>10, TablesSet
<1>12. FamilyCapHeld'
  <2>1. Len(m.created) \in Nat
    BY <1>8 DEF RowsOK, Tables
  <2> QED
    BY <1>1, <1>8, <1>10, <2>1, AccessAssumption DEF FamilyCapHeld, SetRows
<1>13. SessionsFollowPassword'
  <2>1. ASSUME NEW g \in Families, family'[g].state = "active" PROVE family'[g].epoch = auth.epoch
    <3>1. CASE g = f
      BY <1>1, <1>5, <1>10, <3>1 DEF SetRows
    <3>2. CASE g # f
      BY <1>1, <1>8, <1>10, <2>1, <3>2 DEF SetRows, NoFamily, AdmInv, SessionsFollowPassword, Active
    <3> QED
      BY <3>1, <3>2
  <2> QED
    BY <1>1, <2>1 DEF SessionsFollowPassword, Active
<1> QED
  BY <1>3, <1>4, <1>7, <1>11, <1>12, <1>13 DEF AdmInv

\* The access token is cached and the lock let go.
LEMMA CacheStep ==
    ASSUME AdmInv, NEW p \in AdminProcs, CacheAccess(p)
    PROVE  AdmInv'
<1>1. /\ op[p].kind # "none" /\ op[p].step = "stored" /\ access' = access \cup {op[p].family}
      /\ authLock' = "free" /\ op' = [op EXCEPT ![p] = Resting]
      /\ UNCHANGED <<auth, sessionRows, proofs, blocked>>
  BY DEF CacheAccess, Unlock
<1>2. authLock = p /\ op[p].family \in Families
  BY <1>1, Holder DEF AdmInv, RequestOK, WorkOK
<1>3. op' \in [AdminProcs -> Work] /\ op'[p] = Resting /\ \A q \in AdminProcs \ {p} : RequestOK(q)'
  <2>1. Resting \in Work
    BY DEF Work, Resting
  <2> QED
    BY <1>1, <1>2, <2>1, OthersKept
<1>4. MemoryOK' /\ GatewayClosed'
  BY <1>1, <1>2, <1>3 DEF AdmInv, MemoryOK, GatewayClosed
<1> QED
  BY <1>1, <1>3, <1>4, RowsKept, AtRest DEF AdmInv

\* A new password revokes every family in the same transaction.
LEMMA ChangeStep ==
    ASSUME AdmInv, NEW p \in AdminProcs, ChangeCommit(p)
    PROVE  AdmInv'
<1> DEFINE w == [kind |-> "change", step |-> "committed", family |-> "none", gen |-> 0]
<1>1. /\ authLock = "free" /\ auth.epoch < MaxEpoch /\ authLock' = p /\ op' = [op EXCEPT ![p] = w]
      /\ auth' = [epoch |-> auth.epoch + 1, must |-> FALSE, weak |-> FALSE]
      /\ family' = [f \in Families |-> IF family[f].state = "none" THEN NoFamily
                                       ELSE [family[f] EXCEPT !.state = "revoked"]]
      /\ UNCHANGED <<created, unconsumed, consumed, access, proofs, blocked>>
  BY DEF ChangeCommit, Become
<1>2. op' \in [AdminProcs -> Work] /\ op'[p] = w /\ \A q \in AdminProcs \ {p} : RequestOK(q)'
  <2>1. w \in Work
    BY DEF Work
  <2> HIDE DEF w
  <2> QED
    BY <1>1, <2>1, OthersKept
<1>3. RequestOK(p)'
  BY <1>1, <1>2 DEF RequestOK, WorkOK, LockHeld, LearnedHolds, Restoring
<1>4. MemoryOK' /\ GatewayClosed'
  BY <1>1, <1>2, AccessAssumption DEF AdmInv, MemoryOK, GatewayClosed
<1>5. /\ family \in [Families -> FamilyRow] /\ created \in Seq(Families)
      /\ unconsumed \subseteq Tokens /\ consumed \subseteq Tokens
  BY DEF AdmInv, RowsOK, Tables, Rows
<1>6. ASSUME NEW f \in Families
      PROVE  /\ family'[f] \in FamilyRow /\ family'[f].state # "active"
             /\ family'[f].state # "none" <=> family[f].state # "none"
  BY <1>1, <1>5, AccessAssumption DEF NoFamily, FamilyRow
<1>7. family' \in [Families -> FamilyRow]
  BY <1>1, <1>6
<1>8. Rows' \in Tables
  BY <1>1, <1>5, <1>7 DEF Rows, Tables
<1>9. Listed(Rows)' /\ ListedOnce(Rows)' /\ TokensOrdered(Rows)'
  BY <1>1, <1>6 DEF AdmInv, RowsOK, Rows, Listed, ListedOnce, TokensOrdered
<1>10. TokensOwned(Rows)'
  <2>1. \A t \in unconsumed \cup consumed : t[1] \in Families
    BY <1>5 DEF Tokens
  <2> QED
    BY <1>1, <1>6, <2>1 DEF AdmInv, RowsOK, Rows, TokensOwned
<1>11. RowsOK(Rows)'
  BY <1>8, <1>9, <1>10 DEF RowsOK, Tables, FamilyRow, Tokens
<1>12. FamilyCapHeld' /\ SessionsFollowPassword'
  BY <1>1, <1>6 DEF AdmInv, FamilyCapHeld, SessionsFollowPassword, Active
<1> QED
  BY <1>2, <1>3, <1>4, <1>11, <1>12 DEF AdmInv

\* Memory is cleared after a change; the session of the change comes next.
LEMMA ChangeForgetStep ==
    ASSUME AdmInv, NEW p \in AdminProcs, ChangeForget(p)
    PROVE  AdmInv'
<1> DEFINE w == [kind |-> "issue", step |-> "changed", family |-> "none", gen |-> auth.epoch]
<1>1. /\ op[p].kind = "change" /\ op[p].step = "committed"
      /\ blocked' = FALSE /\ access' = {} /\ proofs' = {} /\ op' = [op EXCEPT ![p] = w]
      /\ UNCHANGED <<auth, sessionRows, authLock>>
  BY DEF ChangeForget, Become, At
<1>2. authLock = p /\ ~auth.must
  BY <1>1, Holder DEF AdmInv, RequestOK, LearnedHolds
<1>3. op' \in [AdminProcs -> Work] /\ op'[p] = w /\ \A q \in AdminProcs \ {p} : RequestOK(q)'
  <2>1. w \in Work
    BY AccessAssumption DEF Work, AdmInv, MemoryOK
  <2> HIDE DEF w
  <2> QED
    BY <1>1, <1>2, <2>1, OthersKept
<1>4. RequestOK(p)'
  BY <1>1, <1>2, <1>3 DEF RequestOK, WorkOK, LockHeld, LearnedHolds, Restoring
<1>5. MemoryOK' /\ GatewayClosed'
  BY <1>1, <1>2, <1>3 DEF AdmInv, MemoryOK, GatewayClosed
<1> QED
  BY <1>1, <1>3, <1>4, <1>5, RowsKept DEF AdmInv

\* A refresh takes the lock.
LEMMA RefreshLockStep ==
    ASSUME AdmInv, NEW p \in AdminProcs, NEW t \in Tokens, RefreshLock(p, t)
    PROVE  AdmInv'
<1> DEFINE w == [kind |-> "refresh", step |-> "locked", family |-> t[1], gen |-> t[2]]
<1>1. /\ authLock = "free" /\ authLock' = p /\ op' = [op EXCEPT ![p] = w]
      /\ UNCHANGED <<auth, sessionRows, access, proofs, blocked>>
  BY DEF RefreshLock, Become
<1>2. t[1] \in Families /\ t[2] \in Nat
  BY AccessAssumption DEF Tokens
<1>3. op' \in [AdminProcs -> Work] /\ op'[p] = w /\ \A q \in AdminProcs \ {p} : RequestOK(q)'
  <2>1. w \in Work
    BY <1>2 DEF Work
  <2> HIDE DEF w
  <2> QED
    BY <1>1, <2>1, OthersKept
<1>4. RequestOK(p)'
  BY <1>1, <1>2, <1>3 DEF RequestOK, WorkOK, LockHeld, LearnedHolds, Restoring
<1>5. MemoryOK' /\ GatewayClosed'
  BY <1>1, <1>3 DEF AdmInv, MemoryOK, GatewayClosed
<1> QED
  BY <1>1, <1>3, <1>4, <1>5, RowsKept DEF AdmInv

\* The end of a refresh: the lock is kept with a token to hand out or a family
\* to forget, or let go.
LEMMA RefreshWork ==
    ASSUME AdmInv, NEW p \in AdminProcs, op[p].kind = "refresh", op[p].step = "locked",
           UNCHANGED <<auth, access, proofs, blocked>>,
           NEW f \in Families, NEW g \in Nat,
           \/ op' = [op EXCEPT ![p] = [kind |-> "refresh", step |-> "stored", family |-> f, gen |-> g]]
              /\ UNCHANGED authLock
           \/ op' = [op EXCEPT ![p] = [kind |-> "refresh", step |-> "revoking", family |-> f, gen |-> g]]
              /\ UNCHANGED authLock
           \/ op' = [op EXCEPT ![p] = Resting] /\ authLock' = "free"
    PROVE  MemoryOK' /\ GatewayClosed' /\ \A q \in AdminProcs : RequestOK(q)'
<1>1. authLock = p
  BY Holder
<1>2. CASE op' = [op EXCEPT ![p] = Resting] /\ authLock' = "free"
  <2>1. Resting \in Work
    BY DEF Work, Resting
  <2>2. op' \in [AdminProcs -> Work] /\ op'[p] = Resting /\ \A q \in AdminProcs \ {p} : RequestOK(q)'
    BY <1>1, <1>2, <2>1, OthersKept
  <2> QED
    BY <1>2, <2>2, AtRest DEF AdmInv, MemoryOK, GatewayClosed
<1>3. ASSUME NEW s \in {"stored", "revoking"},
             op' = [op EXCEPT ![p] = [kind |-> "refresh", step |-> s, family |-> f, gen |-> g]],
             UNCHANGED authLock
      PROVE  MemoryOK' /\ GatewayClosed' /\ \A q \in AdminProcs : RequestOK(q)'
  <2> DEFINE w == [kind |-> "refresh", step |-> s, family |-> f, gen |-> g]
  <2>1. w \in Work
    BY DEF Work
  <2>2. op' \in [AdminProcs -> Work] /\ op'[p] = w /\ \A q \in AdminProcs \ {p} : RequestOK(q)'
    <3> HIDE DEF w
    <3> QED
      BY <1>1, <1>3, <2>1, OthersKept DEF w
  <2>3. RequestOK(p)'
    BY <1>1, <1>3, <2>2 DEF RequestOK, WorkOK, LockHeld, LearnedHolds, Restoring
  <2> QED
    BY <1>3, <2>2, <2>3 DEF AdmInv, MemoryOK, GatewayClosed
<1> QED
  BY <1>2, <1>3

\* rotate_refresh_token, whatever it finds.
LEMMA RefreshStep ==
    ASSUME AdmInv, NEW p \in AdminProcs, RefreshCommit(p)
    PROVE  AdmInv'
<1>1. /\ op[p].kind = "refresh" /\ op[p].step = "locked" /\ op[p].family \in Families
      /\ op[p].gen \in Nat /\ op[p] \in Work
  BY DEF RefreshCommit, At, AdmInv, RequestOK, WorkOK, MemoryOK, Work
<1>2. PICK f \in Families, g \in Nat : f = op[p].family /\ g = op[p].gen
  BY <1>1
<1> DEFINE r == Cleaned(Rows)
           good == <<f, g>> \in r.unconsumed /\ r.family[f].state = "active" /\ g < MaxGeneration
           known == Known(r, <<f, g>>)
<1>3. UNCHANGED <<auth, access, proofs, blocked>>
  BY DEF RefreshCommit
<1>4. /\ RowsOK(r) /\ Len(r.created) <= Len(created)
      /\ \A h \in Families : r.family[h] \in {family[h], NoFamily}
  <2>1. RowsOK(Rows) /\ Rows.created = created /\ Rows.family = family
    BY DEF AdmInv, Rows
  <2> HIDE DEF r
  <2> QED
    BY <2>1, CleanedRows DEF r
<1>5. Len(r.created) <= FamilyCap
  <2>1. Len(created) \in Nat /\ Len(r.created) \in Nat /\ Len(created) <= FamilyCap
    BY <1>4 DEF AdmInv, RowsOK, Tables, Rows, FamilyCapHeld
  <2> QED
    BY <1>4, <2>1, AccessAssumption
<1>6. \A h \in Families : r.family[h].state = "active" => r.family[h].epoch = auth.epoch
  BY <1>4 DEF AdmInv, SessionsFollowPassword, Active, NoFamily
<1>7. ASSUME NEW w, SetRows(w), RowsOK(w), w.created = r.created,
             \A h \in Families : w.family[h] = r.family[h] \/ w.family[h].state # "active"
      PROVE  RowsOK(Rows)' /\ FamilyCapHeld' /\ SessionsFollowPassword'
  <2>1. RowsOK(Rows)'
    BY <1>7, TablesSet
  <2>2. FamilyCapHeld'
    BY <1>5, <1>7 DEF SetRows, FamilyCapHeld
  <2>3. SessionsFollowPassword'
    BY <1>3, <1>6, <1>7 DEF SetRows, SessionsFollowPassword, Active
  <2> QED
    BY <2>1, <2>2, <2>3
<1>8. CASE good
  <2>1. /\ SetRows(Rotated(r, f, g)) /\ UNCHANGED authLock
        /\ op' = [op EXCEPT ![p] = [kind |-> "refresh", step |-> "stored", family |-> f, gen |-> g + 1]]
    BY <1>2, <1>8 DEF RefreshCommit, Become
  <2>2. MemoryOK' /\ GatewayClosed' /\ \A q \in AdminProcs : RequestOK(q)'
    <3>1. g + 1 \in Nat
      OBVIOUS
    <3> QED
      BY <1>1, <1>3, <2>1, <3>1, RefreshWork
  <2>3. PICK w : w = Rotated(r, f, g)
    OBVIOUS
  <2>4. RowsOK(w) /\ w.created = r.created /\ w.family = r.family
    <3>1. <<f, g>> \in r.unconsumed /\ g < MaxGeneration
      BY <1>8
    <3> HIDE DEF r
    <3> QED
      BY <1>4, <2>3, <3>1, RotatedRows
  <2>5. SetRows(w)
    BY <2>1, <2>3
  <2> HIDE DEF r, good, known
  <2> QED
    BY <1>7, <2>2, <2>4, <2>5 DEF AdmInv
<1>9. CASE ~good /\ known
  <2>1. /\ SetRows(Revoked(r, f)) /\ UNCHANGED authLock /\ op' = [op EXCEPT ![p].step = "revoking"]
    BY <1>2, <1>9 DEF RefreshCommit, Move
  <2>2. op' = [op EXCEPT ![p] = [kind |-> "refresh", step |-> "revoking", family |-> f, gen |-> g]]
    <3>1. [op[p] EXCEPT !.step = "revoking"]
             = [kind |-> "refresh", step |-> "revoking", family |-> f, gen |-> g]
      BY <1>1, <1>2 DEF Work
    <3>2. op' = [op EXCEPT ![p] = [op[p] EXCEPT !.step = "revoking"]]
      BY <2>1
    <3> QED
      BY <3>1, <3>2
  <2>3. MemoryOK' /\ GatewayClosed' /\ \A q \in AdminProcs : RequestOK(q)'
    <3>1. UNCHANGED authLock
      BY <2>1
    <3> QED
      BY <1>1, <1>3, <2>2, <3>1, RefreshWork
  <2>4. PICK w : w = Revoked(r, f)
    OBVIOUS
  <2>5. /\ RowsOK(w) /\ w.created = r.created /\ w.family[f].state # "active"
        /\ \A h \in Families \ {f} : w.family[h] = r.family[h]
    <3> HIDE DEF r
    <3> QED
      BY <1>4, <2>4, RevokedRows
  <2>6. SetRows(w)
    BY <2>1, <2>4
  <2> HIDE DEF r, good, known
  <2> QED
    BY <1>7, <2>3, <2>5, <2>6 DEF AdmInv
<1>10. CASE ~good /\ ~known
  <2>1. SetRows(r) /\ authLock' = "free" /\ op' = [op EXCEPT ![p] = Resting]
    BY <1>2, <1>10 DEF RefreshCommit, Unlock
  <2>2. MemoryOK' /\ GatewayClosed' /\ \A q \in AdminProcs : RequestOK(q)'
    BY <1>1, <1>3, <2>1, RefreshWork
  <2>3. PICK w : w = r
    OBVIOUS
  <2>4. SetRows(w) /\ RowsOK(w)
    BY <1>4, <2>1, <2>3
  <2> HIDE DEF r, good, known
  <2> QED
    BY <1>7, <2>2, <2>3, <2>4 DEF AdmInv
<1> QED
  BY <1>8, <1>9, <1>10

\* A revoked family is forgotten in memory and the lock let go.
LEMMA ForgetStep ==
    ASSUME AdmInv, NEW p \in AdminProcs, Forget(p)
    PROVE  AdmInv'
<1>1. /\ op[p].step = "revoking" /\ access' \subseteq access /\ proofs' \subseteq proofs
      /\ authLock' = "free" /\ op' = [op EXCEPT ![p] = Resting]
      /\ UNCHANGED <<auth, sessionRows, blocked>>
  BY DEF Forget, ForgetFamilies, Unlock
<1>2. authLock = p
  BY <1>1, Holder DEF AdmInv, RequestOK, WorkOK, Resting
<1>3. op' \in [AdminProcs -> Work] /\ op'[p] = Resting /\ \A q \in AdminProcs \ {p} : RequestOK(q)'
  <2>1. Resting \in Work
    BY DEF Work, Resting
  <2> QED
    BY <1>1, <1>2, <2>1, OthersKept
<1>4. MemoryOK' /\ GatewayClosed'
  BY <1>1, <1>2, <1>3 DEF AdmInv, MemoryOK, GatewayClosed
<1> QED
  BY <1>1, <1>3, <1>4, RowsKept, AtRest DEF AdmInv

\* Logout revokes its family under the lock.
LEMMA LogoutStep ==
    ASSUME AdmInv, NEW p \in AdminProcs, NEW f \in Families, LogoutCommit(p, f)
    PROVE  AdmInv'
<1> DEFINE w == [kind |-> "logout", step |-> "revoking", family |-> f, gen |-> 0]
           r == Revoked(Rows, f)
<1>1. /\ authLock = "free" /\ authLock' = p /\ op' = [op EXCEPT ![p] = w] /\ SetRows(r)
      /\ UNCHANGED <<auth, access, proofs, blocked>>
  BY DEF LogoutCommit, Become
<1>2. op' \in [AdminProcs -> Work] /\ op'[p] = w /\ \A q \in AdminProcs \ {p} : RequestOK(q)'
  <2>1. w \in Work
    BY DEF Work
  <2> HIDE DEF w, r
  <2> QED
    BY <1>1, <2>1, OthersKept
<1>3. RequestOK(p)'
  BY <1>1, <1>2 DEF RequestOK, WorkOK, LockHeld, LearnedHolds, Restoring
<1>4. MemoryOK' /\ GatewayClosed'
  BY <1>1, <1>2 DEF AdmInv, MemoryOK, GatewayClosed
<1>5. /\ RowsOK(r) /\ r.created = created /\ r.family[f].state # "active"
      /\ \A g \in Families \ {f} : r.family[g] = family[g]
  <2>1. RowsOK(Rows) /\ Rows.created = created /\ Rows.family = family
    BY DEF AdmInv, Rows
  <2> HIDE DEF r
  <2> QED
    BY <2>1, RevokedRows DEF r
<1> HIDE DEF r, w
<1>6. RowsOK(Rows)'
  BY <1>1, <1>5, TablesSet
<1>7. FamilyCapHeld' /\ SessionsFollowPassword'
  BY <1>1, <1>5 DEF AdmInv, SetRows, FamilyCapHeld, SessionsFollowPassword, Active
<1> QED
  BY <1>2, <1>3, <1>4, <1>6, <1>7 DEF AdmInv

\* A step of the upload, which holds no lock, disturbs no other request.
LEMMA UploadMoves ==
    ASSUME AdmInv, NEW p \in AdminProcs, NEW w \in Work, op' = [op EXCEPT ![p] = w],
           UNCHANGED <<auth, sessionRows, access, blocked, authLock>>, proofs' \subseteq proofs,
           \/ w = Resting
           \/ w.kind = "import" /\ w.step = "upload" /\ w.family \in Families
    PROVE  AdmInv'
<1>1. op' \in [AdminProcs -> Work] /\ op'[p] = w /\ \A q \in AdminProcs \ {p} : op'[q] = op[q]
  BY DEF AdmInv, MemoryOK
<1>2. RequestOK(p)'
  <2>1. CASE w = Resting
    BY <1>1, <2>1, AtRest
  <2>2. CASE w.kind = "import" /\ w.step = "upload" /\ w.family \in Families
    BY <1>1, <2>2 DEF RequestOK, WorkOK, LockHeld, LearnedHolds, Restoring
  <2> QED
    BY <2>1, <2>2
<1>3. ASSUME NEW q \in AdminProcs \ {p} PROVE RequestOK(q)'
  <2>1. RequestOK(q) /\ op'[q] = op[q]
    BY <1>1 DEF AdmInv
  <2> QED
    BY <2>1 DEF RequestOK, WorkOK, LockHeld, LearnedHolds, Restoring, sessionRows
<1>4. MemoryOK' /\ GatewayClosed'
  BY <1>1 DEF AdmInv, MemoryOK, GatewayClosed
<1> QED
  BY <1>2, <1>3, <1>4, RowsKept DEF AdmInv

\* A proof is used up and the upload starts, or the request is refused.
LEMMA UploadStep ==
    ASSUME AdmInv, NEW p \in AdminProcs,
           ImportRefused(p) \/ \E f \in Families : ImportStart(p, f)
    PROVE  AdmInv'
<1>1. CASE ImportRefused(p)
  <2>1. Resting \in Work
    BY DEF Work, Resting
  <2>2. op' = [op EXCEPT ![p] = Resting] /\ UNCHANGED <<auth, sessionRows, access, proofs, blocked, authLock>>
    BY <1>1 DEF ImportRefused
  <2> QED
    BY <2>1, <2>2, UploadMoves
<1>2. ASSUME NEW f \in Families, ImportStart(p, f) PROVE AdmInv'
  <2> DEFINE w == [kind |-> "import", step |-> "upload", family |-> f, gen |-> 0]
  <2>1. /\ op' = [op EXCEPT ![p] = w] /\ proofs' \subseteq proofs
        /\ UNCHANGED <<auth, sessionRows, access, blocked, authLock>>
    BY <1>2 DEF ImportStart, Become
  <2>2. w \in Work /\ w.kind = "import" /\ w.step = "upload" /\ w.family \in Families
    BY DEF Work
  <2> HIDE DEF w
  <2> QED
    BY <2>1, <2>2, UploadMoves
<1> QED
  BY <1>1, <1>2

\* The upload is complete: the session is checked again under the lock and
\* the gateway closed.
LEMMA ImportLockStep ==
    ASSUME AdmInv, NEW p \in AdminProcs, ImportLock(p)
    PROVE  AdmInv'
<1> DEFINE s == IF blocked THEN "restore_blocked" ELSE "restore"
           w == [op[p] EXCEPT !.step = s]
<1>1. /\ op[p].kind = "import" /\ op[p].step = "upload" /\ authLock = "free"
      /\ family[op[p].family].state = "active" /\ authLock' = p /\ blocked' = TRUE
      /\ UNCHANGED <<auth, sessionRows, access, proofs>>
  BY DEF ImportLock, At, Active
<1>2. op' = [op EXCEPT ![p] = w]
  BY DEF ImportLock
<1>3. op[p] \in Work /\ op[p].family \in Families
  BY <1>1 DEF AdmInv, MemoryOK, RequestOK, WorkOK
<1>4. w \in Work /\ w.kind = "import" /\ w.step = s /\ w.family = op[p].family
  BY <1>1, <1>3 DEF Work
<1>5. s \in {"restore", "restore_blocked"} /\ (s = "restore" => ~auth.must)
  BY DEF AdmInv, GatewayClosed
<1> HIDE DEF w, s
<1>6. op' \in [AdminProcs -> Work] /\ op'[p] = w /\ \A q \in AdminProcs \ {p} : RequestOK(q)'
  BY <1>1, <1>2, <1>4, OthersKept
<1>7. RequestOK(p)'
  <2>1. WorkOK(p)' /\ LockHeld(p)'
    BY <1>1, <1>3, <1>4, <1>5, <1>6 DEF WorkOK, LockHeld
  <2>2. LearnedHolds(p)'
    BY <1>1, <1>3, <1>4, <1>5, <1>6 DEF LearnedHolds, Restoring, sessionRows
  <2> QED
    BY <2>1, <2>2 DEF RequestOK
<1>8. MemoryOK' /\ GatewayClosed'
  BY <1>1, <1>6 DEF AdmInv, MemoryOK, GatewayClosed
<1> QED
  BY <1>1, <1>6, <1>7, <1>8, RowsKept DEF AdmInv

\* The restored database has its own password and no sessions.
LEMMA ImportCommitStep ==
    ASSUME AdmInv, NEW p \in AdminProcs, NEW must \in BOOLEAN, ImportCommit(p, must)
    PROVE  AdmInv'
<1> DEFINE w == [op[p] EXCEPT !.step = "committed"]
           r == [family |-> [f \in Families |-> NoFamily], created |-> <<>>,
                 unconsumed |-> {}, consumed |-> {}]
<1>1. /\ op[p].kind = "import" /\ op[p].step \in {"restore", "restore_blocked"} /\ Restoring(p)
      /\ auth.epoch < MaxEpoch /\ auth' = [epoch |-> auth.epoch + 1, must |-> must, weak |-> must]
      /\ SetRows(r) /\ UNCHANGED <<access, proofs, blocked, authLock>>
  BY DEF ImportCommit, Restoring
<1>2. op' = [op EXCEPT ![p] = w]
  BY DEF ImportCommit, Move
<1>3. /\ authLock = p /\ op[p] \in Work /\ op[p].family \in Families /\ blocked
  BY <1>1, Holder DEF AdmInv, MemoryOK, RequestOK, WorkOK, LearnedHolds
<1>4. w \in Work /\ w.kind = "import" /\ w.step = "committed" /\ w.family = op[p].family
  BY <1>1, <1>3 DEF Work
<1> HIDE DEF w
<1>5. op' \in [AdminProcs -> Work] /\ op'[p] = w /\ \A q \in AdminProcs \ {p} : RequestOK(q)'
  <2> HIDE DEF r
  <2> QED
    BY <1>1, <1>2, <1>3, <1>4, OthersKept
<1>6. RequestOK(p)'
  BY <1>1, <1>3, <1>4, <1>5 DEF RequestOK, WorkOK, LockHeld, LearnedHolds, Restoring
<1>7. MemoryOK' /\ GatewayClosed'
  BY <1>1, <1>3, <1>5, AccessAssumption DEF AdmInv, MemoryOK, GatewayClosed
<1>8. NoFamily \in FamilyRow /\ NoFamily.state = "none"
  BY AccessAssumption DEF NoFamily, FamilyRow
<1>9. r \in Tables /\ Listed(r) /\ ListedOnce(r) /\ TokensOwned(r) /\ TokensOrdered(r)
  BY <1>8 DEF Tables, Listed, ListedOnce, TokensOwned, TokensOrdered
<1>10. \A f \in Families : r.family[f].state # "active"
  BY <1>8
<1>11. Len(r.created) = 0
  OBVIOUS
<1> HIDE DEF r
<1>12. RowsOK(Rows)'
  BY <1>1, <1>9, TablesSet DEF RowsOK
<1>13. FamilyCapHeld' /\ SessionsFollowPassword'
  BY <1>1, <1>10, <1>11, AccessAssumption DEF SetRows, FamilyCapHeld, SessionsFollowPassword, Active
<1> QED
  BY <1>5, <1>6, <1>7, <1>12, <1>13 DEF AdmInv

\* A restore that failed puts the flag back; one that did not follows its
\* record, or keeps the gateway closed.
LEMMA ImportEndStep ==
    ASSUME AdmInv, NEW p \in AdminProcs, ImportFails(p) \/ ImportReconcile(p)
    PROVE  AdmInv'
<1>1. /\ op[p].kind = "import" /\ op[p].step # "upload"
      /\ authLock' = "free" /\ op' = [op EXCEPT ![p] = Resting]
      /\ access' \subseteq access /\ proofs' \subseteq proofs
      /\ UNCHANGED <<auth, sessionRows>>
  BY DEF ImportFails, ImportReconcile, At, Restoring, Unlock
<1>2. authLock = p
  BY <1>1, Holder
<1>3. op' \in [AdminProcs -> Work] /\ op'[p] = Resting /\ \A q \in AdminProcs \ {p} : RequestOK(q)'
  <2>1. Resting \in Work
    BY DEF Work, Resting
  <2> QED
    BY <1>1, <1>2, <2>1, OthersKept
<1>4. auth.must \in BOOLEAN
  BY DEF AdmInv, MemoryOK
<1>5. blocked' \in BOOLEAN /\ (auth.must => blocked')
  <2>1. CASE ImportReconcile(p)
    BY <1>4, <2>1 DEF ImportReconcile
  <2>2. CASE ImportFails(p)
    BY <1>1, <2>2 DEF ImportFails, Restoring, AdmInv, RequestOK, LearnedHolds
  <2> QED
    BY <2>1, <2>2
<1>6. MemoryOK' /\ GatewayClosed'
  BY <1>1, <1>3, <1>5 DEF AdmInv, MemoryOK, GatewayClosed
<1> QED
  BY <1>1, <1>3, <1>6, RowsKept, AtRest DEF AdmInv

\* A family past its limits; whoever is restoring for it may finish.
LEMMA ExpireStep ==
    ASSUME AdmInv, NEW f \in Families, Expire(f)
    PROVE  AdmInv'
<1> DEFINE row == [family[f] EXCEPT !.state = "expired"]
<1>1. /\ family[f].state = "active"
      /\ UNCHANGED <<auth, created, unconsumed, consumed, access, proofs, blocked, authLock, op>>
  BY DEF Expire, Active
<1>2. family' = [family EXCEPT ![f] = row]
  BY DEF Expire
<1>3. /\ family \in [Families -> FamilyRow] /\ created \in Seq(Families)
      /\ unconsumed \subseteq Tokens /\ consumed \subseteq Tokens
  BY DEF AdmInv, RowsOK, Tables, Rows
<1>4. row \in FamilyRow /\ row.state = "expired"
  BY <1>3 DEF FamilyRow
<1> HIDE DEF row
<1>5. /\ family' \in [Families -> FamilyRow] /\ family'[f] = row
      /\ \A g \in Families \ {f} : family'[g] = family[g]
  BY <1>2, <1>3, <1>4
<1>6. \A g \in Families : family'[g].state # "none" <=> family[g].state # "none"
  BY <1>1, <1>4, <1>5
<1>7. Rows' \in Tables
  BY <1>1, <1>3, <1>5 DEF Rows, Tables
<1>8. Listed(Rows)' /\ ListedOnce(Rows)' /\ TokensOrdered(Rows)'
  BY <1>1, <1>6 DEF AdmInv, RowsOK, Rows, Listed, ListedOnce, TokensOrdered
<1>9. TokensOwned(Rows)'
  <2>1. \A t \in unconsumed \cup consumed : t[1] \in Families
    BY <1>3 DEF Tokens
  <2> QED
    BY <1>1, <1>6, <2>1 DEF AdmInv, RowsOK, Rows, TokensOwned
<1>10. RowsOK(Rows)'
  BY <1>7, <1>8, <1>9 DEF RowsOK, Tables, FamilyRow, Tokens
<1>11. MemoryOK' /\ GatewayClosed' /\ FamilyCapHeld'
  BY <1>1 DEF AdmInv, MemoryOK, GatewayClosed, FamilyCapHeld
<1>12. SessionsFollowPassword'
  BY <1>1, <1>4, <1>5 DEF AdmInv, SessionsFollowPassword, Active
<1>13. ASSUME NEW p \in AdminProcs PROVE RequestOK(p)'
  <2>1. WorkOK(p)' /\ LockHeld(p)'
    BY <1>1 DEF AdmInv, RequestOK, WorkOK, LockHeld
  <2>2. Restoring(p) => op[p].family \in Families
    BY DEF AdmInv, RequestOK, WorkOK, Restoring
  <2>3. LearnedHolds(p)'
    BY <1>1, <1>4, <1>5, <2>2 DEF AdmInv, RequestOK, LearnedHolds, Restoring
  <2> QED
    BY <2>1, <2>3 DEF RequestOK
<1> QED
  BY <1>10, <1>11, <1>12, <1>13 DEF AdmInv

\* A restart lets go of everything in memory.
LEMMA RestartStep ==
    ASSUME AdmInv, AdmRestart
    PROVE  AdmInv'
<1>1. /\ access' = {} /\ proofs' = {} /\ blocked' = auth.must /\ authLock' = "free"
      /\ op' = [p \in AdminProcs |-> Resting] /\ UNCHANGED <<auth, sessionRows>>
  BY DEF AdmRestart
<1>2. Resting \in Work
  BY DEF Work, Resting
<1>3. \A p \in AdminProcs : op'[p] = Resting
  BY <1>1
<1>4. \A p \in AdminProcs : RequestOK(p)'
  BY <1>3, AtRest
<1>5. MemoryOK' /\ GatewayClosed'
  BY <1>1, <1>2 DEF AdmInv, MemoryOK, GatewayClosed
<1> QED
  BY <1>1, <1>4, <1>5, RowsKept DEF AdmInv

-----------------------------------------------------------------------------
(* The theorems.                                                           *)

\* A new database has no session, and the flag of its record.
LEMMA AdmInvInit == AdmInit => AdmInv
<1> SUFFICES ASSUME AdmInit PROVE AdmInv
  OBVIOUS
<1>1. NoFamily \in FamilyRow /\ NoFamily.state = "none" /\ Resting \in Work
  BY AccessAssumption DEF NoFamily, FamilyRow, Resting, Work
<1>2. RowsOK(Rows)
  BY <1>1 DEF AdmInit, Rows, RowsOK, Tables, Listed, ListedOnce, TokensOwned, TokensOrdered
<1>3. MemoryOK /\ GatewayClosed
  <2>1. 0 \in 0..MaxEpoch
    BY AccessAssumption
  <2>2. auth \in [epoch : 0..MaxEpoch, must : BOOLEAN, weak : BOOLEAN]
    <3>1. \E m, k \in BOOLEAN : auth = [epoch |-> 0, must |-> m, weak |-> k]
      BY Zenon DEF AdmInit
    <3> QED
      BY <2>1, <3>1
  <2>3. blocked \in BOOLEAN /\ blocked = auth.must
    BY <2>2 DEF AdmInit
  <2> QED
    BY <1>1, <2>2, <2>3 DEF AdmInit, MemoryOK, GatewayClosed
<1>4. FamilyCapHeld /\ SessionsFollowPassword
  BY <1>1, AccessAssumption DEF AdmInit, FamilyCapHeld, SessionsFollowPassword, Active
<1>5. ASSUME NEW p \in AdminProcs PROVE RequestOK(p)
  BY DEF AdmInit, RequestOK, WorkOK, LockHeld, LearnedHolds, Restoring, Resting
<1> QED
  BY <1>2, <1>3, <1>4, <1>5 DEF AdmInv

\* Every handler keeps the invariant, in whatever order their steps come.
LEMMA AdmInvNext == AdmInv /\ [AdmNext]_admVars => AdmInv'
<1> SUFFICES ASSUME AdmInv, [AdmNext]_admVars PROVE AdmInv'
  OBVIOUS
<1>0. access \subseteq Families /\ proofs \subseteq Families
  BY DEF AdmInv, MemoryOK
<1>1. CASE UNCHANGED admVars
  BY <1>0, <1>1, MemoryOnly DEF admVars, sessionRows
<1>2. ASSUME NEW p \in AdminProcs, AdmStep(p) PROVE AdmInv'
  <2>1. CASE \E f \in Families : IssueCommit(p, f)
    BY <2>1, IssueStep
  <2>2. CASE CacheAccess(p)
    BY <2>2, CacheStep
  <2>3. CASE ChangeForget(p)
    BY <2>3, ChangeForgetStep
  <2>4. CASE RefreshCommit(p)
    BY <2>4, RefreshStep
  <2>5. CASE Forget(p)
    BY <2>5, ForgetStep
  <2>6. CASE \E must \in BOOLEAN : ImportCommit(p, must)
    BY <2>6, ImportCommitStep
  <2>7. CASE ImportFails(p) \/ ImportReconcile(p)
    BY <2>7, ImportEndStep
  <2> QED
    BY <1>2, <2>1, <2>2, <2>3, <2>4, <2>5, <2>6, <2>7 DEF AdmStep
<1>3. ASSUME NEW p \in AdminProcs,
             \/ LoginRead(p) \/ ChangeCommit(p) \/ ImportLock(p) \/ ImportRefused(p)
             \/ \E t \in Tokens : RefreshLock(p, t)
             \/ \E f \in Families : LogoutCommit(p, f) \/ ImportStart(p, f)
      PROVE  AdmInv'
  BY <1>3, LoginStep, ChangeStep, ImportLockStep, UploadStep, RefreshLockStep, LogoutStep
<1>4. ASSUME NEW f \in Families, Reauthenticate(f) PROVE AdmInv'
  BY <1>0, <1>4, MemoryOnly DEF Reauthenticate
<1>5. ASSUME NEW f \in Families, AdminRequest(f) PROVE AdmInv'
  BY <1>0, <1>5, MemoryOnly DEF AdminRequest, ForgetFamilies
<1>6. ASSUME NEW f \in Families, DropAccess(f) PROVE AdmInv'
  BY <1>0, <1>6, MemoryOnly DEF DropAccess
<1>7. ASSUME NEW f \in Families, Expire(f) PROVE AdmInv'
  BY <1>7, ExpireStep
<1>8. CASE AdmRestart
  BY <1>8, RestartStep
<1> QED
  BY <1>1, <1>2, <1>3, <1>4, <1>5, <1>6, <1>7, <1>8 DEF AdmNext

\* AdmInv is inductive.
LEMMA AdmInvariant == AdmSpec => []AdmInv
BY AdmInvInit, AdmInvNext, PTL DEF AdmSpec

\* Whatever logins, refreshes, logouts, changes of the password, restores and
\* restarts overlap: the active sessions are those of the present password,
\* the table of families stays within its cap, a family has one live token,
\* a restore acts for a session in good standing, and the gateway is closed
\* while the stored password must be changed.
THEOREM SessionsAreSound == AdmSpec => []SessionsSound
BY AdmInvariant, AdmInvSound, PTL

\* rotate_refresh_token, presented with a token that was used before, leaves
\* no active session behind.
THEOREM ReuseEndsTheFamily == AdmSpec => ReuseEndsFamily
<1> DEFINE Ends(p) == RefreshCommit(p) /\ <<op[p].family, op[p].gen>> \in consumed
                         => family'[op[p].family].state # "active"
<1>1. ASSUME AdmInv, NEW p \in AdminProcs, RefreshCommit(p),
             <<op[p].family, op[p].gen>> \in consumed
      PROVE  family'[op[p].family].state # "active"
  <2>1. op[p].family \in Families /\ op[p].gen \in Nat
    BY <1>1 DEF RefreshCommit, At, AdmInv, RequestOK, WorkOK, MemoryOK, Work
  <2>2. PICK f \in Families, g \in Nat : f = op[p].family /\ g = op[p].gen
    BY <2>1
  <2> DEFINE r == Cleaned(Rows)
             good == <<f, g>> \in r.unconsumed /\ r.family[f].state = "active" /\ g < MaxGeneration
  <2>3. /\ RowsOK(Rows) /\ Rows.consumed = consumed /\ Rows.unconsumed = unconsumed
        /\ <<f, g>> \in Rows.consumed /\ <<f, g>> \in Tokens
    BY <1>1, <2>2 DEF AdmInv, Rows, RowsOK, Tables
  <2>4. /\ RowsOK(r) /\ r.unconsumed \subseteq unconsumed
        /\ r.family[f].state # "none" => <<f, g>> \in r.consumed
    <3> HIDE DEF r
    <3> QED
      BY <2>3, CleanedRows DEF r
  <2>5. <<f, g>> \notin unconsumed
    <3>1. \A t \in consumed, u \in unconsumed : t[1] = u[1] => t[2] < u[2]
      BY <2>3 DEF RowsOK, TokensOrdered
    <3>2. <<f, g>> \in unconsumed => g < g
      BY <2>3, <3>1
    <3> QED
      BY <3>2
  <2>6. SetRows(IF Known(r, <<f, g>>) THEN Revoked(r, f) ELSE r)
    <3>1. ~good
      BY <2>4, <2>5
    <3> QED
      BY <1>1, <2>2, <3>1 DEF RefreshCommit
  <2>7. CASE Known(r, <<f, g>>)
    <3>1. PICK w : w = Revoked(r, f)
      OBVIOUS
    <3>2. w.family[f].state # "active"
      <4> HIDE DEF r
      <4> QED
        BY <2>4, <3>1, RevokedRows
    <3> QED
      BY <2>2, <2>6, <2>7, <3>1, <3>2 DEF SetRows
  <2>8. CASE ~Known(r, <<f, g>>)
    <3>1. r.family[f].state = "none"
      BY <2>4, <2>8 DEF Known
    <3> QED
      BY <2>2, <2>6, <2>8, <3>1 DEF SetRows
  <2> QED
    BY <2>7, <2>8
<1>2. AdmInv /\ [AdmNext]_admVars => [\A p \in AdminProcs : Ends(p)]_admVars
  BY <1>1
<1> QED
  BY <1>2, AdmInvariant, PTL DEF ReuseEndsFamily, AdmSpec

---------------------------------------------------------------------------
(***************************************************************************)
(* Sign-in attempts of provider accounts.                                  *)
(*                                                                         *)
(* That a listener is up while the browser is waited for rests on the lock *)
(* of its map, which a start handler owns from the listener to the         *)
(* registration and the supervisor while it stops a server (StartsLocked,  *)
(* StartsListened).  That a code is exchanged once rests on the status: a  *)
(* pending attempt has sent none (SentOnce).                               *)
(***************************************************************************)

(* Sign-in attempts of provider accounts. *)

Statuses == {"none", "pending", "processing", "connected", "failed", "received", "applying", "applied"}
FlowRecs == [status : Statuses, kind : Kinds, age : {"fresh", "expired", "stale"},
             polled : BOOLEAN, overdue : BOOLEAN, secret : BOOLEAN]
JobStates == {"none", "asked", "granted", "stored", "refused", "claimed", "testing", "saved", "erred"}
ListenerRecs == [started : BOOLEAN, task : {"none", "serving", "grace", "stopping", "failed"},
                 broke : BOOLEAN]

SignTyped ==
    /\ flow \in [Flows -> FlowRecs]
    /\ listener \in [Maps -> ListenerRecs]
    /\ callbackLock \in [Maps -> Flows \cup {"free", "supervisor"}]
    /\ job \in [Flows -> [Slots -> JobStates]]
    /\ starting \in [Flows -> Kinds \cup {"no", "done"}]
    /\ sent \in [Flows -> Nat]
    /\ told \subseteq Flows /\ connected \subseteq Flows
    /\ keyRows \subseteq Flows /\ removed \subseteq Flows

\* A start handler owns the lock of its map from the listener to the
\* registration, the supervisor owns it while it stops the servers.
StartsLocked ==
    /\ \A f \in Flows : starting[f] \in Kinds => callbackLock[MapOf(starting[f])] = f
    /\ \A m \in Maps : listener[m].task = "stopping" => callbackLock[m] = "supervisor"

\* The flag and the task agree.
ListenerState ==
    \A m \in Maps :
        /\ listener[m].started <=> listener[m].task # "none"
        /\ listener[m].task = "failed" => listener[m].broke

Up(l) == l.broke \/ l.task \in {"serving", "grace"}

\* The listener a start handler ensured is still up when it registers.
StartsListened ==
    \A f \in Flows : starting[f] \in {"redirect", "key"} => Up(listener[MapOf(starting[f])])

BrowserAwaited ==
    \A f \in Flows :
        (flow[f].status = "pending" /\ flow[f].age = "fresh" /\ NeedsListener(flow[f].kind))
            => Up(listener[MapOf(flow[f].kind)])

\* An attempt that is not registered yet has no flow.
Unstarted == \A f \in Flows : starting[f] # "done" => flow[f].status = "none" /\ sent[f] = 0

SentOnce == \A f \in Flows : sent[f] <= 1 /\ (flow[f].status = "pending" => sent[f] = 0)

AccountsStored ==
    \A f \in Flows :
        flow[f].status = "connected" \/ f \in told \/ (\E s \in Slots : job[f][s] = "stored")
            => f \in connected

KeysStored ==
    /\ keyTotal = Cardinality(keyRows)
    /\ \A f \in Flows :
          flow[f].status = "applied" \/ (\E s \in Slots : job[f][s] = "saved")
              => f \in keyRows \cup removed

SignInv ==
    /\ SignTyped /\ StartsLocked /\ ListenerState /\ StartsListened /\ BrowserAwaited
    /\ Unstarted /\ SentOnce /\ AccountsStored /\ KeysStored

\* One step of VerdictStands.
VerdictKept ==
    \A f \in Flows : flow[f].status \in {"connected", "failed"} /\ flow[f].kind # "key"
        => flow'[f].status \in {flow[f].status, "none"}

\* What every step but a registration may do to an attempt.
Moved(f, old, new) ==
    /\ new \in FlowRecs
    /\ new.status = "pending" =>
          /\ old.status = "pending" /\ new.kind = old.kind
          /\ new.age = "fresh" => old.age = "fresh"
    /\ new.status = "connected" => old.status = "connected" \/ f \in connected
    /\ new.status = "applied" => old.status = "applied" \/ f \in keyRows \cup removed
    /\ old.status \in {"connected", "failed"} /\ old.kind # "key"
          => new.status \in {old.status, "none"}
    /\ old.status = "none" => new.status = "none"

\* The empty and the new attempt.
LEMMA FlowForms ==
  /\ NoFlow \in FlowRecs /\ NoFlow.status = "none"
  /\ \A kind \in Kinds : /\ NewFlow(kind) \in FlowRecs /\ NewFlow(kind).kind = kind
                         /\ NewFlow(kind).status = "pending"
<1>1. NoFlow \in FlowRecs /\ NoFlow.status = "none"
  BY DEF NoFlow, FlowRecs, Statuses, Kinds
<1>2. ASSUME NEW kind \in Kinds
      PROVE  /\ NewFlow(kind) \in FlowRecs /\ NewFlow(kind).kind = kind
             /\ NewFlow(kind).status = "pending"
  BY <1>1 DEF NewFlow, FlowRecs, Statuses
<1> QED BY <1>1, <1>2

\* The maps.
LEMMA MapsOf == \A kind : MapOf(kind) \in Maps /\ (MapOf(kind) = "key" <=> kind = "key")
  BY DEF MapOf, Maps

\* An attempt that is kept or let go has moved.
LEMMA MovedKept ==
  ASSUME NEW f \in Flows, NEW r \in FlowRecs
  PROVE  Moved(f, r, r) /\ Moved(f, r, NoFlow)
  BY FlowForms DEF Moved

\* An overdue apply is opened again.
LEMMA RecoveredForm ==
  ASSUME NEW r \in FlowRecs
  PROVE  /\ Recovered(r) \in FlowRecs /\ Recovered(r).kind = r.kind /\ Recovered(r).age = r.age
         /\ \/ Recovered(r).status = r.status
            \/ r.status = "applying" /\ Recovered(r).status = "received"
<1>1. CASE r.status = "applying" /\ r.overdue
  <2>1. [r EXCEPT !.status = "received", !.overdue = FALSE] \in FlowRecs
    BY DEF FlowRecs, Statuses
  <2> QED BY <1>1, <2>1 DEF Recovered, FlowRecs
<1>2. CASE ~(r.status = "applying" /\ r.overdue)
  BY <1>2 DEF Recovered
<1> QED BY <1>1, <1>2

\* An attempt that recovers has moved.
LEMMA MovedRecovered ==
  ASSUME NEW f \in Flows, NEW r \in FlowRecs, r.kind = "key"
  PROVE  Moved(f, r, Recovered(r))
  BY RecoveredForm DEF Moved

\* A step that moves attempts and jobs.
LEMMA FlowStep ==
  ASSUME SignInv, flow' \in [Flows -> FlowRecs], \A f \in Flows : Moved(f, flow[f], flow'[f]),
         job' \in [Flows -> [Slots -> JobStates]],
         \A f \in Flows, s \in Slots : job'[f][s] = "stored" => f \in connected,
         \A f \in Flows, s \in Slots : job'[f][s] = "saved" => f \in keyRows \cup removed,
         told' \subseteq told \cup connected,
         sent' \in [Flows -> Nat],
         \A f \in Flows : \/ sent'[f] = sent[f]
                          \/ /\ flow[f].status = "pending" /\ flow'[f].status # "pending"
                             /\ sent'[f] = sent[f] + 1,
         UNCHANGED <<listener, callbackLock, starting, accountVars>>
  PROVE  SignInv' /\ VerdictKept
<1>1. /\ listener' = listener /\ callbackLock' = callbackLock /\ starting' = starting
      /\ connected' = connected /\ keyRows' = keyRows /\ keyTotal' = keyTotal /\ removed' = removed
  BY DEF accountVars
<1>2. SignTyped'
  BY <1>1 DEF SignInv, SignTyped
<1>3. StartsLocked' /\ ListenerState' /\ StartsListened'
  BY <1>1 DEF SignInv, StartsLocked, ListenerState, StartsListened, Up
<1>4. BrowserAwaited'
  BY <1>1 DEF SignInv, BrowserAwaited, Up, Moved
<1>5. Unstarted'
  <2> SUFFICES ASSUME NEW f \in Flows, starting[f] # "done"
               PROVE  flow'[f].status = "none" /\ sent'[f] = 0
    BY <1>1 DEF Unstarted
  <2>1. flow[f].status = "none" /\ sent[f] = 0
    BY DEF SignInv, Unstarted
  <2> QED BY <2>1 DEF Moved
<1>6. SentOnce'
  <2> SUFFICES ASSUME NEW f \in Flows
               PROVE  sent'[f] <= 1 /\ (flow'[f].status = "pending" => sent'[f] = 0)
    BY DEF SentOnce
  <2>1. sent[f] \in Nat /\ sent[f] <= 1 /\ (flow[f].status = "pending" => sent[f] = 0)
    BY DEF SignInv, SignTyped, SentOnce
  <2>2. Moved(f, flow[f], flow'[f])
    OBVIOUS
  <2> QED BY <2>1, <2>2 DEF Moved
<1>7. AccountsStored'
  BY <1>1 DEF SignInv, AccountsStored, Moved
<1>8. KeysStored'
  BY <1>1 DEF SignInv, KeysStored, Moved
<1>9. VerdictKept
  BY DEF VerdictKept, Moved
<1> QED BY <1>2, <1>3, <1>4, <1>5, <1>6, <1>7, <1>8, <1>9 DEF SignInv

\* A step that leaves the attempts alone.
LEMMA JobStep ==
  ASSUME SignInv, job' \in [Flows -> [Slots -> JobStates]], UNCHANGED <<flow, starting, sent>>,
         told' = told, connected \subseteq connected', connected' \subseteq Flows,
         \A f \in Flows, s \in Slots : job'[f][s] = "stored" => f \in connected',
         \A f \in Flows, s \in Slots : job'[f][s] = "saved" => f \in keyRows' \cup removed',
         keyRows' \subseteq Flows, removed' \subseteq Flows, keyTotal' = Cardinality(keyRows'),
         keyRows \cup removed \subseteq keyRows' \cup removed',
         UNCHANGED <<listener, callbackLock>>
  PROVE  SignInv' /\ VerdictKept
<1>2. SignTyped'
  BY DEF SignInv, SignTyped
<1>3. StartsLocked' /\ ListenerState' /\ StartsListened'
  BY DEF SignInv, StartsLocked, ListenerState, StartsListened, Up
<1>4. BrowserAwaited' /\ Unstarted' /\ SentOnce'
  BY DEF SignInv, BrowserAwaited, Up, Unstarted, SentOnce
<1>7. AccountsStored' /\ KeysStored'
  BY DEF SignInv, AccountsStored, KeysStored
<1>9. VerdictKept
  BY DEF VerdictKept
<1> QED BY <1>2, <1>3, <1>4, <1>7, <1>9 DEF SignInv

\* The facts about the jobs that the invariant holds.
LEMMA JobFacts ==
  ASSUME SignInv
  PROVE  /\ job \in [Flows -> [Slots -> JobStates]]
         /\ \A f \in Flows, s \in Slots : job[f][s] = "stored" => f \in connected
         /\ \A f \in Flows, s \in Slots : job[f][s] = "saved" => f \in keyRows \cup removed
  BY DEF SignInv, SignTyped, AccountsStored, KeysStored

\* A job is set.
LEMMA JobSet ==
  ASSUME SignInv, NEW f \in Flows, NEW s \in Slots, NEW v \in JobStates, SetJob(f, s, v)
  PROVE  /\ job' \in [Flows -> [Slots -> JobStates]]
         /\ \A g \in Flows, t \in Slots : job'[g][t] = job[g][t] \/ (g = f /\ job'[g][t] = v)
  BY JobFacts DEF SetJob

---------------------------------------------------------------------------
(* The listeners. *)

\* A pending redirect keeps the supervisor from stopping.
LEMMA AwaitedIsActive ==
  ASSUME SignInv, NEW f \in Flows, flow[f].status = "pending", flow[f].age = "fresh",
         NeedsListener(flow[f].kind)
  PROVE  ActiveFlows(MapOf(flow[f].kind))
<1>1. CASE flow[f].kind = "key"
  BY <1>1 DEF ActiveFlows, ActiveKey, Registered, MapOf
<1>2. CASE flow[f].kind = "redirect"
  BY <1>2 DEF ActiveFlows, ActiveOAuth, Registered, MapOf
<1> QED BY <1>1, <1>2 DEF NeedsListener

\* A step of a supervisor.
LEMMA ListenerStep ==
  ASSUME SignInv, NEW m \in Maps, NEW x \in ListenerRecs, listener' = [listener EXCEPT ![m] = x],
         OnlyListener,
         callbackLock' \in [Maps -> Flows \cup {"free", "supervisor"}],
         \A n \in Maps \ {m} : callbackLock'[n] = callbackLock[n],
         callbackLock'[m] = callbackLock[m] \/ callbackLock[m] \in {"free", "supervisor"},
         x.task = "stopping" => callbackLock'[m] = "supervisor",
         x.started <=> x.task # "none",
         listener[m].broke => x.broke,
         x.task = "failed" => x.broke,
         \/ x.broke \/ x.task \in {"serving", "grace"} \/ ~Up(listener[m])
         \/ ~ActiveFlows(m) /\ callbackLock[m] = "free"
  PROVE  SignInv' /\ VerdictKept
<1>1. /\ flow' = flow /\ job' = job /\ starting' = starting /\ sent' = sent /\ told' = told
      /\ connected' = connected /\ keyRows' = keyRows /\ keyTotal' = keyTotal /\ removed' = removed
  BY DEF OnlyListener, accountVars
<1>2. /\ listener' \in [Maps -> ListenerRecs] /\ listener'[m] = x
      /\ \A n \in Maps \ {m} : listener'[n] = listener[n]
  BY DEF SignInv, SignTyped
<1>3. SignTyped'
  BY <1>1, <1>2 DEF SignInv, SignTyped
<1>4. ASSUME NEW f \in Flows, starting[f] \in Kinds
      PROVE  callbackLock[MapOf(starting[f])] = f /\ f \notin {"free", "supervisor"}
  BY <1>4, SignInAssumption DEF SignInv, StartsLocked
<1>5. StartsLocked'
  BY <1>1, <1>2, <1>4, MapsOf DEF SignInv, StartsLocked
<1>6. ListenerState'
  BY <1>2 DEF SignInv, ListenerState
<1>7. ASSUME NEW n \in Maps, Up(listener[n]), n # m \/ ActiveFlows(m) \/ callbackLock[m] # "free"
      PROVE  Up(listener'[n])
  BY <1>2, <1>7 DEF Up
<1>8. StartsListened'
  <2> SUFFICES ASSUME NEW f \in Flows, starting[f] \in {"redirect", "key"}
               PROVE  Up(listener'[MapOf(starting[f])])
    BY <1>1 DEF StartsListened
  <2>1. starting[f] \in Kinds /\ MapOf(starting[f]) \in Maps /\ Up(listener[MapOf(starting[f])])
    BY MapsOf DEF Kinds, SignInv, StartsListened
  <2> QED BY <2>1, <1>4, <1>7
<1>9. BrowserAwaited'
  <2> SUFFICES ASSUME NEW f \in Flows, flow[f].status = "pending", flow[f].age = "fresh",
                      NeedsListener(flow[f].kind)
               PROVE  Up(listener'[MapOf(flow[f].kind)])
    BY <1>1 DEF BrowserAwaited
  <2>1. MapOf(flow[f].kind) \in Maps /\ Up(listener[MapOf(flow[f].kind)])
    BY MapsOf DEF SignInv, BrowserAwaited
  <2>2. ActiveFlows(MapOf(flow[f].kind))
    BY AwaitedIsActive
  <2> QED BY <2>1, <2>2, <1>7
<1>10. Unstarted' /\ SentOnce' /\ AccountsStored' /\ KeysStored' /\ VerdictKept
  BY <1>1 DEF SignInv, Unstarted, SentOnce, AccountsStored, KeysStored, VerdictKept
<1> QED BY <1>3, <1>5, <1>6, <1>8, <1>9, <1>10 DEF SignInv

\* The fields of a listener that a supervisor writes.
LEMMA ListenerWrites ==
  ASSUME SignInv, NEW m \in Maps, NEW t \in {"none", "serving", "grace", "stopping", "failed"}
  PROVE  /\ listener[m] \in ListenerRecs /\ listener \in [Maps -> ListenerRecs]
         /\ listener[m].started <=> listener[m].task # "none"
         /\ [listener[m] EXCEPT !.task = t] \in ListenerRecs
         /\ [listener[m] EXCEPT !.task = t].task = t
         /\ [listener[m] EXCEPT !.task = t].started = listener[m].started
         /\ [listener[m] EXCEPT !.task = t].broke = listener[m].broke
         /\ [listener EXCEPT ![m].task = t] = [listener EXCEPT ![m] = [listener[m] EXCEPT !.task = t]]
<1>1. listener[m] \in ListenerRecs /\ listener \in [Maps -> ListenerRecs]
  BY DEF SignInv, SignTyped
<1>2. listener[m].started <=> listener[m].task # "none"
  BY DEF SignInv, ListenerState
<1>3. [listener[m] EXCEPT !.task = t] \in ListenerRecs
  BY <1>1 DEF ListenerRecs
<1>4. /\ [listener[m] EXCEPT !.task = t].task = t
      /\ [listener[m] EXCEPT !.task = t].started = listener[m].started
      /\ [listener[m] EXCEPT !.task = t].broke = listener[m].broke
  BY <1>1 DEF ListenerRecs
<1> QED BY <1>1, <1>2, <1>3, <1>4

\* Every step of a supervisor.
LEMMA SignListener ==
  ASSUME SignInv, NEW m \in Maps, Supervise(m) \/ SuperviseFault(m)
  PROVE  SignInv' /\ VerdictKept
<1> DEFINE With(t) == [listener[m] EXCEPT !.task = t]
<1>1. /\ callbackLock \in [Maps -> Flows \cup {"free", "supervisor"}]
      /\ listener[m].task = "stopping" => callbackLock[m] = "supervisor"
      /\ listener[m].task = "failed" => listener[m].broke
  BY DEF SignInv, SignTyped, StartsLocked, ListenerState
<1>2. ASSUME SetTask(m, "serving") \/ SetTask(m, "grace"), callbackLock' = callbackLock,
             listener[m].task \in {"serving", "grace"}, OnlyListener
      PROVE  SignInv' /\ VerdictKept
  <2>1. PICK t \in {"serving", "grace"} : SetTask(m, t)
    BY <1>2
  <2>2. /\ With(t) \in ListenerRecs /\ With(t).task = t /\ With(t).started = listener[m].started
        /\ With(t).broke = listener[m].broke /\ listener' = [listener EXCEPT ![m] = With(t)]
        /\ listener[m].started <=> listener[m].task # "none"
    BY <2>1, ListenerWrites DEF SetTask
  <2> HIDE DEF With
  <2> QED BY <1>1, <1>2, <2>2, ListenerStep
<1>3. CASE SuperviseWatch(m)
  BY <1>2, <1>3 DEF SuperviseWatch
<1>4. CASE SuperviseLock(m)
  <2>1. CASE ActiveFlows(m)
    BY <1>2, <1>4, <2>1 DEF SuperviseLock
  <2>2. CASE ~ActiveFlows(m)
    <3>1. /\ callbackLock[m] = "free" /\ callbackLock' = [callbackLock EXCEPT ![m] = "supervisor"]
          /\ SetTask(m, "stopping") /\ OnlyListener /\ listener[m].task = "grace"
      BY <1>4, <2>2 DEF SuperviseLock
    <3>2. /\ With("stopping") \in ListenerRecs /\ With("stopping").task = "stopping"
          /\ With("stopping").started = listener[m].started
          /\ With("stopping").broke = listener[m].broke
          /\ listener' = [listener EXCEPT ![m] = With("stopping")]
          /\ listener[m].started <=> listener[m].task # "none"
      BY <3>1, ListenerWrites DEF SetTask
    <3>3. /\ callbackLock' \in [Maps -> Flows \cup {"free", "supervisor"}]
          /\ callbackLock'[m] = "supervisor"
          /\ \A n \in Maps \ {m} : callbackLock'[n] = callbackLock[n]
      BY <3>1, <1>1
    <3> HIDE DEF With
    <3> QED BY <2>2, <3>1, <3>2, <3>3, ListenerStep
  <2> QED BY <2>1, <2>2
<1>5. CASE SuperviseStop(m) \/ SuperviseCleared(m)
  <2> DEFINE x == [listener[m] EXCEPT !.started = FALSE, !.task = "none"]
  <2>1. listener[m] \in ListenerRecs /\ listener \in [Maps -> ListenerRecs]
    BY DEF SignInv, SignTyped
  <2>2. x \in ListenerRecs
    BY <2>1 DEF ListenerRecs
  <2>3. x.task = "none" /\ x.started = FALSE /\ x.broke = listener[m].broke
    BY <2>1 DEF ListenerRecs
  <2>4. listener' = [listener EXCEPT ![m] = x] /\ OnlyListener
    BY <1>5, <2>1 DEF SuperviseStop, SuperviseCleared, ListenerClosed
  <2>5. /\ callbackLock' \in [Maps -> Flows \cup {"free", "supervisor"}]
        /\ \A n \in Maps \ {m} : callbackLock'[n] = callbackLock[n]
        /\ callbackLock'[m] = callbackLock[m] \/ callbackLock[m] \in {"free", "supervisor"}
    BY <1>1, <1>5 DEF SuperviseStop, SuperviseCleared
  <2>6. x.broke \/ ~Up(listener[m])
    BY <1>1, <1>5, <2>3 DEF SuperviseStop, SuperviseCleared, Up
  <2> HIDE DEF x
  <2> QED BY <2>2, <2>3, <2>4, <2>5, <2>6, ListenerStep
<1>6. CASE SuperviseFault(m)
  <2> DEFINE x == [listener[m] EXCEPT !.task = "failed", !.broke = TRUE]
  <2>1. listener[m] \in ListenerRecs /\ listener \in [Maps -> ListenerRecs]
    BY DEF SignInv, SignTyped
  <2>2. x \in ListenerRecs
    BY <2>1 DEF ListenerRecs
  <2>3. x.task = "failed" /\ x.broke /\ x.started = listener[m].started
    BY <2>1 DEF ListenerRecs
  <2>4. listener' = [listener EXCEPT ![m] = x] /\ OnlyListener /\ callbackLock' = callbackLock
    BY <1>6, <2>1 DEF SuperviseFault
  <2>5. listener[m].started
    BY <1>6 DEF SuperviseFault, SignInv, ListenerState
  <2> HIDE DEF x
  <2> QED BY <1>1, <2>2, <2>3, <2>4, <2>5, ListenerStep
<1> QED BY <1>3, <1>4, <1>5, <1>6 DEF Supervise

---------------------------------------------------------------------------
(* Starting an attempt. *)

\* The lock is taken and the listener ensured.
LEMMA SignStart ==
  ASSUME SignInv, NEW f \in Flows, NEW kind \in Kinds, StartLocked(f, kind)
  PROVE  SignInv' /\ VerdictKept
<1> DEFINE m == MapOf(kind)
<1>1. /\ flow' = flow /\ job' = job /\ sent' = sent /\ told' = told
      /\ connected' = connected /\ keyRows' = keyRows /\ keyTotal' = keyTotal /\ removed' = removed
      /\ starting[f] = "no" /\ callbackLock[m] = "free"
      /\ callbackLock' = [callbackLock EXCEPT ![m] = f] /\ starting' = [starting EXCEPT ![f] = kind]
  BY DEF StartLocked, accountVars
<1>2. /\ m \in Maps /\ f \notin {"free", "supervisor"}
      /\ listener \in [Maps -> ListenerRecs]
      /\ callbackLock \in [Maps -> Flows \cup {"free", "supervisor"}]
      /\ starting \in [Flows -> Kinds \cup {"no", "done"}]
  BY MapsOf, SignInAssumption DEF SignInv, SignTyped
<1>3. /\ callbackLock' \in [Maps -> Flows \cup {"free", "supervisor"}] /\ callbackLock'[m] = f
      /\ \A n \in Maps \ {m} : callbackLock'[n] = callbackLock[n]
      /\ starting' \in [Flows -> Kinds \cup {"no", "done"}] /\ starting'[f] = kind
      /\ \A g \in Flows \ {f} : starting'[g] = starting[g]
  BY <1>1, <1>2
<1>4. /\ listener[m].task # "stopping" /\ listener[m].started <=> listener[m].task # "none"
      /\ listener[m].task = "failed" => listener[m].broke
  BY <1>1, <1>2 DEF SignInv, StartsLocked, ListenerState
<1>5. /\ Ensured(m) \in ListenerRecs
      /\ Ensured(m).started <=> Ensured(m).task # "none"
      /\ Ensured(m).task \notin {"stopping", "none"}
      /\ Ensured(m).task = "failed" => Ensured(m).broke
      /\ Ensured(m).broke = listener[m].broke
      /\ listener[m].task \in {"serving", "grace"} => Ensured(m).task \in {"serving", "grace"}
  <2>1. listener[m] \in ListenerRecs
    BY <1>2
  <2>2. CASE listener[m].started
    BY <1>4, <2>1, <2>2 DEF Ensured
  <2>3. CASE ~listener[m].started
    <3>1. [listener[m] EXCEPT !.started = TRUE, !.task = "serving"] \in ListenerRecs
      BY <2>1 DEF ListenerRecs
    <3> QED BY <1>4, <2>1, <2>3, <3>1 DEF Ensured, ListenerRecs
  <2> QED BY <2>2, <2>3
<1>6. /\ listener' \in [Maps -> ListenerRecs]
      /\ \A n \in Maps \ {m} : listener'[n] = listener[n]
      /\ listener'[m] = listener[m] \/ listener'[m] = Ensured(m)
      /\ NeedsListener(kind) => listener'[m] = Ensured(m)
  BY <1>2, <1>5 DEF StartLocked
<1>7. SignTyped'
  BY <1>1, <1>3, <1>6 DEF SignInv, SignTyped
<1>8. StartsLocked'
  <2>1. ASSUME NEW g \in Flows, starting'[g] \in Kinds
        PROVE  callbackLock'[MapOf(starting'[g])] = g
    <3>1. CASE g = f
      BY <3>1, <1>3
    <3>2. CASE g # f
      <4>1. callbackLock[MapOf(starting[g])] = g /\ MapOf(starting[g]) \in Maps /\ g # "free"
        BY <2>1, <3>2, <1>3, MapsOf, SignInAssumption DEF SignInv, StartsLocked
      <4> QED BY <4>1, <3>2, <1>1, <1>3
    <3> QED BY <3>1, <3>2
  <2>2. ASSUME NEW n \in Maps, listener'[n].task = "stopping"
        PROVE  callbackLock'[n] = "supervisor"
    BY <2>2, <1>3, <1>4, <1>5, <1>6 DEF SignInv, StartsLocked
  <2> QED BY <2>1, <2>2 DEF StartsLocked
<1>9. ListenerState'
  BY <1>5, <1>6 DEF SignInv, ListenerState
<1>10. \A n \in Maps : Up(listener[n]) => Up(listener'[n])
  BY <1>5, <1>6 DEF Up
<1>11. StartsListened'
  <2> SUFFICES ASSUME NEW g \in Flows, starting'[g] \in {"redirect", "key"}
               PROVE  Up(listener'[MapOf(starting'[g])])
    BY DEF StartsListened
  <2>1. CASE g = f
    <3>1. starting'[g] = kind /\ NeedsListener(kind) /\ listener'[m] = Ensured(m)
      BY <2>1, <1>3, <1>6 DEF NeedsListener
    <3>2. listener'[m].broke \/ listener'[m].task \in {"serving", "grace"}
      <4>1. Ensured(m).task \in {"none", "serving", "grace", "stopping", "failed"}
        BY <1>5 DEF ListenerRecs
      <4> QED BY <3>1, <4>1, <1>5
    <3> QED BY <3>1, <3>2, <1>2 DEF Up
  <2>2. CASE g # f
    BY <2>2, <1>3, <1>10, MapsOf DEF SignInv, StartsListened
  <2> QED BY <2>1, <2>2
<1>12. BrowserAwaited'
  BY <1>1, <1>10, MapsOf DEF SignInv, BrowserAwaited
<1>13. Unstarted'
  BY <1>1, <1>3 DEF SignInv, Unstarted
<1>14. SentOnce' /\ AccountsStored' /\ KeysStored' /\ VerdictKept
  BY <1>1 DEF SignInv, SentOnce, AccountsStored, KeysStored, VerdictKept
<1> QED BY <1>7, <1>8, <1>9, <1>11, <1>12, <1>13, <1>14 DEF SignInv

\* What a registration does to the maps.
LEMMA Registration ==
  ASSUME SignInv, NEW f \in Flows, NEW kind \in Kinds,
         IF kind = "key" THEN RegisterKey(f) ELSE RegisterOAuth(f, kind)
  PROVE  /\ flow' \in [Flows -> FlowRecs]
         /\ \A g \in Flows \ {f} : Moved(g, flow[g], flow'[g])
         /\ Moved(f, flow[f], flow'[f]) \/ flow'[f] = NewFlow(kind)
<1>1. flow \in [Flows -> FlowRecs]
  BY DEF SignInv, SignTyped
<1>2. ASSUME NEW kept, DOMAIN kept = Flows, kept = [g \in Flows |-> kept[g]],
             \A g \in Flows : Moved(g, flow[g], kept[g]),
             flow' = kept \/ flow' = [kept EXCEPT ![f] = NewFlow(kind)]
      PROVE  /\ flow' \in [Flows -> FlowRecs]
             /\ \A g \in Flows \ {f} : Moved(g, flow[g], flow'[g])
             /\ Moved(f, flow[f], flow'[f]) \/ flow'[f] = NewFlow(kind)
  <2>1. kept \in [Flows -> FlowRecs]
    BY <1>2 DEF Moved
  <2>2. CASE flow' = kept
    BY <1>2, <2>1, <2>2
  <2>3. CASE flow' = [kept EXCEPT ![f] = NewFlow(kind)]
    <3>1. /\ flow' \in [Flows -> FlowRecs] /\ flow'[f] = NewFlow(kind)
          /\ \A g \in Flows \ {f} : flow'[g] = kept[g]
      BY <2>1, <2>3, FlowForms
    <3> QED BY <3>1, <1>2
  <2> QED BY <1>2, <2>2, <2>3
<1>3. CASE kind # "key"
  <2> DEFINE kept == Retained(flow, "oauth", KeptOnRegister)
  <2>1. kept = [g \in Flows |-> kept[g]] /\ DOMAIN kept = Flows
    BY DEF Retained
  <2>2. \A g \in Flows : kept[g] = flow[g] \/ kept[g] = NoFlow
    BY DEF Retained
  <2>3. flow' = kept \/ flow' = [kept EXCEPT ![f] = NewFlow(kind)]
    BY <1>3 DEF RegisterOAuth
  <2> HIDE DEF kept
  <2>4. \A g \in Flows : Moved(g, flow[g], kept[g])
    BY <1>1, <2>2, MovedKept
  <2> QED BY <1>2, <2>1, <2>3, <2>4
<1>4. CASE kind = "key"
  <2> DEFINE fixed == [g \in Flows |-> IF MapOf(flow[g].kind) = "key"
                                       THEN Recovered(flow[g]) ELSE flow[g]]
             kept == Retained(fixed, "key", KeptKeyFlow)
  <2>1. kept = [g \in Flows |-> kept[g]] /\ DOMAIN kept = Flows
    BY DEF Retained
  <2>2. \A g \in Flows : kept[g] = fixed[g] \/ kept[g] = NoFlow
    BY DEF Retained
  <2>3. flow' = kept \/ flow' = [kept EXCEPT ![f] = NewFlow(kind)]
    BY <1>4 DEF RegisterKey
  <2>4. \A g \in Flows : \/ fixed[g] = flow[g]
                         \/ flow[g].kind = "key" /\ fixed[g] = Recovered(flow[g])
    BY MapsOf
  <2> HIDE DEF kept, fixed
  <2>5. ASSUME NEW g \in Flows
        PROVE  Moved(g, flow[g], kept[g])
    <3>1. flow[g] \in FlowRecs
      BY <1>1
    <3> QED BY <3>1, <2>2, <2>4, MovedKept, MovedRecovered
  <2> QED BY <1>2, <2>1, <2>3, <2>5
<1> QED BY <1>3, <1>4

\* An attempt is registered.
LEMMA SignRegister ==
  ASSUME SignInv, NEW f \in Flows, StartRegister(f) \/ StartDevice(f)
  PROVE  SignInv' /\ VerdictKept
<1> DEFINE kind == IF StartDevice(f) THEN "device" ELSE starting[f]
<1>1. /\ kind \in Kinds /\ (IF kind = "key" THEN RegisterKey(f) ELSE RegisterOAuth(f, kind))
      /\ kind = "device" \/ starting[f] = kind
      /\ starting[f] # "done" /\ starting' = [starting EXCEPT ![f] = "done"]
      /\ listener' = listener /\ job' = job /\ sent' = sent /\ told' = told
      /\ connected' = connected /\ keyRows' = keyRows /\ keyTotal' = keyTotal /\ removed' = removed
  BY DEF StartRegister, StartDevice, accountVars, Kinds
<1>2. \/ callbackLock' = callbackLock /\ starting[f] = "no"
      \/ /\ callbackLock' = [callbackLock EXCEPT ![MapOf(starting[f])] = "free"]
         /\ starting[f] \in Kinds
  BY DEF StartRegister, StartDevice
<1> HIDE DEF kind
<1>3. /\ flow' \in [Flows -> FlowRecs]
      /\ \A g \in Flows \ {f} : Moved(g, flow[g], flow'[g])
      /\ Moved(f, flow[f], flow'[f]) \/ flow'[f] = NewFlow(kind)
  BY <1>1, Registration
<1>4. /\ starting' \in [Flows -> Kinds \cup {"no", "done"}] /\ starting'[f] = "done"
      /\ \A g \in Flows \ {f} : starting'[g] = starting[g]
  BY <1>1 DEF SignInv, SignTyped
<1>5. flow[f].status = "none" /\ sent[f] = 0
  BY <1>1 DEF SignInv, Unstarted
<1>6. callbackLock \in [Maps -> Flows \cup {"free", "supervisor"}] /\ f \notin {"free", "supervisor"}
  BY SignInAssumption DEF SignInv, SignTyped
<1>7. callbackLock' \in [Maps -> Flows \cup {"free", "supervisor"}]
  BY <1>2, <1>6
<1>8. SignTyped'
  BY <1>1, <1>3, <1>4, <1>7 DEF SignInv, SignTyped
<1>9. \A n \in Maps : callbackLock'[n] = callbackLock[n] \/ callbackLock[n] = f
  <2>1. CASE starting[f] \in Kinds
    <3>1. callbackLock[MapOf(starting[f])] = f
      BY <2>1 DEF SignInv, StartsLocked
    <3> QED BY <1>2, <1>6, <3>1
  <2>2. CASE starting[f] \notin Kinds
    BY <1>2, <2>2
  <2> QED BY <2>1, <2>2
<1>10. StartsLocked'
  <2>1. ASSUME NEW g \in Flows, starting'[g] \in Kinds
        PROVE  callbackLock'[MapOf(starting'[g])] = g
    <3>1. g # f
      BY <2>1, <1>4 DEF Kinds
    <3>2. callbackLock[MapOf(starting[g])] = g /\ MapOf(starting[g]) \in Maps
      BY <2>1, <3>1, <1>4, MapsOf DEF SignInv, StartsLocked
    <3> QED BY <3>1, <3>2, <1>4, <1>9
  <2>2. ASSUME NEW n \in Maps, listener'[n].task = "stopping"
        PROVE  callbackLock'[n] = "supervisor"
    BY <2>2, <1>1, <1>6, <1>9 DEF SignInv, StartsLocked
  <2> QED BY <2>1, <2>2 DEF StartsLocked
<1>11. ListenerState'
  BY <1>1 DEF SignInv, ListenerState
<1>12. StartsListened'
  BY <1>1, <1>4 DEF SignInv, StartsListened, Up
<1>13. BrowserAwaited'
  <2> SUFFICES ASSUME NEW g \in Flows, flow'[g].status = "pending", flow'[g].age = "fresh",
                      NeedsListener(flow'[g].kind)
               PROVE  Up(listener[MapOf(flow'[g].kind)])
    BY <1>1 DEF BrowserAwaited, Up
  <2>1. CASE Moved(g, flow[g], flow'[g])
    BY <2>1 DEF Moved, SignInv, BrowserAwaited
  <2>2. CASE ~Moved(g, flow[g], flow'[g])
    <3>1. g = f /\ flow'[g].kind = kind
      BY <2>2, <1>1, <1>3, FlowForms
    <3>2. starting[f] \in {"redirect", "key"} /\ starting[f] = kind
      BY <3>1, <1>1 DEF NeedsListener
    <3> QED BY <3>1, <3>2 DEF SignInv, StartsListened
  <2> QED BY <2>1, <2>2
<1>14. Unstarted'
  <2> SUFFICES ASSUME NEW g \in Flows, starting'[g] # "done"
               PROVE  flow'[g].status = "none" /\ sent[g] = 0
    BY <1>1 DEF Unstarted
  <2>1. g # f /\ starting[g] # "done"
    BY <1>4
  <2> QED BY <2>1, <1>3 DEF SignInv, Unstarted, Moved
<1>15. SentOnce'
  <2> SUFFICES ASSUME NEW g \in Flows
               PROVE  sent[g] <= 1 /\ (flow'[g].status = "pending" => sent[g] = 0)
    BY <1>1 DEF SentOnce
  <2>1. CASE g = f
    BY <2>1, <1>5
  <2>2. CASE g # f
    BY <2>2, <1>3 DEF SignInv, SentOnce, Moved
  <2> QED BY <2>1, <2>2
<1>16. \A g \in Flows : /\ flow'[g].status = "connected" => flow[g].status = "connected" \/ g \in connected
                        /\ flow'[g].status = "applied" => flow[g].status = "applied" \/ g \in keyRows \cup removed
  <2> TAKE g \in Flows
  <2>1. CASE Moved(g, flow[g], flow'[g])
    BY <2>1 DEF Moved
  <2>2. CASE ~Moved(g, flow[g], flow'[g])
    BY <2>2, <1>1, <1>3, FlowForms
  <2> QED BY <2>1, <2>2
<1>17. AccountsStored' /\ KeysStored'
  BY <1>1, <1>16 DEF SignInv, AccountsStored, KeysStored
<1>18. VerdictKept
  BY <1>3, <1>5 DEF VerdictKept, Moved
<1> QED BY <1>8, <1>10, <1>11, <1>12, <1>13, <1>14, <1>15, <1>17, <1>18 DEF SignInv

---------------------------------------------------------------------------
(* Callbacks, exchanges and polls. *)

\* One attempt changes, the others stay.
LEMMA OneMoved ==
  ASSUME SignInv, NEW f \in Flows, NEW x, flow' = [flow EXCEPT ![f] = x], Moved(f, flow[f], x)
  PROVE  /\ flow' \in [Flows -> FlowRecs] /\ flow'[f] = x
         /\ \A g \in Flows : Moved(g, flow[g], flow'[g])
<1>1. flow \in [Flows -> FlowRecs] /\ x \in FlowRecs
  BY DEF SignInv, SignTyped, Moved
<1>2. /\ flow' \in [Flows -> FlowRecs] /\ flow'[f] = x
      /\ \A g \in Flows \ {f} : flow'[g] = flow[g] /\ flow[g] \in FlowRecs
  BY <1>1
<1> QED BY <1>2, MovedKept

\* A step that changes one attempt and at most one job of it.
LEMMA OneStep ==
  ASSUME SignInv, NEW f \in Flows, NEW x, flow' = [flow EXCEPT ![f] = x], Moved(f, flow[f], x),
         \/ job' = job
         \/ \E s \in Slots, v \in JobStates \ {"stored", "saved"} : SetJob(f, s, v),
         told' \subseteq told \cup connected, sent' = sent,
         UNCHANGED <<listener, callbackLock, starting, accountVars>>
  PROVE  SignInv' /\ VerdictKept
<1>1. flow' \in [Flows -> FlowRecs] /\ \A g \in Flows : Moved(g, flow[g], flow'[g])
  BY OneMoved
<1>2. /\ job' \in [Flows -> [Slots -> JobStates]]
      /\ \A g \in Flows, t \in Slots :
            job'[g][t] = job[g][t] \/ job'[g][t] \notin {"stored", "saved"}
  <2>1. CASE job' = job
    BY <2>1, JobFacts
  <2>2. ASSUME NEW s \in Slots, NEW v \in JobStates \ {"stored", "saved"}, SetJob(f, s, v)
        PROVE  /\ job' \in [Flows -> [Slots -> JobStates]]
               /\ \A g \in Flows, t \in Slots :
                     job'[g][t] = job[g][t] \/ job'[g][t] \notin {"stored", "saved"}
    BY <2>2, JobSet
  <2> QED BY <2>1, <2>2
<1>3. sent' \in [Flows -> Nat]
  BY DEF SignInv, SignTyped
<1> QED BY <1>1, <1>2, <1>3, JobFacts, FlowStep

\* A code is claimed.
LEMMA ClaimStep ==
  ASSUME SignInv, NEW f \in Flows, NEW s \in Slots,
         Claimed(Retained(flow, "oauth", IsFresh), f, s),
         UNCHANGED <<listener, callbackLock, starting, told, accountVars>>
  PROVE  SignInv' /\ VerdictKept
<1> DEFINE kept == Retained(flow, "oauth", IsFresh)
<1>1. /\ kept = [g \in Flows |-> kept[g]]
      /\ \A g \in Flows : kept[g] = flow[g] \/ kept[g] = NoFlow
  BY DEF Retained
<1>2. flow \in [Flows -> FlowRecs] /\ sent \in [Flows -> Nat]
  BY DEF SignInv, SignTyped
<1>3. \/ flow' = kept /\ job' = job /\ sent' = sent
      \/ /\ kept[f].status = "pending" /\ flow' = [kept EXCEPT ![f].status = "processing"]
         /\ SetJob(f, s, "asked") /\ sent' = [sent EXCEPT ![f] = @ + 1]
  BY DEF Claimed
<1> HIDE DEF kept
<1>4. kept \in [Flows -> FlowRecs] /\ \A g \in Flows : Moved(g, flow[g], kept[g])
  BY <1>1, <1>2, MovedKept, FlowForms
<1>5. CASE flow' = kept /\ job' = job /\ sent' = sent
  BY <1>2, <1>4, <1>5, JobFacts, FlowStep
<1>6. CASE /\ kept[f].status = "pending" /\ flow' = [kept EXCEPT ![f].status = "processing"]
           /\ SetJob(f, s, "asked") /\ sent' = [sent EXCEPT ![f] = @ + 1]
  <2> DEFINE x == [kept[f] EXCEPT !.status = "processing"]
  <2>1. kept[f] = flow[f] /\ kept[f] \in FlowRecs
    BY <1>1, <1>4, <1>6, FlowForms
  <2>2. x \in FlowRecs /\ x.status = "processing"
    BY <2>1 DEF FlowRecs, Statuses
  <2>3. /\ flow' \in [Flows -> FlowRecs] /\ flow'[f] = x
        /\ \A g \in Flows \ {f} : flow'[g] = kept[g]
    BY <1>4, <1>6, <2>2
  <2>4. Moved(f, flow[f], x)
    BY <1>6, <2>1, <2>2 DEF Moved
  <2> HIDE DEF x
  <2>5. \A g \in Flows : Moved(g, flow[g], flow'[g])
    BY <1>4, <2>3, <2>4
  <2>6. /\ job' \in [Flows -> [Slots -> JobStates]]
        /\ \A g \in Flows, t \in Slots : job'[g][t] = job[g][t] \/ job'[g][t] = "asked"
    BY <1>6, JobSet DEF JobStates
  <2>7. /\ sent' \in [Flows -> Nat] /\ sent'[f] = sent[f] + 1
        /\ \A g \in Flows \ {f} : sent'[g] = sent[g]
    BY <1>2, <1>6
  <2>8. flow[f].status = "pending" /\ flow'[f].status # "pending"
    BY <1>6, <2>1, <2>2, <2>3
  <2> QED BY <2>3, <2>5, <2>6, <2>7, <2>8, JobFacts, FlowStep
<1> QED BY <1>3, <1>5, <1>6

\* Callbacks with and without state.
LEMMA SignCallback ==
  ASSUME SignInv, NEW s \in Slots, CallbackWithoutState(s) \/ \E f \in Flows : Callback(f, s)
  PROVE  SignInv' /\ VerdictKept
<1>1. ASSUME NEW f \in Flows, Callback(f, s)
      PROVE  SignInv' /\ VerdictKept
  BY <1>1, ClaimStep DEF Callback
<1>2. CASE CallbackWithoutState(s)
  <2> DEFINE kept == Retained(flow, "oauth", IsFresh)
  <2>1. UNCHANGED <<listener, callbackLock, starting, told, accountVars>>
    BY <1>2 DEF CallbackWithoutState
  <2>2. \/ \E f \in Flows : Claimed(kept, f, s)
        \/ flow' = kept /\ job' = job /\ sent' = sent
    BY <1>2 DEF CallbackWithoutState
  <2>3. CASE \E f \in Flows : Claimed(kept, f, s)
    BY <2>1, <2>3, ClaimStep
  <2>4. CASE flow' = kept /\ job' = job /\ sent' = sent
    <3>1. /\ kept = [g \in Flows |-> kept[g]]
          /\ \A g \in Flows : kept[g] = flow[g] \/ kept[g] = NoFlow
      BY DEF Retained
    <3>2. flow \in [Flows -> FlowRecs] /\ sent \in [Flows -> Nat]
      BY DEF SignInv, SignTyped
    <3> HIDE DEF kept
    <3>3. kept \in [Flows -> FlowRecs] /\ \A g \in Flows : Moved(g, flow[g], kept[g])
      BY <3>1, <3>2, MovedKept, FlowForms
    <3>4. told' = told
      BY <2>1
    <3> QED BY <2>1, <2>4, <3>2, <3>3, <3>4, JobFacts, FlowStep
  <2> QED BY <2>2, <2>3, <2>4
<1> QED BY <1>1, <1>2

\* The status an open attempt takes.
LEMMA MovedVerdict ==
  ASSUME NEW f \in Flows, NEW r \in FlowRecs, NEW status \in {"connected", "failed"},
         status = "connected" => f \in connected
  PROVE  Moved(f, r, Verdict(r, status))
<1>1. CASE r.status \in {"pending", "processing"}
  <2>1. [r EXCEPT !.status = status, !.age = "fresh"] \in FlowRecs
    BY DEF FlowRecs, Statuses
  <2>2. [r EXCEPT !.status = status, !.age = "fresh"].status = status
    BY DEF FlowRecs
  <2> QED BY <1>1, <2>1, <2>2 DEF Moved, Verdict
<1>2. CASE r.status \notin {"pending", "processing"}
  BY <1>2, MovedKept DEF Verdict
<1> QED BY <1>1, <1>2

\* Polls, exchanges and their results.
LEMMA SignExchange ==
  ASSUME SignInv, NEW f \in Flows, NEW s \in Slots,
         \/ DevicePoll(f, s) \/ Granted(f, s) \/ NotYet(f, s)
         \/ SaveAccount(f, s) \/ PublishSaved(f, s) \/ FailFlow(f, s)
  PROVE  SignInv' /\ VerdictKept
<1>1. /\ flow \in [Flows -> FlowRecs] /\ flow[f] \in FlowRecs /\ connected \subseteq Flows
      /\ keyRows \subseteq Flows /\ removed \subseteq Flows /\ keyTotal = Cardinality(keyRows)
  BY DEF SignInv, SignTyped, KeysStored
<1>2. CASE DevicePoll(f, s)
  <2> DEFINE x == [flow[f] EXCEPT !.polled = TRUE]
  <2>1. x \in FlowRecs
    BY <1>1 DEF FlowRecs
  <2>2. x.status = flow[f].status /\ x.kind = flow[f].kind /\ x.age = flow[f].age
    BY <1>1 DEF FlowRecs
  <2>3. flow' = [flow EXCEPT ![f] = x] /\ SetJob(f, s, "asked")
    BY <1>1, <1>2 DEF DevicePoll
  <2>4. UNCHANGED <<listener, callbackLock, starting, accountVars>> /\ told' = told /\ sent' = sent
    BY <1>2 DEF DevicePoll
  <2> HIDE DEF x
  <2>5. Moved(f, flow[f], x)
    BY <2>1, <2>2 DEF Moved
  <2> QED BY <2>3, <2>4, <2>5, OneStep DEF JobStates
<1>3. CASE Granted(f, s) \/ NotYet(f, s)
  <2>1. PICK v \in {"granted", "none"} : SetJob(f, s, v)
    BY <1>3 DEF Granted, NotYet
  <2>2. /\ job' \in [Flows -> [Slots -> JobStates]]
        /\ \A g \in Flows, t \in Slots : job'[g][t] = job[g][t] \/ job'[g][t] = v
    BY <2>1, JobSet DEF JobStates
  <2>3. /\ UNCHANGED <<flow, starting, sent>> /\ UNCHANGED <<listener, callbackLock>>
        /\ told' = told /\ connected' = connected /\ keyRows' = keyRows
        /\ removed' = removed /\ keyTotal' = keyTotal
    BY <1>3 DEF Granted, NotYet, accountVars
  <2> QED BY <1>1, <2>2, <2>3, JobFacts, JobStep
<1>4. CASE SaveAccount(f, s)
  <2>1. PICK v \in {"stored", "refused"} :
          /\ SetJob(f, s, v)
          /\ connected' = IF v = "stored" THEN connected \cup {f} ELSE connected
    BY <1>4 DEF SaveAccount
  <2>2. /\ job' \in [Flows -> [Slots -> JobStates]]
        /\ \A g \in Flows, t \in Slots :
              job'[g][t] = job[g][t] \/ (g = f /\ job'[g][t] = v)
    BY <2>1, JobSet DEF JobStates
  <2>3. /\ UNCHANGED <<flow, starting, sent>> /\ UNCHANGED <<listener, callbackLock>>
        /\ told' = told /\ keyRows' = keyRows
        /\ removed' = removed /\ keyTotal' = keyTotal
    BY <1>4 DEF SaveAccount
  <2>4. /\ connected \subseteq connected' /\ connected' \subseteq Flows
        /\ v = "stored" => f \in connected'
    BY <1>1, <2>1
  <2> QED BY <1>1, <2>2, <2>3, <2>4, JobFacts, JobStep
<1>5. CASE PublishSaved(f, s) \/ FailFlow(f, s)
  <2>1. PICK status \in {"connected", "failed"} :
          /\ flow' = [flow EXCEPT ![f] = Verdict(flow[f], status)]
          /\ status = "connected" => job[f][s] = "stored"
    BY <1>1, <1>5 DEF PublishSaved, FailFlow
  <2>2. Moved(f, flow[f], Verdict(flow[f], status))
    BY <1>1, <2>1, JobFacts, MovedVerdict
  <2>3. /\ UNCHANGED <<listener, callbackLock, starting, accountVars>> /\ told' = told /\ sent' = sent
        /\ SetJob(f, s, "none")
    BY <1>5 DEF PublishSaved, FailFlow
  <2> QED BY <2>1, <2>2, <2>3, OneStep DEF JobStates
<1> QED BY <1>2, <1>3, <1>4, <1>5

\* The dashboard asks for the status of an ended attempt.
LEMMA SignOAuthStatus ==
  ASSUME SignInv, NEW f \in Flows, OAuthStatus(f)
  PROVE  SignInv' /\ VerdictKept
<1>1. flow[f] \in FlowRecs /\ (flow[f].status = "connected" => f \in connected)
  BY DEF SignInv, SignTyped, AccountsStored
<1>2. told' \subseteq told \cup connected
  BY <1>1 DEF OAuthStatus
<1> QED BY <1>1, <1>2, MovedKept, OneStep DEF OAuthStatus

---------------------------------------------------------------------------
(* API-key attempts. *)

\* An attempt past its time.
LEMMA MovedExpired ==
  ASSUME NEW f \in Flows, NEW r \in FlowRecs, r.kind = "key", r.status # "none"
  PROVE  Moved(f, r, Expired(Recovered(r)))
<1> DEFINE q == Recovered(r)
<1>1. q \in FlowRecs
  BY RecoveredForm
<1> HIDE DEF q
<1>2. Expired(q) \in FlowRecs
  BY <1>1 DEF Expired, FlowRecs, Statuses
<1>3. Expired(q).status = "failed"
  BY <1>1 DEF Expired, FlowRecs
<1> QED BY <1>2, <1>3 DEF Moved, q

\* The callback, the status and the claim of a key attempt.
LEMMA SignKey ==
  ASSUME SignInv, NEW f \in Flows,
         KeyCallback(f) \/ KeyStatus(f) \/ \E s \in Slots : ApplyClaim(f, s)
  PROVE  SignInv' /\ VerdictKept
<1>1. flow \in [Flows -> FlowRecs] /\ flow[f] \in FlowRecs /\ sent \in [Flows -> Nat]
  BY DEF SignInv, SignTyped
<1>2. CASE KeyCallback(f)
  <2> DEFINE kept == Retained(flow, "key", KeptKeyFlow)
  <2>1. /\ kept = [g \in Flows |-> kept[g]]
        /\ \A g \in Flows : kept[g] = flow[g] \/ kept[g] = NoFlow
    BY DEF Retained
  <2>2. flow' = IF kept[f].status = "pending"
                THEN [kept EXCEPT ![f].status = "received", ![f].secret = TRUE] ELSE kept
    BY <1>2 DEF KeyCallback
  <2>3. UNCHANGED <<listener, callbackLock, starting, accountVars>> /\ told' = told
        /\ sent' = sent /\ job' = job /\ flow[f].kind = "key"
    BY <1>2 DEF KeyCallback
  <2> HIDE DEF kept
  <2>4. kept \in [Flows -> FlowRecs] /\ \A g \in Flows : Moved(g, flow[g], kept[g])
    BY <1>1, <2>1, MovedKept, FlowForms
  <2>5. flow' \in [Flows -> FlowRecs] /\ \A g \in Flows : Moved(g, flow[g], flow'[g])
    <3>1. CASE kept[f].status # "pending"
      BY <2>2, <2>4, <3>1
    <3>2. CASE kept[f].status = "pending"
      <4> DEFINE x == [kept[f] EXCEPT !.status = "received", !.secret = TRUE]
      <4>1. kept[f] = flow[f]
        BY <2>1, <3>2, FlowForms
      <4>2. x \in FlowRecs
        BY <2>4 DEF FlowRecs, Statuses
      <4>3. x.status = "received"
        BY <2>4 DEF FlowRecs
      <4>4. flow' = [kept EXCEPT ![f] = x]
        BY <2>2, <2>4, <3>2
      <4> HIDE DEF x
      <4>5. Moved(f, flow[f], x)
        BY <2>3, <4>2, <4>3, <4>1, <3>2 DEF Moved
      <4>6. /\ flow' \in [Flows -> FlowRecs] /\ flow'[f] = x
            /\ \A g \in Flows \ {f} : flow'[g] = kept[g]
        BY <2>4, <4>2, <4>4
      <4> QED BY <2>4, <4>5, <4>6
    <3> QED BY <3>1, <3>2
  <2> QED BY <1>1, <2>3, <2>5, JobFacts, FlowStep
<1>3. ASSUME flow[f].kind = "key", flow[f].status # "none",
             \/ flow' = [flow EXCEPT ![f] = Recovered(flow[f])]
             \/ flow' = [flow EXCEPT ![f] = Expired(Recovered(flow[f]))],
             UNCHANGED <<listener, callbackLock, job, starting, sent, told, accountVars>>
      PROVE  SignInv' /\ VerdictKept
  <2>1. Moved(f, flow[f], Recovered(flow[f])) /\ Moved(f, flow[f], Expired(Recovered(flow[f])))
    BY <1>1, <1>3, MovedRecovered, MovedExpired
  <2>2. told' \subseteq told \cup connected /\ job' = job /\ sent' = sent
        /\ UNCHANGED <<listener, callbackLock, starting, accountVars>>
    BY <1>3
  <2> QED BY <1>3, <2>1, <2>2, OneStep
<1>4. CASE KeyStatus(f)
  BY <1>3, <1>4 DEF KeyStatus
<1>5. ASSUME NEW s \in Slots, ApplyClaim(f, s)
      PROVE  SignInv' /\ VerdictKept
  <2> DEFINE r == Recovered(flow[f])
             x == [r EXCEPT !.status = "applying", !.overdue = FALSE]
  <2>1. CASE UNCHANGED job /\ flow' \in {[flow EXCEPT ![f] = r], [flow EXCEPT ![f] = Expired(r)]}
    <3>1. /\ flow[f].kind = "key" /\ flow[f].status # "none"
          /\ UNCHANGED <<listener, callbackLock, job, starting, sent, told, accountVars>>
      BY <1>5, <2>1 DEF ApplyClaim
    <3> QED BY <1>3, <2>1, <3>1
  <2>2. CASE r.status = "received" /\ flow' = [flow EXCEPT ![f] = x] /\ SetJob(f, s, "claimed")
    <3>1. r \in FlowRecs
      BY <1>1, RecoveredForm
    <3>2. x \in FlowRecs
      BY <3>1 DEF FlowRecs, Statuses
    <3>3. x.status = "applying"
      BY <3>1 DEF FlowRecs
    <3>4. flow[f].status # "none" /\ flow[f].kind = "key"
      BY <1>5 DEF ApplyClaim
    <3>5. UNCHANGED <<listener, callbackLock, starting, accountVars>> /\ told' = told /\ sent' = sent
      BY <1>5 DEF ApplyClaim
    <3> HIDE DEF x, r
    <3>6. Moved(f, flow[f], x)
      BY <3>2, <3>3, <3>4 DEF Moved
    <3> QED BY <2>2, <3>5, <3>6, OneStep DEF JobStates
  <2> QED BY <1>5, <2>1, <2>2 DEF ApplyClaim
<1> QED BY <1>2, <1>4, <1>5

\* The apply itself: the row is looked up, stored and announced.
LEMMA SignApply ==
  ASSUME SignInv, NEW f \in Flows, NEW s \in Slots,
         ApplyRead(f, s) \/ ApplyStore(f, s) \/ ApplyDone(f, s)
  PROVE  SignInv' /\ VerdictKept
<1>1. /\ flow \in [Flows -> FlowRecs] /\ flow[f] \in FlowRecs /\ connected \subseteq Flows
      /\ keyRows \subseteq Flows /\ removed \subseteq Flows /\ keyTotal = Cardinality(keyRows)
  BY DEF SignInv, SignTyped, KeysStored
<1>2. CASE ApplyRead(f, s)
  <2>1. PICK v \in {"saved", "testing", "erred"} :
           SetJob(f, s, v) /\ (v = "saved" => f \in keyRows)
    BY <1>2 DEF ApplyRead
  <2>2. /\ job' \in [Flows -> [Slots -> JobStates]]
        /\ \A g \in Flows, t \in Slots :
              job'[g][t] = job[g][t] \/ (g = f /\ job'[g][t] = v)
    BY <2>1, JobSet DEF JobStates
  <2>3. /\ UNCHANGED <<flow, starting, sent>> /\ UNCHANGED <<listener, callbackLock>>
        /\ told' = told /\ connected' = connected /\ keyRows' = keyRows
        /\ removed' = removed /\ keyTotal' = keyTotal
    BY <1>2 DEF ApplyRead, accountVars
  <2> QED BY <1>1, <2>1, <2>2, <2>3, JobFacts, JobStep
<1>3. CASE ApplyStore(f, s)
  <2>1. PICK v \in {"saved", "erred"} :
          /\ SetJob(f, s, v)
          /\ IF v = "saved"
             THEN /\ keyRows' = keyRows \cup {f}
                  /\ keyTotal' = IF f \in keyRows THEN keyTotal ELSE keyTotal + 1
             ELSE keyRows' = keyRows /\ keyTotal' = keyTotal
    BY <1>3 DEF ApplyStore
  <2>2. /\ job' \in [Flows -> [Slots -> JobStates]]
        /\ \A g \in Flows, t \in Slots :
              job'[g][t] = job[g][t] \/ (g = f /\ job'[g][t] = v)
    BY <2>1, JobSet DEF JobStates
  <2>3. /\ UNCHANGED <<flow, starting, sent>> /\ UNCHANGED <<listener, callbackLock>>
        /\ told' = told /\ connected' = connected /\ removed' = removed
    BY <1>3 DEF ApplyStore
  <2>4. keyTotal' = Cardinality(keyRows')
    <3>1. IsFiniteSet(keyRows)
      BY <1>1, SignInAssumption, FS_Subset
    <3>2. /\ f \in keyRows => keyRows \cup {f} = keyRows
          /\ f \notin keyRows => Cardinality(keyRows \cup {f}) = Cardinality(keyRows) + 1
      BY <3>1, FS_AddElement
    <3> QED BY <1>1, <2>1, <3>2
  <2>5. keyRows \subseteq keyRows' /\ keyRows' \subseteq Flows /\ (v = "saved" => f \in keyRows')
    BY <1>1, <2>1
  <2> QED BY <1>1, <2>2, <2>3, <2>4, <2>5, JobFacts, JobStep
<1>4. CASE ApplyDone(f, s)
  <2> DEFINE y == [flow[f] EXCEPT !.status = "applied", !.secret = FALSE, !.overdue = FALSE]
             z == [flow[f] EXCEPT !.status = "received", !.overdue = FALSE]
             x == IF flow[f].status # "applying" THEN flow[f]
                  ELSE IF job[f][s] = "saved" THEN y ELSE z
  <2>1. flow' = [flow EXCEPT ![f] = x] /\ SetJob(f, s, "none")
    BY <1>1, <1>4 DEF ApplyDone
  <2>2. y \in FlowRecs /\ z \in FlowRecs
    BY <1>1 DEF FlowRecs, Statuses
  <2>3. y.status = "applied" /\ z.status = "received"
    BY <1>1 DEF FlowRecs
  <2>4. UNCHANGED <<listener, callbackLock, starting, accountVars>> /\ told' = told /\ sent' = sent
    BY <1>4 DEF ApplyDone
  <2>5. Moved(f, flow[f], x)
    <3>1. CASE flow[f].status # "applying"
      BY <1>1, <3>1, MovedKept
    <3>2. CASE flow[f].status = "applying" /\ job[f][s] = "saved"
      <4>1. x = y /\ f \in keyRows \cup removed
        BY <3>2, JobFacts
      <4> HIDE DEF y, x
      <4> QED BY <3>2, <4>1, <2>2, <2>3 DEF Moved
    <3>3. CASE flow[f].status = "applying" /\ job[f][s] # "saved"
      <4>1. x = z
        BY <3>3
      <4> HIDE DEF z, x
      <4> QED BY <3>3, <4>1, <2>2, <2>3 DEF Moved
    <3> QED BY <3>1, <3>2, <3>3
  <2> HIDE DEF x
  <2> QED BY <2>1, <2>4, <2>5, OneStep DEF JobStates
<1> QED BY <1>2, <1>3, <1>4

\* The operator deletes a key row.
LEMMA SignRemove ==
  ASSUME SignInv, NEW f \in Flows, RemoveKey(f)
  PROVE  SignInv' /\ VerdictKept
<1>1. /\ connected \subseteq Flows /\ job' = job
      /\ keyRows \subseteq Flows /\ removed \subseteq Flows /\ keyTotal = Cardinality(keyRows)
      /\ f \in keyRows /\ keyRows' = keyRows \ {f} /\ keyTotal' = keyTotal - 1
      /\ removed' = removed \cup {f} /\ connected' = connected /\ told' = told
      /\ UNCHANGED <<flow, starting, sent>> /\ UNCHANGED <<listener, callbackLock>>
  BY DEF SignInv, SignTyped, KeysStored, RemoveKey
<1>2. IsFiniteSet(keyRows)
  BY <1>1, SignInAssumption, FS_Subset
<1>3. keyTotal' = Cardinality(keyRows')
  BY <1>1, <1>2, FS_RemoveElement
<1> QED BY <1>1, <1>3, JobFacts, JobStep

---------------------------------------------------------------------------
(* The clock, and the theorem. *)

\* An attempt grows old, a poll interval ends, an apply is overdue.
LEMMA SignClock ==
  ASSUME SignInv, NEW f \in Flows, GrowsOld(f) \/ IntervalOver(f) \/ ApplyTimesOut(f)
  PROVE  SignInv' /\ VerdictKept
<1>1. flow \in [Flows -> FlowRecs] /\ flow[f] \in FlowRecs
  BY DEF SignInv, SignTyped
<1> DEFINE a == [flow[f] EXCEPT !.age = LaterStatus(flow[f].age)]
           b == [flow[f] EXCEPT !.polled = FALSE]
           c == [flow[f] EXCEPT !.overdue = TRUE]
<1>2. a \in FlowRecs /\ b \in FlowRecs /\ c \in FlowRecs
  BY <1>1 DEF FlowRecs, LaterStatus
<1>3. /\ a.status = flow[f].status /\ a.kind = flow[f].kind /\ a.age # "fresh"
      /\ b.status = flow[f].status /\ b.kind = flow[f].kind /\ b.age = flow[f].age
      /\ c.status = flow[f].status /\ c.kind = flow[f].kind /\ c.age = flow[f].age
  BY <1>1 DEF FlowRecs, LaterStatus
<1>4. PICK x \in {a, b, c} : flow' = [flow EXCEPT ![f] = x]
  BY <1>1 DEF GrowsOld, IntervalOver, ApplyTimesOut
<1>5. /\ job' = job /\ sent' = sent /\ told' = told
      /\ UNCHANGED <<listener, callbackLock, starting, accountVars>>
  BY DEF GrowsOld, IntervalOver, ApplyTimesOut
<1> HIDE DEF a, b, c
<1>6. Moved(f, flow[f], x)
  BY <1>2, <1>3, <1>4 DEF Moved
<1> QED BY <1>4, <1>5, <1>6, OneStep

\* No attempt, no listener, no job.
LEMMA SignInitInv == ASSUME SignInit PROVE SignInv
<1>1. /\ \A m \in Maps : listener[m] = [started |-> FALSE, task |-> "none", broke |-> FALSE]
      /\ \A f \in Flows : /\ flow[f] = NoFlow /\ starting[f] = "no" /\ sent[f] = 0
                          /\ \A s \in Slots : job[f][s] = "none"
      /\ told = {} /\ keyRows = {} /\ keyTotal = 0
  BY DEF SignInit
<1>2. [started |-> FALSE, task |-> "none", broke |-> FALSE] \in ListenerRecs
  BY DEF ListenerRecs
<1>3. SignTyped
  BY <1>2, FlowForms DEF SignInit, SignTyped, JobStates
<1>4. StartsLocked /\ ListenerState /\ StartsListened
  BY <1>1 DEF StartsLocked, ListenerState, StartsListened, Kinds
<1>5. BrowserAwaited /\ Unstarted /\ SentOnce
  BY <1>1, FlowForms DEF BrowserAwaited, Unstarted, SentOnce
<1>6. AccountsStored /\ KeysStored
  BY <1>1, FlowForms, FS_EmptySet DEF AccountsStored, KeysStored
<1> QED BY <1>3, <1>4, <1>5, <1>6 DEF SignInv

\* The invariant is what the run checks.
LEMMA SignInvImplies ==
  ASSUME SignInv
  PROVE  ListenerAwaits /\ CodeExchangedOnce /\ ConnectedIsStored /\ KeyStoredOnce
<1>1. ListenerAwaits
  <2> SUFFICES ASSUME NEW m \in Maps, NEW f \in AwaitsBrowser(m), ~listener[m].broke
               PROVE  listener[m].started /\ listener[m].task \in {"serving", "grace"}
    BY DEF ListenerAwaits
  <2>1. Up(listener[m])
    BY DEF SignInv, BrowserAwaited, AwaitsBrowser
  <2>2. listener[m].task \in {"serving", "grace"}
    BY <2>1 DEF Up
  <2> QED BY <2>2 DEF SignInv, ListenerState
<1>2. CodeExchangedOnce /\ ConnectedIsStored /\ KeyStoredOnce
  BY DEF SignInv, SentOnce, AccountsStored, KeysStored, CodeExchangedOnce, ConnectedIsStored,
         KeyStoredOnce
<1> QED BY <1>1, <1>2

\* Every step keeps the invariant and the verdicts.
LEMMA SignStep ==
  ASSUME SignInv, [SignNext]_signVars
  PROVE  SignInv' /\ [VerdictKept]_signVars
<1>1. CASE UNCHANGED signVars
  <2>1. /\ connected \subseteq Flows /\ keyRows \subseteq Flows /\ removed \subseteq Flows
        /\ keyTotal = Cardinality(keyRows)
    BY DEF SignInv, SignTyped, KeysStored
  <2> QED BY <1>1, <2>1, JobFacts, JobStep DEF signVars, accountVars
<1>2. CASE SignNext
  <2>1. CASE OAuthListener \/ KeyListener \/ \E m \in Maps : SuperviseFault(m)
    BY <2>1, SignListener DEF OAuthListener, KeyListener, Maps
  <2>2. CASE \E s \in Slots : CallbackWithoutState(s)
    BY <2>2, SignCallback
  <2>3. ASSUME NEW f \in Flows,
           \/ StartRegister(f) \/ StartDevice(f) \/ OAuthStatus(f)
           \/ KeyCallback(f) \/ KeyStatus(f) \/ RemoveKey(f)
           \/ GrowsOld(f) \/ IntervalOver(f) \/ ApplyTimesOut(f)
           \/ \E kind \in Kinds : StartLocked(f, kind)
        PROVE  SignInv' /\ VerdictKept
    BY <2>3, SignRegister, SignOAuthStatus, SignKey, SignRemove, SignClock, SignStart
  <2>4. ASSUME NEW f \in Flows, NEW s \in Slots,
           \/ Callback(f, s) \/ DevicePoll(f, s) \/ Granted(f, s) \/ NotYet(f, s)
           \/ SaveAccount(f, s) \/ PublishSaved(f, s) \/ FailFlow(f, s)
           \/ ApplyClaim(f, s) \/ ApplyRead(f, s) \/ ApplyStore(f, s) \/ ApplyDone(f, s)
        PROVE  SignInv' /\ VerdictKept
    BY <2>4, SignCallback, SignExchange, SignKey, SignApply
  <2> QED BY <1>2, <2>1, <2>2, <2>3, <2>4 DEF SignNext
<1> QED BY <1>1, <1>2

\* For any attempts, any requests working on them and any limit of the maps:
\* an attempt that waits for the browser has a listener, a code goes upstream
\* once, "connected" is said of stored accounts only, keys are stored and
\* counted once, and no late result replaces a verdict
\* (admin/provider_auth, admin/provider_api_key_auth, state/auth_flows.rs).
THEOREM SignInsCorrect == SignSpec => SignInCorrect
<1>1. SignInit => SignInv
  BY SignInitInv
<1>2. SignInv /\ [SignNext]_signVars => SignInv' /\ [VerdictKept]_signVars
  BY SignStep
<1>3. SignInv => ListenerAwaits /\ CodeExchangedOnce /\ ConnectedIsStored /\ KeyStoredOnce
  BY SignInvImplies
<1> QED BY <1>1, <1>2, <1>3, PTL DEF SignSpec, SignInCorrect, VerdictStands, VerdictKept

---------------------------------------------------------------------------
(***************************************************************************)
(* Settings: what is stored and what runs.                                 *)
(*                                                                         *)
(* A document differs from what runs only between the commit and the       *)
(* publication of the writer that holds its lock (SameUnlessPublishing).   *)
(* That no save of the output styles overwrites an edit it has not seen    *)
(* rests on their history: forms, running documents and the basis of a     *)
(* save hold the stored document or an older revision of it, and a         *)
(* revision has one content (StylesHistory).                               *)
(***************************************************************************)

(* Settings: what is stored and what runs. *)

StoredDocs == [val : Values, rev : 0..MaxRevision]
Saves == [pc : {"idle", "waiting", "locked", "committed"},
          val : Values \cup {"none"}, basis : StoredDocs \cup {NoForm}]
RestorePcs == {"idle", "limits", "operational", "locked", "committed", "loaded"}

SetTyped ==
    /\ stored \in [Docs -> StoredDocs] /\ active \in [Docs -> StoredDocs]
    /\ docLock \in [Docs -> {"free", "save", "restore"}]
    /\ form \in [Docs -> StoredDocs \cup {NoForm}]
    /\ save \in [Docs -> Saves]
    /\ restorePc \in RestorePcs /\ trainPc \in {"idle", "sampled", "stored"}
    /\ archive \in Archives
    /\ \A d \in Docs : save[d].pc = "idle" \/ save[d].val \in Values

SavesLocked ==
    \A d \in Docs : (save[d].pc \in {"locked", "committed"}) <=> (docLock[d] = "save")

\* The locks the restore has taken, in its order.
RestoreHolds(d) ==
    \/ d = "limits" /\ restorePc # "idle"
    \/ d = "operational" /\ restorePc \notin {"idle", "limits"}
    \/ d = "styles" /\ restorePc \notin {"idle", "limits", "operational"}

RestoreLocked == \A d \in Docs : docLock[d] = "restore" <=> RestoreHolds(d)

\* Only between a commit and its publication do the two differ.
Publishing(d) ==
    \/ save[d].pc = "committed"
    \/ restorePc \in {"committed", "loaded"}

SameUnlessPublishing == \A d \in Docs : Publishing(d) \/ active[d] = stored[d]

\* A revision of the output styles is used for one content only.
Earlier(x) ==
    /\ x.rev <= stored["styles"].rev
    /\ x.rev = stored["styles"].rev => x.val = stored["styles"].val
StylesHistory ==
    Earlier(active["styles"]) /\ Earlier(form["styles"]) /\ Earlier(save["styles"].basis)

SetInv == SetTyped /\ SavesLocked /\ RestoreLocked /\ SameUnlessPublishing /\ StylesHistory

\* The two forms of a fresh record.
LEMMA NoSaveTyped == NoSave \in Saves /\ NoSave.pc = "idle" /\ NoSave.basis = NoForm /\ NoForm.rev = -1
  BY DEF NoSave, Saves, NoForm

\* The three documents are told apart.
LEMMA DocsMembers ==
  /\ "styles" \in Docs /\ "limits" \in Docs /\ "operational" \in Docs
  /\ \A d \in Docs : d = "styles" \/ d = "limits" \/ d = "operational"
  BY DEF Docs

\* The invariant is what the run checks.
LEMMA SetInvImplies == ASSUME SetInv PROVE SetTypeOK /\ ActiveMatchesStored
<1>1. \A d \in Docs : stored[d].val \in Values /\ stored[d].rev \in 0..MaxRevision
  BY DEF SetInv, SetTyped, StoredDocs
<1>2. SetTypeOK
  BY <1>1 DEF SetInv, SetTyped, SetTypeOK, SavesLocked, RestorePcs
<1>3. ASSUME NEW d \in Docs, docLock[d] = "free"
      PROVE  active[d] = stored[d]
  <2>1. save[d].pc # "committed"
    BY <1>3 DEF SetInv, SavesLocked
  <2>2. restorePc \notin {"committed", "loaded"}
    BY <1>3, DocsMembers DEF SetInv, RestoreLocked, RestoreHolds
  <2> QED BY <2>1, <2>2 DEF SetInv, SameUnlessPublishing, Publishing
<1> QED BY <1>2, <1>3 DEF ActiveMatchesStored

\* A fresh process runs with what it has read.
LEMMA SetInitInv == ASSUME SetInit PROVE SetInv
<1>1. PICK v \in Values : stored = [d \in Docs |-> [val |-> v, rev |-> 0]]
  BY DEF SetInit
<1>2. stored \in [Docs -> StoredDocs] /\ active = stored /\ stored["styles"].rev = 0
  BY <1>1, SettingsAssumption, DocsMembers DEF SetInit, StoredDocs
<1>3. SetTyped
  BY <1>2, NoSaveTyped DEF SetInit, SetTyped, RestorePcs
<1>4. SavesLocked /\ RestoreLocked /\ SameUnlessPublishing
  BY <1>2, NoSaveTyped DEF SetInit, SavesLocked, RestoreLocked, RestoreHolds, SameUnlessPublishing
<1>5. StylesHistory
  BY <1>2, NoSaveTyped, DocsMembers DEF SetInit, StylesHistory, Earlier
<1> QED BY <1>3, <1>4, <1>5 DEF SetInv

\* Revisions are numbers.
LEMMA StylesTyped ==
  ASSUME SetInv
  PROVE  /\ stored["styles"] \in StoredDocs /\ stored["styles"].rev \in Nat
         /\ active["styles"].rev \in Nat /\ form["styles"].rev \in Int
         /\ save["styles"].basis.rev \in Int
<1>1. \A x \in StoredDocs : x.rev \in Nat /\ x.rev \in Int
  BY SettingsAssumption DEF StoredDocs
<1>2. \A x \in StoredDocs \cup {NoForm} : x.rev \in Int
  BY <1>1, NoSaveTyped
<1>3. save["styles"].basis \in StoredDocs \cup {NoForm}
  BY DocsMembers DEF SetInv, SetTyped, Saves
<1> QED BY <1>1, <1>2, <1>3, DocsMembers DEF SetInv, SetTyped

\* Opening a form shows what runs or what is stored.
LEMMA SetOpen == ASSUME SetInv, NEW d \in Docs, OpenForm(d) PROVE SetInv'
<1>1. form'[d] = stored[d] \/ form'[d] = active[d]
  BY DEF OpenForm, SetInv, SetTyped
<1>2. /\ form' \in [Docs -> StoredDocs \cup {NoForm}]
      /\ \A e \in Docs \ {d} : form'[e] = form[e]
  BY DEF OpenForm, SetInv, SetTyped
<1>3. /\ stored' = stored /\ active' = active /\ docLock' = docLock /\ save' = save
      /\ restorePc' = restorePc /\ archive' = archive /\ trainPc' = trainPc
  BY DEF OpenForm, dictVars
<1>4. SetTyped' /\ SavesLocked' /\ RestoreLocked' /\ SameUnlessPublishing'
  BY <1>2, <1>3 DEF SetInv, SetTyped, SavesLocked, RestoreLocked, RestoreHolds,
                    SameUnlessPublishing, Publishing
<1>5. Earlier(stored["styles"])
  BY StylesTyped DEF Earlier
<1>6. StylesHistory'
  BY <1>1, <1>2, <1>3, <1>5, DocsMembers DEF SetInv, StylesHistory, Earlier
<1> QED BY <1>4, <1>6 DEF SetInv

\* The form is sent.
LEMMA SetSubmit == ASSUME SetInv, NEW d \in Docs, NEW v \in Values, SubmitForm(d, v) PROVE SetInv'
<1>0. PICK basis \in Bases(d) :
          save' = [save EXCEPT ![d] = [pc |-> "waiting", val |-> v, basis |-> basis]]
  BY DEF SubmitForm
<1> DEFINE x == [pc |-> "waiting", val |-> v, basis |-> basis]
<1>1. /\ x \in Saves /\ x.pc = "waiting" /\ x.val = v
      /\ d = "styles" => x.basis = form[d]
  BY <1>0 DEF SetInv, SetTyped, Saves, Bases
<1>2. save' = [save EXCEPT ![d] = x] /\ save[d].pc = "idle"
  BY <1>0 DEF SubmitForm
<1> HIDE DEF x
<1>3. save' \in [Docs -> Saves] /\ save'[d] = x /\ \A e \in Docs \ {d} : save'[e] = save[e]
  BY <1>1, <1>2 DEF SetInv, SetTyped
<1>4. /\ stored' = stored /\ active' = active /\ docLock' = docLock /\ form' = form
      /\ restorePc' = restorePc /\ archive' = archive /\ trainPc' = trainPc
  BY DEF SubmitForm, dictVars
<1>5. SetTyped' /\ SavesLocked' /\ RestoreLocked'
  BY <1>1, <1>2, <1>3, <1>4 DEF SetInv, SetTyped, SavesLocked, RestoreLocked, RestoreHolds
<1>6. SameUnlessPublishing'
  BY <1>1, <1>2, <1>3, <1>4 DEF SetInv, SameUnlessPublishing, Publishing
<1>7. StylesHistory'
  BY <1>1, <1>3, <1>4, DocsMembers DEF SetInv, StylesHistory, Earlier
<1> QED BY <1>5, <1>6, <1>7 DEF SetInv

\* A save takes its lock, commits, or ends.
LEMMA SaveFields ==
  ASSUME SetInv, NEW d \in Docs, NEW p \in {"idle", "waiting", "locked", "committed"},
         save[d].pc # "idle"
  PROVE  /\ [save EXCEPT ![d].pc = p] \in [Docs -> Saves]
         /\ [save EXCEPT ![d].pc = p][d].pc = p
         /\ [save EXCEPT ![d].pc = p][d].val \in Values
         /\ [save EXCEPT ![d].pc = p][d].basis = save[d].basis
         /\ \A e \in Docs \ {d} : [save EXCEPT ![d].pc = p][e] = save[e]
<1>1. save[d] \in Saves /\ save \in [Docs -> Saves] /\ save[d].val \in Values
  BY DEF SetInv, SetTyped
<1>2. /\ [save[d] EXCEPT !.pc = p] \in Saves
      /\ [save[d] EXCEPT !.pc = p].pc = p
      /\ [save[d] EXCEPT !.pc = p].val = save[d].val
      /\ [save[d] EXCEPT !.pc = p].basis = save[d].basis
  BY <1>1 DEF Saves
<1>3. [save EXCEPT ![d].pc = p] = [save EXCEPT ![d] = [save[d] EXCEPT !.pc = p]]
  BY <1>1
<1> QED BY <1>1, <1>2, <1>3

\* A save takes its lock.
LEMMA SetLock == ASSUME SetInv, NEW d \in Docs, LockForSave(d) PROVE SetInv'
<1>1. /\ save[d].pc = "waiting" /\ docLock[d] = "free"
      /\ docLock' = [docLock EXCEPT ![d] = "save"] /\ save' = [save EXCEPT ![d].pc = "locked"]
  BY DEF LockForSave
<1>2. /\ save' \in [Docs -> Saves] /\ save'[d].pc = "locked" /\ save'[d].val \in Values
      /\ save'[d].basis = save[d].basis /\ \A e \in Docs \ {d} : save'[e] = save[e]
  BY <1>1, SaveFields
<1>3. /\ stored' = stored /\ active' = active /\ form' = form
      /\ restorePc' = restorePc /\ archive' = archive /\ trainPc' = trainPc
  BY DEF LockForSave, dictVars
<1>4. /\ docLock' \in [Docs -> {"free", "save", "restore"}] /\ docLock'[d] = "save"
      /\ \A e \in Docs \ {d} : docLock'[e] = docLock[e]
  BY <1>1 DEF SetInv, SetTyped
<1>5. SetTyped' /\ SavesLocked'
  BY <1>2, <1>3, <1>4 DEF SetInv, SetTyped, SavesLocked
<1>6. RestoreLocked'
  BY <1>1, <1>3, <1>4 DEF SetInv, RestoreLocked, RestoreHolds
<1>7. SameUnlessPublishing'
  BY <1>1, <1>2, <1>3 DEF SetInv, SameUnlessPublishing, Publishing
<1>8. StylesHistory'
  BY <1>2, <1>3, DocsMembers DEF SetInv, StylesHistory, Earlier
<1> QED BY <1>5, <1>6, <1>7, <1>8 DEF SetInv

\* A save commits.
LEMMA SetCommit == ASSUME SetInv, NEW d \in Docs, CommitDoc(d) PROVE SetInv'
<1> DEFINE x == [val |-> save[d].val, rev |-> NextRevision(d, stored[d].rev)]
<1>1. /\ save[d].pc = "locked" /\ stored[d].rev < MaxRevision
      /\ stored' = [stored EXCEPT ![d] = x] /\ save' = [save EXCEPT ![d].pc = "committed"]
  BY DEF CommitDoc, SetInv, SetTyped
<1>2. /\ save' \in [Docs -> Saves] /\ save'[d].pc = "committed" /\ save'[d].val \in Values
      /\ save'[d].basis = save[d].basis /\ \A e \in Docs \ {d} : save'[e] = save[e]
  BY <1>1, SaveFields
<1>3. /\ docLock' = docLock /\ active' = active /\ form' = form
      /\ restorePc' = restorePc /\ archive' = archive /\ trainPc' = trainPc
  BY DEF CommitDoc, dictVars
<1>4. stored[d].rev \in 0..MaxRevision /\ save[d].val \in Values
  BY <1>1 DEF SetInv, SetTyped, StoredDocs
<1>5. x \in StoredDocs /\ (d = "styles" => x.rev = stored[d].rev + 1)
  BY <1>1, <1>4, SettingsAssumption DEF StoredDocs, NextRevision
<1> HIDE DEF x
<1>6. /\ stored' \in [Docs -> StoredDocs] /\ stored'[d] = x
      /\ \A e \in Docs \ {d} : stored'[e] = stored[e]
  BY <1>1, <1>5 DEF SetInv, SetTyped
<1>7. SetTyped' /\ SavesLocked'
  BY <1>1, <1>2, <1>3, <1>6 DEF SetInv, SetTyped, SavesLocked
<1>8. RestoreLocked'
  BY <1>3 DEF SetInv, RestoreLocked, RestoreHolds
<1>9. SameUnlessPublishing'
  BY <1>2, <1>3, <1>6 DEF SetInv, SameUnlessPublishing, Publishing
<1>10. save'["styles"].basis = save["styles"].basis
  BY <1>2, DocsMembers
<1>11. StylesHistory'
  <2>1. CASE d = "styles"
    <3>1. stored'["styles"].rev = stored["styles"].rev + 1
      BY <2>1, <1>5, <1>6
    <3> QED BY <3>1, <1>3, <1>10, StylesTyped DEF SetInv, StylesHistory, Earlier
  <2>2. CASE d # "styles"
    <3>1. stored'["styles"] = stored["styles"]
      BY <2>2, <1>6, DocsMembers
    <3> QED BY <3>1, <1>3, <1>10 DEF SetInv, StylesHistory, Earlier
  <2> QED BY <2>1, <2>2
<1> QED BY <1>7, <1>8, <1>9, <1>11 DEF SetInv

\* A save ends, published or refused.
LEMMA SetEnd ==
  ASSUME SetInv, NEW d \in Docs, EndSave(d), save[d].pc \in {"locked", "committed"},
         \/ save[d].pc = "locked" /\ active' = active
         \/ active' = [active EXCEPT ![d] = stored[d]],
         stored' = stored, form' = form, restorePc' = restorePc, archive' = archive,
         trainPc' = trainPc
  PROVE  SetInv'
<1>1. /\ save' \in [Docs -> Saves] /\ save'[d] = NoSave
      /\ \A e \in Docs \ {d} : save'[e] = save[e]
  BY NoSaveTyped DEF EndSave, SetInv, SetTyped
<1>2. /\ docLock' \in [Docs -> {"free", "save", "restore"}] /\ docLock'[d] = "free"
      /\ \A e \in Docs \ {d} : docLock'[e] = docLock[e]
  BY DEF EndSave, SetInv, SetTyped
<1>3. docLock[d] = "save"
  BY DEF SetInv, SavesLocked
<1>4. /\ active' \in [Docs -> StoredDocs]
      /\ \A e \in Docs \ {d} : active'[e] = active[e]
      /\ active'[d] = active[d] \/ active'[d] = stored[d]
      /\ save[d].pc = "committed" => active'[d] = stored[d]
  BY DEF SetInv, SetTyped
<1>5. SetTyped' /\ SavesLocked'
  BY <1>1, <1>2, <1>4, NoSaveTyped DEF SetInv, SetTyped, SavesLocked
<1>6. RestoreLocked'
  BY <1>2, <1>3 DEF SetInv, RestoreLocked, RestoreHolds
<1>7. SameUnlessPublishing'
  <2> SUFFICES ASSUME NEW e \in Docs, ~Publishing(e)'
               PROVE  active'[e] = stored[e]
    BY DEF SameUnlessPublishing
  <2>1. CASE e # d
    BY <2>1, <1>1, <1>4 DEF SetInv, SameUnlessPublishing, Publishing
  <2>2. CASE e = d
    BY <2>2, <1>4 DEF SetInv, SameUnlessPublishing, Publishing
  <2> QED BY <2>1, <2>2
<1>8. StylesHistory'
  <2>1. Earlier(stored["styles"]) /\ Earlier(NoForm)
    BY StylesTyped, NoSaveTyped DEF Earlier
  <2>2. active'["styles"] = active["styles"] \/ active'["styles"] = stored["styles"]
    BY <1>4, DocsMembers
  <2>3. save'["styles"].basis = save["styles"].basis \/ save'["styles"].basis = NoForm
    BY <1>1, DocsMembers, NoSaveTyped
  <2> QED BY <2>1, <2>2, <2>3 DEF SetInv, StylesHistory, Earlier
<1> QED BY <1>5, <1>6, <1>7, <1>8 DEF SetInv

\* A lock is taken for the restore.
LEMMA SetBeginRestore == ASSUME SetInv, BeginRestore PROVE SetInv'
<1>1. /\ stored' = stored /\ active' = active /\ form' = form /\ save' = save
      /\ archive' = archive /\ trainPc' = trainPc
  BY DEF BeginRestore, dictVars
<1>2. PICK d \in Docs : docLock[d] = "free" /\ docLock' = [docLock EXCEPT ![d] = "restore"]
  BY DocsMembers DEF BeginRestore, LockForRestore
<1>3. /\ docLock' \in [Docs -> {"free", "save", "restore"}] /\ docLock'[d] = "restore"
      /\ \A e \in Docs \ {d} : docLock'[e] = docLock[e]
  BY <1>2 DEF SetInv, SetTyped
<1>4. /\ restorePc' \in {"limits", "operational", "locked"}
      /\ restorePc \in {"idle", "limits", "operational"}
  BY DEF BeginRestore, LockForRestore
<1>5. SetTyped' /\ SavesLocked'
  BY <1>1, <1>2, <1>3, <1>4 DEF SetInv, SetTyped, SavesLocked, RestorePcs
<1>6. RestoreLocked'
  <2>1. docLock \in [Docs -> {"free", "save", "restore"}]
    BY DEF SetInv, SetTyped
  <2>2. CASE restorePc = "idle" /\ restorePc' = "limits" /\ docLock' = [docLock EXCEPT !["limits"] = "restore"]
    BY <2>1, <2>2, DocsMembers DEF SetInv, RestoreLocked, RestoreHolds
  <2>3. CASE restorePc = "limits" /\ restorePc' = "operational" /\ docLock' = [docLock EXCEPT !["operational"] = "restore"]
    BY <2>1, <2>3, DocsMembers DEF SetInv, RestoreLocked, RestoreHolds
  <2>4. CASE restorePc = "operational" /\ restorePc' = "locked" /\ docLock' = [docLock EXCEPT !["styles"] = "restore"]
    BY <2>1, <2>4, DocsMembers DEF SetInv, RestoreLocked, RestoreHolds
  <2> QED BY <2>2, <2>3, <2>4 DEF BeginRestore, LockForRestore
<1>7. SameUnlessPublishing' /\ StylesHistory'
  BY <1>1, <1>4 DEF SetInv, SameUnlessPublishing, Publishing, StylesHistory, Earlier
<1> QED BY <1>5, <1>6, <1>7 DEF SetInv

\* The restored documents have their types, the styles a new revision.
LEMMA SetCommitRestore == ASSUME SetInv, CommitRestore PROVE SetInv'
<1> DEFINE st == RestoredStyles(archive, stored["styles"])
           li == [val |-> archive.limits, rev |-> 0]
<1>1. /\ active' = active /\ form' = form /\ save' = save /\ docLock' = docLock
      /\ archive' = archive /\ trainPc' = trainPc /\ restorePc = "locked" /\ restorePc' = "committed"
      /\ stored' = [operational |-> archive.operational, styles |-> st, limits |-> li]
  BY DEF CommitRestore
<1>2. stored["styles"].val \in Values /\ stored["styles"].rev \in 0..MaxRevision
  BY DocsMembers DEF SetInv, SetTyped, StoredDocs
<1>3. archive \in Archives /\ stored["styles"].rev < MaxRevision
  BY DEF SetInv, SetTyped, CommitRestore
<1>4. st \in StoredDocs /\ st.rev = stored["styles"].rev + 1
  BY <1>2, <1>3, SettingsAssumption DEF RestoredStyles, StoredDocs
<1>5. li \in StoredDocs /\ archive.operational \in StoredDocs
  BY <1>3, SettingsAssumption DEF StoredDocs
<1> HIDE DEF st, li
<1>6. stored' \in [Docs -> StoredDocs] /\ stored'["styles"] = st
  BY <1>1, <1>4, <1>5 DEF Docs
<1>7. SetTyped' /\ SavesLocked'
  BY <1>1, <1>6 DEF SetInv, SetTyped, SavesLocked, RestorePcs
<1>8. RestoreLocked' /\ SameUnlessPublishing'
  BY <1>1 DEF SetInv, RestoreLocked, RestoreHolds, SameUnlessPublishing, Publishing
<1>9. StylesHistory'
  BY <1>1, <1>4, <1>6, StylesTyped DEF SetInv, StylesHistory, Earlier
<1> QED BY <1>7, <1>8, <1>9 DEF SetInv

\* The restore lets go of its locks.
LEMMA SetFreeRestore ==
  ASSUME SetInv, FreeRestoreLocks, restorePc' = "idle",
         \/ restorePc = "locked" /\ active' = active
         \/ restorePc = "loaded" /\ active' = stored,
         stored' = stored, form' = form, save' = save, archive' = archive, trainPc' = trainPc
  PROVE  SetInv'
<1>1. \A d \in Docs : docLock[d] = "restore"
  BY DocsMembers DEF SetInv, RestoreLocked, RestoreHolds
<1>2. docLock' = [d \in Docs |-> "free"]
  BY <1>1 DEF FreeRestoreLocks
<1>3. \A d \in Docs : save[d].pc \notin {"locked", "committed"}
  BY <1>1 DEF SetInv, SavesLocked
<1>4. SetTyped' /\ SavesLocked'
  BY <1>2, <1>3 DEF SetInv, SetTyped, SavesLocked, RestorePcs
<1>5. RestoreLocked'
  BY <1>2 DEF RestoreLocked, RestoreHolds
<1>6. SameUnlessPublishing'
  BY <1>3 DEF SetInv, SameUnlessPublishing, Publishing
<1>7. StylesHistory'
  <2>1. Earlier(stored["styles"])
    BY StylesTyped DEF Earlier
  <2> QED BY <2>1 DEF SetInv, StylesHistory, Earlier
<1> QED BY <1>4, <1>5, <1>6, <1>7 DEF SetInv

\* Everything about the dictionary leaves the documents alone.
LEMMA SetDict ==
  ASSUME SetInv, stored' = stored, active' = active, docLock' = docLock, form' = form,
         save' = save, archive' = archive, trainPc' \in {"idle", "sampled", "stored"},
         restorePc' = restorePc \/ (restorePc = "committed" /\ restorePc' = "loaded")
  PROVE  SetInv'
<1>1. SetTyped' /\ SavesLocked'
  BY DEF SetInv, SetTyped, SavesLocked, RestorePcs
<1>2. RestoreLocked' /\ SameUnlessPublishing'
  BY DEF SetInv, RestoreLocked, RestoreHolds, SameUnlessPublishing, Publishing
<1>3. StylesHistory'
  BY DEF SetInv, StylesHistory, Earlier
<1> QED BY <1>1, <1>2, <1>3 DEF SetInv

\* The process dies and starts again.
LEMMA SetRestartInv == ASSUME SetInv, SetRestart PROVE SetInv'
<1>1. /\ active' = stored /\ stored' = stored /\ form' = form /\ archive' = archive
      /\ docLock' = [d \in Docs |-> "free"] /\ save' = [d \in Docs |-> NoSave]
      /\ restorePc' = "idle" /\ trainPc' = "idle"
  BY DEF SetRestart
<1>2. SetTyped' /\ SavesLocked'
  BY <1>1, NoSaveTyped DEF SetInv, SetTyped, SavesLocked, RestorePcs
<1>3. RestoreLocked' /\ SameUnlessPublishing'
  BY <1>1, NoSaveTyped DEF RestoreLocked, RestoreHolds, SameUnlessPublishing
<1>4. Earlier(stored["styles"]) /\ Earlier(NoForm)
  BY StylesTyped, NoSaveTyped DEF Earlier
<1>5. save'["styles"].basis = NoForm
  BY <1>1, DocsMembers, NoSaveTyped
<1>6. StylesHistory'
  BY <1>1, <1>4, <1>5 DEF SetInv, StylesHistory, Earlier
<1> QED BY <1>2, <1>3, <1>6 DEF SetInv

\* Every step keeps the invariant.
LEMMA SetStep == ASSUME SetInv, [SetNext]_setVars PROVE SetInv'
<1>0. trainPc \in {"idle", "sampled", "stored"}
  BY DEF SetInv, SetTyped
<1>1. CASE UNCHANGED setVars
  BY <1>0, <1>1, SetDict DEF setVars, docVars, dictVars
<1>2. CASE topic \in Docs /\ DocNext(topic)
  <2>1. CASE RefuseDoc(topic)
    BY <1>2, <2>1, SetEnd DEF RefuseDoc, dictVars
  <2>2. CASE PublishDoc(topic)
    BY <1>2, <2>2, SetEnd DEF PublishDoc, dictVars
  <2> QED BY <1>2, <2>1, <2>2, SetOpen, SetSubmit, SetLock, SetCommit DEF DocNext
<1>3. CASE DictNext
  BY <1>0, <1>3, SetDict DEF DictNext, WriteLog, Sample, StoreTrained, LoadTrained, docVars
<1>4. CASE BeginRestore \/ CommitRestore \/ SetRestart
  BY <1>4, SetBeginRestore, SetCommitRestore, SetRestartInv
<1>5. CASE RefuseRestore \/ PublishRestore
  BY <1>5, SetFreeRestore DEF RefuseRestore, PublishRestore, dictVars
<1>6. CASE ReloadDict
  BY <1>0, <1>6, SetDict DEF ReloadDict, docVars
<1> QED BY <1>1, <1>2, <1>3, <1>4, <1>5, <1>6 DEF SetNext

\* Only a commit of the styles moves their save from locked to committed.
LEMMA StylesStep ==
  ASSUME SetInv, [SetNext]_setVars
  PROVE  [NoLostUpdate("styles")]_setVars
<1> SUFFICES ASSUME save["styles"].pc = "locked", save'["styles"].pc = "committed"
             PROVE  stored["styles"].val = save["styles"].basis.val
  BY DEF NoLostUpdate
<1>1. save \in [Docs -> Saves]
  BY DEF SetInv, SetTyped
<1>2. topic \in Docs /\ DocNext(topic)
  <2>1. save' # save
    OBVIOUS
  <2>2. ~SetRestart
    BY NoSaveTyped, DocsMembers DEF SetRestart
  <2> QED BY <2>1, <2>2
    DEF SetNext, setVars, docVars, DictNext, WriteLog, Sample, StoreTrained, LoadTrained,
        BeginRestore, CommitRestore, RefuseRestore, ReloadDict, PublishRestore
<1>3. CASE ~CommitDoc(topic)
  <2>1. CASE OpenForm(topic)
    BY <2>1 DEF OpenForm
  <2>2. CASE LockForSave(topic)
    BY <1>1, <1>2, <2>2, SaveFields, DocsMembers DEF LockForSave
  <2>3. CASE RefuseDoc(topic) \/ PublishDoc(topic)
    BY <1>1, <1>2, <2>3, NoSaveTyped, DocsMembers DEF RefuseDoc, PublishDoc, EndSave
  <2>4. ASSUME NEW v \in Values, SubmitForm(topic, v)
        PROVE  FALSE
    BY <1>1, <1>2, <2>4, DocsMembers DEF SubmitForm, Bases
  <2> QED BY <1>2, <1>3, <2>1, <2>2, <2>3, <2>4 DEF DocNext
<1>4. CASE CommitDoc(topic)
  <2>1. topic = "styles"
    BY <1>1, <1>2, <1>4, SaveFields, DocsMembers DEF CommitDoc
  <2>2. stored["styles"].rev = save["styles"].basis.rev
    BY <1>4, <2>1 DEF CommitDoc, SameBasis
  <2> QED BY <2>2 DEF SetInv, StylesHistory, Earlier
<1> QED BY <1>3, <1>4

\* For any values, revisions and archives: when nobody holds a document's
\* lock the process runs with what is stored, and a save of the output
\* styles replaces exactly the content its form was loaded from, whatever
\* restores, failures and crashes came between (state/settings.rs,
\* output_styles_store.rs, admin/database/restore.rs).
THEOREM SettingsAreCorrect == SetSpec => SettingsCorrect
<1>1. SetInit => SetInv
  BY SetInitInv
<1>2. SetInv /\ [SetNext]_setVars => SetInv' /\ [NoLostUpdate("styles")]_setVars
  BY SetStep, StylesStep
<1>3. SetInv => SetTypeOK /\ ActiveMatchesStored
  BY SetInvImplies
<1> QED BY <1>1, <1>2, <1>3, PTL DEF SetSpec, SettingsCorrect, StylesNotOverwritten
=============================================================================
