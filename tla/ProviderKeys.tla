---------------------------- MODULE ProviderKeys ----------------------------
(***************************************************************************)
(* The stored API keys of one provider: the handlers of                    *)
(* src/admin/providers/keys.rs and the two bookkeeping transactions that   *)
(* requests run in src/gateway/execution/provider.rs.                      *)
(*                                                                         *)
(* Each operation is one LMDB write transaction.  A key keeps three things *)
(* in agreement: its record, its entry in the availability index, and the  *)
(* two counters in the provider's record.  A request reports on the key it *)
(* used long after it has read it, so the reports come in any order with   *)
(* the administrator's changes and may concern a key that is disabled or   *)
(* deleted by then.                                                        *)
(*                                                                         *)
(* The order index maps an order position to a key; it is rewritten in the *)
(* same transaction as the records, so it is kept as `position`.           *)
(***************************************************************************)
EXTENDS Naturals, FiniteSets

CONSTANTS Keys,         \* key ids
          Seed,         \* positions of the keys stored at start, 0 for the others
          MaxPosition   \* bound on the positions given to keys

Seeded == {k \in Keys : Seed[k] > 0}

ASSUME KeysAssumption ==
    /\ IsFiniteSet(Keys) /\ MaxPosition \in Nat
    /\ Seed \in [Keys -> 0..MaxPosition]
    /\ \A j, k \in Seeded : Seed[j] = Seed[k] => j = k
    /\ \A k \in Keys : Seed[k] <= Cardinality(Seeded)
    /\ Cardinality(Seeded) <= MaxPosition

VARIABLES record,       \* the provider_api_keys record of each id
          position,     \* its order position, 0 without a record
          nextPosition, \* the position of a key created now
          available,    \* ProviderApiKeyAvailabilityIndex
          keyCount,     \* api_key_count of the provider
          invalidCount  \* invalid_api_key_count of the provider

keyVars == <<record, position, nextPosition, available, keyCount, invalidCount>>

Absent == [stored |-> FALSE, enabled |-> FALSE, invalid |-> FALSE, cooled |-> FALSE]
Fresh == [stored |-> TRUE, enabled |-> TRUE, invalid |-> FALSE, cooled |-> FALSE]

Usable(k) == record[k].stored /\ record[k].enabled /\ ~record[k].invalid
Stored == {k \in Keys : record[k].stored}
Invalid == {k \in Keys : record[k].stored /\ record[k].invalid}

OneLess(n) == IF n > 0 THEN n - 1 ELSE 0    \* saturating_sub(1).max(0)

KeysInit ==
    /\ record = [k \in Keys |-> IF k \in Seeded THEN Fresh ELSE Absent]
    /\ position = Seed
    /\ nextPosition = Cardinality(Seeded) + 1
    /\ available = Seeded
    /\ keyCount = Cardinality(Seeded)
    /\ invalidCount = 0

-----------------------------------------------------------------------------
(* The administrator.                                                      *)

\* add_provider_key_with_id: a new key goes last, enabled whatever its test
\* said; an id that exists already is left as it is, and a stale entry in
\* the availability index is a conflict.
CreateKey(k) ==
    /\ ~record[k].stored
    /\ k \notin available
    /\ nextPosition <= MaxPosition
    /\ record' = [record EXCEPT ![k] = Fresh]
    /\ position' = [position EXCEPT ![k] = nextPosition]
    /\ nextPosition' = nextPosition + 1
    /\ available' = available \cup {k}
    /\ keyCount' = keyCount + 1
    /\ UNCHANGED invalidCount

DeleteKey(k) ==
    /\ record[k].stored
    /\ record' = [record EXCEPT ![k] = Absent]
    /\ position' = [position EXCEPT ![k] = 0]
    /\ available' = IF Usable(k) THEN available \ {k} ELSE available
    /\ keyCount' = OneLess(keyCount)
    /\ invalidCount' = IF record[k].invalid THEN OneLess(invalidCount) ELSE invalidCount
    /\ UNCHANGED nextPosition

\* update_provider_key with an enabled flag: enabling also clears `invalid`.
UpdateKey(k, enabled) ==
    /\ record[k].stored
    /\ LET clears == enabled /\ record[k].invalid
           after == IF clears THEN Fresh ELSE [record[k] EXCEPT !.enabled = enabled]
           isUsable == after.enabled /\ ~after.invalid
       IN  /\ record' = [record EXCEPT ![k] = after]
           /\ invalidCount' = IF clears THEN OneLess(invalidCount) ELSE invalidCount
           /\ available' = IF Usable(k) = isUsable THEN available
                           ELSE IF isUsable THEN available \cup {k}
                           ELSE available \ {k}
    /\ UNCHANGED <<position, nextPosition, keyCount>>

\* swap_provider_key_order.
SwapKeys(j, k) ==
    /\ j # k
    /\ record[j].stored /\ record[k].stored
    /\ position' = [position EXCEPT ![j] = position[k], ![k] = position[j]]
    /\ UNCHANGED <<record, nextPosition, available, keyCount, invalidCount>>

-----------------------------------------------------------------------------
(* The requests.                                                           *)

Flagged(k, invalid) == [record[k] EXCEPT !.invalid = invalid, !.cooled = FALSE]

\* Mutant: the availability entry stays.
MarkInvalidKeepsIndex(k) ==
    /\ IF record[k].stored
       THEN /\ record' = [record EXCEPT ![k] = Flagged(k, TRUE)]
            /\ invalidCount' = IF Usable(k) THEN invalidCount + 1 ELSE invalidCount
       ELSE UNCHANGED <<record, invalidCount>>
    /\ UNCHANGED <<available, position, nextPosition, keyCount>>

\* Mutant: every rejection is counted, a second one for the same key too.
MarkInvalidCountsTwice(k) ==
    /\ IF record[k].stored
       THEN /\ record' = [record EXCEPT ![k] = Flagged(k, TRUE)]
            /\ available' = available \ {k}
            /\ invalidCount' = invalidCount + 1
       ELSE UNCHANGED <<record, available, invalidCount>>
    /\ UNCHANGED <<position, nextPosition, keyCount>>

\* mark_provider_key_invalid: only a usable key is counted and taken out of
\* the index; the flag is set, and its time renewed, in any case.
MarkInvalid(k) ==
    /\ IF record[k].stored
       THEN /\ record' = [record EXCEPT ![k] = Flagged(k, TRUE)]
            /\ available' = IF Usable(k) THEN available \ {k} ELSE available
            /\ invalidCount' = IF Usable(k) THEN invalidCount + 1 ELSE invalidCount
       ELSE UNCHANGED <<record, available, invalidCount>>
    /\ UNCHANGED <<position, nextPosition, keyCount>>

\* mark_provider_key_used: an invalid key is valid again and, whether it is
\* enabled or not, back in the index.  The caller skips the transaction when
\* it has run for this key within the last 60 s.
MarkUsed(k) ==
    /\ IF record[k].stored /\ record[k].invalid
       THEN /\ record' = [record EXCEPT ![k] = Flagged(k, FALSE)]
            /\ available' = available \cup {k}
            /\ invalidCount' = OneLess(invalidCount)
       ELSE UNCHANGED <<record, available, invalidCount>>
    /\ UNCHANGED <<position, nextPosition, keyCount>>

\* KEY_INVALIDATION_COOLDOWN_SECONDS have passed since the key was rejected.
CoolDown(k) ==
    /\ record[k].stored /\ record[k].invalid /\ ~record[k].cooled
    /\ record' = [record EXCEPT ![k].cooled = TRUE]
    /\ UNCHANGED <<position, nextPosition, available, keyCount, invalidCount>>

AdminStep ==
    \E k \in Keys :
        \/ CreateKey(k) \/ DeleteKey(k)
        \/ \E e \in BOOLEAN : UpdateKey(k, e)
        \/ \E j \in Keys : SwapKeys(j, k)

KeysNext ==
    \/ AdminStep
    \/ \E k \in Keys : MarkInvalid(k) \/ MarkUsed(k) \/ CoolDown(k)

KeysSpec == KeysInit /\ [][KeysNext]_keyVars

-----------------------------------------------------------------------------
(* Properties.                                                             *)

RecordType == [stored : BOOLEAN, enabled : BOOLEAN, invalid : BOOLEAN, cooled : BOOLEAN]

\* The state stays within its types; the counters of the code are i64 that
\* are never let below zero.
KeysTypeOK ==
    /\ record \in [Keys -> RecordType]
    /\ position \in [Keys -> 0..MaxPosition]
    /\ nextPosition \in 1..(MaxPosition + 1)
    /\ available \subseteq Keys
    /\ keyCount \in Nat
    /\ invalidCount \in Nat

\* For an enabled key, the availability index says exactly whether it is
\* valid, whatever order rejections, recoveries, deletions and switches of
\* the administrator were applied in.  (A disabled or deleted key may stay
\* in the index: mark_provider_key_used adds one without looking.)
IndexExact ==
    \A k \in Keys : record[k].stored /\ record[k].enabled
                        => (k \in available <=> ~record[k].invalid)

\* The dashboard's counters: `api_key_count` is exact, and the warning
\* `invalid_api_key_count` never reports more invalid keys than there are.
\* (It may report fewer: a key that is rejected while it is disabled is not
\* counted, and enabling or deleting it is.)
CountsBounded ==
    /\ keyCount = Cardinality(Stored)
    /\ invalidCount <= Cardinality(Invalid)
=============================================================================
