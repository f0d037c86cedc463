---------------------------- MODULE KeyRotation ----------------------------
(***************************************************************************)
(* Which stored key a request uses: ProviderApiKeyCursor of                *)
(* src/provider_adapters/keys.rs, CredentialRotation of                    *)
(* src/gateway/execution/credential_rotation.rs and the loop of            *)
(* dispatch_target that advances it.                                       *)
(*                                                                         *)
(* A cursor walks the provider's keys in order position, one window of     *)
(* entries per read transaction.  It passes over the keys that are in use, *)
(* then once more over the rejected ones that have cooled down.  A         *)
(* round-robin provider starts after the key the previous request started  *)
(* from and comes round to it.                                             *)
(*                                                                         *)
(* One request is followed.  All the others, any number of them, and the   *)
(* administrator appear as the changes they make to the keys and to the    *)
(* round-robin position between any two of its transactions.               *)
(***************************************************************************)
EXTENDS ProviderKeys

CONSTANTS Strategies,   \* of "ordered" and "round_robin"
          Window,       \* KEY_ORDER_SCAN_WINDOW
          NoKey,        \* `current` is None
          MaxChanges    \* bound on changes by others

ASSUME RotationAssumption ==
    /\ NoKey \notin Keys
    /\ Window \in Nat \ {0} /\ MaxChanges \in Nat
    /\ Strategies \subseteq {"ordered", "round_robin"} /\ Strategies # {}

VARIABLES strategy,    \* the provider's key_strategy
          roundRobin,  \* provider_key_cursors: a position, 0 without an entry
          req,         \* the request's CredentialRotation
          seen,        \* history of the rotation, see Watch
          changes

vars == <<keyVars, strategy, roundRobin, req, seen, changes>>

NewCursor(after) ==
    [after |-> after, finished |-> FALSE, stop |-> 0, wrapped |-> FALSE,
     recovering |-> FALSE]
Idle == [pc |-> "idle", cursor |-> NewCursor(0), key |-> NoKey, previous |-> 0,
         starting |-> FALSE]
Unseen == [still |-> {}, steady |-> {}, tried |-> {}, probed |-> {}]

Init ==
    /\ KeysInit
    /\ strategy \in Strategies
    /\ roundRobin = 0
    /\ req = Idle
    /\ seen = Unseen
    /\ changes = 0

\* History: the keys that have kept their place since the rotation began,
\* those of them that were usable all the time, and the keys it has used.
Watch ==
    seen' = [seen EXCEPT
                !.still = {k \in @ : position'[k] = position[k]},
                !.steady = {k \in @ : position'[k] = position[k] /\ Usable(k)'}]

-----------------------------------------------------------------------------
(* One iteration of ProviderApiKeyCursor::next.                            *)

\* Mutant: after the wrapped pass a second one begins.
NextPassAgain(c) ==
    CASE ~c.finished -> c
      [] c.finished /\ c.stop # 0
           -> [c EXCEPT !.wrapped = TRUE, !.after = 0, !.finished = FALSE]
      [] OTHER -> [NewCursor(0) EXCEPT !.recovering = TRUE]

\* A finished pass is followed by the wrapped one, then by the recovery pass.
NextPass(c) ==
    CASE ~c.finished -> c
      [] c.finished /\ ~c.wrapped /\ c.stop # 0
           -> [c EXCEPT !.wrapped = TRUE, !.after = 0, !.finished = FALSE]
      [] OTHER -> [NewCursor(0) EXCEPT !.recovering = TRUE]

Exhausted(c) == c.finished /\ c.recovering /\ (c.wrapped \/ c.stop = 0)

Beyond(c) == {k \in Stored : position[k] > c.after}
\* scan_prefix_after: the next Window entries of the order index.
Page(c) == {k \in Beyond(c) :
                Cardinality({j \in Beyond(c) : position[j] <= position[k]}) <= Window}
\* Mutant: the entry the rotation started from is taken again.
ReachedInclusive(c) == {k \in Page(c) : c.wrapped => position[k] <= c.stop}
\* The wrapped pass stops at the position the rotation started from.
Reached(c) == {k \in Page(c) : c.wrapped => position[k] < c.stop}

Eligible(c, k) ==
    /\ record[k].enabled
    /\ IF c.recovering THEN record[k].invalid /\ record[k].cooled
                       ELSE ~record[k].invalid
Hits(c) == {k \in Reached(c) : Eligible(c, k)}

\* Nothing in this window: on to the next one, or the pass is over.
AfterMiss(c) ==
    LET reached == Reached(c)
        cut == reached # Page(c)
    IN  [c EXCEPT
            !.after = IF reached = {} THEN @
                      ELSE position[CHOOSE k \in reached :
                                        \A j \in reached : position[j] <= position[k]],
            !.finished = reached = {} \/ cut \/ Cardinality(Page(c)) < Window]

-----------------------------------------------------------------------------
(* The request's rotation.                                                 *)

\* CredentialRotation::start: the round-robin position is read once.
Begin ==
    LET from == IF strategy = "round_robin" THEN roundRobin ELSE 0 IN
    /\ req.pc = "idle"
    /\ req' = [Idle EXCEPT !.pc = "scan", !.starting = TRUE, !.previous = from,
                           !.cursor = NewCursor(from)]
    /\ seen' = [Unseen EXCEPT !.still = Keys, !.steady = {k \in Keys : Usable(k)}]
    /\ UNCHANGED <<keyVars, strategy, roundRobin, changes>>

\* The scan returns a key.  The first key of a round-robin rotation also
\* fixes where its wrapped pass will stop.
ScanFinds ==
    LET c == NextPass(req.cursor)
        first == req.starting /\ strategy = "round_robin"
    IN
    /\ req.pc = "scan"
    /\ ~Exhausted(req.cursor)
    /\ \E k \in Hits(c) :
        /\ \A j \in Hits(c) : position[k] <= position[j]
        /\ req' = [req EXCEPT
                     !.pc = IF first THEN "publish" ELSE "try",
                     !.key = k,
                     !.starting = FALSE,
                     !.cursor = [c EXCEPT !.after = position[k],
                                          !.stop = IF first THEN position[k] ELSE @]]
        /\ seen' = IF c.recovering THEN [seen EXCEPT !.probed = @ \cup {k}]
                                   ELSE [seen EXCEPT !.tried = @ \cup {k}]
    /\ UNCHANGED <<keyVars, strategy, roundRobin, changes>>

ScanMisses ==
    LET c == NextPass(req.cursor) IN
    /\ req.pc = "scan"
    /\ ~Exhausted(req.cursor)
    /\ Hits(c) = {}
    /\ req' = [req EXCEPT !.cursor = AfterMiss(c)]
    /\ UNCHANGED <<keyVars, strategy, roundRobin, seen, changes>>

\* next() returns None.  A round-robin start that had a position tries once
\* more from the beginning; a start without any key falls back on the
\* provider's own secret; a rotation under way has run out of keys.
ScanEnds ==
    /\ req.pc = "scan"
    /\ Exhausted(req.cursor)
    /\ req' = IF req.starting /\ req.previous # 0
              THEN [req EXCEPT !.previous = 0, !.cursor = NewCursor(0)]
              ELSE [Idle EXCEPT !.pc = IF req.starting THEN "fallback" ELSE "exhausted"]
    /\ UNCHANGED <<keyVars, strategy, roundRobin, seen, changes>>

\* set_provider_key_cursor, after the scan and not together with it.
Publish ==
    /\ req.pc = "publish"
    /\ roundRobin' = req.cursor.after
    /\ req' = [req EXCEPT !.pc = "try"]
    /\ UNCHANGED <<keyVars, strategy, seen, changes>>

\* A 401 or 403 for the key: it is marked invalid and the rotation advances.
Reject ==
    /\ req.pc = "try"
    /\ MarkInvalid(req.key)
    /\ req' = [req EXCEPT !.pc = "scan"]
    /\ Watch
    /\ UNCHANGED <<strategy, roundRobin, changes>>

\* On to the next key without a mark: a quota rejection or cooldown, a token
\* that cannot be refreshed, a credential the adapter has repaired, or a
\* stream that fails before its first output, its mark being skipped.
Rotate ==
    /\ req.pc = "try"
    /\ req' = [req EXCEPT !.pc = "scan"]
    /\ UNCHANGED <<keyVars, strategy, roundRobin, seen, changes>>

\* The provider answered and the key is marked used; a stream that fails
\* before its first output goes on to the next key.
UsedThenRotate ==
    /\ req.pc = "try"
    /\ MarkUsed(req.key)
    /\ req' = [req EXCEPT !.pc = "scan"]
    /\ Watch
    /\ UNCHANGED <<strategy, roundRobin, changes>>

Over == req' = Idle /\ seen' = Unseen

Served ==
    /\ req.pc = "try"
    /\ MarkUsed(req.key)
    /\ Over
    /\ UNCHANGED <<strategy, roundRobin, changes>>

\* The request ends here: a storage or transport error, a mark that is
\* skipped, a client that has gone, the report of an exhausted rotation.
Leave ==
    /\ req.pc # "idle"
    /\ Over
    /\ UNCHANGED <<keyVars, strategy, roundRobin, changes>>

-----------------------------------------------------------------------------
(* Everybody else.                                                         *)

\* The administrator changes a key, or another request reports on the one
\* it used.
Change ==
    /\ changes < MaxChanges
    /\ changes' = changes + 1
    /\ AdminStep \/ \E k \in Keys : MarkInvalid(k) \/ MarkUsed(k)
    /\ Watch
    /\ UNCHANGED <<strategy, roundRobin, req>>

Time ==
    /\ \E k \in Keys : CoolDown(k)
    /\ Watch
    /\ UNCHANGED <<strategy, roundRobin, req, changes>>

\* Other round-robin requests have started from some key, or a restored
\* database has dropped the process-local position.  Only Begin reads it, so
\* the step is taken between rotations.
MovePosition(p) ==
    /\ strategy = "round_robin"
    /\ req.pc = "idle"
    /\ roundRobin' = p
    /\ UNCHANGED <<keyVars, strategy, req, seen, changes>>

Step ==
    \/ ScanFinds \/ ScanMisses \/ ScanEnds \/ Publish
    \/ Reject \/ Rotate \/ UsedThenRotate \/ Served \/ Leave

Next ==
    \/ Begin
    \/ Step
    \/ Change
    \/ Time
    \/ \E p \in {0} \cup {position[k] : k \in Stored} : MovePosition(p)

Spec == Init /\ [][Next]_vars

\* A running request goes on: reads return, and upstream calls end, at the
\* latest with a timeout.  Leave is left out: nobody has to give up.
FairSpec ==
    Spec /\ WF_vars(ScanFinds \/ ScanMisses \/ ScanEnds \/ Publish
                    \/ Reject \/ Rotate \/ UsedThenRotate \/ Served)

-----------------------------------------------------------------------------
(* Properties.                                                             *)

Under == {"scan", "publish", "try"}
Cursors == [after : 0..MaxPosition, finished : BOOLEAN, stop : 0..MaxPosition,
            wrapped : BOOLEAN, recovering : BOOLEAN]

\* Cursors and the round-robin entry hold order positions of this provider.
TypeOK ==
    /\ KeysTypeOK
    /\ strategy \in Strategies
    /\ roundRobin \in 0..MaxPosition
    /\ req \in [pc : Under \cup {"idle", "fallback", "exhausted"}, cursor : Cursors,
                key : Keys \cup {NoKey}, previous : 0..MaxPosition, starting : BOOLEAN]
    /\ seen \in [still : SUBSET Keys, steady : SUBSET Keys,
                 tried : SUBSET Keys, probed : SUBSET Keys]
    /\ changes \in 0..MaxChanges

GivesUp == req.pc \in {"exhausted", "fallback"}

\* "so a rejected key still has fallbacks": a request that runs out of keys,
\* or finds none at all, has used every key that was usable, in its place,
\* from the beginning of the rotation to its end.
UsableKeysTried == GivesUp => seen.steady \subseteq seen.tried

\* The same for the rotations that did not begin with a recovery probe.
ActiveKeysTried ==
    GivesUp /\ (strategy = "ordered" \/ seen.tried # {} \/ seen.probed = {})
        => seen.steady \subseteq seen.tried

\* "so no key is attempted twice in one rotation": as long as a key keeps its
\* place it is returned at most once as an active key, and at most once as a
\* recovery probe, whatever happens to its flags meanwhile.
NoKeyTwice ==
    [][req.pc = "scan" /\ req'.pc \in {"publish", "try"} /\ req'.key \in seen.still
        => req'.key \notin IF req'.cursor.recovering THEN seen.probed ELSE seen.tried]_vars

\* Every rotation ends: the passes over a changing set of keys do not go
\* round for ever.
RotationEnds == req.pc \in Under ~> req.pc \notin Under

\* A rotation of ProviderApiKeyCursor tries every key in use exactly once.
RotationComplete ==
    /\ [](TypeOK /\ ActiveKeysTried)
    /\ NoKeyTwice
=============================================================================
