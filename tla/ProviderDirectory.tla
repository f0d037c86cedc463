------------------------- MODULE ProviderDirectory -------------------------
(***************************************************************************)
(* What the administrator and the gateway may believe about providers: a   *)
(* provider is there with its keys and models or it is not, a creation     *)
(* starts from an empty catalog, and a deletion happens in one step.       *)
(* ProviderCatalog, which deletes in pages of rows over several            *)
(* transactions and restarts, implements this.                             *)
(***************************************************************************)
CONSTANTS Providers, Models, Keys, Strategies, None

VARIABLE directory

Entry == [keys : SUBSET Keys, models : SUBSET Models, strategy : Strategies]

Init == directory = [p \in Providers |-> None]

Create(p, ks) ==
    /\ directory[p] = None
    /\ \E s \in Strategies :
          directory' = [directory EXCEPT ![p] = [keys |-> ks, models |-> {}, strategy |-> s]]

AddKeys(p, ks) ==
    /\ directory[p] # None
    /\ directory' = [directory EXCEPT ![p].keys = @ \cup ks]

RemoveKey(p, k) ==
    /\ directory[p] # None
    /\ directory' = [directory EXCEPT ![p].keys = @ \ {k}]

SetModels(p, ms) ==
    /\ directory[p] # None
    /\ directory' = [directory EXCEPT ![p].models = ms]

SetStrategy(p, s) ==
    /\ directory[p] # None
    /\ directory' = [directory EXCEPT ![p].strategy = s]

Delete(p) ==
    /\ directory[p] # None
    /\ directory' = [directory EXCEPT ![p] = None]

Next ==
    \E p \in Providers :
        \/ \E ks \in SUBSET Keys : Create(p, ks) \/ AddKeys(p, ks)
        \/ \E k \in Keys : RemoveKey(p, k)
        \/ \E ms \in SUBSET Models : SetModels(p, ms)
        \/ \E s \in Strategies : SetStrategy(p, s)
        \/ Delete(p)

Spec == Init /\ [][Next]_directory
=============================================================================
