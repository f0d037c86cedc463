------------------------- MODULE MCProviderCatalog -------------------------
(* Two providers compete for one prefix; the first may have two keys.      *)
EXTENDS ProviderCatalog

CONSTANTS p1

MCOwner == [k \in Keys |-> p1]
=============================================================================
