--------------------------- MODULE MCKeyRotation ---------------------------
(***************************************************************************)
(* KeyRotation for TLC: three keys, stored in the order k1, k2, k3.        *)
(***************************************************************************)
EXTENDS KeyRotation, TLC

CONSTANTS k1, k2, k3
MCKeys == {k1, k2, k3}
MCSeed == (k1 :> 1) @@ (k2 :> 2) @@ (k3 :> 3)
=============================================================================
