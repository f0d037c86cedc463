-------------------------- MODULE MCCircuitBreaker --------------------------
(***************************************************************************)
(* CircuitBreaker for TLC.  The administrator switches between two pairs   *)
(* of threshold and cooldown: a strict one that opens at once and waits    *)
(* long, and a lenient one under which a failure of an open circuit does   *)
(* not reach the threshold.                                                *)
(***************************************************************************)
EXTENDS CircuitBreaker

Profiles == {[threshold |-> 1, cooldown |-> 2], [threshold |-> 3, cooldown |-> 1]}

MCBreakerInit == BreakerInit /\ settings \in Profiles
MCBreakerNext == BreakerNext /\ settings' \in Profiles

MCBreakerSpec == MCBreakerInit /\ [][MCBreakerNext]_circuitVars /\ BreakerFairness
=============================================================================
