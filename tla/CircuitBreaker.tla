--------------------------- MODULE CircuitBreaker ---------------------------
(***************************************************************************)
(* The provider circuit breaker: `permit_provider_with_settings` of        *)
(* src/state/runtime_gates.rs, the leases of src/state/runtime_controls.rs *)
(* and the retiming in `apply_operational_settings`.                       *)
(*                                                                         *)
(* The breaker map is keyed by provider and no operation relates two keys, *)
(* so the module follows one provider: its map entry, which may be absent, *)
(* and the requests that take leases on it.  Every access under the map's  *)
(* mutex is one step; `failed` reads the settings before it locks the map, *)
(* and a settings update writes the two one after the other.               *)
(*                                                                         *)
(* Instants are kept relative to now: `age` is now - opened_at and `left`  *)
(* is open_until - now, both stopped where they no longer matter.          *)
(***************************************************************************)
EXTENDS Naturals, FiniteSets

CONSTANTS Requests,     \* requests that reach the provider
          Thresholds,   \* failure thresholds the administrator may set
          Cooldowns,    \* cooldowns the administrator may set, in ticks
          MaxFailures,  \* where the u32 failure counter saturates
          MaxId         \* where the u64 generation and probe counters end

ASSUME BreakerAssumption ==
    /\ MaxId \in Nat /\ MaxFailures \in Nat
    /\ Thresholds \subseteq 1..MaxFailures /\ Thresholds # {}
    /\ Cooldowns \subseteq Nat \ {0}
    /\ \E c \in Cooldowns : \A d \in Cooldowns : d <= c

VARIABLES circuit,         \* the provider's CircuitState, or NoCircuit
          lease,           \* each request's CircuitProbePermit
          phase,           \* where each request is
          settings,        \* circuit_breaker_settings: threshold and cooldown
          enabled,         \* operational_settings.circuit_breaker_enabled
          breakerAdmin,           \* progress of apply_operational_settings
          pending,         \* the enabled flag that update will publish
          nextGeneration,  \* next_circuit_state_generation
          nextProbe,       \* next_circuit_probe_id
          quiet            \* history: ticks since a failure last reached its threshold

leaseVars == <<lease, phase>>
adminVars == <<settings, enabled, breakerAdmin, pending>>
idVars == <<nextGeneration, nextProbe>>
circuitVars == <<circuit, leaseVars, adminVars, idVars, quiet>>

None == 0   \* no probe, no generation: the counters start at 1

\* A cooldown no later one exceeds; ages are not counted beyond it.
Longest == CHOOSE c \in Cooldowns : \A d \in Cooldowns : d <= c
Later(n) == IF n < Longest THEN n + 1 ELSE n
Sooner(n) == IF n > 0 THEN n - 1 ELSE 0

Closed(g) == [generation |-> g, failures |-> 0, open |-> FALSE,
              age |-> 0, left |-> 0, probe |-> None]
NoCircuit == Closed(None)
NoLease == [generation |-> None, probe |-> None, enabled |-> FALSE,
            threshold |-> 0, cooldown |-> 0]

BreakerInit ==
    /\ circuit = NoCircuit
    /\ lease = [r \in Requests |-> NoLease]
    /\ phase = [r \in Requests |-> "idle"]
    /\ settings \in [threshold : Thresholds, cooldown : Cooldowns]
    /\ enabled \in BOOLEAN
    /\ breakerAdmin = "idle"
    /\ pending = enabled
    /\ nextGeneration = 1
    /\ nextProbe = 1
    /\ quiet = 0

-----------------------------------------------------------------------------
(* Admission.                                                              *)

\* A request copies the published settings when it starts; the read waits
\* while an update holds the settings lock.
Start(r) ==
    /\ phase[r] = "idle"
    /\ breakerAdmin = "idle"
    /\ phase' = [phase EXCEPT ![r] = "prepared"]
    /\ lease' = [lease EXCEPT ![r].enabled = enabled]
    /\ UNCHANGED <<circuit, adminVars, idVars, quiet>>

\* The map entry, created on first use with a generation of its own.
Entry == IF circuit = NoCircuit THEN Closed(nextGeneration) ELSE circuit
EntryExists == circuit # NoCircuit \/ nextGeneration < MaxId

Grant(r, generation, probe) ==
    /\ phase' = [phase EXCEPT ![r] = "leased"]
    /\ lease' = [lease EXCEPT ![r].generation = generation, ![r].probe = probe]

AdmitUnguarded(r) ==
    /\ phase[r] = "prepared"
    /\ ~lease[r].enabled
    /\ Grant(r, None, None)
    /\ UNCHANGED <<circuit, adminVars, idVars, quiet>>

AdmitClosed(r) ==
    /\ phase[r] = "prepared"
    /\ lease[r].enabled
    /\ EntryExists
    /\ ~Entry.open
    /\ circuit' = Entry
    /\ nextGeneration' = IF circuit = NoCircuit THEN nextGeneration + 1
                                                ELSE nextGeneration
    /\ Grant(r, Entry.generation, None)
    /\ UNCHANGED <<adminVars, nextProbe, quiet>>

\* Mutant: the half-open slot is not checked.
ProbeDueTwice == circuit.open /\ circuit.left = 0

\* An open circuit whose cooldown is over admits one probe at a time.
ProbeDue == circuit.open /\ circuit.left = 0 /\ circuit.probe = None

AdmitProbe(r) ==
    /\ phase[r] = "prepared"
    /\ lease[r].enabled
    /\ ProbeDue
    /\ nextProbe < MaxId
    /\ circuit' = [circuit EXCEPT !.probe = nextProbe]
    /\ nextProbe' = nextProbe + 1
    /\ Grant(r, circuit.generation, nextProbe)
    /\ UNCHANGED <<adminVars, nextGeneration, quiet>>

\* permit_provider returns None: the circuit is open, or a counter ended.
Refuse(r) ==
    /\ phase[r] = "prepared"
    /\ lease[r].enabled
    /\ \/ ~EntryExists
       \/ circuit.open /\ ~(ProbeDue /\ nextProbe < MaxId)
    /\ phase' = [phase EXCEPT ![r] = "idle"]
    /\ lease' = [lease EXCEPT ![r] = NoLease]
    /\ UNCHANGED <<circuit, adminVars, idVars, quiet>>

-----------------------------------------------------------------------------
(* The end of a lease.                                                     *)

FinishLease(r) ==
    /\ phase' = [phase EXCEPT ![r] = "idle"]
    /\ lease' = [lease EXCEPT ![r] = NoLease]

\* Mutant: a lease is good for whatever circuit its provider has now.
CurrentAny(r) == lease[r].generation # None

Current(r) == lease[r].generation # None /\ lease[r].generation = circuit.generation
HoldsProbe(r) == lease[r].probe # None /\ circuit.probe = lease[r].probe

\* succeeded(): the probe closes the circuit; a request admitted while it
\* was closed only resets the count of a circuit that is still closed.
AfterSuccess(r) ==
    CASE Current(r) /\ HoldsProbe(r) -> Closed(circuit.generation)
      [] Current(r) /\ lease[r].probe = None /\ ~circuit.open /\ circuit.probe = None
           -> [circuit EXCEPT !.failures = 0]
      [] OTHER -> circuit

Succeed(r) ==
    /\ phase[r] = "leased"
    /\ circuit' = AfterSuccess(r)
    /\ FinishLease(r)
    /\ UNCHANGED <<adminVars, idVars, quiet>>

\* failed(), first part: a guarded lease copies threshold and cooldown.
FailRead(r) ==
    /\ phase[r] = "leased"
    /\ IF lease[r].generation = None
       THEN FinishLease(r)
       ELSE /\ phase' = [phase EXCEPT ![r] = "failing"]
            /\ lease' = [lease EXCEPT ![r].threshold = settings.threshold,
                                      ![r].cooldown = settings.cooldown]
    /\ UNCHANGED <<circuit, adminVars, idVars, quiet>>

Saturated(n) == IF n < MaxFailures THEN n + 1 ELSE n

\* failed(), second part, under the map's lock.
Trips(r) == Saturated(circuit.failures) >= lease[r].threshold

AfterFailure(r) ==
    [generation |-> circuit.generation,
     failures |-> Saturated(circuit.failures),
     open |-> circuit.open \/ Trips(r),
     age |-> IF Trips(r) THEN 0 ELSE circuit.age,
     left |-> IF Trips(r) THEN lease[r].cooldown ELSE circuit.left,
     probe |-> IF HoldsProbe(r) THEN None ELSE circuit.probe]

FailApply(r) ==
    /\ phase[r] = "failing"
    /\ circuit' = IF Current(r) THEN AfterFailure(r) ELSE circuit
    /\ quiet' = IF Current(r) /\ Trips(r) THEN 0 ELSE quiet
    /\ FinishLease(r)
    /\ UNCHANGED <<adminVars, idVars>>

\* Mutant: an aborted probe keeps the half-open slot.
ReleaseKeepsProbe(r) ==
    /\ phase[r] = "leased"
    /\ FinishLease(r)
    /\ UNCHANGED <<circuit, adminVars, idVars, quiet>>

\* abort(), or the lease is dropped: a skipped target, a rejected request, a
\* cancelled or abandoned one.  Only its own probe slot is given back.
Release(r) ==
    /\ phase[r] = "leased"
    /\ circuit' = IF Current(r) /\ HoldsProbe(r)
                  THEN [circuit EXCEPT !.probe = None] ELSE circuit
    /\ FinishLease(r)
    /\ UNCHANGED <<adminVars, idVars, quiet>>

-----------------------------------------------------------------------------
(* The administrator and the clock.                                        *)

\* The provider is deleted, or a restored database clears the whole map.
Clear ==
    /\ circuit # NoCircuit
    /\ circuit' = NoCircuit
    /\ UNCHANGED <<leaseVars, adminVars, idVars, quiet>>

\* apply_operational_settings holds the settings lock over three steps: the
\* breaker's own copy, the retiming of open circuits, the publication.
SettingsWrite(t, c, e) ==
    /\ breakerAdmin = "idle"
    /\ settings' = [threshold |-> t, cooldown |-> c]
    /\ pending' = e
    /\ breakerAdmin' = "retime"
    /\ UNCHANGED <<circuit, leaseVars, enabled, idVars, quiet>>

SettingsRetime ==
    /\ breakerAdmin = "retime"
    /\ circuit' = IF circuit.open
                  THEN [circuit EXCEPT !.left = IF settings.cooldown > circuit.age
                                                THEN settings.cooldown - circuit.age
                                                ELSE 0]
                  ELSE circuit
    /\ breakerAdmin' = "publish"
    /\ UNCHANGED <<leaseVars, settings, enabled, pending, idVars, quiet>>

SettingsPublish ==
    /\ breakerAdmin = "publish"
    /\ enabled' = pending
    /\ breakerAdmin' = "idle"
    /\ UNCHANGED <<circuit, leaseVars, settings, pending, idVars, quiet>>

\* Time passes; only the time of an open circuit is of interest.
Tick ==
    /\ circuit.open
    /\ circuit' = [circuit EXCEPT !.age = Later(@), !.left = Sooner(@)]
    /\ quiet' = Later(quiet)
    /\ <<circuit', quiet'>> # <<circuit, quiet>>
    /\ UNCHANGED <<leaseVars, adminVars, idVars>>

BreakerNext ==
    \/ \E r \in Requests :
        \/ Start(r) \/ AdmitUnguarded(r) \/ AdmitClosed(r) \/ AdmitProbe(r)
        \/ Refuse(r) \/ Succeed(r) \/ FailRead(r) \/ FailApply(r) \/ Release(r)
    \/ \E t \in Thresholds, c \in Cooldowns, e \in BOOLEAN : SettingsWrite(t, c, e)
    \/ SettingsRetime \/ SettingsPublish
    \/ Clear
    \/ Tick

BreakerSpec == BreakerInit /\ [][BreakerNext]_circuitVars

(***************************************************************************)
(* Fairness: time passes, a settings update finishes, every lease ends     *)
(* (timeouts bound a request, and dropping it drops the lease), and the    *)
(* provider keeps receiving requests that find the breaker as it is.       *)
(***************************************************************************)
End(r) == Succeed(r) \/ FailRead(r) \/ FailApply(r) \/ Release(r)

BreakerFairness ==
    /\ WF_circuitVars(Tick)
    /\ WF_circuitVars(SettingsRetime) /\ WF_circuitVars(SettingsPublish)
    /\ \A r \in Requests :
        /\ SF_circuitVars(Start(r))
        /\ WF_circuitVars(AdmitUnguarded(r) \/ AdmitClosed(r) \/ Refuse(r))
        /\ SF_circuitVars(AdmitProbe(r))
        /\ WF_circuitVars(End(r))

BreakerFairSpec == BreakerSpec /\ BreakerFairness

-----------------------------------------------------------------------------
(* Properties.                                                             *)

CircuitType ==
    [generation : 0..MaxId, failures : 0..MaxFailures, open : BOOLEAN,
     age : Nat, left : Nat, probe : 0..MaxId]
LeaseType ==
    [generation : 0..MaxId, probe : 0..MaxId, enabled : BOOLEAN,
     threshold : Nat, cooldown : Nat]

\* The state stays within the types of the code, the saturating failure
\* counter and the checked generation and probe counters included.
BreakerTypeOK ==
    /\ circuit \in CircuitType
    /\ lease \in [Requests -> LeaseType]
    /\ phase \in [Requests -> {"idle", "prepared", "leased", "failing"}]
    /\ settings \in [threshold : Thresholds, cooldown : Cooldowns]
    /\ enabled \in BOOLEAN
    /\ breakerAdmin \in {"idle", "retime", "publish"}
    /\ pending \in BOOLEAN
    /\ nextGeneration \in Nat
    /\ nextProbe \in Nat
    /\ quiet \in Nat

Probes == {r \in Requests : Current(r) /\ lease[r].probe # None}

\* The half-open slot is held by exactly one live lease, and is free when
\* there is none: two requests never probe a failing provider together, and
\* no path through success, failure, cancellation or removal leaks the slot,
\* which would refuse the provider's traffic for ever.
ProbeSlotOwned ==
    /\ circuit.probe # None => circuit.open /\ \E r \in Probes : HoldsProbe(r)
    /\ \A r, s \in Probes : r = s
    /\ \A r \in Probes : HoldsProbe(r)

\* A request that outlives its provider's circuit (deleted and created again,
\* or cleared by a restore) ends without touching the new one.
StaleLeaseHarmless ==
    [][\A r \in Requests :
        /\ phase[r] \in {"leased", "failing"}
        /\ phase'[r] = "idle"
        /\ lease[r].generation # circuit.generation
        => circuit' = circuit]_circuitVars

\* "Its late success must not close the circuit or release the half-open
\* probe": an open circuit is closed only by the success of its probe, and
\* its probe slot is freed only by the end of the lease that holds it.
OnlyProbeCloses ==
    [][circuit.open /\ circuit'.generation = circuit.generation =>
        /\ ~circuit'.open => \E r \in Probes : phase'[r] = "idle"
        /\ circuit.probe # None /\ circuit'.probe # circuit.probe
              => \E r \in Probes : phase'[r] # "leased"]_circuitVars

\* "Cool-off duration an open circuit waits before test probe": a probe is
\* admitted only when the shortest configurable cooldown has passed since
\* a failure last reached the threshold it had read, however often the
\* cooldown is changed meanwhile.
ProbeAfterCooldown ==
    [][circuit'.probe # circuit.probe /\ circuit'.probe # None
        => \A c \in Cooldowns : (\A d \in Cooldowns : c <= d) => quiet >= c]_circuitVars

\* An open circuit does not stay shut: as long as the breaker is enabled and
\* requests keep coming, a failing provider is probed again and again (until
\* the probe ids of the model are used up) or its circuit is closed.
Recovery ==
    []<>(~circuit.open \/ ~enabled \/ nextProbe = MaxId)

\* The circuit of permit_provider is well formed, its failure count saturates
\* and its probe slot belongs to a live lease.
CircuitSound ==
    /\ BreakerTypeOK
    /\ ProbeSlotOwned

\* What a CircuitProbePermit may do to the circuit, whenever it ends: nothing
\* if it is stale, close it only as its probe, probe only after the cooldown.
LeaseDiscipline ==
    /\ StaleLeaseHarmless
    /\ OnlyProbeCloses
    /\ ProbeAfterCooldown
=============================================================================
