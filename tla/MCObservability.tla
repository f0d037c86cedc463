--------------------------- MODULE MCObservability ---------------------------
(***************************************************************************)
(* What the gateway counts, shows and remembers of its requests: the       *)
(* telemetry writer, the live view and the stored history.  They share no  *)
(* state, so a behaviour moves one of them, `focus`; the others stay in    *)
(* one initial state of theirs.                                            *)
(***************************************************************************)
EXTENDS Telemetry, LiveRequests, RequestHistory

VARIABLE focus

MCBounds == <<1>>

\* Telemetry in two slices: the windows move and nothing is asked of the
\* writer, or the clock stands and events get lost.
CommandsIn(events) == {n \in 1 .. Len(events) : events[n].kind \in {"flush", "meter"}}
TimeSlice == <<reading, credential>>' = <<reading, credential>> /\ CommandsIn(queue') = {} /\ Len(queue') < 2
LossSlice == minute' = minute /\ pending'.todo = {}

ObsInit ==
    /\ focus \in {"windows", "losses", "live", "history"}
    /\ TelInit /\ LiveInit
    /\ HistInit /\ (focus = "history" \/ rowCount + Cardinality(Present) = 0)

ObsNext ==
    \/ focus = "windows" /\ TelNext /\ TimeSlice /\ UNCHANGED <<focus, liveVars, histVars>>
    \/ focus = "losses" /\ TelNext /\ LossSlice /\ UNCHANGED <<focus, liveVars, histVars>>
    \/ focus = "live" /\ LiveNext /\ UNCHANGED <<focus, telVars, histVars>>
    \/ focus = "history" /\ HistNext /\ UNCHANGED <<focus, telVars, liveVars>>

ObsSpec == ObsInit /\ [][ObsNext]_<<focus, telVars, liveVars, histVars>>
=============================================================================
