------------------------------ MODULE MCTraffic ------------------------------
(***************************************************************************)
(* What stands between a client and a provider besides the request itself: *)
(* the translation of the stream, the rate limiter, the combos, the        *)
(* settings under a restore, and the usage of the providers.  They share   *)
(* no state, so a behaviour moves one of them, `focus`; the others stay in *)
(* one initial state of theirs.                                            *)
(***************************************************************************)
EXTENDS StreamTranslation, RateLimiter, ComboGraph, SettingsRestore, ProviderUsage, TLC

CONSTANTS c1, c2, c3, v1, v2,
          Filler   \* a credential that only competes for room in the usage cache

VARIABLE focus

MCPolicies == {[kind |-> "window", cap |-> 2, refill |-> 0, window |-> 2],
               [kind |-> "window", cap |-> 1, refill |-> 0, window |-> 3],
               [kind |-> "bucket", cap |-> 2, refill |-> 1, window |-> 2],
               [kind |-> "bucket", cap |-> 1, refill |-> 1, window |-> 2]}

\* Three combos, two providers, depth 1: enough for a chain that is too deep,
\* a loop of two and of three, and an expansion that is too long.
MCCombos == {c1, c2, c3}
MCProviders == {v1, v2}
On(t) == RowTo(t, TRUE)
Off(t) == RowTo(t, FALSE)
MCShapes ==
    {<<On(v1)>>, <<Off(c2)>>, <<On(c3), On(v1)>>, <<On(v1), Off(c1), On(v2)>>}
    \cup {<<On(c)>> : c \in MCCombos}
MCSlow == {<<c1, <<On(c2)>> >>, <<c2, <<On(c1)>> >>, <<c3, <<On(c1), On(c2)>> >>}

MCArchives ==
    {[operational |-> [val |-> "b", rev |-> 1], styles |-> "b", limits |-> "b",
      dict |-> "foreign", frames |-> {"foreign"}],
     [operational |-> [val |-> "a", rev |-> 0], styles |-> "absent", limits |-> "a",
      dict |-> NoDict, frames |-> {}]}

---------------------------------------------------------------------------

\* Two readers of one credential, and a second credential that fills the
\* cache and the lock table, read by one of them at a time before anything is
\* invalidated.  A credential is invalid only while nobody reads: the mode is
\* looked at when a read begins.
UsageSlice == /\ account'[Filler] = account[Filler]
              /\ \A r \in Readers :
                    reader'[r].key = Filler =>
                        /\ ~reader'[r].force /\ reader'[r].lock = Filler
                        /\ epoch' + purge'.bump = 1
                        /\ \A o \in Readers \ {r} : reader'[o].key # Filler
              /\ \A k \in UsageKeys :
                    account'[k].mode = "invalid" => \A r \in Readers : reader'[r].step = "idle"

\* The policy changes only at the second of the four times, when quotas are
\* spent, begun or idle and the intervals of a bucket are yet to end.
PolicySlice == policy' = policy \/ clock = 1

Routes == [up : Upstreams, client : Clients, limit : {0, Limit}]

TrafficInit ==
    /\ focus \in {"stream", "rates", "combos", "settings", "usage"}
    /\ StreamInit /\ (focus = "stream" \/ route = CHOOSE r \in Routes : TRUE)
    /\ RlInit /\ (focus = "rates" \/ policy = CHOOSE x \in Policies : TRUE)
    /\ ComboInit
    /\ SetInit /\ (focus = "settings" \/ (/\ topic = "logs"
                                          /\ archive = CHOOSE x \in Archives : TRUE
                                          /\ stored["limits"].val = CHOOSE v \in Values : TRUE))
    /\ UsageInit /\ account[Filler].path = "api_key"
    /\ focus = "usage" \/ \A k \in UsageKeys : account[k].path = "api_key"

TrafficNext ==
    \/ focus = "stream" /\ StreamNext /\ UNCHANGED <<focus, rlVars, comboVars, setVars, usageVars>>
    \/ /\ focus = "rates" /\ RlNext /\ PolicySlice
       /\ UNCHANGED <<focus, svars, comboVars, setVars, usageVars>>
    \/ focus = "combos" /\ ComboNext /\ UNCHANGED <<focus, svars, rlVars, setVars, usageVars>>
    \/ focus = "settings" /\ SetNext /\ UNCHANGED <<focus, svars, rlVars, comboVars, usageVars>>
    \/ /\ focus = "usage" /\ UsageNext /\ UsageSlice
       /\ UNCHANGED <<focus, svars, rlVars, comboVars, setVars>>

TrafficSpec ==
    TrafficInit /\ [][TrafficNext]_<<focus, svars, rlVars, comboVars, setVars, usageVars>>

\* The readers of the usage are interchangeable; the other parts name their members.
ReaderSymmetry == Permutations(Readers)
=============================================================================
