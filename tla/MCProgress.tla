----------------------------- MODULE MCProgress -----------------------------
(***************************************************************************)
(* What goes on after its request and must come to an end: a continuity    *)
(* run and a sign-in.  They share no state, so a behaviour moves one of    *)
(* them, `focus`; the other stays in its initial state, in which none of   *)
(* its fair actions is enabled.                                            *)
(***************************************************************************)
EXTENDS StreamContinuity, ProviderSignIn

CONSTANT First   \* the sign-in that two requests work on at once

VARIABLE focus

\* The two flow maps share nothing: a behaviour uses one of them, with two
\* attempts of one request each or one attempt of two requests.
SignIns == Maps \X {"attempts", "requests"}

Uses(m, width) ==
    /\ \A f \in Flows :
         /\ starting'[f] \in Kinds => MapOf(starting'[f]) = m
         /\ flow'[f].status # "none" => MapOf(flow'[f].kind) = m
    /\ IF width = "attempts"
       THEN /\ removed' = {}
            /\ \A f \in Flows : /\ job'[f][2] = "none"
                                /\ f # First => starting'[f] # "custom"
       ELSE \A f \in Flows \ {First} : starting'[f] = "no"

ProgressInit ==
    /\ focus \in {<<"run", "only">>} \cup SignIns
    /\ RunInit /\ SignInit

ProgressNext ==
    \/ focus[1] = "run" /\ RunNext /\ UNCHANGED <<focus, signVars>>
    \/ /\ focus \in SignIns /\ SignNext /\ Uses(focus[1], focus[2])
       /\ UNCHANGED <<focus, runVars>>

ProgressSpec ==
    /\ ProgressInit /\ [][ProgressNext]_<<focus, runVars, signVars>>
    /\ RunFairness /\ SignFair
=============================================================================
