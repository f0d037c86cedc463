------------------------------- MODULE MCAccess -------------------------------
(***************************************************************************)
(* Who is let in: the administrator's sessions, the gates of the           *)
(* providers, the accounts' tokens and the accounts' quotas.  They share   *)
(* no state, so a behaviour moves one of them, `focus`; the others stay in *)
(* one initial state of theirs.                                            *)
(***************************************************************************)
EXTENDS AdminAccess, ProviderBulkhead, AccountTokens, AccountQuota, TLC

CONSTANT Bystander   \* an account whose tasks only contend for locks

VARIABLE focus

AccessVars == <<focus, admVars, bulkVars, tokenVars, quotaVars>>

AccessInit ==
    /\ focus \in {"sessions", "gates", "tokens", "pauses", "rate"}
    /\ AdmInit /\ (focus = "sessions" \/ ~auth.weak)
    /\ BulkInit
    /\ TokInit /\ (focus = "tokens" \/ adapter = CHOOSE a \in Adapters : TRUE)
    /\ QuotaInit

AccessNext ==
    \/ focus = "sessions" /\ AdmNext /\ UNCHANGED <<focus, bulkVars, tokenVars, quotaVars>>
    \/ focus = "gates" /\ BulkNext /\ UNCHANGED <<focus, admVars, tokenVars, quotaVars>>
    \/ /\ focus = "tokens" /\ TokNext /\ UNCHANGED <<focus, admVars, bulkVars, quotaVars>>
       /\ ~acct'[Bystander].present /\ issued'[Bystander] = 0
    \/ /\ focus = "pauses" /\ QuotaNext /\ ringVars' = ringVars
       /\ UNCHANGED <<focus, admVars, bulkVars, tokenVars>>
    \/ /\ focus = "rate" /\ QuotaNext /\ breakerVars' = breakerVars
       /\ UNCHANGED <<focus, admVars, bulkVars, tokenVars>>

AccessSpec == AccessInit /\ [][AccessNext]_AccessVars

\* Callers and providers are as interchangeable as families and
\* administrators, but each set multiplies the permutations of every state.
AccessSymmetry == Permutations(Families) \cup Permutations(AdminProcs)
===============================================================================
