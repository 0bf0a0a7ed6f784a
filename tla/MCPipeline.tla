----------------------------- MODULE MCPipeline ------------------------------
(***************************************************************************)
(* The pipeline on a small instance: p is known by its URL only, d also    *)
(* has a covers directory that may hold c1 (the bytes behind u1, too) or   *)
(* c3.  The environment produces MaxEvents external events in a behaviour, *)
(* which bounds every counter; the daemon's own steps are not bounded.     *)
(***************************************************************************)
EXTENDS Pipeline, TLC

CONSTANTS p, d, music, u1, u2, c1, c2, c3, MaxEvents

VARIABLES
    budget,  \* external events still to come
    calm     \* no job fails in this behaviour

MCCoversDir == (p :> None) @@ (d :> music)
MCContentOf == (u1 :> c1) @@ (u2 :> c2)

External(A) == budget > 0 /\ budget' = budget - 1 /\ A

\* The daemon starts in one of the modes, which no definition tells apart.
MCInit == PInit /\ mode = "Dark" /\ budget = MaxEvents /\ calm \in BOOLEAN

Internal(A) == A /\ UNCHANGED budget

Failed(result) == result \in {"FailedRetryable", "Rejected"}

MCNext ==
    /\ \/ \E name \in Players, status \in Statuses, art_url \in Urls \cup {NoUrl} :
             External(Line(name, status, art_url))
       \/ \E name \in Players : External(Vanish(name))
       \/ \E value \in ColorSchemes : External(Scheme(value))
       \/ Internal(TimerFires)
       \/ Internal(Deliver)
       \/ Internal(Worker) /\ (calm => ~Failed(outcome'))
    /\ UNCHANGED calm

mcvars == <<vars, budget, calm>>

MCSpec == MCInit /\ [][MCNext]_mcvars

MCFairSpec == MCSpec /\ Fairness
=============================================================================
