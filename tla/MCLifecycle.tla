----------------------------- MODULE MCLifecycle -----------------------------
(***************************************************************************)
(* The daemon's life on the pipeline's instance, with one external event   *)
(* fewer: a shutdown may come at any moment of any behaviour.  A wakeup    *)
(* for no reason counts as an event.                                       *)
(***************************************************************************)
EXTENDS Lifecycle, TLC

CONSTANTS p, d, music, u1, u2, c1, c2, c3, MaxEvents

VARIABLE budget   \* external events still to come

MCCoversDir == (p :> None) @@ (d :> music)
MCContentOf == [u \in Urls |-> IF u = u1 THEN c1 ELSE c2]

External(A) == budget > 0 /\ budget' = budget - 1 /\ A

MCInit == LInit /\ budget = MaxEvents

MCNext ==
    \/ \E name \in Players, status \in Statuses, art_url \in Urls \cup {NoUrl} :
          External(LoopTurn(Line(name, status, art_url)))
    \/ \E name \in Players : External(LoopTurn(Vanish(name)))
    \/ \E value \in ColorSchemes : External(LoopTurn(Scheme(value)))
    \/ LoopTurn(TimerFires) /\ UNCHANGED budget
    \/ LoopTurn(Deliver) /\ UNCHANGED budget
    \/ \E reason \in {"Shutdown", "Hangup"} : LoopReturns(reason) /\ UNCHANGED budget
    \/ LWorker /\ UNCHANGED budget
    \/ External(WakesUp)
    \/ WorkerDies /\ UNCHANGED budget
    \/ Shutdown /\ UNCHANGED budget
    \/ Exited /\ UNCHANGED budget

MCSpec == MCInit /\ [][MCNext]_<<allvars, budget>>

MCFairSpec == MCSpec /\ LFairness
=============================================================================
