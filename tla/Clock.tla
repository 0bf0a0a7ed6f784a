-------------------------------- MODULE Clock --------------------------------
(***************************************************************************)
(* Time, as the worker's blocking stages see it, in ticks of 5 s, and the  *)
(* stop that the daemon's shutdown asks the worker for.                    *)
(***************************************************************************)
EXTENDS Naturals

CONSTANTS
    None,
    Never  \* a time that does not come

ASSUME ClockAssumption == Never \in Nat

VARIABLES
    clock,
    stop_at  \* when the daemon asks for the stop

timevars == <<clock, stop_at>>

ClockInit == clock = 0 /\ stop_at \in 0 .. Never

should_stop == clock >= stop_at

\* A blocking call of at most limit ticks.
Blocks(limit) ==
    /\ \E ticks \in 0 .. limit : clock' = clock + ticks
    /\ UNCHANGED stop_at
=============================================================================
