----------------------------- MODULE MCSources -------------------------------
(***************************************************************************)
(* The sources on a small instance: lines of the cap of one byte, just     *)
(* over it and longer than a read of three; a portal that says light or    *)
(* dark plainly, nested, out of range or unreadably.  MaxInputs bounds     *)
(* what happens outside while the daemon runs.                             *)
(***************************************************************************)
EXTENDS Sources

CONSTANTS a, MaxInputs

VARIABLE budget   \* inputs still to come

IntValue(n) == [variants |-> 0, type |-> "int", is |-> n]
Variant(value) == [value EXCEPT !.variants = @ + 1]
MCSchemes == {IntValue(1), Variant(IntValue(2)), [IntValue(0) EXCEPT !.type = "text"],
              IntValue(-1)}
MCLines == {<<a>>, <<a, a>>, <<a, a, a, a, a>>}

External(A) ==
    budget > 0 /\ main \notin {"ended", "failed"} /\ budget' = budget - 1 /\ A

MCInit == SInit /\ budget = MaxInputs

MCNext ==
    \/ \E line \in MCLines : External(PlayerctlWrites(line))
    \/ \E partial \in {<<>>, <<a>>} : External(PlayerctlDies(partial))
    \/ External(OwnerChanges)
    \/ External(OtherNameLost)
    \/ \E value \in Schemes : External(PortalChanges(value))
    \/ External(OtherSetting)
    \/ External(Signal)
    \/ External(WorkerReports)
    \/ External(StartupFails)
    \/ External(ReadFails)
    \/ ClockPasses /\ UNCHANGED budget
    \/ Startup /\ UNCHANGED budget
    \/ Reader /\ UNCHANGED budget
    \/ VanishListener /\ UNCHANGED budget
    \/ SchemeListener /\ UNCHANGED budget
    \/ SignalThread /\ UNCHANGED budget
    \/ Loop /\ UNCHANGED budget

MCSpec == MCInit /\ [][MCNext]_<<svars, budget>> /\ SFairness
=============================================================================
