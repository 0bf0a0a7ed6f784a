---------------------------- MODULE MCCoordinator ----------------------------
(***************************************************************************)
(* The coordinator under an arbitrary worker, on a small instance: a       *)
(* player known by its URL only and a dir-scan player.                     *)
(***************************************************************************)
EXTENDS Coordinator, TLC

CONSTANTS p, d, music,
          MaxSeq,         \* lines accepted in one behaviour
          MaxGeneration,  \* generations opened in one behaviour
          MaxAttempt      \* failures counted for one desire

MCCoversDir == (p :> None) @@ (d :> music)

\* No definition tells the URLs apart.
UrlSymmetry == Permutations(Urls)

\* The bounds are guards of the bounded next-state relation; a behaviour that
\* reaches one simply takes no further step that would pass it.
WithinBounds ==
    /\ seq' <= MaxSeq
    /\ generation' <= MaxGeneration
    /\ retry'.attempt <= MaxAttempt

MCNext ==
    \/ \E name \in Players, status \in Statuses, art_url \in Urls \cup {NoUrl} :
          OnLine(name, status, art_url) /\ WithinBounds
    \/ \E name \in Players : OnVanish(name) /\ WithinBounds
    \/ \E value \in ColorSchemes : OnScheme(value) /\ WithinBounds
    \/ \E gen \in 0..generation, outcome \in Outcomes :
          Adopt([generation |-> gen, outcome |-> outcome]) /\ WithinBounds
    \/ FireRetry /\ WithinBounds
    \/ ~stopping /\ BeginShutdown /\ WithinBounds
    \/ Take

MCSpec == Init /\ [][MCNext]_cvars
=============================================================================
