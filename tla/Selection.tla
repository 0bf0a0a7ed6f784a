------------------------------ MODULE Selection ------------------------------
(***************************************************************************)
(* Which cover the daemon wants wlchroma to show (src/src/select.rs), and  *)
(* the values selection, the coordinator and the worker speak in           *)
(* (src/src/state.rs, src/src/worker.rs).                                  *)
(*                                                                         *)
(* A name, a URL or a directory is an opaque value.  NoUrl is the empty    *)
(* artUrl of a playerctl line; None stands for Rust's None.                *)
(***************************************************************************)
EXTENDS Naturals

CONSTANTS
    Players,    \* the names the allowlist accepts
    Urls,       \* non-empty art URLs
    Dirs,       \* covers directories
    CoversDir,  \* covers_dir_for: the directory of a dir-scan player, else None
    None        \* the absent value

NoUrl == ""

ASSUME SelectionAssumption ==
    /\ CoversDir \in [Players -> Dirs \cup {None}]
    /\ NoUrl \notin Urls \cup Dirs
    /\ Urls \cap Dirs = {}
    /\ None \notin Players \cup Urls \cup Dirs \cup {NoUrl}

Modes == {"Dark", "Light"}

\* Selection only tells Playing from the rest, so Paused stands for Stopped too.
Statuses == {"Playing", "Paused"}

CoverStatuses == {"Pending", "Ready", "Retrying", "Exhausted", "Rejected"}

Targets == [art_url : Urls \cup {NoUrl}, covers_dir : Dirs \cup {None}]

\* The end-state the worker converges toward; target None reverts to the preset.
Desires == [target : Targets \cup {None}, mode : Modes]

PlayerStates == [status : Statuses, art_url : Urls \cup {NoUrl}, seq : Nat]

CoverStates == [identity : Urls \cup Dirs, status : CoverStatuses]

\* A desire, and the player it is for.
Selections == [desired : Desires, winner : Players \cup {None}]

\* None is neither a record of these sets (a fact about the constant None).
ASSUME NoneAssumption ==
    /\ None \notin Targets
    /\ None \notin Desires
    /\ None \notin Selections
    /\ None \notin PlayerStates
    /\ None \notin CoverStates

Eligible(status) == status \in {"Pending", "Ready", "Retrying"}

\* What a player's cover state is keyed on: its URL, else its directory.
ArtIdentity(name, art_url) == IF art_url # NoUrl THEN art_url ELSE CoversDir[name]

-----------------------------------------------------------------------------

Playing(players) ==
    {n \in Players : players[n] # None /\ players[n].status = "Playing"}

\* A cover state not yet created means never attempted, hence eligible.
Actionable(players, covers) ==
    {n \in Playing(players) :
        /\ players[n].art_url # NoUrl \/ CoversDir[n] # None
        /\ covers[n] = None \/ Eligible(covers[n].status)}

\* seq is unique per player, so the newest is one player and the name tie-break
\* of the code never decides.
Newest(players, names) ==
    CHOOSE n \in names : \A m \in names : players[m].seq <= players[n].seq

TargetOf(players, n) == [art_url |-> players[n].art_url, covers_dir |-> CoversDir[n]]

Hold == None

Revert(mode) == [desired |-> [target |-> None, mode |-> mode], winner |-> None]

Apply(players, n, mode) ==
    [desired |-> [target |-> TargetOf(players, n), mode |-> mode], winner |-> n]

\* The desired end-state: Revert when nothing plays, the newest playing player
\* that has an eligible art source, Hold when none of the playing ones has.
Decide(players, covers, mode) ==
    IF Playing(players) = {} THEN Revert(mode)
    ELSE IF Actionable(players, covers) = {} THEN Hold
    ELSE Apply(players, Newest(players, Actionable(players, covers)), mode)
=============================================================================
