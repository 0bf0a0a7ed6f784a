----------------------------- MODULE Coordinator -----------------------------
(***************************************************************************)
(* The event-loop coordinator (src/src/coordinator.rs): per-player state,  *)
(* the generation-versioned submission of jobs, and the one retry timer.   *)
(*                                                                         *)
(* Each handler is one action: handlers run to completion on the one       *)
(* event-loop thread.  Host::submit is the put into the worker's one-slot  *)
(* mailbox; Host::schedule_retry and cancel_retry arm and disarm the       *)
(* single timer, whose delay is abstracted to "may fire at any time".      *)
(* Results come from an arbitrary worker: any outcome, any generation that *)
(* was ever current.  Pipeline puts the real worker in its place.          *)
(*                                                                         *)
(* A definition marked "Mutant" is a plausible bug in the definition after *)
(* it; nothing uses it but the check that a property can fail.             *)
(***************************************************************************)
EXTENDS Selection

CONSTANT RETRY_MAX_ATTEMPTS   \* retries of one desire before it is given up

ASSUME RetryAssumption == RETRY_MAX_ATTEMPTS \in Nat

VARIABLES
    players,           \* last line of each tracked player, else None
    covers,            \* cover resolution state per player, else None
    seq,               \* counter of accepted lines
    generation,        \* version of the newest desire handed to the worker
    mode,
    applied_target,    \* the retone anchor
    last_desired,      \* last decided value
    last_submitted,    \* dedup key
    submitted_player,  \* winner of the last submit
    retry,             \* timer armed?, desire, player and attempt of the retry
    stopping,
    mailbox            \* the worker's one slot: a job or None

cvars == <<players, covers, seq, generation, mode, applied_target, last_desired,
           last_submitted, submitted_player, retry, stopping, mailbox>>

Jobs == [generation : Nat, desired : Desires]
Outcomes == {"Committed", "SkippedDuplicate", "FailedRetryable", "Rejected"}
Retries == [timer : BOOLEAN, desire : Desires \cup {None},
            player : Players \cup {None}, attempt : Nat]

NoRetry == [timer |-> FALSE, desire |-> None, player |-> None, attempt |-> 0]

ASSUME NoJobAssumption == None \notin Jobs \cup Outcomes

Job(gen, desired) == [generation |-> gen, desired |-> desired]

Init ==
    /\ players = [n \in Players |-> None]
    /\ covers = [n \in Players |-> None]
    /\ seq = 0
    /\ generation = 0
    /\ mode \in Modes
    /\ applied_target = None
    /\ last_desired = None
    /\ last_submitted = None
    /\ submitted_player = None
    /\ retry = NoRetry
    /\ stopping = FALSE
    /\ mailbox = None

-----------------------------------------------------------------------------
\* Helpers.  A handler that has already changed covers, retry or last_submitted
\* passes the changed values (cs, rt, ls) on to the helpers it ends with.

\* Transition one player's cover state, if it has one.
SetCoverStatus(cs, name, status) ==
    IF name # None /\ cs[name] # None THEN [cs EXCEPT ![name].status = status] ELSE cs

\* The cover states after an armed retry is cancelled: its player is demoted.
Demoted(cs, rt) ==
    IF /\ rt.timer
       /\ rt.player # None
       /\ cs[rt.player] # None
       /\ cs[rt.player].status = "Retrying"
    THEN [cs EXCEPT ![rt.player].status = "Pending"]
    ELSE cs

\* Mutant: the timer is disarmed but the retry state is kept.
CancelTimerOnly(cs, rt) ==
    /\ covers' = Demoted(cs, rt)
    /\ retry' = [rt EXCEPT !.timer = FALSE]

CancelRetry(cs, rt) ==
    /\ covers' = Demoted(cs, rt)
    /\ retry' = NoRetry

\* Nothing is submitted.
Keep(cs, rt, ls) ==
    /\ covers' = cs
    /\ retry' = rt
    /\ last_submitted' = ls
    /\ UNCHANGED <<generation, last_desired, submitted_player, mailbox>>

\* Mutant: the dedup looks at the cover and not at the mode.
SameTarget(ls, desired) == ls # None /\ ls.target = desired.target

\* Value dedup: ls is what was submitted last.
Duplicate(ls, desired) == ls = desired

\* A revert, or an apply with a URL: the same value is a true duplicate.
Stable(desired) == desired.target = None \/ desired.target.art_url # NoUrl

MaybeSubmit(desired, player, dir_resubmit, cs, rt, ls) ==
    \/ /\ stopping
       /\ Keep(cs, rt, ls)
    \/ /\ ~stopping
       /\ Duplicate(ls, desired)
       /\ last_desired' = desired
       /\ covers' = cs
       /\ retry' = rt
       /\ last_submitted' = ls
       /\ generation' = generation
       /\ IF dir_resubmit /\ ~Stable(desired)
          THEN /\ submitted_player' = player
               /\ mailbox' = Job(generation, desired)
          ELSE UNCHANGED <<submitted_player, mailbox>>
    \/ /\ ~stopping
       /\ ~Duplicate(ls, desired)
       /\ last_desired' = desired
       /\ generation' = generation + 1
       /\ CancelRetry(cs, rt)
       /\ last_submitted' = desired
       /\ submitted_player' = player
       /\ mailbox' = Job(generation + 1, desired)

\* Re-select from the given player and cover states, and submit what is wanted.
DecideAndSubmit(ps, cs, rt, ls, dir_resubmit) ==
    LET selection == Decide(ps, cs, mode)
    IN  \/ /\ selection = Hold
           /\ Keep(cs, rt, ls)
        \/ /\ selection # Hold
           /\ MaybeSubmit(selection.desired, selection.winner, dir_resubmit, cs, rt, ls)

-----------------------------------------------------------------------------
\* Event handlers.

\* Mutant: a player without an art source gets a cover state, too.
CoverWithoutSource(name, art_url) ==
    LET ident == ArtIdentity(name, art_url)
    IN  IF covers[name] # None /\ covers[name].identity = ident
        THEN covers[name]
        ELSE [identity |-> ident, status |-> "Pending"]

\* Mutant: a known cover is kept although its source changed.
CoverOfOldSource(name, art_url) ==
    IF ArtIdentity(name, art_url) = None THEN None
    ELSE IF covers[name] # None /\ covers[name].status # "Exhausted" THEN covers[name]
    ELSE [identity |-> ArtIdentity(name, art_url), status |-> "Pending"]

\* A cover identical to the known one is kept, except that Exhausted re-opens.
CoverAfterLine(name, art_url) ==
    LET ident == ArtIdentity(name, art_url)
        known == covers[name] # None /\ covers[name].identity = ident
    IN  IF ident = None THEN None
        ELSE IF known /\ covers[name].status # "Exhausted" THEN covers[name]
        ELSE [identity |-> ident, status |-> "Pending"]

Reopens(name, art_url) ==
    /\ covers[name] # None
    /\ covers[name].identity = ArtIdentity(name, art_url)
    /\ covers[name].status = "Exhausted"

\* An accepted playerctl line.  (A rejected one changes nothing.)
OnLine(name, status, art_url) ==
    LET ps == [players EXCEPT ![name] =
                  [status |-> status, art_url |-> art_url, seq |-> seq + 1]]
        cs == [covers EXCEPT ![name] = CoverAfterLine(name, art_url)]
        ls == IF Reopens(name, art_url) THEN None ELSE last_submitted
    IN  /\ seq' = seq + 1
        /\ players' = ps
        /\ DecideAndSubmit(ps, cs, retry, ls, TRUE)
        /\ UNCHANGED <<mode, applied_target, stopping>>

\* A tracked player's bus name was lost.
OnVanish(name) ==
    LET ps == [players EXCEPT ![name] = None]
        cs == [covers EXCEPT ![name] = None]
    IN  /\ players[name] # None
        /\ players' = ps
        /\ DecideAndSubmit(ps, cs, retry, last_submitted, FALSE)
        /\ UNCHANGED <<seq, mode, applied_target, stopping>>

ModeFromColorScheme(value) == IF value = 2 THEN "Light" ELSE "Dark"

\* The portal's color-scheme changed: retone what is shown when the winner is
\* not what is shown, else submit the winner under the new mode.
OnScheme(value) ==
    LET new_mode == ModeFromColorScheme(value)
        selection == Decide(players, covers, new_mode)
        target == IF selection = Hold THEN None ELSE selection.desired.target
        retone == applied_target # None /\ target # applied_target
    IN  /\ new_mode # mode
        /\ mode' = new_mode
        /\ \/ /\ retone
              /\ MaybeSubmit([target |-> applied_target, mode |-> new_mode], None, TRUE,
                             covers, retry, last_submitted)
           \/ /\ ~retone
              /\ target # None
              /\ MaybeSubmit(selection.desired, selection.winner, TRUE,
                             covers, retry, last_submitted)
           \/ /\ ~retone
              /\ target = None
              /\ Keep(covers, retry, last_submitted)
        /\ UNCHANGED <<players, seq, applied_target, stopping>>

-----------------------------------------------------------------------------
\* Worker results.

Stale(result) == stopping \/ result.generation # generation

\* The retry state after one more failure, before the cap is looked at.
Counted ==
    IF retry.desire = last_submitted
    THEN [retry EXCEPT !.attempt = @ + 1]
    ELSE [retry EXCEPT !.desire = last_submitted, !.attempt = 1]

\* Mutant: an adopted result resubmits a directory scan as a line would.
AdoptSuccessResubmits ==
    LET cs == SetCoverStatus(covers, submitted_player, "Ready")
        rt == [retry EXCEPT !.desire = None, !.attempt = 0]
    IN  /\ applied_target' = IF last_submitted = None THEN None ELSE last_submitted.target
        /\ DecideAndSubmit(players, cs, rt, last_submitted, TRUE)

AdoptSuccess ==
    LET cs == SetCoverStatus(covers, submitted_player, "Ready")
        rt == [retry EXCEPT !.desire = None, !.attempt = 0]
    IN  /\ applied_target' = IF last_submitted = None THEN None ELSE last_submitted.target
        /\ DecideAndSubmit(players, cs, rt, last_submitted, FALSE)

\* Past the cap the timer is left as it is.
AdoptFailure ==
    LET exhausted == Counted.attempt > RETRY_MAX_ATTEMPTS
        rt == IF exhausted THEN Counted
              ELSE [Counted EXCEPT !.timer = TRUE, !.player = submitted_player]
        cs == SetCoverStatus(covers, submitted_player,
                             IF exhausted THEN "Exhausted" ELSE "Retrying")
    IN  /\ DecideAndSubmit(players, cs, rt, last_submitted, FALSE)
        /\ UNCHANGED applied_target

AdoptRejection ==
    LET cs == SetCoverStatus(covers, submitted_player, "Rejected")
    IN  /\ DecideAndSubmit(players, cs, retry, last_submitted, FALSE)
        /\ UNCHANGED applied_target

Adopt(result) ==
    \/ /\ Stale(result)
       /\ UNCHANGED cvars
    \/ /\ ~Stale(result)
       /\ \/ result.outcome \in {"Committed", "SkippedDuplicate"} /\ AdoptSuccess
          \/ result.outcome = "FailedRetryable" /\ AdoptFailure
          \/ result.outcome = "Rejected" /\ AdoptRejection
       /\ UNCHANGED <<players, seq, mode, stopping>>

\* The armed timer is consumed by firing.
ConsumeTimer ==
    /\ retry.timer
    /\ retry' = [retry EXCEPT !.timer = FALSE]
    /\ UNCHANGED <<players, covers, seq, mode, applied_target, last_desired,
                   last_submitted, stopping>>

\* Mutant: the job is handed over before the generation is bumped.
FireRetrySubmitsFirst ==
    /\ ConsumeTimer
    /\ IF stopping \/ retry.desire = None
       THEN UNCHANGED <<generation, submitted_player, mailbox>>
       ELSE /\ mailbox' = Job(generation, retry.desire)
            /\ generation' = generation + 1
            /\ submitted_player' = retry.player

\* Mutant: the bumped generation is not stored.
FireRetryForgetsBump ==
    /\ ConsumeTimer
    /\ IF stopping \/ retry.desire = None
       THEN UNCHANGED <<generation, submitted_player, mailbox>>
       ELSE /\ mailbox' = Job(generation + 1, retry.desire)
            /\ submitted_player' = retry.player
            /\ UNCHANGED generation

\* Mutant: only a player's job is retried, never a revert.
FireRetryNeedsPlayer ==
    /\ ConsumeTimer
    /\ IF stopping \/ retry.player = None \/ last_desired # retry.desire
       THEN UNCHANGED <<generation, submitted_player, mailbox>>
       ELSE /\ generation' = generation + 1
            /\ submitted_player' = retry.player
            /\ mailbox' = Job(generation + 1, retry.desire)

\* The armed timer fired: force-resubmit under a fresh generation.
FireRetry ==
    /\ ConsumeTimer
    /\ IF stopping \/ retry.desire = None \/ last_desired # retry.desire
       THEN UNCHANGED <<generation, submitted_player, mailbox>>
       ELSE /\ generation' = generation + 1
            /\ submitted_player' = retry.player
            /\ mailbox' = Job(generation + 1, retry.desire)

\* Mutant: the armed retry survives.
BeginShutdownArmed ==
    /\ stopping' = TRUE
    /\ generation' = generation + 1
    /\ UNCHANGED <<players, covers, seq, mode, applied_target, last_desired,
                   last_submitted, submitted_player, retry, mailbox>>

\* Mutant: what is in flight keeps a current generation.
BeginShutdownSameGeneration ==
    /\ stopping' = TRUE
    /\ CancelRetry(covers, retry)
    /\ UNCHANGED <<players, seq, generation, mode, applied_target, last_desired,
                   last_submitted, submitted_player, mailbox>>

BeginShutdown ==
    /\ stopping' = TRUE
    /\ generation' = generation + 1
    /\ CancelRetry(covers, retry)
    /\ UNCHANGED <<players, seq, mode, applied_target, last_desired, last_submitted,
                   submitted_player, mailbox>>

\* The worker takes the job out of the slot.
Take ==
    /\ mailbox # None
    /\ mailbox' = None
    /\ UNCHANGED <<players, covers, seq, generation, mode, applied_target, last_desired,
                   last_submitted, submitted_player, retry, stopping>>

-----------------------------------------------------------------------------

ColorSchemes == 0..2

Next ==
    \/ \E name \in Players, status \in Statuses, art_url \in Urls \cup {NoUrl} :
          OnLine(name, status, art_url)
    \/ \E name \in Players : OnVanish(name)
    \/ \E value \in ColorSchemes : OnScheme(value)
    \/ \E gen \in 0..generation, outcome \in Outcomes :
          Adopt([generation |-> gen, outcome |-> outcome])
    \/ FireRetry
    \/ BeginShutdown
    \/ Take

Spec == Init /\ [][Next]_cvars

-----------------------------------------------------------------------------
\* Properties.

\* Every variable keeps the type its Rust declaration gives it.
TypeOK ==
    /\ players \in [Players -> PlayerStates \cup {None}]
    /\ covers \in [Players -> CoverStates \cup {None}]
    /\ seq \in Nat
    /\ generation \in Nat
    /\ mode \in Modes
    /\ applied_target \in Targets \cup {None}
    /\ last_desired \in Desires \cup {None}
    /\ last_submitted \in Desires \cup {None}
    /\ submitted_player \in Players \cup {None}
    /\ retry \in Retries
    /\ stopping \in BOOLEAN
    /\ mailbox \in Jobs \cup {None}

\* The retry state always belongs to the last decided desire, so the second
\* guard of fire_retry never decides, as the comment beside it claims.
RetryIsForLastDesired == retry.desire # None => last_desired = retry.desire

\* While the daemon runs, the job waiting in the mailbox is the newest desire
\* under the newest generation: neither an event, nor a retry, nor a fallback
\* leaves an outdated job where the worker would pick it up.
SlotHoldsNewestDesire ==
    mailbox # None /\ ~stopping =>
        mailbox.generation = generation /\ mailbox.desired = last_desired

\* "Every change of desired value bumps the generation": a result of the desire
\* before can then never be adopted as one of the desire after.
DesireChangeBumpsGeneration ==
    [][last_desired' # last_desired => generation' > generation]_cvars

\* A player's cover state exists exactly while the player has an art source, and
\* is keyed on the source the player's last line named.
CoverKeyedOnArt ==
    \A n \in Players :
        LET ident == IF players[n] = None THEN None
                     ELSE ArtIdentity(n, players[n].art_url)
        IN  IF ident = None THEN covers[n] = None
            ELSE covers[n] # None /\ covers[n].identity = ident

\* After begin_shutdown no handler hands a job to the worker or arms a timer, and
\* a job handed out before it is of an older generation for good: the generation
\* never falls, the step into shutdown raises it, and a job the worker still finds
\* waiting, whose result is yet to come, lies below it.
ShutdownIsFinal ==
    [][/\ generation' >= generation
       /\ stopping => /\ stopping'
                      /\ mailbox' \in {mailbox, None}
                      /\ ~retry'.timer
       /\ ~stopping /\ stopping' => generation' > generation
       /\ stopping' /\ mailbox' # None => mailbox'.generation < generation']_cvars
=============================================================================
