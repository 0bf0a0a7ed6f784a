-------------------------- MODULE CoordinatorProofs --------------------------
(***************************************************************************)
(* Theorems about the coordinator, for every set of players, URLs and      *)
(* directories, every retry cap, and whatever the worker answers.          *)
(***************************************************************************)
EXTENDS Coordinator, WellFoundedInduction, TLAPS

CoverMaps == [Players -> CoverStates \cup {None}]
PlayerMaps == [Players -> PlayerStates \cup {None}]

\* No tracked player's line is newer than the counter of lines.
SeqBoundedBy(ps, s) == \A n \in Players : ps[n] # None => ps[n].seq <= s

\* CoverKeyedOnArt, of any player and cover states.
Keyed(ps, cs) ==
    \A n \in Players :
        LET ident == IF ps[n] = None THEN None ELSE ArtIdentity(n, ps[n].art_url)
        IN  IF ident = None THEN cs[n] = None
            ELSE cs[n] # None /\ cs[n].identity = ident

\* cs and ds are cover states of the same art sources.
SameArt(cs, ds) ==
    \A n \in Players :
        /\ cs[n] = None <=> ds[n] = None
        /\ cs[n] # None => ds[n].identity = cs[n].identity

\* What the handlers' helpers rely on between themselves: the dedup key ls and
\* the retry state rt belong to the last decided desire.
Consistent(rt, ls) ==
    /\ ls \in Desires \cup {None}
    /\ ls # None => last_desired = ls
    /\ rt \in Retries
    /\ rt.desire # None => last_desired = rt.desire
    /\ stopping => ~rt.timer

\* A job still waiting in a daemon that stops is of an older generation.
WaitingIsStale == stopping /\ mailbox # None => mailbox.generation < generation

\* The inductive invariant.
IInv ==
    /\ TypeOK
    /\ SeqBoundedBy(players, seq)
    /\ Consistent(retry, last_submitted)
    /\ SlotHoldsNewestDesire
    /\ Keyed(players, covers)
    /\ WaitingIsStale

-----------------------------------------------------------------------------
\* Selection.

\* Of a non-empty set of tracked players whose sequence numbers are bounded, one
\* is the newest: the CHOOSE of Newest picks a member of the set.
LEMMA NewestIsMember ==
    ASSUME NEW s \in Nat,
           NEW ps \in PlayerMaps, SeqBoundedBy(ps, s),
           NEW names \in SUBSET Players, names # {},
           \A n \in names : ps[n] # None
    PROVE  Newest(ps, names) \in names
<1> DEFINE Ages == {s - ps[n].seq : n \in names}
<1>1. \A n \in names : ps[n].seq \in Nat /\ ps[n].seq <= s
  BY DEF PlayerMaps, PlayerStates, SeqBoundedBy
<1>2. Ages \subseteq Nat /\ Ages # {}
  BY <1>1
<1>3. PICK least \in Ages : \A a \in Ages : ~(<<a, least>> \in OpToRel(<, Nat))
  <2> HIDE DEF Ages
  <2> QED
    BY <1>2, NatLessThanWellFounded, WFMin
<1>4. PICK n \in names : least = s - ps[n].seq
  OBVIOUS
<1>5. \A m \in names : ps[m].seq <= ps[n].seq
  <2> SUFFICES ASSUME NEW m \in names
               PROVE  ps[m].seq <= ps[n].seq
    OBVIOUS
  <2>1. ~(s - ps[m].seq < s - ps[n].seq)
    BY <1>2, <1>3, <1>4 DEF OpToRel
  <2> QED
    BY <2>1, <1>1
<1> QED
  BY <1>5 DEF Newest

\* What selection returns is Hold, or a desire and the player it is for.
LEMMA DecideType ==
    ASSUME NEW s \in Nat,
           NEW ps \in PlayerMaps, SeqBoundedBy(ps, s),
           NEW cs \in CoverMaps, NEW m \in Modes,
           Decide(ps, cs, m) # Hold
    PROVE  /\ Decide(ps, cs, m).desired \in Desires
           /\ Decide(ps, cs, m).winner \in Players \cup {None}
<1>1. CASE Playing(ps) = {}
  BY <1>1 DEF Decide, Revert, Desires
<1>2. CASE Playing(ps) # {}
  <2> DEFINE names == Actionable(ps, cs)
             n == Newest(ps, names)
  <2>1. names # {}
    BY <1>2 DEF Decide
  <2>2. n \in names
    BY <2>1, NewestIsMember DEF Actionable, Playing
  <2>3. n \in Players /\ ps[n] \in PlayerStates
    BY <2>2 DEF Actionable, Playing, PlayerMaps
  <2>4. TargetOf(ps, n) \in Targets
    BY <2>3, SelectionAssumption DEF TargetOf, Targets, PlayerStates
  <2>5. Decide(ps, cs, m) = Apply(ps, n, m)
    BY <1>2, <2>1 DEF Decide
  <2> QED
    BY <2>3, <2>4, <2>5 DEF Apply, Desires
<1> QED
  BY <1>1, <1>2

-----------------------------------------------------------------------------
\* The helpers.

\* Changing the status of one cover state leaves the art sources alone.
LEMMA StatusKeepsArt ==
    ASSUME NEW cs \in CoverMaps, NEW n \in Players, cs[n] # None,
           NEW status \in CoverStatuses
    PROVE  /\ [cs EXCEPT ![n].status = status] \in CoverMaps
           /\ SameArt(cs, [cs EXCEPT ![n].status = status])
<1>1. cs[n] \in CoverStates
  BY DEF CoverMaps
<1>2. [cs[n] EXCEPT !.status = status] \in CoverStates
  BY <1>1 DEF CoverStates
<1>3. [cs[n] EXCEPT !.status = status] # None
  BY <1>2, NoneAssumption
<1>4. [cs[n] EXCEPT !.status = status].identity = cs[n].identity
  BY <1>1 DEF CoverStates
<1>5. [cs EXCEPT ![n].status = status] \in CoverMaps
  BY <1>2 DEF CoverMaps
<1>6. SameArt(cs, [cs EXCEPT ![n].status = status])
  BY <1>3, <1>4 DEF SameArt, CoverMaps
<1> QED
  BY <1>5, <1>6

\* Transitioning one player's cover state leaves every art source as it is.
LEMMA SetCoverStatusKeepsArt ==
    ASSUME NEW cs \in CoverMaps, NEW name \in Players \cup {None},
           NEW status \in CoverStatuses
    PROVE  /\ SetCoverStatus(cs, name, status) \in CoverMaps
           /\ SameArt(cs, SetCoverStatus(cs, name, status))
<1>1. CASE name # None /\ cs[name] # None
  BY <1>1, StatusKeepsArt DEF SetCoverStatus
<1>2. CASE ~(name # None /\ cs[name] # None)
  BY <1>2 DEF SetCoverStatus, SameArt
<1> QED
  BY <1>1, <1>2

\* Demoting the player of a cancelled retry leaves every art source as it is.
LEMMA DemotedKeepsArt ==
    ASSUME NEW cs \in CoverMaps, NEW rt \in Retries
    PROVE  Demoted(cs, rt) \in CoverMaps /\ SameArt(cs, Demoted(cs, rt))
<1> DEFINE demotes == /\ rt.timer
                      /\ rt.player # None
                      /\ cs[rt.player] # None
                      /\ cs[rt.player].status = "Retrying"
<1>1. CASE demotes
  <2>1. rt.player \in Players /\ cs[rt.player] # None
    BY <1>1 DEF Retries
  <2>2. Demoted(cs, rt) = [cs EXCEPT ![rt.player].status = "Pending"]
    BY <1>1 DEF Demoted
  <2> QED
    BY <2>1, <2>2, StatusKeepsArt DEF CoverStatuses
<1>2. CASE ~demotes
  <2>1. Demoted(cs, rt) = cs
    BY <1>2 DEF Demoted
  <2> QED
    BY <2>1 DEF SameArt
<1> QED
  BY <1>1, <1>2

\* Cover states of the same art sources are keyed alike.
LEMMA SameArtKeyed ==
    ASSUME NEW ps, NEW cs, NEW ds, Keyed(ps, cs), SameArt(cs, ds)
    PROVE  Keyed(ps, ds)
BY DEF Keyed, SameArt

\* What a handler that ends with a submission, or with none, leaves behind when
\* cs are the cover states it hands on.
SubmitOK(cs) ==
    /\ covers' \in CoverMaps /\ SameArt(cs, covers')
    /\ generation' \in Nat
    /\ last_desired' \in Desires \cup {None}
    /\ submitted_player' \in Players \cup {None}
    /\ mailbox' \in Jobs \cup {None}
    /\ Consistent(retry, last_submitted)'
    /\ SlotHoldsNewestDesire'
    /\ generation' >= generation
    /\ last_desired' # last_desired => generation' > generation
    /\ stopping => mailbox' = mailbox /\ generation' = generation

\* The types the helpers need of the variables they may change.
SubmitType ==
    /\ generation \in Nat
    /\ last_desired \in Desires \cup {None}
    /\ submitted_player \in Players \cup {None}
    /\ mailbox \in Jobs \cup {None}
    /\ stopping \in BOOLEAN
    /\ SlotHoldsNewestDesire

\* A handler that submits nothing keeps the slot, the generation and the desire in step.
LEMMA KeepOK ==
    ASSUME SubmitType, stopping' = stopping,
           NEW cs \in CoverMaps, NEW rt, NEW ls, Consistent(rt, ls),
           Keep(cs, rt, ls)
    PROVE  SubmitOK(cs)
<1>1. SameArt(cs, cs)
  BY DEF SameArt
<1> QED
  BY <1>1 DEF SubmitType, SubmitOK, Keep, Consistent, SlotHoldsNewestDesire

\* A generation and a desire make a job.
LEMMA JobType ==
    ASSUME NEW gen \in Nat, NEW desired \in Desires
    PROVE  /\ Job(gen, desired) \in Jobs
           /\ Job(gen, desired).generation = gen
           /\ Job(gen, desired).desired = desired
BY DEF Job, Jobs

\* maybe_submit keeps the slot, the dedup key and the retry state in step with
\* the last decided desire, whichever of its branches is taken.
LEMMA MaybeSubmitOK ==
    ASSUME SubmitType, stopping' = stopping,
           NEW desired \in Desires, NEW player \in Players \cup {None},
           NEW dir_resubmit,
           NEW cs \in CoverMaps, NEW rt, NEW ls, Consistent(rt, ls),
           MaybeSubmit(desired, player, dir_resubmit, cs, rt, ls)
    PROVE  SubmitOK(cs)
<1>1. CASE stopping /\ Keep(cs, rt, ls)
  BY <1>1, KeepOK
<1>2. CASE /\ ~stopping
           /\ Duplicate(ls, desired)
           /\ last_desired' = desired
           /\ covers' = cs
           /\ retry' = rt
           /\ last_submitted' = ls
           /\ generation' = generation
           /\ IF dir_resubmit /\ ~Stable(desired)
              THEN /\ submitted_player' = player
                   /\ mailbox' = Job(generation, desired)
              ELSE UNCHANGED <<submitted_player, mailbox>>
  <2>1. desired # None /\ last_desired = desired
    BY <1>2, NoneAssumption DEF Consistent, Duplicate
  <2>2. SameArt(cs, covers')
    BY <1>2 DEF SameArt
  <2>3. Consistent(retry, last_submitted)'
    BY <1>2, <2>1 DEF Consistent, Duplicate
  <2>4. mailbox' \in Jobs \cup {None} /\ SlotHoldsNewestDesire'
    BY <1>2, <2>1, JobType DEF SlotHoldsNewestDesire, SubmitType
  <2> QED
    BY <1>2, <2>1, <2>2, <2>3, <2>4 DEF SubmitOK, SubmitType
<1>3. CASE /\ ~stopping
           /\ ~Duplicate(ls, desired)
           /\ last_desired' = desired
           /\ generation' = generation + 1
           /\ CancelRetry(cs, rt)
           /\ last_submitted' = desired
           /\ submitted_player' = player
           /\ mailbox' = Job(generation + 1, desired)
  <2>1. covers' \in CoverMaps /\ SameArt(cs, covers')
    BY <1>3, DemotedKeepsArt DEF CancelRetry, Consistent
  <2>2. NoRetry \in Retries /\ NoRetry.desire = None /\ ~NoRetry.timer
    BY DEF NoRetry, Retries
  <2>3. Consistent(retry, last_submitted)'
    BY <1>3, <2>2 DEF Consistent, CancelRetry
  <2>4. generation' \in Nat /\ generation' > generation /\ generation' >= generation
    BY <1>3 DEF SubmitType
  <2>5. mailbox' \in Jobs \cup {None} /\ SlotHoldsNewestDesire'
    BY <1>3, <2>4, JobType DEF SlotHoldsNewestDesire
  <2> QED
    BY <1>3, <2>1, <2>3, <2>4, <2>5 DEF SubmitOK
<1> QED
  BY <1>1, <1>2, <1>3 DEF MaybeSubmit

\* Re-selecting and submitting what is wanted keeps all that a submission keeps.
LEMMA DecideAndSubmitOK ==
    ASSUME SubmitType, stopping' = stopping, mode \in Modes,
           NEW s \in Nat, NEW ps \in PlayerMaps, SeqBoundedBy(ps, s),
           NEW dir_resubmit,
           NEW cs \in CoverMaps, NEW rt, NEW ls, Consistent(rt, ls),
           DecideAndSubmit(ps, cs, rt, ls, dir_resubmit)
    PROVE  SubmitOK(cs)
<1> DEFINE selection == Decide(ps, cs, mode)
<1>1. CASE selection = Hold /\ Keep(cs, rt, ls)
  BY <1>1, KeepOK
<1>2. CASE /\ selection # Hold
           /\ MaybeSubmit(selection.desired, selection.winner, dir_resubmit, cs, rt, ls)
  <2>1. selection.desired \in Desires /\ selection.winner \in Players \cup {None}
    BY <1>2, DecideType
  <2> QED
    BY <1>2, <2>1, MaybeSubmitOK
<1> QED
  BY <1>1, <1>2 DEF DecideAndSubmit

-----------------------------------------------------------------------------
\* The handlers: what every step does to the inductive invariant, and what it
\* may not do to the generation and to a daemon that stops.

StepOK ==
    /\ IInv'
    /\ generation' >= generation
    /\ last_desired' # last_desired => generation' > generation
    /\ stopping => /\ stopping'
                   /\ mailbox' \in {mailbox, None}
                   /\ ~retry'.timer
    /\ ~stopping /\ stopping' => generation' > generation

\* A handler that ends with a submission preserves everything once the player
\* and cover states it hands on are keyed alike.
LEMMA SubmissionStep ==
    ASSUME IInv, stopping' = stopping,
           players' \in PlayerMaps, seq' \in Nat, SeqBoundedBy(players', seq'),
           mode' \in Modes, applied_target' \in Targets \cup {None},
           NEW cs, Keyed(players', cs), SubmitOK(cs)
    PROVE  StepOK
<1>1. Keyed(players', covers')
  BY SameArtKeyed DEF SubmitOK
<1>2. TypeOK'
  BY DEF IInv, TypeOK, SubmitOK, Consistent, PlayerMaps, CoverMaps
<1>3. IInv'
  BY <1>1, <1>2 DEF IInv, SubmitOK, WaitingIsStale
<1>4. stopping => mailbox' = mailbox /\ ~retry'.timer
  BY DEF SubmitOK, Consistent
<1> QED
  BY <1>3, <1>4 DEF StepOK, SubmitOK

\* What the steps below need of the types of the variables.
LEMMA InvariantTypes ==
    ASSUME IInv
    PROVE  /\ SubmitType
           /\ players \in PlayerMaps
           /\ covers \in CoverMaps
           /\ Consistent(retry, last_submitted)
BY DEF IInv, TypeOK, SubmitType, PlayerMaps, CoverMaps

\* A stuttering step keeps the invariant.
LEMMA UnchangedStep ==
    ASSUME IInv, UNCHANGED cvars
    PROVE  StepOK
<1>1. IInv'
  BY DEF IInv, TypeOK, SeqBoundedBy, Consistent, SlotHoldsNewestDesire, Keyed,
         WaitingIsStale, cvars
<1> QED
  BY <1>1, InvariantTypes DEF StepOK, SubmitType, cvars, Consistent

\* A line keys the player's cover state on the source it names.
LEMMA CoverAfterLineKeyed ==
    ASSUME IInv, NEW name \in Players, NEW status \in Statuses,
           NEW art_url \in Urls \cup {NoUrl}, NEW s \in Nat
    PROVE  LET ps == [players EXCEPT ![name] =
                         [status |-> status, art_url |-> art_url, seq |-> s]]
               cs == [covers EXCEPT ![name] = CoverAfterLine(name, art_url)]
           IN  ps \in PlayerMaps /\ cs \in CoverMaps /\ Keyed(ps, cs)
<1> DEFINE line == [status |-> status, art_url |-> art_url, seq |-> s]
           ident == ArtIdentity(name, art_url)
           cover == CoverAfterLine(name, art_url)
           ps == [players EXCEPT ![name] = line]
           cs == [covers EXCEPT ![name] = cover]
<1>1. line \in PlayerStates /\ line.art_url = art_url /\ line # None
  <2>1. line \in PlayerStates /\ line.art_url = art_url
    BY DEF PlayerStates
  <2> QED
    BY <2>1, NoneAssumption
<1>2. ident \in Urls \cup Dirs \cup {None}
  BY SelectionAssumption DEF ArtIdentity
<1>3. covers[name] \in CoverStates \cup {None}
  BY InvariantTypes DEF CoverMaps
<1>4. IF ident = None THEN cover = None
      ELSE cover \in CoverStates /\ cover.identity = ident
  BY <1>2, <1>3 DEF CoverAfterLine, CoverStates, CoverStatuses
<1>5. ps \in PlayerMaps
  BY <1>1, InvariantTypes DEF PlayerMaps
<1>6. cs \in CoverMaps
  BY <1>4, InvariantTypes DEF CoverMaps
<1>7. Keyed(ps, cs)
  <2> SUFFICES ASSUME NEW n \in Players
               PROVE  LET i == IF ps[n] = None THEN None
                               ELSE ArtIdentity(n, ps[n].art_url)
                      IN  IF i = None THEN cs[n] = None
                          ELSE cs[n] # None /\ cs[n].identity = i
    BY DEF Keyed
  <2>1. CASE n = name
    <3>1. ps[n] = line /\ cs[n] = cover
      BY <2>1, InvariantTypes DEF PlayerMaps, CoverMaps
    <3>2. ArtIdentity(n, ps[n].art_url) = ident
      BY <2>1, <3>1, <1>1
    <3>3. ident # None => cover # None
      BY <1>4, NoneAssumption
    <3> QED
      BY <3>1, <3>2, <3>3, <1>1, <1>4
  <2>2. CASE n # name
    <3>1. ps[n] = players[n] /\ cs[n] = covers[n]
      BY <2>2, InvariantTypes DEF PlayerMaps, CoverMaps
    <3> QED
      BY <3>1 DEF IInv, Keyed
  <2> QED
    BY <2>1, <2>2
<1> QED
  BY <1>5, <1>6, <1>7

\* An accepted line keeps the invariant.
LEMMA OnLineStep ==
    ASSUME IInv, NEW name \in Players, NEW status \in Statuses,
           NEW art_url \in Urls \cup {NoUrl}, OnLine(name, status, art_url)
    PROVE  StepOK
<1> DEFINE ps == [players EXCEPT ![name] =
                     [status |-> status, art_url |-> art_url, seq |-> seq + 1]]
           cs == [covers EXCEPT ![name] = CoverAfterLine(name, art_url)]
           ls == IF Reopens(name, art_url) THEN None ELSE last_submitted
<1>1. seq \in Nat /\ seq + 1 \in Nat
  <2>1. seq \in Nat
    BY DEF IInv, TypeOK
  <2> QED
    BY <2>1
<1>2. seq' = seq + 1 /\ players' = ps
  BY DEF OnLine
<1>3. ps \in PlayerMaps /\ cs \in CoverMaps /\ Keyed(ps, cs)
  BY <1>1, CoverAfterLineKeyed
<1>4. SeqBoundedBy(ps, seq + 1)
  <2> SUFFICES ASSUME NEW n \in Players, ps[n] # None
               PROVE  ps[n].seq <= seq + 1
    BY DEF SeqBoundedBy
  <2>1. CASE n = name
    <3>1. ps[n].seq = seq + 1
      BY <2>1, InvariantTypes DEF PlayerMaps
    <3> QED
      BY <3>1, <1>1
  <2>2. CASE n # name
    <3>1. ps[n] = players[n] /\ players[n] \in PlayerStates
      BY <2>2, InvariantTypes DEF PlayerMaps
    <3>2. players[n].seq <= seq
      BY <3>1 DEF IInv, SeqBoundedBy
    <3>3. players[n].seq \in Nat
      BY <3>1 DEF PlayerStates
    <3> QED
      BY <1>1, <3>1, <3>2, <3>3
  <2> QED
    BY <2>1, <2>2
<1>5. Consistent(retry, ls)
  BY InvariantTypes DEF Consistent
<1>6. DecideAndSubmit(ps, cs, retry, ls, TRUE)
  BY DEF OnLine
<1>7. mode \in Modes /\ mode' = mode /\ stopping' = stopping
      /\ applied_target' \in Targets \cup {None}
  BY DEF IInv, TypeOK, OnLine
<1>8. SubmitOK(cs)
  BY <1>1, <1>2, <1>3, <1>4, <1>5, <1>6, <1>7, InvariantTypes, DecideAndSubmitOK
<1> QED
  BY <1>1, <1>2, <1>3, <1>4, <1>7, <1>8, SubmissionStep

\* A lost player keeps the invariant.
LEMMA OnVanishStep ==
    ASSUME IInv, NEW name \in Players, OnVanish(name)
    PROVE  StepOK
<1> DEFINE ps == [players EXCEPT ![name] = None]
           cs == [covers EXCEPT ![name] = None]
<1>1. players' = ps /\ seq' = seq /\ seq \in Nat /\ stopping' = stopping
      /\ mode' = mode /\ mode \in Modes /\ applied_target' \in Targets \cup {None}
  BY DEF IInv, TypeOK, OnVanish
<1>2. ps \in PlayerMaps /\ cs \in CoverMaps
  BY InvariantTypes DEF PlayerMaps, CoverMaps
<1>3. SeqBoundedBy(ps, seq) /\ Keyed(ps, cs)
  BY InvariantTypes DEF IInv, SeqBoundedBy, Keyed, PlayerMaps, CoverMaps
<1>4. DecideAndSubmit(ps, cs, retry, last_submitted, FALSE)
  BY DEF OnVanish
<1>5. SubmitOK(cs)
  BY <1>1, <1>2, <1>3, <1>4, InvariantTypes, DecideAndSubmitOK
<1> QED
  BY <1>1, <1>2, <1>3, <1>5, SubmissionStep

\* A change of the color scheme keeps the invariant.
LEMMA OnSchemeStep ==
    ASSUME IInv, NEW value \in ColorSchemes, OnScheme(value)
    PROVE  StepOK
<1> DEFINE new_mode == ModeFromColorScheme(value)
           selection == Decide(players, covers, new_mode)
           target == IF selection = Hold THEN None ELSE selection.desired.target
           retone == applied_target # None /\ target # applied_target
<1>1. new_mode \in Modes /\ mode' = new_mode
  BY DEF OnScheme, ModeFromColorScheme, Modes
<1>2. UNCHANGED <<players, seq, applied_target, stopping>>
  BY DEF OnScheme
<1>3. SeqBoundedBy(players, seq) /\ seq \in Nat
      /\ applied_target \in Targets \cup {None}
  BY DEF IInv, TypeOK
<1>4. SubmitOK(covers)
  <2>1. CASE /\ retone
             /\ MaybeSubmit([target |-> applied_target, mode |-> new_mode], None, TRUE,
                            covers, retry, last_submitted)
    <3>1. [target |-> applied_target, mode |-> new_mode] \in Desires
      BY <1>1, <1>3 DEF Desires
    <3> QED
      BY <1>2, <2>1, <3>1, InvariantTypes, MaybeSubmitOK
  <2>2. CASE /\ ~retone
             /\ target # None
             /\ MaybeSubmit(selection.desired, selection.winner, TRUE,
                            covers, retry, last_submitted)
    <3>1. selection.desired \in Desires /\ selection.winner \in Players \cup {None}
      BY <1>1, <1>3, <2>2, InvariantTypes, DecideType
    <3> QED
      BY <1>2, <2>2, <3>1, InvariantTypes, MaybeSubmitOK
  <2>3. CASE Keep(covers, retry, last_submitted)
    BY <1>2, <2>3, InvariantTypes, KeepOK
  <2> QED
    BY <2>1, <2>2, <2>3 DEF OnScheme
<1> QED
  BY <1>1, <1>2, <1>3, <1>4, InvariantTypes, SubmissionStep DEF IInv

\* Counting a failure yields a retry state of the desire submitted last.
LEMMA CountedType ==
    ASSUME retry \in Retries, last_submitted \in Desires \cup {None}
    PROVE  Counted \in Retries /\ Counted.desire = last_submitted
<1>1. CASE retry.desire = last_submitted
  <2>1. Counted = [retry EXCEPT !.attempt = retry.attempt + 1]
    BY <1>1 DEF Counted
  <2>2. retry.attempt \in Nat
    BY DEF Retries
  <2>3. retry.attempt + 1 \in Nat
    BY <2>2
  <2> QED
    BY <1>1, <2>1, <2>3 DEF Retries
<1>2. CASE retry.desire # last_submitted
  <2>1. Counted = [retry EXCEPT !.desire = last_submitted, !.attempt = 1]
    BY <1>2 DEF Counted
  <2> QED
    BY <2>1 DEF Retries
<1> QED
  BY <1>1, <1>2

\* Whatever a result says, adopting it changes the retry state and the cover
\* states in ways the final submission can start from.
LEMMA AdoptStep ==
    ASSUME IInv, NEW result, result.outcome \in Outcomes, Adopt(result)
    PROVE  StepOK
<1>1. CASE UNCHANGED cvars
  BY <1>1, UnchangedStep
<1>2. CASE /\ ~Stale(result)
           /\ \/ result.outcome \in {"Committed", "SkippedDuplicate"} /\ AdoptSuccess
              \/ result.outcome = "FailedRetryable" /\ AdoptFailure
              \/ result.outcome = "Rejected" /\ AdoptRejection
           /\ UNCHANGED <<players, seq, mode, stopping>>
  <2> DEFINE marked(status) == SetCoverStatus(covers, submitted_player, status)
  <2>1. UNCHANGED <<players, seq, mode, stopping>> /\ seq \in Nat /\ mode \in Modes
        /\ SeqBoundedBy(players, seq) /\ applied_target \in Targets \cup {None}
        /\ submitted_player \in Players \cup {None} /\ Keyed(players, covers)
    BY <1>2 DEF IInv, TypeOK
  <2>2. \A status \in CoverStatuses :
            marked(status) \in CoverMaps /\ Keyed(players, marked(status))
    BY <2>1, InvariantTypes, SetCoverStatusKeepsArt, SameArtKeyed
  <2>3. ASSUME NEW status \in CoverStatuses, NEW rt, Consistent(rt, last_submitted),
               applied_target' \in Targets \cup {None},
               DecideAndSubmit(players, marked(status), rt, last_submitted, FALSE)
        PROVE  StepOK
    <3>1. SubmitOK(marked(status))
      BY <2>1, <2>2, <2>3, InvariantTypes, DecideAndSubmitOK
    <3> QED
      BY <2>1, <2>2, <2>3, <3>1, InvariantTypes, SubmissionStep
  <2>4. CASE AdoptSuccess
    <3> DEFINE rt == [retry EXCEPT !.desire = None, !.attempt = 0]
    <3>1. Consistent(rt, last_submitted)
      BY InvariantTypes DEF Consistent, Retries
    <3>2. applied_target' \in Targets \cup {None}
      BY <2>4, InvariantTypes DEF AdoptSuccess, Consistent, Desires
    <3>3. DecideAndSubmit(players, marked("Ready"), rt, last_submitted, FALSE)
      BY <2>4 DEF AdoptSuccess
    <3>4. "Ready" \in CoverStatuses
      BY DEF CoverStatuses
    <3> QED
      BY <2>3, <3>1, <3>2, <3>3, <3>4
  <2>5. CASE AdoptFailure
    <3> DEFINE exhausted == Counted.attempt > RETRY_MAX_ATTEMPTS
               rt == IF exhausted THEN Counted
                     ELSE [Counted EXCEPT !.timer = TRUE, !.player = submitted_player]
               status == IF exhausted THEN "Exhausted" ELSE "Retrying"
    <3>1. Consistent(rt, last_submitted)
      <4>1. Counted \in Retries /\ Counted.desire = last_submitted
        BY CountedType, InvariantTypes DEF Consistent
      <4>2. rt \in Retries /\ rt.desire = last_submitted
        BY <2>1, <4>1 DEF Retries
      <4>3. ~stopping
        BY <1>2 DEF Stale
      <4> QED
        BY <4>2, <4>3, InvariantTypes DEF Consistent
    <3>2. status \in CoverStatuses
      BY DEF CoverStatuses
    <3>3. DecideAndSubmit(players, marked(status), rt, last_submitted, FALSE)
      BY <2>5 DEF AdoptFailure
    <3>4. applied_target' \in Targets \cup {None}
      BY <2>1, <2>5 DEF AdoptFailure
    <3> QED
      BY <2>3, <3>1, <3>2, <3>3, <3>4
  <2>6. CASE AdoptRejection
    <3>1. DecideAndSubmit(players, marked("Rejected"), retry, last_submitted, FALSE)
          /\ applied_target' = applied_target
      BY <2>6 DEF AdoptRejection
    <3>2. "Rejected" \in CoverStatuses
      BY DEF CoverStatuses
    <3> QED
      BY <2>1, <2>3, <3>1, <3>2, InvariantTypes
  <2> QED
    BY <1>2, <2>4, <2>5, <2>6
<1> QED
  BY <1>1, <1>2 DEF Adopt

\* A retry resubmits the last decided desire, so the slot still holds the newest.
LEMMA FireRetryStep ==
    ASSUME IInv, FireRetry
    PROVE  StepOK
<1> DEFINE disarmed == [retry EXCEPT !.timer = FALSE]
<1>1. retry' = disarmed /\ retry.timer
      /\ UNCHANGED <<players, covers, seq, mode, applied_target, last_desired,
                     last_submitted, stopping>>
  BY DEF FireRetry, ConsumeTimer
<1>2. disarmed \in Retries /\ disarmed.desire = retry.desire /\ ~disarmed.timer
      /\ retry.player \in Players \cup {None}
      /\ retry.desire \in Desires \cup {None}
  BY InvariantTypes DEF Consistent, Retries
<1>3. ~stopping
  BY <1>1, InvariantTypes DEF Consistent
<1>4. Consistent(retry, last_submitted)'
  BY <1>1, <1>2, InvariantTypes DEF Consistent
<1>5. /\ generation' \in Nat /\ generation' >= generation
      /\ submitted_player' \in Players \cup {None}
      /\ mailbox' \in Jobs \cup {None}
      /\ SlotHoldsNewestDesire'
  <2>1. CASE retry.desire = None \/ last_desired # retry.desire
    <3>1. UNCHANGED <<generation, submitted_player, mailbox>>
      BY <2>1 DEF FireRetry
    <3> QED
      BY <1>1, <3>1, InvariantTypes DEF SubmitType, SlotHoldsNewestDesire
  <2>2. CASE ~(retry.desire = None \/ last_desired # retry.desire)
    <3>1. generation' = generation + 1 /\ submitted_player' = retry.player
          /\ mailbox' = Job(generation + 1, retry.desire)
      BY <1>3, <2>2 DEF FireRetry
    <3>2. generation + 1 \in Nat /\ generation + 1 >= generation
      BY InvariantTypes DEF SubmitType
    <3> QED
      BY <1>1, <1>2, <2>2, <3>1, <3>2, JobType DEF SlotHoldsNewestDesire
  <2> QED
    BY <2>1, <2>2
<1>6. TypeOK'
  BY <1>1, <1>4, <1>5 DEF IInv, TypeOK, Consistent
<1>7. IInv'
  BY <1>1, <1>3, <1>4, <1>5, <1>6 DEF IInv, SeqBoundedBy, Keyed, WaitingIsStale
<1> QED
  BY <1>1, <1>3, <1>5, <1>7 DEF StepOK

\* Entering shutdown keeps the invariant.
LEMMA BeginShutdownStep ==
    ASSUME IInv, BeginShutdown
    PROVE  StepOK
<1>1. /\ stopping' = TRUE
      /\ generation' = generation + 1
      /\ covers' = Demoted(covers, retry)
      /\ retry' = NoRetry
      /\ UNCHANGED <<players, seq, mode, applied_target, last_desired,
                     last_submitted, submitted_player, mailbox>>
  BY DEF BeginShutdown, CancelRetry
<1>2. covers' \in CoverMaps /\ SameArt(covers, covers')
  BY <1>1, InvariantTypes, DemotedKeepsArt DEF Consistent
<1>3. NoRetry \in Retries /\ NoRetry.desire = None /\ ~NoRetry.timer
  BY DEF NoRetry, Retries
<1>4. generation' \in Nat /\ generation' > generation
  BY <1>1, InvariantTypes DEF SubmitType
<1>5. Keyed(players', covers')
  BY <1>1, <1>2, SameArtKeyed DEF IInv
<1>6. Consistent(retry, last_submitted)'
  BY <1>1, <1>3, InvariantTypes DEF Consistent
<1>7. SlotHoldsNewestDesire'
  BY <1>1 DEF SlotHoldsNewestDesire
<1>8. TypeOK'
  BY <1>1, <1>2, <1>4, <1>6 DEF IInv, TypeOK, Consistent, CoverMaps
<1>9. WaitingIsStale'
  <2>1. mailbox' # None => mailbox.generation \in Nat /\ mailbox.generation <= generation
    BY <1>1 DEF IInv, TypeOK, Jobs, SlotHoldsNewestDesire, WaitingIsStale
  <2> QED
    BY <1>1, <2>1, InvariantTypes DEF WaitingIsStale, SubmitType
<1>10. IInv'
  BY <1>1, <1>5, <1>6, <1>7, <1>8, <1>9 DEF IInv, SeqBoundedBy
<1> QED
  BY <1>1, <1>3, <1>4, <1>10, InvariantTypes DEF StepOK, SubmitType

\* The worker emptying the slot keeps the invariant.
LEMMA TakeStep ==
    ASSUME IInv, Take
    PROVE  StepOK
<1>1. IInv'
  BY DEF IInv, TypeOK, SeqBoundedBy, Consistent, SlotHoldsNewestDesire, Keyed,
         WaitingIsStale, Take
<1> QED
  BY <1>1, InvariantTypes DEF StepOK, SubmitType, Take, Consistent

-----------------------------------------------------------------------------
\* The theorems.

\* The invariant holds initially.
LEMMA InitIInv == Init => IInv
<1> SUFFICES ASSUME Init PROVE IInv
  OBVIOUS
<1>1. NoRetry \in Retries /\ NoRetry.desire = None /\ ~NoRetry.timer
  BY DEF NoRetry, Retries
<1>2. TypeOK
  BY <1>1 DEF Init, TypeOK
<1>3. SeqBoundedBy(players, seq) /\ Keyed(players, covers)
  BY DEF Init, SeqBoundedBy, Keyed
<1>4. Consistent(retry, last_submitted) /\ SlotHoldsNewestDesire /\ WaitingIsStale
  BY <1>1 DEF Init, Consistent, SlotHoldsNewestDesire, WaitingIsStale
<1> QED
  BY <1>2, <1>3, <1>4 DEF IInv

\* Every step keeps the invariant and the promises about steps.
LEMMA NextStep == IInv /\ [Next]_cvars => StepOK
<1> SUFFICES ASSUME IInv, [Next]_cvars PROVE StepOK
  OBVIOUS
<1>1. CASE \E name \in Players, status \in Statuses, art_url \in Urls \cup {NoUrl} :
              OnLine(name, status, art_url)
  BY <1>1, OnLineStep
<1>2. CASE \E name \in Players : OnVanish(name)
  BY <1>2, OnVanishStep
<1>3. CASE \E value \in ColorSchemes : OnScheme(value)
  BY <1>3, OnSchemeStep
<1>4. CASE \E gen \in 0..generation, outcome \in Outcomes :
              Adopt([generation |-> gen, outcome |-> outcome])
  BY <1>4, AdoptStep
<1>5. CASE FireRetry
  BY <1>5, FireRetryStep
<1>6. CASE BeginShutdown
  BY <1>6, BeginShutdownStep
<1>7. CASE Take
  BY <1>7, TakeStep
<1>8. CASE UNCHANGED cvars
  BY <1>8, UnchangedStep
<1> QED
  BY <1>1, <1>2, <1>3, <1>4, <1>5, <1>6, <1>7, <1>8 DEF Next

\* The strengthened invariant is inductive and holds in every reachable state.
THEOREM Invariant == Spec => []IInv
<1>1. IInv /\ [Next]_cvars => IInv'
  BY NextStep DEF StepOK
<1> QED
  BY InitIInv, <1>1, PTL DEF Spec

\* The coordinator's state keeps the types of its Rust declarations, whatever the
\* players, the portal and the worker do.
THEOREM TypeCorrectness == Spec => []TypeOK
<1>1. IInv => TypeOK
  BY DEF IInv
<1> QED
  BY Invariant, <1>1, PTL

\* The retry state belongs to the last decided desire: fire_retry's second guard
\* is unreachable, as the comment beside it claims and no test shows.
THEOREM RetryBelongsToDesire == Spec => []RetryIsForLastDesired
<1>1. IInv => RetryIsForLastDesired
  BY DEF IInv, Consistent, RetryIsForLastDesired
<1> QED
  BY Invariant, <1>1, PTL

\* While the daemon runs, the waiting job is the newest desire under the newest
\* generation.
THEOREM SlotIsNewest == Spec => []SlotHoldsNewestDesire
<1>1. IInv => SlotHoldsNewestDesire
  BY DEF IInv
<1> QED
  BY Invariant, <1>1, PTL

\* A player has a cover state exactly while it has an art source, keyed on it.
THEOREM CoversAreKeyed == Spec => []CoverKeyedOnArt
<1>1. IInv => CoverKeyedOnArt
  BY DEF IInv, Keyed, CoverKeyedOnArt
<1> QED
  BY Invariant, <1>1, PTL

\* Every change of the desired value opens a new generation, so no result of an
\* older desire passes adopt's check.
THEOREM DesireChangesBump == Spec => DesireChangeBumpsGeneration
<1>1. IInv /\ [Next]_cvars =>
          [last_desired' # last_desired => generation' > generation]_cvars
  BY NextStep DEF StepOK
<1> QED
  BY Invariant, <1>1, PTL DEF Spec, DesireChangeBumpsGeneration

\* After begin_shutdown nothing reaches the worker and no timer is armed, and what
\* was handed out before it is of an older generation for good.
THEOREM ShutdownStaysFinal == Spec => ShutdownIsFinal
<1> DEFINE final == /\ generation' >= generation
                    /\ stopping => /\ stopping'
                                   /\ mailbox' \in {mailbox, None}
                                   /\ ~retry'.timer
                    /\ ~stopping /\ stopping' => generation' > generation
                    /\ stopping' /\ mailbox' # None => mailbox'.generation < generation'
<1>1. IInv /\ [Next]_cvars => [final]_cvars
  BY NextStep DEF StepOK, IInv, WaitingIsStale
<1> QED
  BY Invariant, <1>1, PTL DEF Spec, ShutdownIsFinal
=============================================================================
