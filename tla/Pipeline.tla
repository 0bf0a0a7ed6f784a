------------------------------ MODULE Pipeline -------------------------------
(***************************************************************************)
(* The running daemon: the coordinator on the event-loop thread, the       *)
(* one-slot mailbox, the worker thread (src/src/worker.rs) and the event   *)
(* channel (src/src/runtime.rs), with wlchroma at the far end.             *)
(*                                                                         *)
(* The channel is FIFO and carries the external events too.  Only the      *)
(* worker's results are kept in it: an external event is taken from the    *)
(* environment when the loop handles it, which orders it against the       *)
(* results in every way the channel can.                                   *)
(***************************************************************************)
EXTENDS Coordinator, Sequences

CONSTANTS
    Contents,     \* identities of cover bytes
    ContentOf,    \* the content an art URL resolves to
    DirContents,  \* what a covers directory may hold from one scan to the next
    Faults,       \* the failures the environment may produce
    EVENT_QUEUE   \* capacity of the event channel

\* "retryable", "rejected": resolve's verdicts; "panic": a bug in a stage;
\* "ctl": wlchroma-ctl fails and changes nothing; "ctl_late": it is reported
\* failed (killed at its timeout) but wlchroma performs the command; "startup":
\* the revert at startup fails and what an earlier run applied stays on screen.
FaultKinds == {"retryable", "rejected", "panic", "ctl", "ctl_late", "startup"}

ASSUME PipelineAssumption ==
    /\ ContentOf \in [Urls -> Contents]
    /\ DirContents \subseteq Contents
    /\ None \notin Contents
    /\ Faults \subseteq FaultKinds
    /\ EVENT_QUEUE \in Nat \ {0}

VARIABLES
    stage,           \* where the worker is in run_once
    job,             \* the job it runs (or ran last), None before the first
    content_id,      \* what resolve returned for it, None for a revert
    outcome,         \* how the job ended, while it is being reported
    last_committed,  \* the worker's dedup key
    shown,           \* what wlchroma shows
    results          \* the worker results in the event channel

wvars == <<stage, job, content_id, outcome, last_committed, shown, results>>
vars == <<cvars, wvars>>

Stages == {"idle", "start", "extract", "ctl", "report"}

\* Content None is the config preset, whose look does not depend on the mode.
Palettes == [content : Contents \cup {None}, mode : Modes]

\* desired is not in the Rust struct: it names the job a result is of, for the
\* properties to speak about.
JobResults == [generation : Nat, outcome : Outcomes, desired : Desires]

PInit ==
    /\ Init
    /\ stage = "idle"
    /\ job = None
    /\ content_id = None
    /\ outcome = None
    /\ last_committed = [content |-> None, mode |-> mode]
    /\ shown \in IF "startup" \in Faults THEN Palettes ELSE {last_committed}
    /\ results = <<>>

-----------------------------------------------------------------------------
\* The worker thread.

Superseded == mailbox # None /\ mailbox.generation > job.generation

\* Mutant: the dedup key does not carry the job's mode.
KeyWithoutMode(content) == [content |-> content, mode |-> last_committed.mode]

Key(content) == [content |-> content, mode |-> job.desired.mode]

Finish(result) ==
    /\ stage' = "report"
    /\ outcome' = result
    /\ UNCHANGED job

\* A superseded job is dropped without a result.
DropJob ==
    /\ stage' = "idle"
    /\ UNCHANGED <<job, outcome>>

Proceed(next) ==
    /\ stage' = next
    /\ UNCHANGED <<job, outcome>>

\* Mailbox::get.
WorkerTake ==
    /\ stage = "idle"
    /\ Take
    /\ job' = mailbox
    /\ stage' = "start"
    /\ content_id' = None
    /\ UNCHANGED <<outcome, last_committed, shown, results>>

\* Dedup on the last commit, then drop the job if a newer one waits.
DedupThen(content, next) ==
    /\ content_id' = content
    /\ \/ last_committed = Key(content) /\ Finish("SkippedDuplicate")
       \/ last_committed # Key(content) /\ Superseded /\ DropJob
       \/ last_committed # Key(content) /\ ~Superseded /\ Proceed(next)

StartRevert ==
    /\ stage = "start"
    /\ job.desired.target = None
    /\ DedupThen(None, "ctl")
    /\ UNCHANGED <<cvars, last_committed, shown, results>>

Resolvable(target) ==
    IF target.art_url # NoUrl THEN {ContentOf[target.art_url]} ELSE DirContents

Resolve ==
    /\ stage = "start"
    /\ job.desired.target # None
    /\ \/ /\ Faults \cap {"retryable", "panic"} # {}
          /\ content_id' = None
          /\ Finish("FailedRetryable")
       \/ /\ "rejected" \in Faults
          /\ content_id' = None
          /\ Finish("Rejected")
       \/ \E content \in Resolvable(job.desired.target) : DedupThen(content, "extract")
    /\ UNCHANGED <<cvars, last_committed, shown, results>>

\* Mutant: a panic ends the job without a result.
ExtractLosesPanic ==
    /\ stage = "extract"
    /\ \/ Superseded /\ DropJob
       \/ ~Superseded /\ Proceed("ctl")
       \/ "panic" \in Faults /\ DropJob
    /\ UNCHANGED <<cvars, content_id, last_committed, shown, results>>

\* The palette is computed, then the mailbox is looked at once more.
Extract ==
    /\ stage = "extract"
    /\ \/ Superseded /\ DropJob
       \/ ~Superseded /\ Proceed("ctl")
       \/ "panic" \in Faults /\ Finish("FailedRetryable")
    /\ UNCHANGED <<cvars, content_id, last_committed, shown, results>>

\* The bounded wlchroma-ctl call of an apply or a revert.
CallCtl ==
    /\ stage = "ctl"
    /\ \/ /\ shown' = Key(content_id)
          /\ last_committed' = Key(content_id)
          /\ Finish("Committed")
       \/ /\ "ctl" \in Faults
          /\ Finish("FailedRetryable")
          /\ UNCHANGED <<shown, last_committed>>
       \/ /\ "ctl_late" \in Faults
          /\ shown' = Key(content_id)
          /\ Finish("FailedRetryable")
          /\ UNCHANGED last_committed
    /\ UNCHANGED <<cvars, content_id, results>>

\* Mutant: an unbounded channel.
ReportUnbounded ==
    /\ stage = "report"
    /\ results' = Append(results, [generation |-> job.generation, outcome |-> outcome,
                                   desired |-> job.desired])
    /\ stage' = "idle"
    /\ outcome' = None
    /\ UNCHANGED <<cvars, job, content_id, last_committed, shown>>

\* The blocking send into the bounded channel.
Report ==
    /\ stage = "report"
    /\ Len(results) < EVENT_QUEUE
    /\ results' = Append(results, [generation |-> job.generation, outcome |-> outcome,
                                   desired |-> job.desired])
    /\ stage' = "idle"
    /\ outcome' = None
    /\ UNCHANGED <<cvars, job, content_id, last_committed, shown>>

Worker == WorkerTake \/ StartRevert \/ Resolve \/ Extract \/ CallCtl \/ Report

-----------------------------------------------------------------------------
\* The event loop.

Line(name, status, art_url) == OnLine(name, status, art_url) /\ UNCHANGED wvars
Vanish(name) == OnVanish(name) /\ UNCHANGED wvars
Scheme(value) == OnScheme(value) /\ UNCHANGED wvars
TimerFires == FireRetry /\ UNCHANGED wvars

Deliver ==
    /\ results # <<>>
    /\ Adopt(Head(results))
    /\ results' = Tail(results)
    /\ UNCHANGED <<stage, job, content_id, outcome, last_committed, shown>>

PNext ==
    \/ \E name \in Players, status \in Statuses, art_url \in Urls \cup {NoUrl} :
          Line(name, status, art_url)
    \/ \E name \in Players : Vanish(name)
    \/ \E value \in ColorSchemes : Scheme(value)
    \/ TimerFires
    \/ Deliver
    \/ Worker

PSpec == PInit /\ [][PNext]_vars

\* The worker thread and the event loop keep running; nothing obliges a player,
\* the portal or the bus to do anything.
Fairness == WF_vars(Worker) /\ WF_vars(Deliver) /\ WF_vars(TimerFires)

-----------------------------------------------------------------------------
\* What the properties speak about.

Selected == Decide(players, covers, mode)
Winner == IF Selected = Hold THEN None ELSE Selected.winner

Answers == {[generation |-> results[i].generation, desired |-> results[i].desired] :
               i \in DOMAIN results}

\* The jobs waiting, running, or done with their result not yet adopted.
InFlight ==
    Answers \cup (IF mailbox # None THEN {mailbox} ELSE {})
            \cup (IF stage # "idle" THEN {job} ELSE {})

CurrentInFlight == \E j \in InFlight : j.generation = generation

Quiet == InFlight = {} /\ ~retry.timer

ShowsPreset == shown.content = None

\* wlchroma shows what selection wants.
Satisfied ==
    LET target == Selected.desired.target
    IN  IF target = None THEN ShowsPreset
        ELSE shown.content \in Resolvable(target) /\ shown.mode = mode

-----------------------------------------------------------------------------
\* Properties.

\* The worker's and the channel's state have the types the Rust declares.
PTypeOK ==
    /\ stage \in Stages
    /\ job \in Jobs \cup {None}
    /\ content_id \in Contents \cup {None}
    /\ outcome \in Outcomes \cup {None}
    /\ last_committed \in Palettes
    /\ shown \in Palettes
    /\ results \in Seq(JobResults)
    /\ Len(results) <= EVENT_QUEUE

\* A result that passes adopt's generation check is a result of the desire the
\* coordinator decided last, whichever of the jobs in flight it comes from: the
\* generation names the desire although a JobResult does not carry it.
OneDesirePerGeneration ==
    \A j \in InFlight : j.generation = generation => j.desired = last_desired

\* Jobs reach wlchroma in generation order: a result is never newer than the
\* job running, the running job never newer than the waiting one, and nothing
\* is newer than the coordinator.
GenerationsInOrder ==
    /\ \A i, k \in DOMAIN results :
          i < k => results[i].generation <= results[k].generation
    /\ job # None =>
          /\ \A i \in DOMAIN results : results[i].generation <= job.generation
          /\ job.generation <= generation
          /\ mailbox # None => job.generation <= mailbox.generation
    /\ mailbox # None => mailbox.generation <= generation

\* A selected player that is Retrying is being served: its job is in flight, or
\* the armed timer is for exactly the desire selection wants.  Cancellations,
\* superseded jobs and results dropped as stale never lose the retry.  (Two players
\* may name one cover: then the job may have been booked on the other one.)
RetryingWinnerIsServed ==
    /\ Winner # None
    /\ covers[Winner].status = "Retrying"
    /\ Selected.desired = last_submitted => submitted_player = Winner
    => CurrentInFlight \/ (retry.timer /\ retry.desire = Selected.desired)

\* When nothing plays and nothing is left to do, wlchroma shows the preset,
\* unless the revert itself failed once more than it is retried.
RevertedUnlessGivenUp ==
    Quiet /\ Selected # Hold /\ Winner = None /\ ~ShowsPreset =>
        /\ retry.desire # None
        /\ retry.desire.target = None
        /\ retry.attempt > RETRY_MAX_ATTEMPTS

\* "A skipped duplicate means wlchroma already shows this content+mode": a job is
\* skipped as a duplicate of the last commit only when wlchroma shows what it asks for.
SkipMeansShown ==
    [][outcome # outcome' /\ outcome' = "SkippedDuplicate" =>
          /\ shown.content = content_id'
          /\ content_id' # None => shown.mode = job.desired.mode]_vars

\* Retries are bounded: once the players, the portal and the bus fall silent,
\* the daemon comes to rest with no job in flight and no timer armed.
Settles == <>[]Quiet

\* When no job fails, once events stop wlchroma ends up showing what selection
\* wants, or selection holds whatever is shown.
Converges ==
    [](outcome \notin {"FailedRetryable", "Rejected"}) => <>[](Selected = Hold \/ Satisfied)

\* A result changes the status of a cover only if it is a result for that cover:
\* "a stale result can never corrupt state".
ResultMarksItsOwnCover ==
    [][\A n \in Players :
          /\ results # <<>>
          /\ results' = Tail(results)
          /\ covers[n] # None
          /\ covers'[n] # covers[n]
          /\ covers'[n].status = "Rejected"
          => /\ Head(results).desired.target # None
             /\ covers[n].identity =
                   ArtIdentity(n, Head(results).desired.target.art_url)]_vars

\* A Pending cover is resolved on selection: while its player is the winner, what
\* it wants is shown, or a job is in flight, or a retry is armed.
PendingWinnerIsAttempted ==
    Winner # None /\ covers[Winner].status = "Pending" =>
        Satisfied \/ CurrentInFlight \/ retry.timer
=============================================================================
