------------------------------- MODULE Stages --------------------------------
(***************************************************************************)
(* The blocking stages of one worker job, with the clock running: the      *)
(* download of a remote cover and the wlchroma-ctl call, as DaemonStages   *)
(* of src/src/daemon.rs and run_once of src/src/worker.rs string them      *)
(* together, and the stop that the daemon's shutdown asks for meanwhile.   *)
(***************************************************************************)
EXTENDS Fetch, Command

CONSTANTS
    FirstUrls,  \* art URLs a player may name
    Rendered    \* a palette render_palette makes

\* A palette is rendered as well-formed colours.  The limits are those of the code in
\* proportion: lookup, connect, request and head of one hop fit into the deadline.
ASSUME StagesAssumption ==
    /\ FirstUrls \subseteq FetchUrls
    /\ Rendered \in Seq(Colours)
    /\ WellFormed(Rendered)
    /\ 4 * DOWNLOAD_TIMEOUT <= DOWNLOAD_DEADLINE
    /\ Never >= 2 * DOWNLOAD_DEADLINE

VARIABLE job  \* the kind of the worker's job, then how it ended

svars == <<timevars, dvars, ctlvars, job>>

Outcomes == {"Committed", "FailedRetryable", "Rejected"}

StagesInit ==
    /\ ClockInit
    /\ FetchInit
    /\ CommandInit
    /\ job \in {"cover", "revert"}

-----------------------------------------------------------------------------
ResolveCover ==
    /\ job = "cover"
    /\ \E first \in FirstUrls : StartFetch(first)
    /\ UNCHANGED <<ctlvars, job>>

Downloads ==
    /\ job = "cover"
    /\ Download
    /\ UNCHANGED <<ctlvars, job>>

DownloadFailed ==
    /\ job = "cover"
    /\ phase = "over"
    /\ fetched # "ok"
    /\ job' = Classify(fetched)
    /\ UNCHANGED <<timevars, dvars, ctlvars>>

\* The cover is stored and its palette computed; no newer job waits.
ApplyPalette ==
    /\ job = "cover"
    /\ fetched = "ok"
    /\ Apply(Rendered)
    /\ UNCHANGED <<dvars, job>>

RevertPalette ==
    /\ job = "revert"
    /\ Revert
    /\ UNCHANGED <<dvars, job>>

CallGoesOn ==
    /\ Call
    /\ UNCHANGED <<dvars, job>>

CallEnds ==
    /\ job \in {"cover", "revert"}
    /\ call = "done"
    /\ job' = IF answer = "ok" THEN "Committed" ELSE "FailedRetryable"
    /\ UNCHANGED <<timevars, dvars, ctlvars>>

\* The worker takes its next job, or finds the mailbox closed.
JobOver == job \in Outcomes /\ UNCHANGED svars

StagesNext ==
    \/ ResolveCover
    \/ Downloads
    \/ DownloadFailed
    \/ ApplyPalette
    \/ RevertPalette
    \/ CallGoesOn
    \/ CallEnds
    \/ JobOver

StagesSpec == StagesInit /\ [][StagesNext]_svars

-----------------------------------------------------------------------------
\* Properties.

\* The stages' state has the types the Rust declares.
StagesTypeOK ==
    /\ clock \in Nat
    /\ stop_at \in 0 .. Never
    /\ FetchTypeOK
    /\ CommandTypeOK
    /\ job \in Outcomes \cup {"cover", "revert"}

\* A server that redirects and drips keeps the worker no longer than twice the
\* deadline: the last look at the clock is no later than the deadline, and the
\* request or the read after it has a limit of its own.
DownloadBounded == call = "idle" => clock <= 2 * DOWNLOAD_DEADLINE

\* A stop that finds the body arriving, or a revert, costs at most the read under
\* way and one ctl call: "a stop flag polled per chunk so shutdown does not wait out
\* a download".
StopCostsOneReadAndOneCall ==
    job = "revert" \/ head_at <= stop_at =>
        clock <= Max({stop_at, across}) + CTL_TIMEOUT

\* What a job may take of the worker, with and without a stop.
JobTimeBounded == DownloadBounded /\ StopCostsOneReadAndOneCall
=============================================================================
