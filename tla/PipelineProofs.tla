--------------------------- MODULE PipelineProofs ---------------------------
(***************************************************************************)
(* Theorems about the running daemon and its shutdown, for every instance  *)
(* and every set of faults that their statements do not except: it is one  *)
(* of the environments the coordinator was proved against, the generation  *)
(* of a job names its desire, and a shutdown leaves nothing behind.        *)
(***************************************************************************)
EXTENDS Lifecycle, CoordinatorProofs, SequenceTheorems

\* A job of the newest generation is a job for the last decided desire, and no job
\* is newer than that.
Versioned(j) ==
    /\ j.generation <= generation
    /\ j.generation = generation => j.desired = last_desired

\* OneDesirePerGeneration, place by place where a job may be, and what the
\* worker's variables are beside their types: a job that is run or answered exists,
\* and it has an outcome when it is reported.
WorkerInv ==
    /\ \A i \in 1..Len(results) : Versioned(results[i])
    /\ mailbox # None => Versioned(mailbox)
    /\ stage # "idle" => job # None /\ Versioned(job)
    /\ stage = "report" => outcome \in Outcomes
    /\ Len(results) > 0 => job # None

\* GenerationsInOrder, on the positions of the channel.
Ordered ==
    /\ \A i, k \in 1..Len(results) :
          i < k => results[i].generation <= results[k].generation
    /\ job # None =>
          /\ \A i \in 1..Len(results) : results[i].generation <= job.generation
          /\ job.generation <= generation
          /\ mailbox # None => job.generation <= mailbox.generation

\* The inductive invariant.  The pipeline as such never stops: that is Lifecycle's.
PInv ==
    /\ IInv
    /\ ~stopping
    /\ PTypeOK
    /\ WorkerInv
    /\ Ordered

-----------------------------------------------------------------------------
\* The generation only grows.

\* A submission opens at most one new generation.
LEMMA MaybeSubmitGrows ==
    ASSUME generation \in Nat, NEW desired, NEW player, NEW dir_resubmit,
           NEW cs, NEW rt, NEW ls,
           MaybeSubmit(desired, player, dir_resubmit, cs, rt, ls)
    PROVE  generation' >= generation
BY DEF MaybeSubmit, Keep

\* So does a selection followed by one.
LEMMA DecideAndSubmitGrows ==
    ASSUME generation \in Nat, NEW ps, NEW cs, NEW rt, NEW ls, NEW dir_resubmit,
           DecideAndSubmit(ps, cs, rt, ls, dir_resubmit)
    PROVE  generation' >= generation
BY MaybeSubmitGrows DEF DecideAndSubmit, Keep

\* Adopting a result never takes the generation back.
LEMMA AdoptGrows ==
    ASSUME generation \in Nat, NEW result, Adopt(result)
    PROVE  generation' >= generation
<1>1. CASE UNCHANGED cvars
  BY <1>1 DEF cvars
<1>2. CASE AdoptSuccess
  BY <1>2, DecideAndSubmitGrows DEF AdoptSuccess
<1>3. CASE AdoptFailure
  BY <1>3, DecideAndSubmitGrows DEF AdoptFailure
<1>4. CASE AdoptRejection
  BY <1>4, DecideAndSubmitGrows DEF AdoptRejection
<1> QED
  BY <1>1, <1>2, <1>3, <1>4 DEF Adopt

\* Nor does any other event the loop handles.
LEMMA EventGrows ==
    ASSUME generation \in Nat,
           \/ \E name \in Players, status \in Statuses, art_url \in Urls \cup {NoUrl} :
                 OnLine(name, status, art_url)
           \/ \E name \in Players : OnVanish(name)
           \/ \E value \in ColorSchemes : OnScheme(value)
           \/ FireRetry
    PROVE  generation' >= generation
<1>1. ASSUME NEW name \in Players, NEW status \in Statuses,
             NEW art_url \in Urls \cup {NoUrl}, OnLine(name, status, art_url)
      PROVE  generation' >= generation
  BY <1>1, DecideAndSubmitGrows DEF OnLine
<1>2. ASSUME NEW name \in Players, OnVanish(name)
      PROVE  generation' >= generation
  BY <1>2, DecideAndSubmitGrows DEF OnVanish
<1>3. ASSUME NEW value \in ColorSchemes, OnScheme(value)
      PROVE  generation' >= generation
  <2>1. CASE \E desired, player :
                MaybeSubmit(desired, player, TRUE, covers, retry, last_submitted)
    BY <2>1, MaybeSubmitGrows
  <2>2. CASE Keep(covers, retry, last_submitted)
    BY <2>2 DEF Keep
  <2> QED
    BY <1>3, <2>1, <2>2, Zenon DEF OnScheme
<1>4. CASE FireRetry
  BY <1>4 DEF FireRetry
<1> QED
  BY <1>1, <1>2, <1>3, <1>4

-----------------------------------------------------------------------------
\* What the jobs in flight have to do with the coordinator.

\* The types the steps below need.
LEMMA JobTypes ==
    ASSUME IInv, PTypeOK
    PROVE  /\ generation \in Nat
           /\ \A i \in 1..Len(results) : results[i] \in JobResults
           /\ \A i \in 1..Len(results) : results[i].generation \in Nat
           /\ job # None => job \in Jobs /\ job.generation \in Nat
           /\ mailbox # None => mailbox \in Jobs /\ mailbox.generation \in Nat
<1>1. \A i \in 1..Len(results) : results[i] \in JobResults
  BY ElementOfSeq DEF PTypeOK
<1>2. \A r \in JobResults : r.generation \in Nat
  BY DEF JobResults
<1>3. \A j \in Jobs : j.generation \in Nat
  BY DEF Jobs
<1>4. job # None => job \in Jobs
  BY DEF PTypeOK
<1>5. generation \in Nat /\ (mailbox # None => mailbox \in Jobs)
  BY DEF IInv, TypeOK
<1> QED
  BY <1>1, <1>2, <1>3, <1>4, <1>5

\* The properties of the runs follow from the invariant.
LEMMA InvariantImplies ==
    ASSUME PInv
    PROVE  OneDesirePerGeneration /\ GenerationsInOrder
<1>1. DOMAIN results = 1..Len(results)
  BY DEF PInv, PTypeOK
<1>2. OneDesirePerGeneration
  <2> SUFFICES ASSUME NEW j \in InFlight, j.generation = generation
               PROVE  j.desired = last_desired
    BY DEF OneDesirePerGeneration
  <2>1. CASE j \in Answers
    <3>1. PICK i \in 1..Len(results) :
              j = [generation |-> results[i].generation, desired |-> results[i].desired]
      BY <1>1, <2>1 DEF Answers
    <3> QED
      BY <3>1 DEF PInv, WorkerInv, Versioned
  <2>2. CASE mailbox # None /\ j = mailbox
    BY <2>2 DEF PInv, WorkerInv, Versioned
  <2>3. CASE stage # "idle" /\ j = job
    BY <2>3 DEF PInv, WorkerInv, Versioned
  <2> QED
    BY <2>1, <2>2, <2>3 DEF InFlight
<1>3. GenerationsInOrder
  BY <1>1 DEF PInv, WorkerInv, Versioned, Ordered, GenerationsInOrder
<1> QED
  BY <1>2, <1>3

\* What a handler of the event loop leaves to the properties of the jobs: the slot
\* holds the newest desire, and an older desire has an older generation.
LEMMA CoordinatorStep ==
    ASSUME PInv, ~stopping', StepOK, generation' >= generation
    PROVE  /\ generation \in Nat /\ generation' \in Nat
           /\ mailbox' # None => mailbox'.generation = generation' /\ Versioned(mailbox)'
           /\ \A j : Versioned(j) /\ j.generation \in Nat =>
                  /\ j.generation <= generation'
                  /\ j.generation = generation' => j.desired = last_desired'
<1>1. IInv' /\ generation \in Nat /\ generation' \in Nat
  BY DEF PInv, StepOK, IInv, TypeOK
<1>2. mailbox' # None => mailbox'.generation = generation' /\ mailbox'.desired = last_desired'
  BY <1>1 DEF IInv, SlotHoldsNewestDesire
<1>3. generation' = generation => last_desired' = last_desired
  BY <1>1 DEF StepOK
<1> QED
  BY <1>1, <1>2, <1>3 DEF Versioned

\* A handler that leaves the worker and the channel alone.
LEMMA EventStep ==
    ASSUME PInv, StepOK, generation' >= generation, stopping' = stopping, UNCHANGED wvars
    PROVE  PInv'
<1>1. /\ generation \in Nat /\ generation' \in Nat
      /\ mailbox' # None => mailbox'.generation = generation' /\ Versioned(mailbox)'
      /\ \A j : Versioned(j) /\ j.generation \in Nat =>
             /\ j.generation <= generation'
             /\ j.generation = generation' => j.desired = last_desired'
  BY CoordinatorStep DEF PInv
<1>2. PTypeOK'
  BY DEF PInv, PTypeOK, wvars
<1>3. UNCHANGED <<stage, job, outcome, results>>
  BY DEF wvars
<1>4. WorkerInv'
  BY <1>1, <1>3, JobTypes DEF PInv, WorkerInv, Versioned
<1>5. Ordered'
  BY <1>1, <1>3, JobTypes DEF PInv, Ordered
<1> QED
  BY <1>2, <1>4, <1>5 DEF PInv, StepOK

-----------------------------------------------------------------------------
\* The worker.

\* A step inside run_once: the job, the slot and the channel are left alone.
LEMMA RunStep ==
    ASSUME PInv, PTypeOK', UNCHANGED <<cvars, job, results>>, stage # "idle",
           stage' = "report" => outcome' \in Outcomes
    PROVE  PInv'
<1>1. IInv' /\ ~stopping'
  BY UnchangedStep DEF PInv, StepOK, cvars
<1>2. WorkerInv'
  BY DEF PInv, WorkerInv, Versioned, cvars
<1>3. Ordered'
  BY DEF PInv, Ordered, cvars
<1> QED
  BY <1>1, <1>2, <1>3 DEF PInv

\* The outcomes and steps the worker's actions name.
LEMMA OutcomeTypes ==
    /\ {"SkippedDuplicate", "FailedRetryable", "Rejected", "Committed"} = Outcomes
    /\ {"idle", "start", "extract", "ctl", "report"} = Stages
BY DEF Outcomes, Stages

\* The dedup leaves the worker in a step of the job, or between two jobs.
LEMMA DedupStep ==
    ASSUME PInv, stage = "start", UNCHANGED <<cvars, last_committed, shown, results>>,
           NEW content \in Contents \cup {None}, NEW next \in {"extract", "ctl"},
           DedupThen(content, next)
    PROVE  PInv'
<1>1. /\ job' = job
      /\ content_id' = content
      /\ \/ stage' = "report" /\ outcome' = "SkippedDuplicate"
         \/ stage' \in {"idle", next} /\ outcome' = outcome
  BY DEF DedupThen, Finish, DropJob, Proceed
<1>2. PTypeOK'
  BY <1>1, OutcomeTypes DEF PInv, PTypeOK
<1> QED
  BY <1>1, <1>2, RunStep, OutcomeTypes

\* The key a commit leaves is the identity and mode of the job.
LEMMA KeyType ==
    ASSUME PInv, stage # "idle", NEW content \in Contents \cup {None}
    PROVE  Key(content) \in Palettes
<1>1. job \in Jobs
  BY DEF PInv, PTypeOK, WorkerInv
<1>2. job.desired.mode \in Modes
  BY <1>1 DEF Jobs, Desires
<1> QED
  BY <1>2 DEF Key, Palettes

\* The steps of run_once up to the report.
LEMMA RunSteps ==
    ASSUME PInv, StartRevert \/ Resolve \/ Extract \/ CallCtl
    PROVE  PInv'
<1>1. CASE StartRevert
  BY <1>1, DedupStep DEF StartRevert
<1>2. CASE Resolve
  <2>1. ASSUME NEW result \in {"FailedRetryable", "Rejected"},
               content_id' = None, Finish(result)
        PROVE  PInv'
    <3>1. /\ UNCHANGED <<cvars, job, results>> /\ stage = "start" /\ stage' = "report"
          /\ UNCHANGED <<last_committed, shown>> /\ outcome' = result
      BY <1>2, <2>1 DEF Resolve, Finish
    <3>2. PTypeOK'
      BY <2>1, <3>1, OutcomeTypes DEF PInv, PTypeOK
    <3> QED
      BY <3>1, <3>2, RunStep, OutcomeTypes
  <2>2. ASSUME NEW content \in Resolvable(job.desired.target), DedupThen(content, "extract")
        PROVE  PInv'
    <3>1. job \in Jobs /\ job.desired.target \in Targets
      BY <1>2 DEF Resolve, PInv, WorkerInv, PTypeOK, Jobs, Desires
    <3>2. content \in Contents
      BY <2>2, <3>1, PipelineAssumption DEF Resolvable, Targets
    <3> QED
      BY <1>2, <2>2, <3>2, DedupStep DEF Resolve
  <2> QED
    BY <1>2, <2>1, <2>2 DEF Resolve
<1>3. CASE Extract
  <2>1. /\ UNCHANGED <<cvars, job, results>> /\ stage = "extract"
        /\ UNCHANGED <<content_id, last_committed, shown>>
        /\ \/ stage' \in {"idle", "ctl"} /\ outcome' = outcome
           \/ stage' = "report" /\ outcome' = "FailedRetryable"
    BY <1>3 DEF Extract, DropJob, Proceed, Finish
  <2>2. PTypeOK'
    BY <2>1, OutcomeTypes DEF PInv, PTypeOK
  <2> QED
    BY <2>1, <2>2, RunStep, OutcomeTypes
<1>4. CASE CallCtl
  <2>1. /\ UNCHANGED <<cvars, job, results, content_id>> /\ stage = "ctl"
        /\ stage' = "report" /\ outcome' \in {"Committed", "FailedRetryable"}
        /\ shown' \in {shown, Key(content_id)}
        /\ last_committed' \in {last_committed, Key(content_id)}
    BY <1>4 DEF CallCtl, Finish
  <2>2. Key(content_id) \in Palettes
    BY <2>1, KeyType DEF PInv, PTypeOK
  <2>3. PTypeOK'
    BY <2>1, <2>2, OutcomeTypes DEF PInv, PTypeOK
  <2> QED
    BY <2>1, <2>3, RunStep, OutcomeTypes
<1> QED
  BY <1>1, <1>2, <1>3, <1>4

\* The job in the slot becomes the job that runs.
LEMMA TakeJobStep ==
    ASSUME PInv, WorkerTake
    PROVE  PInv'
<1>1. IInv' /\ ~stopping'
  BY TakeStep DEF PInv, WorkerTake, StepOK, Take
<1>2. /\ mailbox # None /\ mailbox' = None /\ job' = mailbox /\ stage' = "start"
      /\ UNCHANGED <<generation, last_desired, results, outcome, last_committed, shown>>
      /\ content_id' = None
  BY DEF WorkerTake, Take
<1>3. PTypeOK'
  BY <1>2, JobTypes, OutcomeTypes DEF PInv, PTypeOK
<1>4. WorkerInv'
  BY <1>2 DEF PInv, WorkerInv, Versioned
<1>5. Ordered'
  <2>1. \A i \in 1..Len(results) : results[i].generation <= mailbox.generation
    BY <1>2, JobTypes DEF PInv, Ordered, WorkerInv
  <2> QED
    BY <1>2, <2>1 DEF PInv, Ordered, WorkerInv, Versioned
<1> QED
  BY <1>1, <1>3, <1>4, <1>5 DEF PInv

\* The job's result goes to the end of the channel, behind those of older jobs.
LEMMA ReportStep ==
    ASSUME PInv, Report
    PROVE  PInv'
<1> DEFINE result == [generation |-> job.generation, outcome |-> outcome,
                      desired |-> job.desired]
           n == Len(results)
<1>1. IInv' /\ ~stopping'
  BY UnchangedStep DEF PInv, StepOK, cvars, Report
<1>2. /\ stage = "report" /\ stage' = "idle" /\ results' = Append(results, result)
      /\ UNCHANGED <<generation, last_desired, mailbox, job, content_id,
                     last_committed, shown>>
      /\ outcome' = None
      /\ n < EVENT_QUEUE
  BY DEF Report, cvars
<1>3. job # None /\ job \in Jobs /\ outcome \in Outcomes /\ Versioned(job)
  BY <1>2 DEF PInv, WorkerInv, PTypeOK
<1>4. result \in JobResults /\ Versioned(result)
  BY <1>3 DEF Jobs, JobResults, Versioned
<1>5. results \in Seq(JobResults) /\ n \in Nat
  BY LenProperties DEF PInv, PTypeOK
<1>6. /\ results' \in Seq(JobResults) /\ Len(results') = n + 1
      /\ \A i \in 1..n : results'[i] = results[i]
      /\ results'[n + 1] = result
  <2> HIDE DEF result
  <2> QED
    BY <1>2, <1>4, <1>5, AppendProperties
<1>7. PTypeOK'
  BY <1>2, <1>5, <1>6, PipelineAssumption, OutcomeTypes DEF PInv, PTypeOK
<1>8. \A i \in 1..Len(results') : i \in 1..n \/ i = n + 1
  BY <1>5, <1>6
<1>9. WorkerInv'
  BY <1>2, <1>3, <1>4, <1>6, <1>8 DEF PInv, WorkerInv, Versioned
<1>10. Ordered'
  <2>1. result.generation = job.generation /\ job.generation \in Nat
    BY <1>3 DEF Jobs
  <2>2. \A i \in 1..Len(results') : results'[i].generation <= job.generation
    BY <1>3, <1>6, <1>8, <2>1 DEF PInv, Ordered
  <2>3. \A i, k \in 1..Len(results') :
            i < k => results'[i].generation <= results'[k].generation
    <3> SUFFICES ASSUME NEW i \in 1..Len(results'), NEW k \in 1..Len(results'), i < k
                 PROVE  results'[i].generation <= results'[k].generation
      OBVIOUS
    <3>1. i \in 1..n
      BY <1>5, <1>6
    <3>2. CASE k \in 1..n
      BY <1>6, <3>1, <3>2 DEF PInv, Ordered
    <3>3. CASE k = n + 1
      BY <1>6, <2>1, <2>2, <3>3
    <3> QED
      BY <1>8, <3>2, <3>3
  <2> QED
    BY <1>2, <2>2, <2>3 DEF PInv, Ordered
<1> QED
  BY <1>1, <1>7, <1>9, <1>10 DEF PInv

-----------------------------------------------------------------------------
\* The event loop.

\* What the loop does with the oldest result of the channel.
LEMMA DeliverStep ==
    ASSUME PInv, Deliver
    PROVE  PInv'
<1> DEFINE n == Len(results)
<1>1. /\ results # <<>> /\ Adopt(Head(results)) /\ results' = Tail(results)
      /\ UNCHANGED <<stage, job, content_id, outcome, last_committed, shown>>
  BY DEF Deliver
<1>2. /\ results \in Seq(JobResults) /\ n \in Nat \ {0} /\ n <= EVENT_QUEUE
      /\ Head(results) \in JobResults
      /\ results' \in Seq(JobResults) /\ Len(results') = n - 1
      /\ \A i \in 1..Len(results') : i + 1 \in 1..n /\ results'[i] = results[i + 1]
  BY <1>1, HeadTailProperties, EmptySeq DEF PInv, PTypeOK
<1>3. StepOK
  <2>1. Head(results).outcome \in Outcomes
    BY <1>2 DEF JobResults
  <2> QED
    BY <1>1, <2>1, AdoptStep DEF PInv
<1>4. generation' >= generation
  BY <1>1, AdoptGrows, JobTypes DEF PInv
<1>5. ~stopping'
  BY <1>1 DEF PInv, Adopt, cvars
<1>6. /\ generation \in Nat /\ generation' \in Nat
      /\ mailbox' # None => mailbox'.generation = generation' /\ Versioned(mailbox)'
      /\ \A j : Versioned(j) /\ j.generation \in Nat =>
             /\ j.generation <= generation'
             /\ j.generation = generation' => j.desired = last_desired'
  BY <1>3, <1>4, <1>5, CoordinatorStep
<1>7. PTypeOK'
  BY <1>1, <1>2, PipelineAssumption DEF PInv, PTypeOK
<1>8. WorkerInv'
  BY <1>1, <1>2, <1>6, JobTypes DEF PInv, WorkerInv, Versioned
<1>9. Ordered'
  <2>1. \A i, k \in 1..Len(results') :
            i < k => results'[i].generation <= results'[k].generation
    <3> SUFFICES ASSUME NEW i \in 1..Len(results'), NEW k \in 1..Len(results'), i < k
                 PROVE  results'[i].generation <= results'[k].generation
      OBVIOUS
    <3>1. i + 1 \in 1..n /\ k + 1 \in 1..n /\ i + 1 < k + 1
      BY <1>2
    <3>2. results[i + 1].generation <= results[k + 1].generation
      BY <3>1 DEF PInv, Ordered
    <3> QED
      BY <1>2, <3>2
  <2>2. job # None => \A i \in 1..Len(results') : results'[i].generation <= job.generation
    BY <1>2 DEF PInv, Ordered
  <2>3. job # None => job.generation \in Nat /\ job.generation <= generation
    BY JobTypes DEF PInv, Ordered
  <2>4. job # None => job.generation <= generation'
    BY <1>4, <1>6, <2>3
  <2>5. job # None /\ mailbox' # None => job.generation <= mailbox'.generation
    BY <1>6, <2>4
  <2> QED
    BY <1>1, <2>1, <2>2, <2>4, <2>5 DEF Ordered
<1> QED
  BY <1>3, <1>5, <1>7, <1>8, <1>9 DEF PInv, StepOK

\* An external event or the timer.
LEMMA EventSteps ==
    ASSUME PInv,
           \/ \E name \in Players, status \in Statuses, art_url \in Urls \cup {NoUrl} :
                 Line(name, status, art_url)
           \/ \E name \in Players : Vanish(name)
           \/ \E value \in ColorSchemes : Scheme(value)
           \/ TimerFires
    PROVE  PInv'
<1>1. generation \in Nat
  BY JobTypes DEF PInv
<1>2. generation' >= generation
  BY <1>1, EventGrows DEF Line, Vanish, Scheme, TimerFires
<1>3. StepOK
  BY OnLineStep, OnVanishStep, OnSchemeStep, FireRetryStep
  DEF PInv, Line, Vanish, Scheme, TimerFires
<1>4. UNCHANGED wvars
  BY DEF Line, Vanish, Scheme, TimerFires
<1>5. stopping' = stopping
  BY DEF Line, Vanish, Scheme, TimerFires, OnLine, OnVanish, OnScheme, FireRetry, ConsumeTimer
<1> QED
  BY <1>2, <1>3, <1>4, <1>5, EventStep

\* The invariant holds when the daemon starts.
LEMMA PInitPInv == PInit => PInv
<1> SUFFICES ASSUME PInit PROVE PInv
  OBVIOUS
<1>1. Init
  BY DEF PInit
<1>2. IInv
  BY <1>1, InitIInv
<1>3. mailbox = None /\ ~stopping /\ mode \in Modes
  BY <1>1 DEF Init
<1>4. results \in Seq(JobResults) /\ Len(results) = 0
  BY EmptySeq DEF PInit
<1>5. PTypeOK
  BY <1>3, <1>4, OutcomeTypes, PipelineAssumption DEF PInit, PTypeOK, Palettes
<1>6. WorkerInv /\ Ordered
  BY <1>3, <1>4 DEF PInit, WorkerInv, Ordered
<1> QED
  BY <1>2, <1>3, <1>5, <1>6 DEF PInv

\* Every step of the daemon keeps the invariant.
LEMMA PNextStep == PInv /\ [PNext]_vars => PInv'
<1> SUFFICES ASSUME PInv, [PNext]_vars PROVE PInv'
  OBVIOUS
<1>1. CASE Deliver
  BY <1>1, DeliverStep
<1>2. CASE Worker
  BY <1>2, RunSteps, TakeJobStep, ReportStep DEF Worker
<1>3. CASE UNCHANGED vars
  <2>1. UNCHANGED cvars /\ UNCHANGED wvars
    BY <1>3 DEF vars
  <2>2. generation' >= generation /\ stopping' = stopping
    BY <2>1, JobTypes DEF PInv, cvars
  <2> QED
    BY <2>1, <2>2, UnchangedStep, EventStep DEF PInv
<1> QED
  BY <1>1, <1>2, <1>3, EventSteps DEF PNext

\* Every step of the daemon is a step of the coordinator with an arbitrary worker,
\* or leaves the coordinator alone.
LEMMA StepRefines == PInv /\ [PNext]_vars => [Next]_cvars
<1> SUFFICES ASSUME PInv, [PNext]_vars PROVE [Next]_cvars
  OBVIOUS
<1>1. CASE Deliver
  <2> DEFINE result == Head(results)
             answer == [generation |-> result.generation, outcome |-> result.outcome]
  <2>1. Adopt(result)
    BY <1>1 DEF Deliver
  <2>2. /\ result = results[1] /\ 1 \in 1..Len(results)
    BY <1>1, EmptySeq DEF Deliver, PInv, PTypeOK
  <2>3. result.generation \in 0..generation /\ result.outcome \in Outcomes
    BY <2>2, JobTypes DEF PInv, WorkerInv, Versioned, JobResults
  <2>4. Adopt(answer)
    BY <2>1 DEF Adopt, Stale
  <2> QED
    BY <2>3, <2>4 DEF Next
<1>2. CASE Worker
  BY <1>2 DEF Worker, WorkerTake, StartRevert, Resolve, Extract, CallCtl, Report, Next, cvars
<1>3. CASE UNCHANGED vars
  BY <1>3 DEF vars
<1> QED
  BY <1>1, <1>2, <1>3 DEF PNext, Next, Line, Vanish, Scheme, TimerFires

-----------------------------------------------------------------------------
\* Retries, and the way back to the preset.

\* A job of the current generation waits, runs, or has an answer in the channel.
Awaited ==
    \/ mailbox # None
    \/ stage # "idle" /\ job.generation = generation
    \/ \E i \in 1..Len(results) : results[i].generation = generation

\* A job that is out of date runs on only while the newer one waits.
OldJobIsFollowed == stage # "idle" /\ job.generation # generation => mailbox # None

\* What selection wants was submitted last, or the answer that will make it so is due.
WinnerIsSubmitted == Winner # None => last_submitted = Selected.desired \/ Awaited

\* The player of the last submission is only Retrying while its job or its timer is out.
RetryIsOut ==
    /\ last_submitted # None
    /\ submitted_player # None
    /\ covers[submitted_player] # None
    /\ covers[submitted_player].status = "Retrying"
    => Awaited \/ (retry.timer /\ retry.desire # None)

\* Why no retry is lost.
RetryInv == OldJobIsFollowed /\ WinnerIsSubmitted /\ RetryIsOut

Reverts(desired) == desired # None /\ desired.target = None
Succeeded(result) == result \in {"Committed", "SkippedDuplicate"}

\* Neither of the faults after which wlchroma shows what the worker does not know of.
NothingUnseen == Faults \cap {"startup", "ctl_late"} = {}

\* The worker's last commit is what wlchroma shows, and a revert that succeeded shows
\* the preset until a later job runs.
ShownInv ==
    /\ shown = last_committed
    /\ stage # "idle" /\ Reverts(job.desired) => content_id = None
    /\ stage = "report" /\ Reverts(job.desired) =>
          outcome # "Rejected" /\ (Succeeded(outcome) => ShowsPreset)
    /\ \A i \in 1..Len(results) :
          Reverts(results[i].desired) =>
              /\ results[i].outcome # "Rejected"
              /\ results[i].generation = generation /\ Succeeded(results[i].outcome)
                    => ShowsPreset

\* Nothing was ever handed to the worker.
Untouched ==
    /\ last_submitted = None
    /\ mailbox = None
    /\ stage = "idle"
    /\ Len(results) = 0
    /\ ShowsPreset

\* When nothing plays, a revert was submitted last.
SilenceReverts ==
    Playing(players) = {} =>
        \/ last_submitted = None /\ generation = 0
        \/ Reverts(last_submitted)
        \/ Awaited

\* A revert that was submitted last is out, done or given up.
RevertIsOut ==
    Reverts(last_submitted) =>
        \/ Awaited
        \/ ShowsPreset
        \/ /\ retry.desire = last_submitted
           /\ retry.timer \/ retry.attempt > RETRY_MAX_ATTEMPTS

RevertInv == (generation = 0 => Untouched) /\ SilenceReverts /\ RevertIsOut

-----------------------------------------------------------------------------
\* What a handler of the coordinator hands to the worker.

\* Nothing: the handler only stores the values it has computed.
Left(cs, rt, ls) ==
    /\ covers' = cs
    /\ retry' = rt
    /\ last_submitted' = ls
    /\ UNCHANGED <<generation, submitted_player, mailbox>>

\* A job of a fresh generation, the job of the last submission once more, or nothing.
Handed(cs, rt, ls) ==
    \/ mailbox' # None /\ generation' = generation + 1
    \/ mailbox' # None /\ generation' = generation /\ ls # None
    \/ Left(cs, rt, ls)

\* maybe_submit leaves the desire it was called for as the one submitted last.
LEMMA MaybeSubmitHands ==
    ASSUME generation \in Nat, ~stopping, NEW desired \in Desires, NEW player,
           NEW dir_resubmit, NEW cs, NEW rt, NEW ls,
           MaybeSubmit(desired, player, dir_resubmit, cs, rt, ls)
    PROVE  /\ Handed(cs, rt, ls)
           /\ last_submitted' = desired
           /\ covers' \in {cs, Demoted(cs, rt)}
<1>1. desired # None
  BY NoneAssumption
<1>2. \A gen \in Nat : Job(gen, desired) # None
  BY JobType, NoJobAssumption
<1>3. generation + 1 \in Nat
  OBVIOUS
<1>4. CASE /\ Duplicate(ls, desired)
           /\ covers' = cs
           /\ retry' = rt
           /\ last_submitted' = ls
           /\ generation' = generation
           /\ IF dir_resubmit /\ ~Stable(desired)
              THEN /\ submitted_player' = player
                   /\ mailbox' = Job(generation, desired)
              ELSE UNCHANGED <<submitted_player, mailbox>>
  BY <1>1, <1>2, <1>4 DEF Duplicate, Handed, Left
<1>5. CASE /\ generation' = generation + 1
           /\ CancelRetry(cs, rt)
           /\ last_submitted' = desired
           /\ mailbox' = Job(generation + 1, desired)
  BY <1>2, <1>3, <1>5 DEF Handed, CancelRetry
<1> QED
  BY <1>4, <1>5 DEF MaybeSubmit

\* Demoting a cover from Retrying to Pending does not change what is selected.
LEMMA DemotedSelectsAlike ==
    ASSUME NEW cs \in CoverMaps, NEW rt \in Retries, NEW ps, NEW m
    PROVE  Decide(ps, Demoted(cs, rt), m) = Decide(ps, cs, m)
<1>1. Demoted(cs, rt) \in CoverMaps /\ SameArt(cs, Demoted(cs, rt))
  BY DemotedKeepsArt
<1>2. ASSUME NEW n \in Players, cs[n] # None
      PROVE  Eligible(Demoted(cs, rt)[n].status) <=> Eligible(cs[n].status)
  <2>1. CASE /\ rt.timer /\ rt.player # None
             /\ cs[rt.player] # None /\ cs[rt.player].status = "Retrying"
    <3>1. Demoted(cs, rt) = [cs EXCEPT ![rt.player].status = "Pending"]
      BY <2>1 DEF Demoted
    <3>2. cs[n] \in CoverStates
      BY <1>2 DEF CoverMaps
    <3> QED
      BY <2>1, <3>1, <3>2 DEF Eligible, CoverStates, CoverMaps
  <2> QED
    BY <2>1 DEF Demoted
<1>3. \A n \in Players : cs[n] = None <=> Demoted(cs, rt)[n] = None
  BY <1>1 DEF SameArt
<1>4. Actionable(ps, Demoted(cs, rt)) = Actionable(ps, cs)
  BY <1>2, <1>3 DEF Actionable, Playing
<1> QED
  BY <1>4 DEF Decide

\* What selection wants now was submitted last, unless it wants nothing.
Redecided(cs, rt, ls) ==
    /\ Handed(cs, rt, ls)
    /\ Selected' = Hold \/ last_submitted' = Selected'.desired

\* A handler that ends by selecting anew.
LEMMA DecideHands ==
    ASSUME generation \in Nat, ~stopping, mode \in Modes, IInv', mode' = mode,
           NEW ps, players' = ps, NEW dir_resubmit,
           NEW cs \in CoverMaps, NEW rt \in Retries, NEW ls,
           DecideAndSubmit(ps, cs, rt, ls, dir_resubmit)
    PROVE  Redecided(cs, rt, ls)
<1> DEFINE selection == Decide(ps, cs, mode)
<1>1. ps \in PlayerMaps /\ SeqBoundedBy(ps, seq') /\ seq' \in Nat
  BY DEF IInv, TypeOK, PlayerMaps
<1>2. CASE selection = Hold /\ Keep(cs, rt, ls)
  <2>1. covers' = cs
    BY <1>2 DEF Keep
  <2>2. Selected' = Hold
    BY <1>2, <2>1 DEF Selected
  <2> QED
    BY <1>2, <2>2 DEF Redecided, Handed, Left, Keep
<1>3. CASE /\ selection # Hold
           /\ MaybeSubmit(selection.desired, selection.winner, dir_resubmit, cs, rt, ls)
  <2>1. selection.desired \in Desires
    BY <1>1, <1>3, DecideType
  <2>2. /\ Handed(cs, rt, ls) /\ last_submitted' = selection.desired
        /\ covers' \in {cs, Demoted(cs, rt)}
    BY <1>3, <2>1, MaybeSubmitHands
  <2>3. Decide(ps, covers', mode) = selection
    BY <2>2, DemotedSelectsAlike
  <2>4. Selected' = selection
    BY <2>3 DEF Selected
  <2> QED
    BY <2>2, <2>4 DEF Redecided
<1> QED
  BY <1>2, <1>3 DEF DecideAndSubmit

\* A handler that ends with a submission, or with none, and leaves the worker alone.
LEMMA RetryAfter ==
    ASSUME RetryInv, UNCHANGED <<stage, job>>, WinnerIsSubmitted',
           NEW cs, NEW rt, NEW ls, Handed(cs, rt, ls),
           /\ Left(cs, rt, ls)
           /\ ls # None
           /\ submitted_player # None
           /\ cs[submitted_player] # None
           /\ cs[submitted_player].status = "Retrying"
           => Awaited' \/ (rt.timer /\ rt.desire # None)
    PROVE  RetryInv'
<1>1. CASE mailbox' # None
  BY <1>1 DEF RetryInv, OldJobIsFollowed, RetryIsOut, Awaited
<1>2. CASE Left(cs, rt, ls)
  <2>1. OldJobIsFollowed'
    BY <1>2 DEF RetryInv, OldJobIsFollowed, Left
  <2>2. RetryIsOut'
    BY <1>2 DEF RetryIsOut, Left
  <2> QED
    BY <2>1, <2>2 DEF RetryInv
<1> QED
  BY <1>1, <1>2 DEF Handed

\* Selecting anew leaves what the winner wants submitted.
LEMMA RedecidedSubmits ==
    ASSUME NEW cs, NEW rt, NEW ls, Redecided(cs, rt, ls)
    PROVE  Handed(cs, rt, ls) /\ WinnerIsSubmitted'
BY DEF Redecided, WinnerIsSubmitted, Winner

\* A step that leaves what selection and the retries are about alone, and does not
\* lose the job that is awaited.
LEMMA RetryKept ==
    ASSUME RetryInv, OldJobIsFollowed', Awaited => Awaited',
           UNCHANGED <<players, covers, mode, last_submitted, submitted_player, retry>>
    PROVE  RetryInv'
BY DEF RetryInv, WinnerIsSubmitted, RetryIsOut, Winner, Selected

\* A handler that hands nothing over and leaves the worker alone loses no job.
LEMMA LeftAwaits ==
    ASSUME NEW cs, NEW rt, NEW ls, Left(cs, rt, ls), UNCHANGED <<stage, job, results>>
    PROVE  Awaited' <=> Awaited
BY DEF Left, Awaited

\* A line that leaves a cover Retrying has not touched it.
LEMMA LineRetries ==
    ASSUME PInv, RetryInv, NEW name \in Players, NEW status \in Statuses,
           NEW art_url \in Urls \cup {NoUrl}, Line(name, status, art_url)
    PROVE  RetryInv'
<1> DEFINE ps == [players EXCEPT ![name] =
                     [status |-> status, art_url |-> art_url, seq |-> seq + 1]]
           cs == [covers EXCEPT ![name] = CoverAfterLine(name, art_url)]
           ls == IF Reopens(name, art_url) THEN None ELSE last_submitted
<1>1. IInv' /\ generation \in Nat /\ ~stopping /\ mode \in Modes /\ seq \in Nat
      /\ covers \in CoverMaps /\ retry \in Retries
      /\ submitted_player \in Players \cup {None}
  BY OnLineStep, JobTypes DEF PInv, Line, StepOK, IInv, TypeOK, CoverMaps
<1>2. cs \in CoverMaps
  BY <1>1, CoverAfterLineKeyed DEF PInv
<1>3. /\ players' = ps /\ mode' = mode
      /\ DecideAndSubmit(ps, cs, retry, ls, TRUE)
      /\ UNCHANGED <<stage, job, results>>
  BY DEF Line, OnLine, wvars
<1>4. Redecided(cs, retry, ls)
  BY <1>1, <1>2, <1>3, DecideHands
<1>5. ASSUME Left(cs, retry, ls), ls # None, submitted_player # None,
             cs[submitted_player] # None, cs[submitted_player].status = "Retrying"
      PROVE  Awaited' \/ (retry.timer /\ retry.desire # None)
  <2>1. last_submitted # None
    BY <1>5
  <2>2. cs[submitted_player] = covers[submitted_player]
    <3>1. CASE submitted_player = name
      <4>1. cs[name] = CoverAfterLine(name, art_url)
        BY <1>1 DEF CoverMaps
      <4> QED
        BY <1>5, <3>1, <4>1 DEF CoverAfterLine
    <3>2. CASE submitted_player # name
      BY <1>1, <1>5, <3>2 DEF CoverMaps
    <3> QED
      BY <3>1, <3>2
  <2> QED
    BY <1>3, <1>5, <2>1, <2>2, LeftAwaits DEF RetryInv, RetryIsOut
<1> QED
  BY <1>3, <1>4, <1>5, RedecidedSubmits, RetryAfter

\* A lost player's cover goes with it.
LEMMA VanishRetries ==
    ASSUME PInv, RetryInv, NEW name \in Players, Vanish(name)
    PROVE  RetryInv'
<1> DEFINE ps == [players EXCEPT ![name] = None]
           cs == [covers EXCEPT ![name] = None]
<1>1. IInv' /\ generation \in Nat /\ ~stopping /\ mode \in Modes
      /\ covers \in CoverMaps /\ retry \in Retries
      /\ submitted_player \in Players \cup {None}
  BY OnVanishStep, JobTypes DEF PInv, Vanish, StepOK, IInv, TypeOK, CoverMaps
<1>2. cs \in CoverMaps
  BY <1>1 DEF CoverMaps
<1>3. /\ players' = ps /\ mode' = mode
      /\ DecideAndSubmit(ps, cs, retry, last_submitted, FALSE)
      /\ UNCHANGED <<stage, job, results>>
  BY DEF Vanish, OnVanish, wvars
<1>4. Redecided(cs, retry, last_submitted)
  BY <1>1, <1>2, <1>3, DecideHands
<1>5. ASSUME Left(cs, retry, last_submitted), last_submitted # None,
             submitted_player # None,
             cs[submitted_player] # None, cs[submitted_player].status = "Retrying"
      PROVE  Awaited' \/ (retry.timer /\ retry.desire # None)
  <2>1. cs[submitted_player] = covers[submitted_player]
    BY <1>1, <1>5 DEF CoverMaps
  <2> QED
    BY <1>3, <1>5, <2>1, LeftAwaits DEF RetryInv, RetryIsOut
<1> QED
  BY <1>3, <1>4, <1>5, RedecidedSubmits, RetryAfter

\* A winner is a playing player with an eligible art source; it is selected under
\* either mode, with a desire of that mode.
LEMMA WinnerIsActionable ==
    ASSUME IInv, NEW cs \in CoverMaps, NEW m \in Modes, NEW k \in Modes,
           Decide(players, cs, m) # Hold, Decide(players, cs, m).winner # None
    PROVE  LET n == Decide(players, cs, m).winner
           IN  /\ n \in Actionable(players, cs)
               /\ Decide(players, cs, k) # Hold
               /\ Decide(players, cs, k).winner = n
               /\ Decide(players, cs, k).desired.mode = k
               /\ Decide(players, cs, k).desired.target # None
<1> DEFINE n == Newest(players, Actionable(players, cs))
<1>1. Playing(players) # {} /\ Actionable(players, cs) # {}
  BY DEF Decide, Revert
<1>2. /\ Decide(players, cs, m) = Apply(players, n, m)
      /\ Decide(players, cs, k) = Apply(players, n, k)
  BY <1>1 DEF Decide
<1>3. players \in PlayerMaps /\ seq \in Nat /\ SeqBoundedBy(players, seq)
  BY InvariantTypes DEF IInv, TypeOK
<1>4. n \in Actionable(players, cs)
  BY <1>1, <1>3, NewestIsMember DEF Actionable, Playing
<1>5. n \in Players /\ players[n] \in PlayerStates
  BY <1>3, <1>4 DEF Actionable, Playing, PlayerMaps
<1>6. TargetOf(players, n) \in Targets
  BY <1>5, SelectionAssumption DEF TargetOf, Targets, PlayerStates
<1>7. Apply(players, n, k) # Hold /\ TargetOf(players, n) # None
  <2>1. Apply(players, n, k) \in Selections
    BY <1>5, <1>6 DEF Apply, Selections, Desires
  <2> QED
    BY <1>6, <2>1, NoneAssumption DEF Hold
<1>8. /\ Apply(players, n, m).winner = n
      /\ Apply(players, n, k).winner = n
      /\ Apply(players, n, k).desired.mode = k
      /\ Apply(players, n, k).desired.target = TargetOf(players, n)
  BY DEF Apply
<1> QED
  BY <1>2, <1>4, <1>7, <1>8

\* A change of the color scheme: what was submitted last is either of the new mode
\* now, or there is no winner to retry for.
LEMMA SchemeRetries ==
    ASSUME PInv, RetryInv, NEW value \in ColorSchemes, Scheme(value)
    PROVE  RetryInv'
<1> DEFINE new_mode == ModeFromColorScheme(value)
           selection == Decide(players, covers, new_mode)
           target == IF selection = Hold THEN None ELSE selection.desired.target
           retone == applied_target # None /\ target # applied_target
           desired == [target |-> applied_target, mode |-> new_mode]
<1>1. /\ generation \in Nat /\ ~stopping /\ mode \in Modes /\ covers \in CoverMaps
      /\ retry \in Retries /\ applied_target \in Targets \cup {None}
      /\ players \in PlayerMaps /\ seq \in Nat /\ SeqBoundedBy(players, seq)
      /\ IInv
  BY InvariantTypes DEF PInv, IInv, TypeOK, Consistent
<1>2. /\ new_mode \in Modes /\ mode' = new_mode /\ new_mode # mode
      /\ UNCHANGED <<players, stage, job, results>>
  BY DEF Scheme, OnScheme, ModeFromColorScheme, Modes, wvars
<1>3. ASSUME Left(covers, retry, last_submitted), last_submitted # None,
             submitted_player # None, covers[submitted_player] # None,
             covers[submitted_player].status = "Retrying"
      PROVE  Awaited' \/ (retry.timer /\ retry.desire # None)
  BY <1>2, <1>3, LeftAwaits DEF RetryInv, RetryIsOut
<1>4. ASSUME Handed(covers, retry, last_submitted), WinnerIsSubmitted'
      PROVE  RetryInv'
  BY <1>2, <1>3, <1>4, RetryAfter
<1>5. CASE MaybeSubmit(desired, None, TRUE, covers, retry, last_submitted) /\ retone
  <2>1. desired \in Desires
    BY <1>1, <1>2, <1>5 DEF Desires
  <2>2. Handed(covers, retry, last_submitted) /\ last_submitted' = desired
    BY <1>1, <1>5, <2>1, MaybeSubmitHands
  <2>3. ASSUME Left(covers, retry, last_submitted), Winner' # None
        PROVE  Awaited'
    <3>1. Selected' = selection /\ selection # Hold /\ selection.winner # None
      BY <1>2, <2>3 DEF Selected, Winner, Left
    <3>2. Selected # Hold /\ Selected.winner # None /\ Selected.desired.mode = mode
      BY <1>1, <1>2, <3>1, WinnerIsActionable DEF Selected
    <3>3. last_submitted.mode = new_mode
      BY <2>2, <2>3 DEF Left
    <3>4. Awaited
      BY <1>2, <3>2, <3>3 DEF RetryInv, WinnerIsSubmitted, Winner
    <3> QED
      BY <1>2, <2>3, <3>4, LeftAwaits
  <2>4. WinnerIsSubmitted'
    BY <2>2, <2>3 DEF WinnerIsSubmitted, Handed, Awaited
  <2> QED
    BY <1>4, <2>2, <2>4
<1>6. CASE /\ target # None
           /\ MaybeSubmit(selection.desired, selection.winner, TRUE,
                          covers, retry, last_submitted)
  <2>1. selection # Hold /\ selection.desired \in Desires
    BY <1>1, <1>2, <1>6, DecideType
  <2>2. /\ Handed(covers, retry, last_submitted) /\ last_submitted' = selection.desired
        /\ covers' \in {covers, Demoted(covers, retry)}
    BY <1>1, <1>6, <2>1, MaybeSubmitHands
  <2>3. Selected' = selection
    BY <1>1, <1>2, <2>2, DemotedSelectsAlike DEF Selected
  <2> QED
    BY <1>4, <2>2, <2>3 DEF WinnerIsSubmitted
<1>7. CASE target = None /\ Keep(covers, retry, last_submitted)
  <2>1. Selected' = selection
    BY <1>2, <1>7 DEF Selected, Keep
  <2>2. Winner' = None
    BY <1>1, <1>2, <1>7, <2>1, WinnerIsActionable DEF Winner
  <2>3. Handed(covers, retry, last_submitted)
    BY <1>7 DEF Keep, Handed, Left
  <2> QED
    BY <1>4, <2>2, <2>3 DEF WinnerIsSubmitted
<1> QED
  BY <1>5, <1>6, <1>7 DEF Scheme, OnScheme

\* The timer fires for a desire, which is handed over, or it was armed for nothing.
LEMMA TimerRetries ==
    ASSUME PInv, RetryInv, TimerFires
    PROVE  RetryInv'
<1>1. /\ UNCHANGED <<players, covers, mode, last_submitted, stage, job, results>>
      /\ retry.timer
  BY DEF TimerFires, FireRetry, ConsumeTimer, wvars
<1>2. CASE /\ generation' = generation + 1
           /\ mailbox' = Job(generation + 1, retry.desire)
           /\ retry.desire # None
  <2>1. mailbox' # None
    <3>1. retry.desire \in Desires /\ generation + 1 \in Nat
      BY <1>2 DEF PInv, IInv, TypeOK, Retries
    <3> QED
      BY <1>2, <3>1, JobType, NoJobAssumption
  <2> QED
    BY <1>1, <2>1 DEF RetryInv, OldJobIsFollowed, WinnerIsSubmitted, RetryIsOut, Awaited
<1>3. CASE UNCHANGED <<generation, submitted_player, mailbox>> /\ retry.desire = None
  <2>1. OldJobIsFollowed' /\ (Awaited' <=> Awaited)
    BY <1>1, <1>3 DEF RetryInv, OldJobIsFollowed, Awaited
  <2>2. WinnerIsSubmitted'
    BY <1>1, <2>1 DEF RetryInv, WinnerIsSubmitted, Winner, Selected
  <2>3. RetryIsOut'
    BY <1>1, <1>3, <2>1 DEF RetryInv, RetryIsOut
  <2> QED
    BY <2>1, <2>2, <2>3 DEF RetryInv
<1> QED
  BY <1>2, <1>3 DEF TimerFires, FireRetry, PInv, IInv, Consistent

\* The channel without its oldest result.
LEMMA ChannelTail ==
    ASSUME PInv, results # <<>>, results' = Tail(results)
    PROVE  /\ 1 \in 1..Len(results) /\ Head(results) = results[1]
           /\ Head(results) \in JobResults
           /\ \A i \in 1..Len(results') : i + 1 \in 1..Len(results)
                                          /\ results'[i] = results[i + 1]
           /\ \A i \in 1..Len(results) : i # 1 =>
                  /\ i - 1 \in 1..Len(results')
                  /\ results'[i - 1] = results[i]
<1>1. /\ results \in Seq(JobResults) /\ Len(results) \in Nat \ {0}
      /\ Head(results) = results[1] /\ Head(results) \in JobResults
      /\ Len(results') = Len(results) - 1
      /\ \A i \in 1..Len(results') : results'[i] = results[i + 1]
  BY HeadTailProperties, EmptySeq DEF PInv, PTypeOK
<1> QED
  BY <1>1

\* Marking one cover leaves that cover, if there is one, with the new status.
LEMMA MarkedStatus ==
    ASSUME covers \in CoverMaps, submitted_player \in Players \cup {None},
           NEW status \in CoverStatuses, submitted_player # None,
           SetCoverStatus(covers, submitted_player, status)[submitted_player] # None
    PROVE  SetCoverStatus(covers, submitted_player, status)[submitted_player].status = status
<1>1. covers[submitted_player] # None
  BY DEF SetCoverStatus
<1>2. covers[submitted_player] \in CoverStates
  BY <1>1 DEF CoverMaps
<1> QED
  BY <1>1, <1>2 DEF SetCoverStatus, CoverMaps, CoverStates

\* An adopted result: only one more failure leaves the cover Retrying, and it arms
\* the timer.  A stale one is not the awaited one.
LEMMA DeliverRetries ==
    ASSUME PInv, RetryInv, Deliver
    PROVE  RetryInv'
<1>1. /\ results # <<>> /\ Adopt(Head(results)) /\ results' = Tail(results)
      /\ UNCHANGED <<stage, job>>
  BY DEF Deliver
<1>2. Head(results) = results[1] /\ Head(results) \in JobResults
      /\ \A i \in 1..Len(results) : i # 1 =>
             i - 1 \in 1..Len(results') /\ results'[i - 1] = results[i]
  BY <1>1, ChannelTail
<1>3. /\ generation \in Nat /\ ~stopping /\ mode \in Modes /\ covers \in CoverMaps
      /\ retry \in Retries /\ submitted_player \in Players \cup {None}
      /\ players' = players /\ mode' = mode
  BY <1>1 DEF PInv, IInv, TypeOK, CoverMaps, Adopt, cvars
<1>4. IInv'
  BY DeliverStep DEF PInv
<1>5. CASE Stale(Head(results)) /\ UNCHANGED cvars
  <2>1. results[1].generation # generation
    BY <1>2, <1>3, <1>5 DEF Stale
  <2>2. UNCHANGED <<generation, mailbox>>
    BY <1>5 DEF cvars
  <2>3. Awaited => Awaited'
    BY <1>1, <1>2, <2>1, <2>2 DEF Awaited
  <2>4. OldJobIsFollowed'
    BY <1>1, <2>2 DEF RetryInv, OldJobIsFollowed
  <2> QED
    BY <1>5, <2>3, <2>4, RetryKept DEF cvars
<1>6. ASSUME NEW cs \in CoverMaps, NEW rt \in Retries,
             DecideAndSubmit(players, cs, rt, last_submitted, FALSE),
             /\ submitted_player # None
             /\ cs[submitted_player] # None
             /\ cs[submitted_player].status = "Retrying"
             => rt.timer /\ rt.desire = last_submitted
      PROVE  RetryInv'
  <2>1. Redecided(cs, rt, last_submitted)
    BY <1>3, <1>4, <1>6, DecideHands
  <2> QED
    BY <1>1, <1>6, <2>1, RedecidedSubmits, RetryAfter
<1> DEFINE marked(status) == SetCoverStatus(covers, submitted_player, status)
<1>7. \A status \in CoverStatuses : marked(status) \in CoverMaps
  BY <1>3, SetCoverStatusKeepsArt
<1>8. CASE AdoptSuccess
  <2>1. [retry EXCEPT !.desire = None, !.attempt = 0] \in Retries
    BY <1>3 DEF Retries
  <2>2. "Ready" \in CoverStatuses /\ "Ready" # "Retrying"
    BY DEF CoverStatuses
  <2> QED
    BY <1>3, <1>6, <1>7, <1>8, <2>1, <2>2, MarkedStatus DEF AdoptSuccess
<1>9. CASE AdoptFailure
  <2> DEFINE exhausted == Counted.attempt > RETRY_MAX_ATTEMPTS
             rt == IF exhausted THEN Counted
                   ELSE [Counted EXCEPT !.timer = TRUE, !.player = submitted_player]
             status == IF exhausted THEN "Exhausted" ELSE "Retrying"
  <2>1. Counted \in Retries /\ Counted.desire = last_submitted
    BY <1>3, CountedType DEF PInv, IInv, TypeOK
  <2>2. rt \in Retries /\ (~exhausted => rt.timer /\ rt.desire = last_submitted)
    BY <1>3, <2>1 DEF Retries
  <2>3. status \in CoverStatuses
    BY DEF CoverStatuses
  <2>4. DecideAndSubmit(players, marked(status), rt, last_submitted, FALSE)
    BY <1>9 DEF AdoptFailure
  <2>5. ASSUME submitted_player # None, marked(status)[submitted_player] # None,
               marked(status)[submitted_player].status = "Retrying"
        PROVE  rt.timer /\ rt.desire = last_submitted
    <3>1. status = "Retrying"
      BY <1>3, <2>3, <2>5, MarkedStatus
    <3> QED
      BY <2>2, <3>1
  <2> HIDE DEF rt, status
  <2> QED
    BY <1>6, <1>7, <2>2, <2>3, <2>4, <2>5
<1>10. CASE AdoptRejection
  <2>1. "Rejected" \in CoverStatuses /\ "Rejected" # "Retrying"
    BY DEF CoverStatuses
  <2> QED
    BY <1>3, <1>6, <1>7, <1>10, <2>1, MarkedStatus DEF AdoptRejection
<1> QED
  BY <1>1, <1>5, <1>8, <1>9, <1>10 DEF Adopt

\* The worker drops a job only for a newer one that waits, and it takes the newest.
LEMMA WorkerAwaits ==
    ASSUME PInv, OldJobIsFollowed, Worker
    PROVE  /\ OldJobIsFollowed' /\ (Awaited => Awaited')
           /\ UNCHANGED <<players, covers, mode, last_submitted, submitted_player,
                          retry, generation>>
           /\ CallCtl => Awaited'
<1>1. UNCHANGED <<players, covers, mode, last_submitted, submitted_player, retry,
                  generation>>
  BY DEF Worker, WorkerTake, Take, StartRevert, Resolve, Extract, CallCtl, Report, cvars
<1>2. CASE WorkerTake
  <2>1. job' = mailbox /\ mailbox # None /\ stage' = "start"
    BY <1>2 DEF WorkerTake, Take
  <2>2. job'.generation = generation'
    BY <1>1, <2>1 DEF PInv, IInv, SlotHoldsNewestDesire
  <2> QED
    BY <1>1, <2>1, <2>2 DEF OldJobIsFollowed, Awaited
<1>3. CASE StartRevert \/ Resolve \/ Extract \/ CallCtl
  <2>1. /\ UNCHANGED <<mailbox, job, results>> /\ stage # "idle"
        /\ stage' = "idle" => mailbox # None
    BY <1>3 DEF StartRevert, Resolve, Extract, CallCtl, DedupThen, Finish, DropJob,
                Proceed, Superseded, cvars
  <2> QED
    BY <1>1, <2>1 DEF OldJobIsFollowed, Awaited
<1>4. CASE Report
  <2> DEFINE result == [generation |-> job.generation, outcome |-> outcome,
                        desired |-> job.desired]
  <2>1. /\ stage' = "idle" /\ results' = Append(results, result)
        /\ UNCHANGED <<mailbox, job>> /\ stage = "report"
    BY <1>4 DEF Report, cvars
  <2>2. /\ Len(results) \in Nat /\ Len(results') = Len(results) + 1
        /\ \A i \in 1..Len(results) : results'[i] = results[i]
        /\ results'[Len(results) + 1].generation = job.generation
    <3>1. result \in JobResults /\ results \in Seq(JobResults) /\ Len(results) \in Nat
      BY <2>1, LenProperties DEF PInv, PTypeOK, WorkerInv, Jobs, JobResults
    <3>2. result.generation = job.generation
      OBVIOUS
    <3> HIDE DEF result
    <3> QED
      BY <2>1, <3>1, <3>2, AppendProperties
  <2>3. Awaited => Awaited'
    <3>1. \A i \in 1..Len(results) : i \in 1..Len(results')
      BY <2>2
    <3>2. Len(results) + 1 \in 1..Len(results')
      BY <2>2
    <3> QED
      BY <1>1, <2>1, <2>2, <3>1, <3>2 DEF Awaited
  <2>4. OldJobIsFollowed'
    BY <2>1 DEF OldJobIsFollowed
  <2> QED
    BY <1>1, <1>4, <2>1, <2>3, <2>4 DEF CallCtl
<1> QED
  BY <1>2, <1>3, <1>4 DEF Worker

\* So no retry is lost while the worker runs.
LEMMA WorkerRetries ==
    ASSUME PInv, RetryInv, Worker
    PROVE  RetryInv'
<1>1. OldJobIsFollowed
  BY DEF RetryInv
<1> QED
  BY <1>1, WorkerAwaits, RetryKept

\* Every step of the daemon keeps its retries.
LEMMA RetryStep == PInv /\ RetryInv /\ [PNext]_vars => RetryInv'
<1> SUFFICES ASSUME PInv, RetryInv, [PNext]_vars PROVE RetryInv'
  OBVIOUS
<1>1. CASE UNCHANGED vars
  BY <1>1, RetryKept DEF RetryInv, OldJobIsFollowed, Awaited, vars, cvars, wvars
<1> QED
  BY <1>1, LineRetries, VanishRetries, SchemeRetries, TimerRetries, DeliverRetries,
     WorkerRetries DEF PNext

\* A daemon that starts has nothing to retry and no player to select.
LEMMA RetryInit == PInit => RetryInv
<1> SUFFICES ASSUME PInit PROVE RetryInv
  OBVIOUS
<1>1. stage = "idle" /\ last_submitted = None /\ players = [n \in Players |-> None]
  BY DEF PInit, Init
<1>2. Playing(players) = {}
  BY <1>1 DEF Playing
<1> QED
  BY <1>1, <1>2 DEF RetryInv, OldJobIsFollowed, WinnerIsSubmitted, RetryIsOut,
                    Winner, Selected, Decide, Revert

\* A job that is awaited is one of the jobs in flight.
LEMMA AwaitedInFlight ==
    ASSUME PInv, Awaited
    PROVE  CurrentInFlight
<1>1. CASE mailbox # None
  BY <1>1 DEF PInv, IInv, SlotHoldsNewestDesire, CurrentInFlight, InFlight
<1>2. CASE stage # "idle" /\ job.generation = generation
  BY <1>2 DEF CurrentInFlight, InFlight
<1>3. ASSUME NEW i \in 1..Len(results), results[i].generation = generation
      PROVE  CurrentInFlight
  <2> DEFINE answer == [generation |-> results[i].generation,
                        desired |-> results[i].desired]
  <2>1. answer \in Answers
    BY <1>3 DEF PInv, PTypeOK, Answers
  <2> QED
    BY <1>3, <2>1 DEF CurrentInFlight, InFlight
<1> QED
  BY <1>1, <1>2, <1>3 DEF Awaited

\* What the run checks of retries follows.
LEMMA RetriesImply ==
    ASSUME PInv, RetryInv
    PROVE  RetryingWinnerIsServed
<1> SUFFICES ASSUME Winner # None, covers[Winner].status = "Retrying",
                    Selected.desired = last_submitted => submitted_player = Winner,
                    ~CurrentInFlight
             PROVE  retry.timer /\ retry.desire = Selected.desired
  BY DEF RetryingWinnerIsServed
<1>1. ~Awaited
  BY AwaitedInFlight
<1>2. last_submitted = Selected.desired /\ submitted_player = Winner
  BY <1>1 DEF RetryInv, WinnerIsSubmitted
<1>3. /\ IInv /\ covers \in CoverMaps /\ mode \in Modes
      /\ players \in PlayerMaps /\ Keyed(players, covers)
  BY InvariantTypes DEF PInv, IInv, TypeOK
<1>4. Winner \in Actionable(players, covers) /\ Winner \in Players
      /\ Selected.desired.target # None
  BY <1>3, WinnerIsActionable DEF Winner, Selected, Actionable, Playing
<1>5. covers[Winner] # None
  <2>1. /\ players[Winner] # None /\ players[Winner] \in PlayerStates
        /\ players[Winner].art_url # NoUrl \/ CoversDir[Winner] # None
    BY <1>3, <1>4 DEF Actionable, Playing, PlayerMaps
  <2>2. ArtIdentity(Winner, players[Winner].art_url) # None
    BY <2>1, SelectionAssumption DEF ArtIdentity, PlayerStates
  <2> QED
    BY <1>3, <1>4, <2>1, <2>2 DEF Keyed
<1>6. last_submitted # None
  <2>1. seq \in Nat /\ SeqBoundedBy(players, seq)
    BY <1>3 DEF IInv, TypeOK
  <2> QED
    BY <1>2, <1>3, <2>1, DecideType, NoneAssumption DEF Winner, Selected
<1>7. retry.timer /\ retry.desire # None
  BY <1>1, <1>2, <1>5, <1>6 DEF RetryInv, RetryIsOut
<1>8. retry.desire = last_submitted
  BY <1>3, <1>6, <1>7 DEF IInv, Consistent
<1> QED
  BY <1>2, <1>7, <1>8

\* The same when the worker and the screen are left alone and no result is added: a
\* result of the current generation was one of the current generation before.
LEMMA ShownKept ==
    ASSUME PInv, ShownInv, generation \in Nat, generation' \in Nat,
           generation' >= generation,
           UNCHANGED <<stage, job, content_id, outcome, last_committed, shown>>,
           \A i \in 1..Len(results') :
               \E k \in 1..Len(results) : results'[i] = results[k]
    PROVE  ShownInv'
<1>1. ASSUME NEW i \in 1..Len(results'), Reverts(results'[i].desired)
      PROVE  /\ results'[i].outcome # "Rejected"
             /\ results'[i].generation = generation' /\ Succeeded(results'[i].outcome)
                   => shown'.content = None
  <2>1. PICK k \in 1..Len(results) : results'[i] = results[k]
    OBVIOUS
  <2>2. results[k].generation \in Nat /\ results[k].generation <= generation
    BY JobTypes DEF PInv, WorkerInv, Versioned
  <2>3. results[k].generation = generation' => results[k].generation = generation
    BY <2>2
  <2> QED
    BY <1>1, <2>1, <2>3 DEF ShownInv, ShowsPreset
<1>2. /\ shown' = last_committed'
      /\ stage' # "idle" /\ Reverts(job.desired)' => content_id' = None
      /\ stage' = "report" /\ Reverts(job.desired)' =>
            outcome' # "Rejected" /\ (Succeeded(outcome)' => shown'.content = None)
  BY DEF ShownInv, Reverts, Succeeded, ShowsPreset
<1> QED
  BY <1>1, <1>2 DEF ShownInv, ShowsPreset, Reverts, Succeeded

\* The call of wlchroma-ctl makes the screen and the last commit the same again, and
\* no revert of the same generation has an answer unless it is a revert that is called.
LEMMA CallShown ==
    ASSUME NothingUnseen, PInv, ShownInv, CallCtl
    PROVE  ShownInv'
<1>1. /\ UNCHANGED <<job, results, content_id, generation>>
      /\ stage = "ctl" /\ stage' = "report"
      /\ \/ /\ shown' = Key(content_id) /\ last_committed' = Key(content_id)
            /\ outcome' = "Committed"
         \/ /\ UNCHANGED <<shown, last_committed>>
            /\ outcome' = "FailedRetryable"
  BY DEF CallCtl, Finish, NothingUnseen, cvars
<1>2. Key(content_id).content = content_id
  BY DEF Key
<1>3. CASE UNCHANGED <<shown, last_committed>> /\ outcome' = "FailedRetryable"
  BY <1>1, <1>3 DEF ShownInv, ShowsPreset, Reverts, Succeeded
<1>4. CASE shown' = Key(content_id) /\ last_committed' = Key(content_id)
           /\ outcome' = "Committed"
  <2>1. Reverts(job.desired) => shown'.content = None
    BY <1>1, <1>2, <1>4 DEF ShownInv
  <2>2. ASSUME NEW i \in 1..Len(results), Reverts(results[i].desired),
               results[i].generation = generation
        PROVE  shown'.content = None
    <3>1. results[i].generation <= job.generation /\ job.generation <= generation
      BY <1>1, ElementOfSeq DEF PInv, WorkerInv, Ordered
    <3>2. job.generation \in Nat /\ generation \in Nat
      BY <1>1, JobTypes DEF PInv, WorkerInv
    <3>3. job.generation = generation
      BY <2>2, <3>1, <3>2
    <3>4. job.desired = results[i].desired
      BY <1>1, <2>2, <3>3 DEF PInv, WorkerInv, Versioned
    <3> QED
      BY <2>1, <2>2, <3>4
  <2> QED
    BY <1>1, <1>4, <2>1, <2>2 DEF ShownInv, ShowsPreset, Reverts, Succeeded
<1> QED
  BY <1>1, <1>3, <1>4

\* The steps of the worker before the call.
LEMMA RunShown ==
    ASSUME PInv, ShownInv, WorkerTake \/ StartRevert \/ Resolve \/ Extract
    PROVE  ShownInv'
<1>1. UNCHANGED <<last_committed, shown, results, generation>>
  BY DEF WorkerTake, Take, StartRevert, Resolve, Extract, cvars
<1>2. CASE WorkerTake
  BY <1>1, <1>2 DEF WorkerTake, ShownInv, ShowsPreset, Reverts, Succeeded
<1>3. CASE StartRevert
  <2>1. job' = job /\ content_id' = None /\ stage = "start"
        /\ (stage' = "report" => outcome' = "SkippedDuplicate"
                                 /\ last_committed = Key(None))
    BY <1>3 DEF StartRevert, DedupThen, Finish, DropJob, Proceed
  <2>2. stage' = "report" => shown.content = None
    BY <2>1 DEF ShownInv, Key
  <2> QED
    BY <1>1, <2>1, <2>2 DEF ShownInv, ShowsPreset, Reverts, Succeeded
<1>4. CASE Resolve
  <2>1. job' = job /\ job.desired.target # None
    BY <1>4 DEF Resolve, DedupThen, Finish, DropJob, Proceed
  <2> QED
    BY <1>1, <2>1 DEF ShownInv, ShowsPreset, Reverts, Succeeded
<1>5. CASE Extract
  <2>1. job' = job /\ content_id' = content_id /\ stage = "extract"
        /\ (stage' = "report" => outcome' = "FailedRetryable")
    BY <1>5 DEF Extract, Finish, DropJob, Proceed
  <2> QED
    BY <1>1, <2>1 DEF ShownInv, ShowsPreset, Reverts, Succeeded
<1> QED
  BY <1>2, <1>3, <1>4, <1>5

\* The outcome goes into the channel as it is.
LEMMA ReportShown ==
    ASSUME PInv, ShownInv, Report
    PROVE  ShownInv'
<1> DEFINE result == [generation |-> job.generation, outcome |-> outcome,
                      desired |-> job.desired]
<1>1. /\ stage = "report" /\ stage' = "idle" /\ results' = Append(results, result)
      /\ UNCHANGED <<generation, job, last_committed, shown>>
  BY DEF Report, cvars
<1>2. result \in JobResults /\ results \in Seq(JobResults) /\ Len(results) \in Nat
  BY <1>1, LenProperties DEF PInv, PTypeOK, WorkerInv, Jobs, JobResults
<1>3. result.outcome = outcome /\ result.desired = job.desired
  OBVIOUS
<1>4. \A i \in 1..Len(results') :
          (i \in 1..Len(results) /\ results'[i] = results[i]) \/ results'[i] = result
  <2> HIDE DEF result
  <2>1. /\ Len(results') = Len(results) + 1
        /\ \A i \in 1..Len(results) : results'[i] = results[i]
        /\ results'[Len(results) + 1] = result
    BY <1>1, <1>2, AppendProperties
  <2> QED
    BY <1>2, <2>1
<1>5. Reverts(job.desired) => outcome # "Rejected" /\ (Succeeded(outcome) => ShowsPreset)
  BY <1>1 DEF ShownInv
<1> HIDE DEF result
<1> QED
  BY <1>1, <1>3, <1>4, <1>5 DEF ShownInv, ShowsPreset, Reverts, Succeeded

\* Every step of the daemon keeps it, unless the environment changes the screen unseen.
LEMMA ShownStep ==
    ASSUME NothingUnseen
    PROVE  PInv /\ ShownInv /\ [PNext]_vars => ShownInv'
<1> SUFFICES ASSUME PInv, ShownInv, [PNext]_vars PROVE ShownInv'
  OBVIOUS
<1>1. generation \in Nat /\ generation' \in Nat
  BY PNextStep, JobTypes DEF PInv, IInv, TypeOK
<1>2. CASE Deliver
  <2>1. generation' >= generation
    BY <1>1, <1>2, AdoptGrows DEF Deliver
  <2> QED
    BY <1>1, <1>2, <2>1, ChannelTail, ShownKept DEF Deliver
<1>3. CASE Worker
  BY <1>3, CallShown, RunShown, ReportShown DEF Worker
<1>4. CASE UNCHANGED wvars /\ generation' >= generation
  BY <1>1, <1>4, ShownKept DEF wvars
<1>5. CASE UNCHANGED vars
  BY <1>1, <1>4, <1>5 DEF vars, cvars
<1>6. CASE \/ \E name \in Players, status \in Statuses, art_url \in Urls \cup {NoUrl} :
                 Line(name, status, art_url)
           \/ \E name \in Players : Vanish(name)
           \/ \E value \in ColorSchemes : Scheme(value)
           \/ TimerFires
  BY <1>1, <1>4, <1>6, EventGrows DEF Line, Vanish, Scheme, TimerFires
<1> QED
  BY <1>2, <1>3, <1>5, <1>6 DEF PNext

\* A handler that ends with a submission, or with none, and leaves the worker alone.
LEMMA RevertAfter ==
    ASSUME RevertInv, generation \in Nat, UNCHANGED <<stage, job, shown>>, SilenceReverts',
           Len(results) = 0 => Len(results') = 0,
           NEW cs, NEW rt, NEW ls \in {None, last_submitted}, Handed(cs, rt, ls),
           Left(cs, rt, ls) /\ Reverts(ls) =>
               \/ Awaited'
               \/ ShowsPreset
               \/ rt.desire = ls /\ (rt.timer \/ rt.attempt > RETRY_MAX_ATTEMPTS)
    PROVE  RevertInv'
<1>1. CASE mailbox' # None /\ generation' # 0
  BY <1>1 DEF RevertInv, RevertIsOut, Awaited
<1>2. CASE generation' = generation + 1 /\ mailbox' # None
  BY <1>1, <1>2
<1>3. CASE generation' = generation /\ mailbox' # None /\ ls # None
  <2>1. generation # 0
    BY <1>3 DEF RevertInv, Untouched
  <2> QED
    BY <1>1, <1>3, <2>1
<1>4. CASE Left(cs, rt, ls)
  <2>1. generation' = 0 => Untouched'
    BY <1>4 DEF RevertInv, Untouched, Left, ShowsPreset
  <2>2. RevertIsOut'
    BY <1>4 DEF RevertIsOut, Left, ShowsPreset, Reverts
  <2> QED
    BY <2>1, <2>2 DEF RevertInv
<1> QED
  BY <1>2, <1>3, <1>4 DEF Handed

\* When nothing plays, selecting anew submits a revert.
LEMMA RedecidedReverts ==
    ASSUME NEW cs, NEW rt, NEW ls, Redecided(cs, rt, ls), mode' \in Modes
    PROVE  Handed(cs, rt, ls) /\ SilenceReverts'
<1>1. Revert(mode') \in Selections /\ Revert(mode').desired \in Desires
      /\ Revert(mode').desired.target = None
  BY DEF Revert, Selections, Desires
<1>2. Playing(players)' = {} => Selected' = Revert(mode')
  BY DEF Selected, Decide, Playing
<1> QED
  BY <1>1, <1>2, NoneAssumption DEF Redecided, SilenceReverts, Reverts, Hold

\* A line or a lost player: the revert submitted last is out as it was.
LEMMA SelectReverts ==
    ASSUME PInv, RevertInv, UNCHANGED wvars, mode' \in Modes,
           NEW cs, NEW ls \in {None, last_submitted}, Redecided(cs, retry, ls)
    PROVE  RevertInv'
<1>1. UNCHANGED <<stage, job, shown, results>> /\ generation \in Nat
  BY JobTypes DEF PInv, wvars
<1>2. ASSUME Left(cs, retry, ls), Reverts(ls)
      PROVE  \/ Awaited' \/ ShowsPreset
             \/ retry.desire = ls /\ (retry.timer \/ retry.attempt > RETRY_MAX_ATTEMPTS)
  <2>1. ls = last_submitted
    BY <1>2 DEF Reverts
  <2> QED
    BY <1>1, <1>2, <2>1, LeftAwaits DEF RevertInv, RevertIsOut
<1> QED
  BY <1>1, <1>2, RedecidedReverts, RevertAfter

\* An accepted line.
LEMMA LineReverts ==
    ASSUME PInv, RevertInv, NEW name \in Players, NEW status \in Statuses,
           NEW art_url \in Urls \cup {NoUrl}, Line(name, status, art_url)
    PROVE  RevertInv'
<1> DEFINE ps == [players EXCEPT ![name] =
                     [status |-> status, art_url |-> art_url, seq |-> seq + 1]]
           cs == [covers EXCEPT ![name] = CoverAfterLine(name, art_url)]
           ls == IF Reopens(name, art_url) THEN None ELSE last_submitted
<1>1. IInv' /\ generation \in Nat /\ ~stopping /\ mode \in Modes /\ seq \in Nat
      /\ retry \in Retries
  BY OnLineStep, JobTypes DEF PInv, Line, StepOK, IInv, TypeOK
<1>2. cs \in CoverMaps
  BY <1>1, CoverAfterLineKeyed DEF PInv
<1>3. /\ players' = ps /\ mode' = mode
      /\ DecideAndSubmit(ps, cs, retry, ls, TRUE)
      /\ UNCHANGED wvars
  BY DEF Line, OnLine
<1>4. Redecided(cs, retry, ls)
  BY <1>1, <1>2, <1>3, DecideHands
<1> QED
  BY <1>1, <1>3, <1>4, SelectReverts

\* A lost player.
LEMMA VanishReverts ==
    ASSUME PInv, RevertInv, NEW name \in Players, Vanish(name)
    PROVE  RevertInv'
<1> DEFINE ps == [players EXCEPT ![name] = None]
           cs == [covers EXCEPT ![name] = None]
<1>1. IInv' /\ generation \in Nat /\ ~stopping /\ mode \in Modes
      /\ covers \in CoverMaps /\ retry \in Retries
  BY OnVanishStep, JobTypes DEF PInv, Vanish, StepOK, IInv, TypeOK, CoverMaps
<1>2. cs \in CoverMaps
  BY <1>1 DEF CoverMaps
<1>3. /\ players' = ps /\ mode' = mode
      /\ DecideAndSubmit(ps, cs, retry, last_submitted, FALSE)
      /\ UNCHANGED wvars
  BY DEF Vanish, OnVanish
<1>4. Redecided(cs, retry, last_submitted)
  BY <1>1, <1>2, <1>3, DecideHands
<1> QED
  BY <1>1, <1>3, <1>4, SelectReverts

\* A change of the color scheme does not change who plays.
LEMMA SchemeReverts ==
    ASSUME PInv, RevertInv, NEW value \in ColorSchemes, Scheme(value)
    PROVE  RevertInv'
<1> DEFINE new_mode == ModeFromColorScheme(value)
           selection == Decide(players, covers, new_mode)
           target == IF selection = Hold THEN None ELSE selection.desired.target
           desired == [target |-> applied_target, mode |-> new_mode]
<1>1. /\ generation \in Nat /\ ~stopping /\ covers \in CoverMaps
      /\ applied_target \in Targets \cup {None}
      /\ players \in PlayerMaps /\ seq \in Nat /\ SeqBoundedBy(players, seq)
  BY InvariantTypes DEF PInv, IInv, TypeOK
<1>2. /\ new_mode \in Modes
      /\ UNCHANGED <<players, stage, job, results, shown>>
  BY DEF Scheme, OnScheme, ModeFromColorScheme, Modes, wvars
<1>3. Handed(covers, retry, last_submitted)
  <2>1. CASE applied_target # None
             /\ MaybeSubmit(desired, None, TRUE, covers, retry, last_submitted)
    <3>1. desired \in Desires
      BY <1>1, <1>2, <2>1 DEF Desires
    <3> QED
      BY <1>1, <2>1, <3>1, MaybeSubmitHands
  <2>2. CASE /\ target # None
             /\ MaybeSubmit(selection.desired, selection.winner, TRUE,
                            covers, retry, last_submitted)
    <3>1. selection.desired \in Desires
      BY <1>1, <1>2, <2>2, DecideType
    <3> QED
      BY <1>1, <2>2, <3>1, MaybeSubmitHands
  <2>3. CASE Keep(covers, retry, last_submitted)
    BY <2>3 DEF Keep, Handed, Left
  <2> QED
    BY <2>1, <2>2, <2>3 DEF Scheme, OnScheme
<1>4. ASSUME Left(covers, retry, last_submitted)
      PROVE  (Awaited' <=> Awaited) /\ UNCHANGED <<generation, last_submitted>>
  BY <1>2, <1>4, LeftAwaits DEF Left
<1>5. SilenceReverts'
  <2>1. CASE mailbox' # None
    BY <2>1 DEF SilenceReverts, Awaited
  <2>2. CASE Left(covers, retry, last_submitted)
    BY <1>2, <1>4, <2>2 DEF RevertInv, SilenceReverts, Reverts, Playing
  <2> QED
    BY <1>3, <2>1, <2>2 DEF Handed
<1>6. Left(covers, retry, last_submitted) /\ Reverts(last_submitted) =>
          \/ Awaited' \/ ShowsPreset
          \/ /\ retry.desire = last_submitted
             /\ retry.timer \/ retry.attempt > RETRY_MAX_ATTEMPTS
  BY <1>4 DEF RevertInv, RevertIsOut
<1> QED
  BY <1>1, <1>2, <1>3, <1>5, <1>6, RevertAfter

\* The timer fires for a desire, which is handed over, or it was armed for nothing.
LEMMA TimerReverts ==
    ASSUME PInv, RevertInv, TimerFires
    PROVE  RevertInv'
<1>1. /\ UNCHANGED <<players, last_submitted, stage, job, results, shown>>
      /\ retry.timer
  BY DEF TimerFires, FireRetry, ConsumeTimer, wvars
<1>2. CASE /\ generation' = generation + 1
           /\ mailbox' = Job(generation + 1, retry.desire)
           /\ retry.desire # None
  <2>1. mailbox' # None /\ generation' # 0
    <3>1. retry.desire \in Desires /\ generation \in Nat /\ generation + 1 \in Nat
      BY <1>2 DEF PInv, IInv, TypeOK, Retries
    <3> QED
      BY <1>2, <3>1, JobType, NoJobAssumption
  <2> QED
    BY <2>1 DEF RevertInv, SilenceReverts, RevertIsOut, Awaited
<1>3. CASE UNCHANGED <<generation, submitted_player, mailbox>> /\ retry.desire = None
  <2>1. (Awaited' <=> Awaited) /\ (Playing(players)' <=> Playing(players))
    BY <1>1, <1>3 DEF Awaited
  <2>2. SilenceReverts'
    BY <1>1, <1>3, <2>1 DEF RevertInv, SilenceReverts
  <2>3. RevertIsOut'
    BY <1>1, <1>3, <2>1 DEF RevertInv, RevertIsOut, Reverts, ShowsPreset
  <2>4. generation' = 0 => Untouched'
    BY <1>1, <1>3 DEF RevertInv, Untouched, ShowsPreset
  <2> QED
    BY <2>2, <2>3, <2>4 DEF RevertInv
<1> QED
  BY <1>2, <1>3 DEF TimerFires, FireRetry, PInv, IInv, Consistent

\* The result of a revert: it succeeded and the preset is shown, or it counts.
LEMMA DeliverReverts ==
    ASSUME PInv, RetryInv, ShownInv, RevertInv, Deliver
    PROVE  RevertInv'
<1>1. /\ results # <<>> /\ Adopt(Head(results)) /\ results' = Tail(results)
      /\ UNCHANGED <<stage, job, shown>>
  BY DEF Deliver
<1>2. /\ 1 \in 1..Len(results) /\ Head(results) = results[1]
      /\ Head(results) \in JobResults
      /\ \A i \in 1..Len(results) : i # 1 =>
             i - 1 \in 1..Len(results') /\ results'[i - 1] = results[i]
  BY <1>1, ChannelTail
<1>3. /\ generation \in Nat /\ ~stopping /\ mode \in Modes /\ covers \in CoverMaps
      /\ retry \in Retries /\ submitted_player \in Players \cup {None}
      /\ players' = players /\ mode' = mode /\ last_submitted \in Desires \cup {None}
  BY <1>1 DEF PInv, IInv, TypeOK, CoverMaps, Adopt, cvars
<1>4. IInv'
  BY DeliverStep DEF PInv
<1>5. Len(results) # 0
  BY <1>2
<1>6. CASE Stale(Head(results)) /\ UNCHANGED cvars
  <2>1. results[1].generation # generation
    BY <1>2, <1>3, <1>6 DEF Stale
  <2>2. UNCHANGED <<generation, mailbox, last_submitted, retry, players>>
    BY <1>6 DEF cvars
  <2>3. Awaited => Awaited'
    BY <1>1, <1>2, <2>1, <2>2 DEF Awaited
  <2>4. generation # 0
    BY <1>5 DEF RevertInv, Untouched
  <2>5. SilenceReverts'
    BY <2>2, <2>3 DEF RevertInv, SilenceReverts
  <2>6. RevertIsOut'
    BY <1>1, <2>2, <2>3 DEF RevertInv, RevertIsOut, ShowsPreset
  <2> QED
    BY <2>2, <2>4, <2>5, <2>6 DEF RevertInv
<1>7. ASSUME NEW cs \in CoverMaps, NEW rt \in Retries,
             DecideAndSubmit(players, cs, rt, last_submitted, FALSE),
             Reverts(last_submitted) =>
                 \/ ShowsPreset
                 \/ /\ rt.desire = last_submitted
                    /\ rt.timer \/ rt.attempt > RETRY_MAX_ATTEMPTS
      PROVE  RevertInv'
  <2>1. Redecided(cs, rt, last_submitted)
    BY <1>3, <1>4, <1>7, DecideHands
  <2> QED
    BY <1>1, <1>3, <1>5, <1>7, <2>1, RedecidedReverts, RevertAfter
<1> DEFINE marked(status) == SetCoverStatus(covers, submitted_player, status)
<1>8. \A status \in CoverStatuses : marked(status) \in CoverMaps
  BY <1>3, SetCoverStatusKeepsArt
<1>9. ASSUME ~Stale(Head(results)), Reverts(last_submitted)
      PROVE  /\ results[1].outcome # "Rejected"
             /\ Succeeded(results[1].outcome) => ShowsPreset
  <2>1. results[1].generation = generation
    BY <1>2, <1>9 DEF Stale
  <2>2. results[1].desired = last_submitted
    BY <1>2, <1>9, <2>1 DEF PInv, WorkerInv, Versioned, IInv, Consistent, Reverts
  <2> QED
    BY <1>2, <1>9, <2>1, <2>2 DEF ShownInv
<1>10. CASE ~Stale(Head(results)) /\ Succeeded(Head(results).outcome) /\ AdoptSuccess
  <2>1. [retry EXCEPT !.desire = None, !.attempt = 0] \in Retries
    BY <1>3 DEF Retries
  <2>2. "Ready" \in CoverStatuses
    BY DEF CoverStatuses
  <2> QED
    BY <1>2, <1>7, <1>8, <1>9, <1>10, <2>1, <2>2 DEF AdoptSuccess
<1>11. CASE AdoptFailure
  <2> DEFINE exhausted == Counted.attempt > RETRY_MAX_ATTEMPTS
             rt == IF exhausted THEN Counted
                   ELSE [Counted EXCEPT !.timer = TRUE, !.player = submitted_player]
             status == IF exhausted THEN "Exhausted" ELSE "Retrying"
  <2>1. Counted \in Retries /\ Counted.desire = last_submitted
    BY <1>3, CountedType
  <2>2. /\ rt \in Retries /\ rt.desire = last_submitted
        /\ rt.timer \/ rt.attempt > RETRY_MAX_ATTEMPTS
    BY <1>3, <2>1 DEF Retries
  <2>3. status \in CoverStatuses
    BY DEF CoverStatuses
  <2>4. DecideAndSubmit(players, marked(status), rt, last_submitted, FALSE)
    BY <1>11 DEF AdoptFailure
  <2> HIDE DEF rt, status
  <2> QED
    BY <1>7, <1>8, <2>2, <2>3, <2>4
<1>12. CASE ~Stale(Head(results)) /\ Head(results).outcome = "Rejected" /\ AdoptRejection
  <2>1. "Rejected" \in CoverStatuses
    BY DEF CoverStatuses
  <2> QED
    BY <1>2, <1>3, <1>7, <1>8, <1>9, <1>12, <2>1 DEF AdoptRejection
<1> QED
  BY <1>1, <1>6, <1>10, <1>11, <1>12 DEF Adopt, Succeeded

\* The worker: what is shown only changes while the newest job is still awaited.
LEMMA WorkerReverts ==
    ASSUME PInv, RetryInv, RevertInv, Worker
    PROVE  RevertInv'
<1>1. /\ Awaited => Awaited'
      /\ UNCHANGED <<players, last_submitted, retry, generation>>
      /\ CallCtl => Awaited'
  BY WorkerAwaits DEF RetryInv
<1>2. ShowsPreset => ShowsPreset' \/ Awaited'
  BY <1>1 DEF Worker, WorkerTake, StartRevert, Resolve, Extract, Report, ShowsPreset
<1>3. generation # 0
  BY DEF RevertInv, Untouched, Worker, WorkerTake, Take, StartRevert, Resolve, Extract,
         CallCtl, Report
<1>4. SilenceReverts'
  BY <1>1 DEF RevertInv, SilenceReverts
<1>5. RevertIsOut'
  BY <1>1, <1>2 DEF RevertInv, RevertIsOut
<1> QED
  BY <1>1, <1>3, <1>4, <1>5 DEF RevertInv

\* Every step of the daemon keeps the way back to the preset.
LEMMA RevertStep == PInv /\ RetryInv /\ ShownInv /\ RevertInv /\ [PNext]_vars => RevertInv'
<1> SUFFICES ASSUME PInv, RetryInv, ShownInv, RevertInv, [PNext]_vars PROVE RevertInv'
  OBVIOUS
<1>1. CASE UNCHANGED vars
  <2>1. UNCHANGED <<players, last_submitted, retry, generation, mailbox, stage, job,
                    shown, results>>
    BY <1>1 DEF vars, cvars, wvars
  <2> QED
    BY <2>1 DEF RevertInv, Untouched, SilenceReverts, RevertIsOut, Awaited, ShowsPreset
<1> QED
  BY <1>1, LineReverts, VanishReverts, SchemeReverts, TimerReverts, DeliverReverts,
     WorkerReverts DEF PNext

\* At the start nothing was handed over and the preset is shown.
LEMMA ShownInit ==
    ASSUME NothingUnseen
    PROVE  PInit => ShownInv /\ RevertInv
<1> SUFFICES ASSUME PInit PROVE ShownInv /\ RevertInv
  OBVIOUS
<1>1. /\ shown = last_committed /\ shown.content = None
      /\ stage = "idle" /\ Len(results) = 0
      /\ generation = 0 /\ last_submitted = None /\ mailbox = None
  BY EmptySeq DEF PInit, Init, NothingUnseen
<1>2. ShownInv
  BY <1>1 DEF ShownInv
<1>3. RevertInv
  BY <1>1 DEF RevertInv, Untouched, SilenceReverts, RevertIsOut, Reverts, ShowsPreset
<1> QED
  BY <1>2, <1>3

\* What the run checks of the preset follows.
LEMMA RevertsImply ==
    ASSUME PInv, RevertInv
    PROVE  RevertedUnlessGivenUp
<1> SUFFICES ASSUME Quiet, Selected # Hold, Winner = None, ~ShowsPreset
             PROVE  /\ retry.desire # None
                    /\ retry.desire.target = None
                    /\ retry.attempt > RETRY_MAX_ATTEMPTS
  BY DEF RevertedUnlessGivenUp
<1>1. ~Awaited /\ ~retry.timer
  BY AwaitedInFlight DEF Quiet, CurrentInFlight
<1>2. Playing(players) = {}
  <2> SUFFICES ASSUME Playing(players) # {} PROVE FALSE
    OBVIOUS
  <2> DEFINE n == Newest(players, Actionable(players, covers))
  <2>1. Actionable(players, covers) # {} /\ Selected = Apply(players, n, mode)
    BY DEF Selected, Decide
  <2>2. players \in PlayerMaps /\ seq \in Nat /\ SeqBoundedBy(players, seq)
    BY InvariantTypes DEF PInv, IInv, TypeOK
  <2>3. n \in Players
    BY <2>1, <2>2, NewestIsMember DEF Actionable, Playing
  <2> QED
    BY <2>1, <2>3, SelectionAssumption DEF Winner, Apply
<1>3. Reverts(last_submitted)
  BY <1>1, <1>2 DEF RevertInv, SilenceReverts, Untouched
<1> QED
  BY <1>1, <1>3 DEF RevertInv, RevertIsOut, Reverts

-----------------------------------------------------------------------------
\* The theorems.

\* The strengthened invariant is inductive and holds in every reachable state.
THEOREM PipelineInvariant == PSpec => []PInv
BY PInitPInv, PNextStep, PTL DEF PSpec

\* The daemon implements the coordinator proved against an arbitrary worker, so the
\* coordinator's theorems hold with the real worker, mailbox and channel.
THEOREM PipelineImplementsCoordinator == PSpec => Spec
<1>1. PInit => Init
  BY DEF PInit
<1> QED
  BY <1>1, PipelineInvariant, StepRefines, PTL DEF PSpec, Spec

\* The worker's and the channel's state keep their types; the channel is bounded.
THEOREM PipelineTypes == PSpec => []PTypeOK
<1>1. PInv => PTypeOK
  BY DEF PInv
<1> QED
  BY <1>1, PipelineInvariant, PTL

\* A result that passes adopt's generation check is a result of the last decided
\* desire, although a JobResult names no desire.
THEOREM GenerationNamesDesire == PSpec => []OneDesirePerGeneration
<1>1. PInv => OneDesirePerGeneration
  BY InvariantImplies
<1> QED
  BY <1>1, PipelineInvariant, PTL

\* Jobs reach wlchroma, and their results the coordinator, in generation order.
THEOREM GenerationOrder == PSpec => []GenerationsInOrder
<1>1. PInv => GenerationsInOrder
  BY InvariantImplies
<1> QED
  BY <1>1, PipelineInvariant, PTL

\* A selected player that is Retrying is being served: its job is in flight or the
\* timer is armed for the desire selection wants.  No cancellation, superseded job
\* or stale result loses the retry.
THEOREM RetriesAreNotLost == PSpec => []RetryingWinnerIsServed
<1>1. PInv /\ RetryInv => RetryingWinnerIsServed
  BY RetriesImply
<1>2. PSpec => []RetryInv
  BY RetryInit, RetryStep, PipelineInvariant, PTL DEF PSpec
<1> QED
  BY <1>1, <1>2, PipelineInvariant, PTL
\* When nothing plays and nothing is left to do, wlchroma shows the preset, unless
\* the revert failed once more than it is retried.  (Not so when the environment
\* changes the screen unseen: a failed revert at startup, a call performed late.)
THEOREM SilenceShowsPreset ==
    ASSUME NothingUnseen
    PROVE  PSpec => []RevertedUnlessGivenUp
<1>1. PInv /\ RevertInv => RevertedUnlessGivenUp
  BY RevertsImply
<1>2. PSpec => []RetryInv
  BY RetryInit, RetryStep, PipelineInvariant, PTL DEF PSpec
<1>3. PSpec => []ShownInv
  BY ShownInit, ShownStep, PipelineInvariant, PTL DEF PSpec
<1>4. PSpec => []RevertInv
  BY ShownInit, RevertStep, <1>2, <1>3, PipelineInvariant, PTL DEF PSpec
<1> QED
  BY <1>1, <1>4, PipelineInvariant, PTL

-----------------------------------------------------------------------------
\* The shutdown.

\* The last steps of a daemon whose loop returned on Shutdown.
Reverted == {"cleanup", "last_wake", "last_join", "terminate_child", "exited"}

\* The stop flag is stored before the worker is waited for; when the wait is over the
\* worker is gone, or at most has a result to report.
StoppedBeforeRevert ==
    exit = "Shutdown" =>
        /\ phase \in {"wake", "join", "final_revert"} \cup Reverted => stop
        /\ phase \in {"final_revert"} \cup Reverted => ~alive \/ stage \in {"report", "idle"}

LoopHasNoExit == phase = "running" => exit = None

SlowIsAStall == slow => "stall" \in LifeFaults

LifeInv ==
    /\ LoopHasNoExit
    /\ SlowIsAStall
    /\ StoppedBeforeRevert

\* The final revert succeeded if wlchroma-ctl never fails.
RevertHolds ==
    "ctl" \notin Faults /\ exit = "Shutdown" /\ phase \in Reverted => ShowsPreset

\* A resolve never outlasts the join of the worker.
NothingStalls == "stall" \notin LifeFaults

-----------------------------------------------------------------------------
\* What the steps of the loop and of the worker leave alone.

\* A turn of the loop.
Turn ==
    /\ phase = "running"
    /\ UNCHANGED <<stage, job, shown, stop, alive, slow>>
    /\ \/ UNCHANGED <<phase, exit>>
       \/ phase' = "cleanup" /\ exit' = "WorkerDied"

LEMMA TurnSteps ==
    ASSUME \/ \E name \in Players, status \in Statuses, art_url \in Urls \cup {NoUrl} :
                 LoopTurn(Line(name, status, art_url))
           \/ \E name \in Players : LoopTurn(Vanish(name))
           \/ \E value \in ColorSchemes : LoopTurn(Scheme(value))
           \/ LoopTurn(TimerFires)
           \/ LoopTurn(Deliver)
    PROVE  Turn
BY DEF LoopTurn, Turn, Line, Vanish, Scheme, TimerFires, Deliver, wvars

\* A step of the worker.  It only takes a job while stop is not set, and only leaves a
\* stage it is in.
LEMMA WorkerSteps ==
    ASSUME LWorker \/ WakesUp \/ WorkerDies
    PROVE  /\ alive /\ UNCHANGED <<phase, exit, stop, slow>>
           /\ \/ ~stop
              \/ UNCHANGED <<job, shown, stage, alive>>
              \/ /\ UNCHANGED <<job, shown>>
                 /\ alive' = FALSE \/ (stage = "report" /\ stage' = "idle")
                                   \/ stage \notin {"report", "idle"}
              \/ UNCHANGED job /\ stage \notin {"report", "idle"}
BY DEF LWorker, Lock, Look, Wait, WakesUp, vars, WorkerDies, LTake, LStopped, LWork, LAbort, LReport, Running, lvars, wvars,
       StartRevert, Resolve, Extract, CallCtl, Report, DedupThen, Finish, DropJob, Proceed

\* A step of the main thread after the loop.
LEMMA ShutdownSteps ==
    ASSUME Shutdown
    PROVE  /\ phase # "running" /\ UNCHANGED <<exit, job, stage, alive>>
           /\ shown' = shown \/ phase = "final_revert"
BY DEF Shutdown, DoBeginShutdown, ClearMailbox, SignalStop, Wake, Waking, BeginJoin, Join,
       JoinTimesOut, FinalRevert, TerminateChild, wvars, vars, AfterJoin

-----------------------------------------------------------------------------

LEMMA LifeInit == LInit => LifeInv
BY DEF LInit, LifeInv, LoopHasNoExit, SlowIsAStall, StoppedBeforeRevert, Reverted

LEMMA TurnKeeps ==
    ASSUME LifeInv, Turn
    PROVE  LifeInv'
BY DEF LifeInv, LoopHasNoExit, SlowIsAStall, StoppedBeforeRevert, Reverted, Turn

LEMMA ReturnKeeps ==
    ASSUME LifeInv, NEW reason \in {"Shutdown", "Hangup"}, LoopReturns(reason)
    PROVE  LifeInv'
BY DEF LifeInv, LoopHasNoExit, SlowIsAStall, StoppedBeforeRevert, Reverted, LoopReturns

LEMMA WorkerKeeps ==
    ASSUME LifeInv, LWorker \/ WakesUp \/ WorkerDies
    PROVE  LifeInv'
<1>1. /\ alive /\ UNCHANGED <<phase, exit, stop, slow>>
      /\ \/ ~stop
         \/ UNCHANGED <<stage, alive>>
         \/ alive' = FALSE
         \/ stage = "report" /\ stage' = "idle"
         \/ stage \notin {"report", "idle"}
  BY WorkerSteps
<1> QED
  BY <1>1 DEF LifeInv, LoopHasNoExit, SlowIsAStall, StoppedBeforeRevert, Reverted

\* A join gives up only on a worker that has a result to report.
LEMMA ShutdownKeeps ==
    ASSUME NothingStalls, LifeInv, Shutdown
    PROVE  LifeInv'
<1>1. phase # "running" /\ UNCHANGED <<exit, job, stage, alive>>
  BY ShutdownSteps
<1>2. phase' # "running"
  BY DEF Shutdown, DoBeginShutdown, ClearMailbox, SignalStop, Wake, BeginJoin, Join,
         JoinTimesOut, FinalRevert, TerminateChild, AfterJoin
<1>3. SlowIsAStall'
  BY DEF Shutdown, DoBeginShutdown, ClearMailbox, SignalStop, Wake, BeginJoin, Join,
         JoinTimesOut, FinalRevert, TerminateChild, LifeInv, SlowIsAStall
<1>4. StoppedBeforeRevert'
  <2>1. CASE DoBeginShutdown \/ ClearMailbox
    BY <1>1, <2>1 DEF DoBeginShutdown, ClearMailbox, LifeInv, StoppedBeforeRevert, Reverted
  <2>2. CASE SignalStop \/ Wake
    BY <1>1, <2>2 DEF SignalStop, Wake, Waking, BeginJoin, LifeInv, StoppedBeforeRevert,
                      Reverted
  <2>3. CASE Join
    BY <1>1, <2>3 DEF Join, AfterJoin, LifeInv, StoppedBeforeRevert, Reverted
  <2>4. CASE JoinTimesOut
    <3>1. stage = "report"
      BY <2>4 DEF JoinTimesOut, Blocked, NothingStalls, LifeInv, SlowIsAStall
    <3> QED
      BY <1>1, <2>4, <3>1 DEF JoinTimesOut, AfterJoin, LifeInv, StoppedBeforeRevert, Reverted
  <2>5. CASE FinalRevert \/ TerminateChild
    BY <1>1, <2>5 DEF FinalRevert, TerminateChild, LifeInv, StoppedBeforeRevert, Reverted
  <2> QED
    BY <2>1, <2>2, <2>3, <2>4, <2>5 DEF Shutdown
<1> QED
  BY <1>2, <1>3, <1>4 DEF LifeInv, LoopHasNoExit

LEMMA LifeNext ==
    NothingStalls /\ LifeInv /\ [LNext]_allvars => LifeInv'
<1> SUFFICES ASSUME NothingStalls, LifeInv, [LNext]_allvars PROVE LifeInv'
  OBVIOUS
<1>1. CASE UNCHANGED allvars
  BY <1>1 DEF allvars, vars, wvars, lvars, LifeInv, LoopHasNoExit, SlowIsAStall,
              StoppedBeforeRevert
<1>2. CASE Exited
  BY <1>1, <1>2 DEF Exited
<1>3. CASE LNext /\ ~Exited
  BY <1>3, TurnSteps, TurnKeeps, ReturnKeeps, WorkerKeeps, ShutdownKeeps DEF LNext
<1> QED
  BY <1>1, <1>2, <1>3

\* The inductive invariant holds: when a shutdown comes to the final revert, the stop
\* flag is set and the worker is gone, or has only a result left to report.
THEOREM LifecycleInvariant ==
    ASSUME NothingStalls
    PROVE  LSpec => []LifeInv
<1>1. LInit => LifeInv
  BY LifeInit
<1>2. LifeInv /\ [LNext]_allvars => LifeInv'
  BY NothingStalls, LifeNext
<1> QED
  BY <1>1, <1>2, PTL DEF LSpec

\* After the final revert of a shutdown nothing changes what wlchroma shows, also when
\* the join gave up on the worker (NothingCommitsAfterFinalRevert).
THEOREM NothingCommitsAfter ==
    ASSUME NothingStalls
    PROVE  LSpec => NothingCommitsAfterFinalRevert
<1>1. LifeInv /\ [LNext]_allvars =>
          [exit = "Shutdown"
           /\ phase \in {"cleanup", "last_wake", "last_join", "terminate_child", "exited"}
           => shown' = shown]_allvars
  <2> SUFFICES ASSUME LifeInv, [LNext]_allvars, exit = "Shutdown", phase \in Reverted
               PROVE  shown' = shown
    BY DEF Reverted
  <2>1. CASE UNCHANGED allvars
    BY <2>1 DEF allvars, vars, wvars
  <2>2. CASE LWorker \/ WakesUp \/ WorkerDies
    <3>1. stop /\ (~alive \/ stage \in {"report", "idle"})
      BY DEF LifeInv, StoppedBeforeRevert
    <3> QED
      BY <2>2, <3>1, WorkerSteps
  <2>3. CASE Shutdown
    BY <2>3, ShutdownSteps DEF Reverted
  <2>4. CASE Turn
    BY <2>4 DEF Turn
  <2>5. ASSUME NEW reason, LoopReturns(reason) PROVE shown' = shown
    BY <2>5 DEF LoopReturns, vars, wvars
  <2>6. CASE Exited
    BY <2>1, <2>6 DEF Exited
  <2> QED
    BY <2>1, <2>2, <2>3, <2>4, <2>5, <2>6, TurnSteps DEF LNext
<1> QED
  BY <1>1, LifecycleInvariant, PTL DEF LSpec, NothingCommitsAfterFinalRevert

\* A daemon that was shut down leaves wlchroma with the preset, unless wlchroma-ctl
\* failed: whatever job ran when the shutdown came, it did not get the last word.
THEOREM ShutdownLeavesPreset ==
    ASSUME NothingStalls
    PROVE  LSpec => []RevertHolds
<1>1. LInit => RevertHolds
  BY DEF LInit, RevertHolds, Reverted
<1>2. LifeInv /\ RevertHolds /\ [LNext]_allvars
      /\ [exit = "Shutdown"
          /\ phase \in {"cleanup", "last_wake", "last_join", "terminate_child", "exited"}
          => shown' = shown]_allvars
      => RevertHolds'
  <2> SUFFICES ASSUME LifeInv, RevertHolds, [LNext]_allvars,
                      exit = "Shutdown" /\ phase \in Reverted => shown' = shown,
                      "ctl" \notin Faults, exit' = "Shutdown", phase' \in Reverted
               PROVE  shown'.content = None
    BY DEF RevertHolds, ShowsPreset, Reverted, allvars, vars, wvars
  <2>1. CASE exit = "Shutdown" /\ phase \in Reverted
    BY <2>1 DEF RevertHolds, ShowsPreset
  <2>2. CASE ~(exit = "Shutdown" /\ phase \in Reverted)
    <3>1. CASE FinalRevert
      BY <3>1 DEF FinalRevert
    <3>2. CASE LWorker \/ WakesUp \/ WorkerDies
      BY <2>2, <3>2, WorkerSteps
    <3>3. CASE Turn
      BY <2>2, <3>3 DEF Turn
    <3>4. ASSUME NEW reason, LoopReturns(reason) PROVE FALSE
      BY <3>4 DEF LoopReturns, Reverted
    <3>5. CASE Shutdown /\ ~FinalRevert
      <4>1. exit = "Shutdown" /\ phase' = "terminate_child" => phase = "last_join"
        BY <2>2, <3>5 DEF Shutdown, DoBeginShutdown, ClearMailbox, SignalStop, Wake,
           BeginJoin, Join, JoinTimesOut, TerminateChild, AfterJoin
      <4> QED
        BY <2>2, <3>5, <4>1, ShutdownSteps DEF Shutdown, DoBeginShutdown, ClearMailbox,
           SignalStop, Wake, Waking, BeginJoin, Join, JoinTimesOut, TerminateChild,
           AfterJoin, Reverted
    <3>6. CASE UNCHANGED allvars \/ Exited
      BY <2>2, <3>6 DEF Exited, allvars, lvars
    <3> QED
      BY <3>1, <3>2, <3>3, <3>4, <3>5, <3>6, TurnSteps DEF LNext
  <2> QED
    BY <2>1, <2>2
<1> QED
  BY <1>1, <1>2, LifecycleInvariant, NothingCommitsAfter, PTL
     DEF LSpec, NothingCommitsAfterFinalRevert
-----------------------------------------------------------------------------
\* The worker's sleep.

\* From the moment get has decided to wait, while it still holds the lock, nothing is
\* there to wait for; a stop flag stored since then is followed by its wakeup.
WakeInv ==
    alive /\ get \in {"wait", "asleep"} => mailbox = None /\ (stop => Waking)

\* A turn of the loop that puts a job finds the lock free and notifies.
LEMMA TurnWakes ==
    ASSUME WakeInv, NEW A, LoopTurn(A)
    PROVE  WakeInv'
<1>1. phase = "running" /\ UNCHANGED <<stop, alive>>
  BY DEF LoopTurn
<1>2. CASE mailbox' = mailbox
  BY <1>1, <1>2 DEF LoopTurn, WakeInv, Waking
<1>3. CASE mailbox' # mailbox
  <2>1. get' \notin {"wait", "asleep"}
    BY <1>3 DEF LoopTurn, Held, Notify
  <2> QED
    BY <2>1 DEF WakeInv
<1> QED
  BY <1>2, <1>3

\* A step of the worker.  Only get itself goes to sleep, and it looked first.
LEMMA WorkerWakes ==
    ASSUME WakeInv, LWorker \/ WakesUp \/ WorkerDies
    PROVE  WakeInv'
<1>1. CASE Lock \/ WakesUp \/ LTake \/ LStopped \/ WorkerDies
  <2>1. get' \notin {"wait", "asleep"}
    BY <1>1 DEF Lock, WakesUp, LTake, LStopped, WorkerDies
  <2> QED
    BY <2>1 DEF WakeInv
<1>2. CASE Look
  BY <1>2 DEF Look, WakeInv, vars, cvars
<1>3. CASE Wait
  BY <1>3 DEF Wait, WakeInv, Waking, Running, vars, cvars
<1>4. CASE LWork \/ LAbort \/ LReport
  <2>1. UNCHANGED <<mailbox, get, alive, stop, phase>>
    BY <1>4 DEF LWork, LAbort, LReport, lvars, cvars, StartRevert, Resolve, Extract, CallCtl,
                Report
  <2> QED
    BY <2>1 DEF WakeInv, Waking
<1> QED
  BY <1>1, <1>2, <1>3, <1>4 DEF LWorker

\* A step of the main thread.  Until the wakeup that follows the store of the flag
\* the thread takes no other step.
LEMMA ShutdownWakes ==
    ASSUME WakeInv, Shutdown
    PROVE  WakeInv'
<1>1. CASE DoBeginShutdown
  BY <1>1 DEF DoBeginShutdown, BeginShutdown, WakeInv, Waking
<1>2. CASE ClearMailbox
  BY <1>2 DEF ClearMailbox, WakeInv, Waking
<1>3. CASE SignalStop
  BY <1>3 DEF SignalStop, WakeInv, Waking, vars, cvars
<1>4. CASE Wake
  <2>1. get' \notin {"wait", "asleep"}
    BY <1>4 DEF Wake, Held, Notify
  <2> QED
    BY <2>1 DEF WakeInv
<1>5. CASE Join \/ JoinTimesOut \/ FinalRevert \/ TerminateChild
  <2>1. ~Waking /\ UNCHANGED <<mailbox, get, alive, stop>>
    BY <1>5 DEF Join, JoinTimesOut, FinalRevert, TerminateChild, Waking, vars, cvars
  <2> QED
    BY <2>1 DEF WakeInv
<1> QED
  BY <1>1, <1>2, <1>3, <1>4, <1>5 DEF Shutdown

LEMMA WakeNext == WakeInv /\ [LNext]_allvars => WakeInv'
<1> SUFFICES ASSUME WakeInv, [LNext]_allvars PROVE WakeInv'
  OBVIOUS
<1>1. CASE UNCHANGED allvars \/ Exited
  BY <1>1 DEF Exited, allvars, vars, cvars, lvars, WakeInv, Waking
<1>2. ASSUME NEW reason, LoopReturns(reason) PROVE WakeInv'
  BY <1>2 DEF LoopReturns, WakeInv, Waking, vars, cvars
<1> QED
  BY <1>1, <1>2, TurnWakes, WorkerWakes, ShutdownWakes DEF LNext

\* "The waiter cannot miss it": the worker never sleeps beside a waiting job, and never
\* through a stop, although the flag is stored without the lock.
THEOREM WakeupsAreNotLost == LSpec => []NoWakeupLost
<1>1. LInit => WakeInv
  BY DEF LInit, WakeInv
<1>2. WakeInv => NoWakeupLost
  BY DEF WakeInv, NoWakeupLost
<1> QED
  BY <1>1, <1>2, WakeNext, PTL DEF LSpec
=============================================================================
