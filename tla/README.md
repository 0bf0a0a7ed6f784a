# Formal models of mpris-chroma

`mpris-chroma` (crate under `src/`) watches MPRIS players, picks the one whose
cover should colour the desktop, computes a palette from it and hands that to
`wlchroma` through `wlchroma-ctl`. These TLA+ modules model the part of it that
is hard to test: one event-loop thread, one worker thread, a one-slot mailbox, a
bounded event channel, a retry timer, an external program that may fail or
answer late, and a shutdown that races all of them; the threads that feed the
channel; the files, servers and processes the worker depends on; and the integer
core of the colour pipeline. TLC checks the models on small instances. TLAPS proves,
for every instance, every safety property that a passing run checks; what only TLC
checks is liveness. Paths below are relative to `src/`, so
`src/coordinator.rs` is the crate's coordinator.

## 1. The system

| component | state it keeps | operations | talks to |
|---|---|---|---|
| selection (`src/select.rs`, `src/state.rs`) | none | `decide` | called by the coordinator |
| coordinator (`src/coordinator.rs`) | last line and cover status per player, sequence and generation counters, mode, dedup key, last desire, retry state, retone anchor, `stopping` | `on_line`, `on_vanish`, `on_scheme`, `adopt`, `fire_retry`, `begin_shutdown` | `Host`: submit a job, arm or cancel the timer |
| mailbox (`src/worker.rs`) | one job or none | `put`, `get`, `clear`, `wake`, `superseded` | coordinator puts, worker gets |
| worker (`src/worker.rs`) | last commit, the job it runs | `serve`/`run_once`: resolve, extract, apply or revert | `Stages`; reports into the event channel |
| runtime loop (`src/runtime.rs`) | timer, worker-dead flag, the bounded channel | `run_loop`, `submit`, `schedule_retry`, `fire_due_timer` | drives the coordinator |
| daemon (`src/daemon.rs`) | the stopping flag, the handles | `run`: startup revert, loop, sequenced shutdown, final revert | everything above |
| ctl client (`src/apply.rs`) | none | `apply`, `revert` (bounded call of `wlchroma-ctl`) | wlchroma |
| cover resolver, cache, fetch, policy (`src/cover/`) | cache directory, directory-scan memo, mtime of the directory a scan starts from | `resolve`, `publish`, `evict`, `fetch` | file system, HTTP |
| palette memo (`src/color/mod.rs`) | one slot | `get` | called in extract |
| colour algorithms (`src/color/`) | none between covers | sample, quantize, select, tone, separate | called by the memo |
| framing (`src/framing.rs`) | partial line, discard flag | `feed` | fed by the playerctl reader |
| event sources (`src/sources/`) | their threads, the playerctl child | reader, D-Bus listeners, signals, `terminate_child` | send into the channel |
| startup (`src/main.rs`) | none | parse configuration, wire the above | |

What is hard here:

* **Versioning.** A job carries a generation; its result is adopted only if the
  generation is still current. Results carry no desire, so the coordinator must
  make the generation name one desire. Resubmits of a directory scan reuse a
  generation, retries take a new one for the same desire.
* **Two dedups.** The coordinator drops a desire equal to the last submitted one,
  the worker a job equal to the last committed one. Each must know what the
  other left undone (a superseded job, a dropped result, a failed call).
* **Retry ownership.** One timer serves whichever player is the winner. A
  superseded, demoted, vanished or re-selected player must neither lose its
  retry nor keep another one's.
* **Failure in the middle.** Every stage may fail or panic, every file call may fail
  although the file is there, and a ctl call killed at its timeout may have been
  performed.
* **Identity and content.** A cover's identity (size and mtime) is read before its
  bytes, the directory's mtime before its files; three memos (scan, palette, last
  commit) are keyed on what was read first, while a media server writes on.
* **Wakeups.** The worker sleeps on a condition variable whose lock guards the slot but
  not the stop flag.
* **Back-pressure and shutdown.** The worker, the reader, two listeners and the signal
  thread block on the channel that the loop drains; after the loop ends nobody does,
  and the joins are bounded.
* **The outside races the startup.** The portal's scheme is read before its changes
  are followed, a player's last lines may arrive after its vanishing, playerctl may end
  while its lines are on their way.
* **Every blocking call has a limit, and their sum must have one.** A server may
  redirect and drip, a child stick, flood its standard error or leave a process
  behind that holds the pipe; a stop must get through all of it.
* **Boundaries in the colour code.** Empty halves of a cut, a search that stops early,
  a histogram of specks, windows at the edge of a raster, three slots that push each
  other about under one budget.

Correct means, per component: selection picks the newest actionable player; the
coordinator never leaves an outdated job where the worker takes it, books each
result on what it is a result for, retries boundedly and never strands a winner;
the worker reaches wlchroma in generation order and skips only what is shown;
the cache and the memos never stand in for another cover; the
framer is a filter of complete lines; what the sources see reaches the loop, and a
shutdown does under any load; a job takes bounded time, connects only to what was
checked and leaves no child behind; the cut partitions the histogram, the search
finds the nearest entry, the picks stand for the cover and separating them changes
as little as it promises; the
daemon as a whole converges to what selection wants and, on shutdown, to the
preset. `PROJECT.json` lists the hazards at their lines, with the properties that
cover them.

## 2. The modules

```
Selection  <-  Coordinator  <-  Pipeline  <-  Lifecycle
                    ^               ^             ^
             MCCoordinator      MCPipeline   MCLifecycle
             CoordinatorProofs  <-  PipelineProofs  (of Pipeline and Lifecycle)

Covers  <-  MCCovers, CoversProofs

LineFilter  <-  Framing  <-  Sources  <-  MCSources
                   ^            ^
             FramingProofs <- SourcesProofs

Clock  <-  Policy, Fetch  <-  Stages  <-  MCStages, StagesProofs
       <-  Command        <-

Sampling                     <-  MCColour, ColourProofs
MedianCut  <-  CutProofs     <-            ColourProofs
Separation  <-  Palette      <-  MCColour, ColourProofs
```

(`a <- b`: b extends a; MCColour extends MedianCut, too; Framing instantiates
LineFilter, Fetch extends Clock and Policy.)

**Selection** - the values (`Targets`, `Desires`, `PlayerStates`, `CoverStates`)
and `Decide`, which is `decide` of `select.rs`. A URL, directory or name is an
opaque value; `NoUrl` is the empty artUrl. `Paused` stands for `Stopped` as well:
no code outside parsing and logging tells them apart.

**Coordinator** - one action per handler of `coordinator.rs`, each running to
completion as the handlers do on their thread. `MaybeSubmit` has the function's
three outcomes (stopping, duplicate, submission) as disjuncts; the `DecideAndSubmit`
at the end of a handler is part of its action, and handlers pass on the cover
states, retry state and dedup key they have changed already. `retry` groups
`retry_timer`, `retry_desire`, `retry_player` and `retry_attempt`. The worker is
arbitrary here: any outcome, under any generation that was ever handed out, at any
time (`Adopt` in `Next`); this is the environment the theorems are proved against.

**Pipeline** - puts the real worker there. `stage` is where `run_once` stands:
`start` (take the job; dedup and look at the mailbox for a revert, resolve first
for a cover), `extract`, `ctl`, `report`. The supersession checks sit exactly where
the code makes them, so an event may come between any two of them and between the
last one and the ctl call. `shown` is what wlchroma shows; `last_committed` is what
the worker believes. `Faults` selects the failures the environment may produce;
`ctl_late` is a call that is reported failed but was performed.

**Lifecycle** - adds the main thread after the loop: `begin_shutdown`, `clear`,
the stop flag, the bounded joins, the final revert, `terminate_child`, for the three
ways the daemon's loop ends (a fourth, every sender gone, only exists in tests). The
worker keeps running meanwhile, may be blocked on a channel nobody drains, or
may have died. `Mailbox::get` is taken apart here, since the stop flag is stored without
the slot's lock: `get` is where an idle worker is (about to take the lock, to look at slot
and flag, to wait, asleep, about to leave), and while it has the lock (`Held`) nobody puts,
clears or wakes. A condition variable may also wake its waiter for no reason (`WakesUp`).
`NoWakeupLost` is what the comment on `Mailbox::wake` promises.

**Covers** - the same worker seen from its files. `pc` is the step a job is at:
`resolve`, then for a URL `fetch`, `write`, `sync`, `rename`, `evict`, `entry`
(`resolve_remote`, `publish`, `evict`), for a directory
`enumerate`, `identify` (`DirScanner::scan`), then `dedup`, `extract`, `ctl` as in
`run_once`. Between two steps the media server may create, write on or remove a file,
cache entries may pass their age, the process or the whole system may crash. Every
call on a file or directory may fail although what it is called on is there: a stat, the
reading of the directory, the look at a single file of it (which the scan then skips,
`skipped`), the listing or removal of an entry (`stuck`), the reading of the picture, which
then yields the default palette (`Unread`) and is remembered like any other. What a
crash loses is what was not synced. `dir_seen` is the mtime the scan started
from, `scan_memo`, `slot` and `last_committed` the three memos, `shown` what wlchroma
shows. `Pipeline` takes resolving as one step that yields the content its source has at
that moment, and a URL's content as constant; `IdentityTellsPicture` and
`UrlShowsItsPicture` are what entitles it to, as long as files can be read. What it is
not entitled to for a directory, that the content is the newest, is the finding
`stale_scan`.

**Framing, LineFilter** - `LineFramer` of `framing.rs`. `Feed` is what `feed` does
first, then there is a step for each newline of the buffer (`EndRefused`, `DropLine`,
`FrameLine`) and one for the tail (`EndFeed`): the report of a refused line is
sent from within `feed` and may block there. `fed` is the whole stream so far.
`LineFilter` is what the framer promises, with no word about reads: of the complete
lines, in their order, those within the cap are emitted and each of the others is
reported once. `ImplementsFilter` is the refinement. A line that is refused before its
end was read is one of the complete lines only when its end comes, hence the
correction of `reports` in the mapping.

**Sources** - main's startup in its order (`ReadScheme`, `WatchVanish`, `WatchSignals`,
`WatchScheme`, `SpawnFollow`), the world outside (playerctl with its pipe, the bus,
the portal, signals), the reader thread with the framer in it, the listeners, the
signal thread, and `run_loop`. Startup may find the portal without an answer, and a read
of the pipe may fail, upon which the reader hangs up like at the end of the file. A turn
of the loop is an event or a timeout, followed by a look at the timer. Each thread blocks
in `Send` when the channel is full. A value of the bus is what is inside its variants,
with their number: `scheme_value` unwraps any number of them. The coordinator is reduced
to what these events change that the properties speak of; its handlers are
`Coordinator`'s.

**Clock, Policy, Fetch** - one download. `Policy` has the allowlist of hosts and the
tables of reserved addresses as `policy.rs` computes with them (prefix lengths), and once
more by definition (first and last address of a block, host label by label) for
the property. `Fetch` has a step per blocking call: the lookup on its helper thread,
the request pinned to the checked addresses, each read of the body with the looks at
cap, deadline and stop flag before it. Time is counted in ticks of 5 s, the greatest
common divisor of the code's limits.

**Command** - one call of `wlchroma-ctl` with the child process, the pipe of its
standard error and the thread that reads it: `ReaderKeeps` up to the limit,
`ReaderSends`, `ReaderDrains` to the end of the file. The child may write, exit with any
status, stick, or leave a process behind that holds the pipe; waiting for it may fail
(`WaitFails`), and then it is left to itself. Time passes only when
nothing else can happen (`Idle`), so a call that ends late was stuck. `Revert` reads the
config and falls back to the named palette.

**Stages** - the two strung together as a job does, with a stop at any time.

**Sampling, MedianCut, Palette, Separation** - the colour pipeline in its four parts.
`Sampling` is `sample_file` with its budgets and errors, `draft_scale`, and the resampling
reduced to which rows of the image each row of the raster is made of, with the code's
shifted bounds. `MedianCut` is `quantize.rs` with its table of first colours, the heap,
the cut at the median with both corrections for an empty side, and the search in the order
of distance from the pixel's own box. `Palette` is `select` and `tone` and ends with
`Separation`, which is `separate` with one action per nudge.

A definition marked `Mutant` in a module is a plausible bug in the definition below it. It
is used nowhere in the model; each property has one that it must catch (five have two:
four conjunctions, and `NoWakeupLost`, for a job and for the stop), so that no property
holds merely because of how the model is written.

### Abstractions

* The channel is FIFO and carries the external events too. `results` holds the
  worker's results only; an external event is chosen when the loop handles it.
  Every order of an event relative to the results in the channel is covered, and
  the capacity bounds the results the channel can hold.
* Time is abstracted. An armed timer may fire at any moment, so the delays of
  `backoff_delay_ms` and the jitter are irrelevant to what is checked. A bounded
  join may time out only while the worker is in a step that can outlast it: a
  stalled resolve, or a send into a channel nobody reads.
* In `Pipeline` each operation of the mailbox is a step. `Lifecycle` has a step each time
  `get` takes the lock, looks, waits and leaves; the other operations hold the lock for a
  line, so each is a step that needs the lock to be free. That `put` notifies after it has
  released the lock makes no difference: in between, the worker can take the job, or is
  about to be notified.
* The resolve stage's stopping flag is stored immediately before the worker's stop
  flag, so `SignalStop` sets both.
* A submit to a dead worker drops the job and ends the loop after the handler;
  in the model the unread slot stands for the dropped job.
* Logging, the allowlist, the rate limiter of dropped lines and `applied` (only
  logged and shown to tests) are left out: a rejected line changes nothing.
* In `Covers` a file's bytes are a picture and how much of it is written (nothing, a
  header the signature sniff accepts, all). Every write gets an mtime of its own: on a
  file system with coarse timestamps two writes of one size within a tick share an
  identity, which no code could tell apart. Symlinks, the sync of the cache directory and
  the temporary files a crash leaves (nothing reads them again) are left out, and a
  download is one step (`Fetch` has its own); entries age only while the worker is idle;
  the supersession checks and late ctl calls are `Pipeline`'s.
* In `Sources` one player is followed; a byte is text or newline, and a framed line
  counts as well-formed unless it is empty. `missed` and `overtaken` record the two
  races the code leaves open (a scheme that startup did not read, or that changed between
  reading and following; lines behind a vanishing), so that the properties except exactly
  those. Finding the
  executable and playerctl's arguments are left out. After the loop's end see `Lifecycle`.
* In `Policy` a host is a sequence of labels and dots, so that suffixes can be
  told from labels without characters. URL parsing, DNS, TLS and HTTP are libraries:
  any lookup, response, redirect and read is possible within the limits the code gives
  them (the HTTP library's timeouts are taken to be kept). Publishing what was downloaded
  is in `Covers`.
* `STDERR_GRACE` (100 ms) and every step that is not stuck take no time.
* The colour parts run side by side, each from inputs of its own, which includes inputs
  the part before it would not produce. Lightness is an integer in units of 0.005, of
  which all limits of `tone.rs` are multiples. Of a distance of two colours `Separation`
  knows that it is at least the difference of their lightness; `Palette`, where the
  distance decides the picks, has hue classes far apart from each other. Filter
  weights, chroma, hue, gamut and the conversions between colour spaces are left
  to the golden tests (`tests/color_golden.rs`).
* An empty sample, for which `quantize` returns at once, is left out: `resize` always
  yields a sample of the asked size.
* What is recursive in the code (the heap, the numbering of the leaves, the picks) is
  a recursive function in the models; sums are those of the community modules.
* Counters are unbounded naturals in the modules; the MC modules bound them.

## 3. The runs

| run | what it asks | instance |
|---|---|---|
| `coordinator` | the coordinator's safety and step properties | players `p` (no directory) and `d` (directory `music`), two URLs, 3 lines, generation and attempts up to 3, one retry; URLs symmetric |
| `pipeline` | order, versioning, retry and dedup across the threads; retries end; without failures wlchroma shows what selection wants | the same players, starting in dark mode; calls that fail without effect, panics, refusals, or none of them in a behaviour (`calm`); 3 events |
| `lifecycle` | shutdown from anywhere; no wakeup is lost | one URL, two contents, stall excluded, death included; 2 events, wakeups for no reason among them |
| `covers` | cache, memos and dedup over changing files, failing calls and crashes | two URLs with a cache of one, two file names, two images of one size, 2 jobs, 4 changes of files, 1 crash, any number of failures; names, and URLs with their images, symmetric |
| `sources` | startup, framing, delivery, timer, end of the loop | lines of 1, 2 and 5 bytes against a cap of 1 and reads of up to 3, a channel of 2, four forms of the portal's answer, 3 happenings outside |
| `calls` | destinations, time and children of a job | the code's own time limits in ticks; 2 redirects, 3 bytes of body, 4 of standard error against a pipe of 1 and a limit of 2; an address on either side of every boundary of the tables; a stop at any tick or never |
| `colour` | the integer core, part by part | files around a cap of 4 bytes; 64 image sizes and a sample of 3 by 2; samples of up to 4 of 6 colours, 1 to 4 boxes; histograms of up to 4 of 7 entries, both modes; 3 slots at the upper end of the envelope |
| `stale_identity`, `stranded`, `stale_scan`, `late_call`, `reorder` | the disagreements of section 5 | an instance that shows them, mostly of a passing run with the fault in question |

Two players are the least for a hand-over between a winner and another player; one has a
covers directory because dedup, resubmission and identities differ for it. Two URLs give a
change of art, three contents a directory whose file changes and a URL that resolves to
the same bytes as the directory. One retry (of the three in the code) already has a first
failure, a retry and exhaustion; the cap is a CONSTANT everywhere. A channel of two
results fills when the loop lags by two jobs. `MaxEvents` bounds the external events, not
the internal steps: jobs, results, retries and panics go on until they come to rest by
themselves, which `Settles` shows they do. (`ctl_late` differs from `ctl` in `shown`
alone, which no step reads: what settles with one settles with the other.) A wakeup for no
reason counts as an event in `lifecycle`, or one could follow another for ever. In
`covers` the images have one size, so that only the mtime tells a file from its
replacement; a cache of one entry evicts at the second publication; two jobs are a memo's
filling and its use; four changes are a directory made, a file begun, continued and
replaced or joined by a second one, and one crash may hit any step of a publication and be
followed by a job that is served from what it left. The daemon starts and restarts in one
of the two modes (`Seeded`), as no step tells them apart but for the first key; its jobs
come in both. In `sources` a read may end before, at and after the cap and hold the end of
one line with the start of the next; a channel of two is full whenever two happenings are
under way, and three happenings are a line, the vanishing behind it and a signal. In
`calls` the time limits are the code's, so the bound on a job's time is the real one
(three hops can already take three times the deadline, so it is the deadline that bounds
it); two redirects are a permitted hop followed by any other one, a body of three bytes
has chunks within and beyond the cap, and a child may write less and more than the limit,
the pipe and both together hold. In `colour` two of the six colours share a hash and three
have one value on an axis; four boxes need a heap of two levels; the images lie on either
side of every limit (pixels, draft scales, the two-step resize); the histogram entries are
a speck, drab and vivid shares, and four lightnesses of one hue, of which some are clamped
to one. `CHECK_DEADLOCK FALSE` is said where the bounded environment does stop; the
absence of a worker or loop stuck in the middle is what `Settles`, `Converges`,
`ShutdownCompletes`, and `LoopEnds` check. `calls` and `colour` are checked for deadlock:
a job, a call and a part always come to an end.

**Fairness.** `Pipeline` assumes weak fairness of the worker thread, of the loop taking a
result from the channel and of the armed timer, and nothing of players, portal or bus. The
code justifies each: the worker thread is an OS thread whose stages are all bounded (fetch
deadline, ctl timeout); the loop blocks only in `recv_timeout`; a due timer is looked at
after every event as well as on timeout, so a flood cannot starve it
(`src/runtime.rs:1-10`). `Lifecycle` assumes weak fairness of the worker and of the main
thread only: nothing obliges the loop to end, or a sleeping worker to wake up for no
reason. The main thread waits for the mailbox's lock while the worker holds it; weak
fairness is enough because the worker takes it finitely often in the instance. `Sources`
assumes weak fairness of startup, of the reader, of each listener, of the signal thread
and of the loop (and nothing of failing reads), each a thread (or the main one) that does
nothing but block on the channel or on its input, and nothing of playerctl, the bus, the
portal or the signals. A sender on a full channel is disabled, and enabled again and again
while the loop drains it; weak fairness is enough for `LoopEnds` because what happens
outside is finite in the instance, so the channel does not stay full. (The channel of the
standard library is fair between its senders, which would carry the argument for an
endless flood; the model does not claim it.)

## 4. The proofs

`CoordinatorProofs` proves, for every set of players, URLs and directories, every
retry cap and an arbitrary worker, that `Spec` implies `TypeOK`,
`RetryIsForLastDesired`, `SlotHoldsNewestDesire`, `CoverKeyedOnArt`,
`DesireChangeBumpsGeneration` and `ShutdownIsFinal`. The assumptions are those the
modules name: URLs, directories, the empty URL and the absent value are distinct,
and the cap is a natural number.

None of these is inductive alone. `RetryIsForLastDesired` needs that the dedup key is the
last desire too, since `arm_retry` copies the key into the retry state, and
`SlotHoldsNewestDesire` needs that in turn for the job a retry submits. So the inductive
invariant `IInv` is: types; sequence numbers bounded by the counter (so that the newest
playing player exists and selection yields one); `Consistent`, the retry state and the
dedup key belong to the last desire and no timer is armed while stopping; the slot; the
keying; and `WaitingIsStale`, which `ShutdownIsFinal` needs, that a job still waiting when
the daemon stops is of an older generation. The argument follows the code: `MaybeSubmitOK`
treats the three outcomes of `maybe_submit` once, `DecideAndSubmitOK` lifts it over
selection, and each handler's step shows that what it passes on is `Consistent` and
`Keyed`. The action properties are proved as step conditions beside the invariant
(`StepOK`).

`PipelineProofs` proves of `PSpec`, for every set of faults and every channel capacity,
`PTypeOK`, `OneDesirePerGeneration`, `GenerationsInOrder`, and that `PSpec` implies
`Spec`: the real worker, mailbox and channel are one of the environments the
coordinator was proved against, so its theorems hold of the running daemon. The
invariant `PInv` says of each place a job can be (slot, worker, channel) that the job
is no newer than the coordinator and, if as new, of the last desire (`Versioned`),
and that the places are ordered. The argument is that the loop's handlers only raise the
generation (`AdoptGrows`, `EventGrows`), raise it with every change of the desire
(`StepOK`) and put only the newest job into the slot, while the worker's steps
move jobs along without changing them. The bound on generations is also what the
refinement needs: `Spec` lets the worker answer under generations handed out so far.

`FramingProofs` proves of `FSpec`, for every set of bytes, cap and read size, that the
framer implements `LineFilter` (`FramerIsFilter`) and that its buffer stays within the cap
and one read (`BufferStaysBounded`). The invariant `FInv` ties the buffer to the stream:
the buffer is the stream's end; between the last newline scanned and the buffer there is
none; those bytes are more than the cap if a line is being discarded, and there are none
if not; and the scanned part's lines are numbered without a gap (`Numbered`), without
which `CompleteLines` would not be known to be a sequence of lines. Framing or refusing a
line then appends exactly one line to the complete ones (`OneMoreLine`), and a read or the
end of `feed` none.

`PipelineProofs` also proves the two properties about retries and reverts, each with an
invariant of its own on top of `PInv`. `RetryingWinnerIsServed` (`RetriesAreNotLost`)
rests on `RetryInv`: a job that is out of date runs on only while a newer one waits in the
slot, what selection wants was submitted last or an answer of the current generation is
due, and the player of the last submission is `Retrying` only while its job or its timer is
out (`Awaited`). `RevertedUnlessGivenUp` (`SilenceShowsPreset`) is proved under
`NothingUnseen`: neither `startup` nor `ctl_late` is among the faults. Under these two it is
false, as section 5 says, because wlchroma then shows what the worker does not know of.
`ShownInv` is that the last commit is what wlchroma shows and that a revert that succeeded
in the current generation shows the preset; `RevertInv` that, without a playing player, a
revert was submitted last and is out, done or given up.

Of the life of the daemon (`LSpec`) it proves `NoWakeupLost` (`WakeupsAreNotLost`).
Its invariant `WakeInv` begins where `get` has decided to wait: until it is woken, the slot
is empty, and if the stop flag has been stored since, the main thread is about to wake it.
That is kept because nobody else touches the slot before the wait releases the lock, and
because the wakeup takes the lock; `put` and `wake` leave no sleeper behind. It also proves
`NothingCommitsAfterFinalRevert` under `NothingStalls`: no resolve outlasts the join, the
exception that section 5 has, too. `LifeInv` says why: when a shutdown comes to the final
revert, the stop flag is set and the worker is gone or has only a result left to report, so
a join that gave up gave up on a worker blocked in the full channel. From the same
invariant, `ShutdownLeavesPreset`: as long as wlchroma-ctl does not fail, a daemon that was
shut down leaves the preset.

`CoversProofs` proves `CTypeOK`, `CacheHoldsWholeImages`, `EvictionSparesTheNew`,
`IdentityTellsPicture`, `MemoOfSettledDirectory` and `UrlShowsItsPicture` of `Spec`, for
every set of URLs, names and pictures, every number of changes and crashes, and every
budget of at least one entry that holds an image. None is inductive alone, as the worker's
steps and the media server's interleave. `CInv` has, beside them, what a step may assume
of the job (`JobInStep`, `ReadyToCall`, `EntryStays`), that only whole and synced images
are published (`Published`) and the newest entry is the one being published
(`NewestPublished`), and the clock's part: no file is dated after now and no two files
share a date (`Dated`), and what an identity was taken of was written by now and not since
(`IdOfPath`, `SlotOfFile`, `KeyOfFile`, `MemoDated`). A write after an identity was taken
gets a later mtime, so it cannot make an old key tell another picture. Calls that fail are
part of all of it: an entry that cannot be listed or removed is what
`EvictionSparesTheNew` leaves in the cache beyond its budgets, a file that cannot be read
is remembered with the default palette, which the two properties about pictures therefore
admit. That every write has an mtime of its own is the model's abstraction of section 2,
and these theorems rest on it.

`StagesProofs` proves all five properties of the `calls` run, for every allowlist, every
server, every child and every limit within `StagesAssumption` (a hop's lookup, connect,
request and head fit in the deadline, as with the code's 5 s and 20 s). A call whose wait
fails leaves its child alone; `CallContained` admits that and nothing else.
`ConnectsOnlyChecked` needs two lemmas without state, that `HostAllowed` implies
`ProviderHost` and that `IsGlobal`, computed with prefix lengths, implies `Routable`,
computed with the registries' first and last addresses, for all IPv4 and IPv6 addresses.
`JobTimeBounded` needs where in its step a job stands (`StagesInOrder`, `DownloadTimes`,
`CallInStep`), in particular that a deadline is taken from the clock before it is waited
for.

`SourcesProofs` proves of `SSpec`, for any lines, cap, read size, capacity and any values
the portal may answer, `STypeOK`, `NothingLostBeforeHangup`, `ModeFollowsPortal`,
`VanishedIsForgotten`, `RetryInTime` and, through `FramerIsFilter`, `ImplementsFilter`: in
the daemon, too, the framer is the line filter (`ReaderIsFilter`; every step of `SNext` is
one of `FNext` or leaves the framer alone, `FramerSteps`). The invariant follows what is
on its way. For lines: what was framed is every line within the cap of what was scanned
(`AllFramed`), what was sent and not handled is in the channel (`LinesInOrder`), and a
hangup has nothing in front of it that is not in the channel and no line behind it
(`HangupIsLast`). For losses: while the player is off the bus its loss is in a queue, or
it is forgotten and no line of it is anywhere (`LossIsHandled`). For the portal: its word
is the last one on its way, in the listener's queue, else in the channel, else in the mode
(`LastWordIsThePortals`). `DueIsNext` says that a due timer has seen no event while the
loop waits. `Staged` ties startup to all of them. What is proved ends where the model's
exceptions `missed` and `overtaken` begin.

`CutProofs` proves `CutIsSound` (`CutsAreSound`) and `NearestIsFound`
(`NearestIsAlwaysFound`) of `CutSpec`, for every set of samples, every hash and every
number of colours. `CutInv` is what `CutIsSound` needs from step to step: the histogram
has an entry with pixels for every hash of the sample (`HistogramOK`); a box that was cut
has the entries of the two boxes behind it (`TreeOK`), which come later in the list than
it, so that the tree has no cycle; the leaves share the histogram out, and there is one
more of them than there were cuts (`LeavesOK`); the heap is one, has each leaf at most
once and every leaf with room to cut (`HeapOK`). A cut replaces one leaf by two
(`CutChangesLeaves`) that are not empty, because a box that is not a single value has an
axis with an extent (`RoomToCut`), and the median or the correction after it leaves an
entry on either side of such an axis (`HalvesArePixels`). The heap's operations are
recursive: `Risen` and `Sunk` say what the heap is like from the slot on that the new or
the last box has come to (`HeapAddKeeps`, `HeapRemoveKeeps`). `MapInv` then ties the
palette to the leaves. That breaking off at four times the squared distance loses nothing
is half a triangle inequality (`DistancesOf`); that the search has an entry to start from
at all is that the numbering of the leaves, a recursion over the tree, reaches every one
of them (`NumberedHasAll`).

`ColourProofs` proves the rest of the colour pipeline. `SampleIsSound` (`SamplesAreSound`)
of `SampleSpec`, for every header, every size of the sample and every limit: `SampleInv`
has what the decoder holds at each step, and that the rows of the raster show the image
from its first row to its last (`Shows`), which the draft's blocks do (`BlocksShow`) and
both passes of a resize keep (`ResampledShows`); for that the windows must lie in the
raster, move on with the output, begin at the first row and end at the last
(`WindowIsInside`, `WindowsMoveOn`, `FirstWindow`, `LastWindow`). `PicksStand`
(`PicksAlwaysStand`) of `PaletteSpec`, for every histogram: outranking is a strict order,
so that the ranking exists (`RankingOrders`), and along it the picks stand after each
entry that was looked at (`Stands`). `SeparationIsGentle` of `SepSpec`
(`SeparationStaysGentle`), for every envelope, step, shift and pass cap and up to three
slots. That no slot moves further than its shift is not inductive by itself: `Paid` says
that what a slot moved and what it may still move never add up to more than the shift,
whichever direction it was pushed in. The order is kept because a nudge stops at the
neighbour in the order of the start and, by `Ordered`, everything beyond that neighbour is
no nearer. The assumption is that limits are positive integers. That the slots start
inside the envelope is part of `SepInit`; `PalettesAreGentle` proves that toning leaves
the picks of any histogram there, and so that the separation is gentle within
`PaletteSpec`, too.

Recursion is reasoned about by rank. The library's induction theorems take the induction
hypothesis as an operator, which no prover here can instantiate, so `CutProofs` states
induction over sets: what holds of a member as soon as it holds of all of lower rank is a
set that has every member (`Climbs`, `ByRank`), and a recursion that looks at members of
lower rank alone has a solution (`LooksDown`, `RecursionHasSolution`), both from the least
number of a set of numbers. Heap slots, boxes of the tree and places in the ranking are
such ranks, and `SumsAreNumbers` is that of the sums.

Assumptions of the proofs are the named ASSUMEs of the modules: types of the constants,
that the absent value `None` is none of the values it stands beside, and the limits' order
where it matters. TLC evaluates each of them in some run.

Model-checked only is liveness (`Settles`, `Converges`, `ShutdownCompletes`, `LoopEnds`):
fairness and ENABLED are outside what TLAPS does here. Every other property of a passing
run is a theorem. Neither checked nor proved is that `ConnectsOnlyChecked` and the others
hold of `Covers` with `Fetch` in the place of its one-step download: the two are not
composed.

## 5. Where code and comments disagree

Each is a run that TLC refutes, with one property that says what the comment says.

* `stale_identity` - `adopt` books a result on the cover its player has *now*. A
  player whose art changes while another, art-less player holds selection keeps
  the generation, so the old URL's `Rejected` lands on the new identity.
* `stranded` - art that changes and changes back under Hold resets the cover to
  `Pending`, but the dedup key is unchanged: the winner is never attempted again,
  although `Pending` is "resolvable on selection".
* `stale_scan` - a cover created before a scan and written after it leaves the
  directory's mtime alone, so the memo (`src/cover/local.rs:62`, `:91`) stays valid
  and every later scan of it names an older cover, until the directory itself changes.
* `late_call` - a ctl call that was killed at its timeout may have been performed; the
  worker's `last_committed` does not know. The revert that comes next is skipped as a
  duplicate ("wlchroma already shows the preset", `src/worker.rs:222`) and the cover stays
  on screen with no player.
* `reorder` - `tone` clamps slots to the mode's envelope, so two of them may come out
  equal, and `separate` orders equal slots by their number. In TLC's trace lightnesses
  0, 1.00 and 0.88 become 0.15, 0.55 and 0.55 in dark mode and end as 0.15, 0.54 and 0.55:
  the cover's white is darker than its light grey. (With the code's own distances, greys of
  255, 215 and 0 end at 0.51, 0.55 and 0.15.) Toning is to leave alone how the slots "relate
  to each other" (`src/color/tone.rs:4-5`), the neighbour clamp to make "monotonicity hold
  by construction"
  (`docs/superpowers/specs/2026-07-27-palette-quality-design.md:232-235`), and both modes
  to show "the same slot rank order" (`:460-461`). The test `lightness_order_is_preserved`
  looks at slots that are not clamped.

More divergences have no run of their own; `PROJECT.json` lists them as hazards.

* A startup revert that failed has the effect of a late call: the worker is seeded with
  a revert that never happened (`src/daemon.rs:135`). `startup` among the faults refutes
  `SkipMeansShown` and `RevertedUnlessGivenUp`, too.
* A join that times out does not stop the final revert: with `stall` among the faults
  `NothingCommitsAfterFinalRevert` is refuted, as the detached worker may apply its
  palette later (`src/daemon.rs:179`). The `lifecycle` run and the theorem leave
  `stall` out and show that nothing else can come after the revert.
* Eviction is called least recently used (`src/cover/cache.rs:7`, `:118-119`, `:144`,
  `README.md:35`), but a hit does not renew the mtime it goes by, so it is by age of the
  download: a cover shown from the cache a moment ago may be evicted before one downloaded
  after it and never shown again.
* A scheme that changes between reading the portal and following it, and a line
  handled after its player's vanishing, are what `ModeFollowsPortal` and
  `VanishedIsForgotten` except.
* A performed revert whose result is stale leaves `applied_target` set, so a scheme change
  may re-tint a cover that is no longer shown (`src/coordinator.rs:342`).
* Two players that name one URL share a desire: the first one's retry state is not served
  while the second owns the submission. `RetryingWinnerIsServed` exempts exactly that
  case, and the players of the instances never share a directory.

## 6. Plan, and what is not modelled

1. *(done)* Selection, Coordinator and Pipeline with their proofs, Lifecycle, Covers.
2. *(done)* Framing as a refinement of LineFilter with its proof; Sources; Policy, Fetch,
   Command and Stages; the colour pipeline, with the proof of Separation.
3. *(done)* The proofs of Pipeline's retry and dedup properties, Lifecycle, Covers, Stages
   and Sources.
4. *(done)* The proofs of the colour pipeline: the cut and its heap, the search, the sample,
   the picks and the palette.
5. Compositions: `Fetch` in place of the one-step download of `Covers`; `Sources` in
   front of the whole `Coordinator`.

Not modelled:

* Conversions between colour spaces, gamut mapping and distances (`src/color/oklab.rs`,
  and the float parts of `tone.rs`, `pick.rs` and `resize.rs`): floating point, which TLA+
  has no sound counterpart of; the golden tests compare them with the original. `ramp.rs`
  is only used by tests.
* The player allowlist, the rate limiters of log lines and `applied`: they decide what is
  logged or seen by tests; the allowlist only drops lines.
* Symlinks and authority checks of `file://` URLs, planted files in the cache directory:
  single checks without state, with tests of their own.
* Parsing: playerctl's fields, TOML, URLs, image headers, the environment; HTTP, TLS, DNS
  and image decoding are libraries.
* The cleanup of early exits in `daemon::run` (each a line or two after a failed
  start), argument parsing, packaging, and the tools under `tools/`.
