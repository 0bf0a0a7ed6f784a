------------------------------ MODULE Lifecycle ------------------------------
(***************************************************************************)
(* The daemon from the running pipeline to process exit (src/src/daemon.rs *)
(* run, src/src/runtime.rs run_loop's exits, WorkerHandle of               *)
(* src/src/worker.rs): why the loop stops, the sequenced shutdown on the   *)
(* main thread, the worker that may be anywhere in a job meanwhile, the    *)
(* bounded joins and the final revert.                                     *)
(*                                                                         *)
(* Time is abstracted: a bounded join may give up only while the worker is *)
(* in a step that may outlast WORKER_STOP_TIMEOUT, which the "stall" fault *)
(* and a channel nobody drains any more make possible.                     *)
(*                                                                         *)
(* Mailbox::get is modelled down to its mutex and condition variable, as   *)
(* the stop flag is stored without the lock.  The main thread holds the    *)
(* lock for no longer than a step, and put notifies in the step in which   *)
(* it stores: in between, the worker could only be about to be notified.   *)
(***************************************************************************)
EXTENDS Pipeline

CONSTANT
    LifeFaults   \* "stall": resolve may block longer than the join waits;
                 \* "death": the worker thread may die

ASSUME LifecycleAssumption == LifeFaults \subseteq {"stall", "death"}

VARIABLES
    phase,    \* what the main thread does next
    exit,     \* why the loop returned, None while it runs
    stop,     \* the worker thread's stop flag
    get,      \* where an idle worker is in Mailbox::get
    alive,    \* the worker thread runs
    slow,     \* the job running when the join began may outlast it
    backlog,  \* unread external events fill the channel the loop left
    joined    \* stop_and_join saw the worker finish

lvars == <<phase, exit, stop, get, alive, slow, backlog, joined>>
allvars == <<vars, lvars>>

LInit ==
    /\ PInit
    /\ phase = "running"
    /\ exit = None
    /\ stop = FALSE
    /\ get = "call"
    /\ alive = TRUE
    /\ slow = FALSE
    /\ backlog = FALSE
    /\ joined = FALSE

-----------------------------------------------------------------------------
\* The slot's lock and its condition variable.

\* Mutant: the lock is released before the worker waits, not by the wait.
HeldToLook == get \in {"look", "leave"}

\* The worker holds the lock from taking it to the wait or the return.
Held == get \in {"look", "wait", "leave"}

\* A notification is lost unless the worker is asleep.
Notify == get' = IF get = "asleep" THEN "call" ELSE get

-----------------------------------------------------------------------------
\* The event loop.

\* One turn of the loop.  A put needs the lock and notifies.  A submit that finds the
\* worker dead ends the loop: the job is dropped, and the slot that nobody reads any
\* more stands for it.
LoopTurn(A) ==
    /\ phase = "running"
    /\ A
    /\ IF mailbox' = mailbox THEN UNCHANGED get ELSE ~Held /\ Notify
    /\ IF alive \/ mailbox' = None
       THEN UNCHANGED <<phase, exit>>
       ELSE phase' = "cleanup" /\ exit' = "WorkerDied"
    /\ UNCHANGED <<stop, alive, slow, backlog, joined>>

\* A Shutdown or Hangup event is taken from the channel.
LoopReturns(reason) ==
    /\ phase = "running"
    /\ exit' = reason
    /\ phase' = IF reason = "Shutdown" THEN "begin_shutdown" ELSE "cleanup"
    /\ backlog' \in BOOLEAN
    /\ UNCHANGED <<vars, stop, get, alive, slow, joined>>

-----------------------------------------------------------------------------
\* The worker thread.  It lives until it sees the stop flag or the process ends.

Running == alive /\ phase # "exited"

\* get takes the lock, and again when it was woken.
Lock ==
    /\ Running
    /\ stage = "idle"
    /\ get = "call"
    /\ get' = "look"
    /\ UNCHANGED <<vars, phase, exit, stop, alive, slow, backlog, joined>>

\* The condition of get's loop.
Look ==
    /\ Running
    /\ get = "look"
    /\ get' = IF mailbox = None /\ ~stop THEN "wait" ELSE "leave"
    /\ UNCHANGED <<vars, phase, exit, stop, alive, slow, backlog, joined>>

\* wait releases the lock and sleeps at once.
Wait ==
    /\ Running
    /\ get = "wait"
    /\ get' = "asleep"
    /\ UNCHANGED <<vars, phase, exit, stop, alive, slow, backlog, joined>>

\* A condition variable may wake its waiter for no reason.
WakesUp ==
    /\ Running
    /\ get = "asleep"
    /\ get' = "call"
    /\ UNCHANGED <<vars, phase, exit, stop, alive, slow, backlog, joined>>

\* get: stop, which is looked at once more, wins over a pending job.
LTake ==
    /\ Running
    /\ get = "leave"
    /\ ~stop
    /\ WorkerTake
    /\ get' = "call"
    /\ UNCHANGED <<phase, exit, stop, alive, slow, backlog, joined>>

\* get after stop: the slot is drained and the thread returns.
LStopped ==
    /\ Running
    /\ get = "leave"
    /\ stop
    /\ mailbox' = None
    /\ get' = "call"
    /\ alive' = FALSE
    /\ UNCHANGED <<players, covers, seq, generation, mode, applied_target, last_desired,
                   last_submitted, submitted_player, retry, stopping, wvars,
                   phase, exit, stop, slow, backlog, joined>>

LWork ==
    /\ Running
    /\ StartRevert \/ Resolve \/ Extract \/ CallCtl
    /\ UNCHANGED lvars

\* A download polls the stopping flag, which is stored just before stop is.
LAbort ==
    /\ Running
    /\ stop
    /\ stage = "start"
    /\ job.desired.target # None
    /\ job.desired.target.art_url # NoUrl
    /\ content_id' = None
    /\ Finish("FailedRetryable")
    /\ UNCHANGED <<cvars, last_committed, shown, results, lvars>>

\* After the loop returned nobody drains the channel.
LReport == Running /\ ~backlog /\ Report /\ UNCHANGED lvars

\* A panic outside the per-job backstop.  The job it ran is lost, and whatever
\* waits in the slot will not be read.
WorkerDies ==
    /\ Running
    /\ "death" \in LifeFaults
    /\ alive' = FALSE
    /\ stage' = "idle"
    /\ get' = "call"
    /\ outcome' = None
    /\ mailbox' = None
    /\ UNCHANGED <<players, covers, seq, generation, mode, applied_target, last_desired,
                   last_submitted, submitted_player, retry, stopping, job, content_id,
                   last_committed, shown, results, phase, exit, stop, slow, backlog, joined>>

LWorker == Lock \/ Look \/ Wait \/ LTake \/ LStopped \/ LWork \/ LAbort \/ LReport

-----------------------------------------------------------------------------
\* The main thread after the loop.

DoBeginShutdown ==
    /\ phase = "begin_shutdown"
    /\ BeginShutdown
    /\ phase' = "clear"
    /\ UNCHANGED <<wvars, exit, stop, get, alive, slow, backlog, joined>>

ClearMailbox ==
    /\ phase = "clear"
    /\ ~Held
    /\ mailbox' = None
    /\ phase' = "signal_stop"
    /\ UNCHANGED <<players, covers, seq, generation, mode, applied_target, last_desired,
                   last_submitted, submitted_player, retry, stopping, wvars,
                   exit, stop, get, alive, slow, backlog, joined>>

Resolving == stage = "start" /\ job.desired.target # None

\* The stop flag is stored, without the lock.
SignalStop ==
    /\ phase \in {"signal_stop", "cleanup"}
    /\ stop' = TRUE
    /\ phase' = IF phase = "signal_stop" THEN "wake" ELSE "last_wake"
    /\ UNCHANGED <<vars, exit, get, alive, slow, backlog, joined>>

Waking == phase \in {"wake", "last_wake"}

BeginJoin ==
    /\ slow' = ("stall" \in LifeFaults /\ alive /\ Resolving)
    /\ phase' = IF phase = "wake" THEN "join" ELSE "last_join"
    /\ UNCHANGED <<vars, exit, stop, alive, backlog, joined>>

\* Mutant: a get is woken without the lock.
WakeUnlocked == Waking /\ Notify /\ BeginJoin

\* A sleeping get is woken under the lock; the wait for the thread begins.
Wake == Waking /\ ~Held /\ Notify /\ BeginJoin

Blocked == stage = "report" /\ (backlog \/ Len(results) = EVENT_QUEUE)

AfterJoin == IF phase = "join" THEN "final_revert" ELSE "terminate_child"

\* Mutant: the worker is not waited for.
JoinAtOnce ==
    /\ phase \in {"join", "last_join"}
    /\ joined' = ~alive
    /\ phase' = AfterJoin
    /\ UNCHANGED <<vars, exit, stop, get, alive, slow, backlog>>

Join ==
    /\ phase \in {"join", "last_join"}
    /\ ~alive
    /\ joined' = TRUE
    /\ phase' = AfterJoin
    /\ UNCHANGED <<vars, exit, stop, get, alive, slow, backlog>>

\* Mutant: a join without a bound.
JoinUnbounded == FALSE

JoinTimesOut ==
    /\ phase \in {"join", "last_join"}
    /\ alive
    /\ slow \/ Blocked
    /\ phase' = AfterJoin
    /\ UNCHANGED <<vars, exit, stop, get, alive, slow, backlog, joined>>

\* bounded_revert: a ctl failure is logged and ignored.
FinalRevert ==
    /\ phase = "final_revert"
    /\ \/ shown' = [content |-> None, mode |-> mode]
       \/ "ctl" \in Faults /\ UNCHANGED shown
    /\ phase' = "cleanup"
    /\ UNCHANGED <<cvars, stage, job, content_id, outcome, last_committed, results,
                   exit, stop, get, alive, slow, backlog, joined>>

\* terminate_child reaps playerctl within its own bound, and main exits.
TerminateChild ==
    /\ phase = "terminate_child"
    /\ phase' = "exited"
    /\ UNCHANGED <<vars, exit, stop, get, alive, slow, backlog, joined>>

Exited == phase = "exited" /\ UNCHANGED allvars

Shutdown ==
    \/ DoBeginShutdown
    \/ ClearMailbox
    \/ SignalStop
    \/ Wake
    \/ Join
    \/ JoinTimesOut
    \/ FinalRevert
    \/ TerminateChild

LNext ==
    \/ \E name \in Players, status \in Statuses, art_url \in Urls \cup {NoUrl} :
          LoopTurn(Line(name, status, art_url))
    \/ \E name \in Players : LoopTurn(Vanish(name))
    \/ \E value \in ColorSchemes : LoopTurn(Scheme(value))
    \/ LoopTurn(TimerFires)
    \/ LoopTurn(Deliver)
    \/ \E reason \in {"Shutdown", "Hangup"} : LoopReturns(reason)
    \/ LWorker
    \/ WakesUp
    \/ WorkerDies
    \/ Shutdown
    \/ Exited

LSpec == LInit /\ [][LNext]_allvars

\* The worker and the main thread keep being scheduled.  (Nothing makes a sleeping
\* worker wake up for no reason.)
LFairness ==
    /\ WF_allvars(LWorker)
    /\ WF_allvars(Shutdown)

-----------------------------------------------------------------------------
\* Properties.

\* "The waiter cannot miss it": a worker asleep in get has no job waiting beside it,
\* and no stop that it will not be woken for, whatever it had read before the job was
\* put or the flag stored.
NoWakeupLost ==
    alive /\ get = "asleep" => mailbox = None /\ (stop => Waking)

\* The final revert runs "with the worker stopped, so no in-flight ctl can commit
\* after it": from then on what wlchroma shows does not change.
NothingCommitsAfterFinalRevert ==
    [][exit = "Shutdown"
       /\ phase \in {"cleanup", "last_wake", "last_join", "terminate_child", "exited"}
       => shown' = shown]_allvars

\* A shutdown that has begun comes to its end, whatever the worker does.
ShutdownCompletes == phase # "running" ~> phase = "exited"
=============================================================================
