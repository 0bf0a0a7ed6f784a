------------------------------ MODULE Command --------------------------------
(***************************************************************************)
(* One bounded wlchroma-ctl call: the Ctl client and ProcessRunner of      *)
(* src/src/apply.rs, with the child process, its standard error and the    *)
(* thread that reads it.                                                   *)
(*                                                                         *)
(* Time passes only when no process or thread can do anything: whatever is *)
(* not stuck takes no time worth counting, STDERR_GRACE (100 ms) included. *)
(***************************************************************************)
EXTENDS Clock, Sequences

CONSTANTS
    Configs,           \* palettes wlchroma's config may hold, None when unreadable
    CTL_TIMEOUT,
    MAX_STDERR_READ,   \* what is kept of the child's standard error
    PIPE_CAPACITY,
    MaxOutput          \* bounds what the child writes

\* What an entry of a palette may be.
Colours == {"hex", "malformed"}

ASSUME CommandAssumption ==
    /\ {CTL_TIMEOUT, PIPE_CAPACITY} \subseteq Nat \ {0}
    /\ {MAX_STDERR_READ, MaxOutput} \subseteq Nat
    /\ Configs \subseteq Seq(Colours) \cup {None}
    /\ None \notin {"ok", "failed", "refused", "unwaited"}

VARIABLES
    call,          \* where Ctl::run is
    argv,          \* what ctl was started with
    answer,        \* what the call returned
    began,         \* when it was started
    child,         \* the process
    code,          \* its exit status
    to_write,      \* bytes the child has still to write
    grandchild,    \* a process of the child's holds the pipe, too
    pipe,          \* bytes in the pipe
    reader,        \* the reader thread
    kept,          \* bytes it has kept
    sent           \* it has handed them over

procvars == <<child, code, to_write, grandchild>>
readvars == <<pipe, reader, kept, sent>>
ctlvars == <<call, argv, answer, began, procvars, readvars>>

\* A killed process was running or stuck when its time ran out.
Processes == {"none", "running", "stuck", "exited", "reaped", "killed_running", "killed_stuck"}

CommandInit ==
    /\ call = "idle"
    /\ argv = None
    /\ answer = None
    /\ began = 0
    /\ child = "none"
    /\ code = None
    /\ to_write = 0
    /\ grandchild = FALSE
    /\ pipe = 0
    /\ reader = "none"
    /\ kept = 0
    /\ sent = FALSE

-----------------------------------------------------------------------------
\* The palette of the config, and the arguments made of it.

ValidHex(colour) == colour = "hex"
WellFormed(colours) == \A i \in DOMAIN colours : ValidHex(colours[i])

\* Mutant: three entries are taken for a palette.
ThreeEntries(config) == IF config # None /\ Len(config) = 3 THEN config ELSE None

\* Three well-formed colours, or None.
ConfigPalette(config) ==
    IF config # None /\ Len(config) = 3 /\ WellFormed(config) THEN config ELSE None

Fallback == <<"set-palette">>
SetColors(colours) == <<"set-colors">> \o colours

Answer(result) == call' = "done" /\ answer' = result

Spawn(args) ==
    /\ began' = clock
    /\ argv' = args
    /\ \/ /\ Answer("failed")  \* it could not be started
          /\ UNCHANGED <<procvars, readvars>>
       \/ /\ call' = "wait"
          /\ child' = "running"
          /\ to_write' \in 0 .. MaxOutput
          /\ reader' = "keeping"
          /\ UNCHANGED <<answer, code, grandchild, pipe, kept, sent>>
    /\ UNCHANGED timevars

Apply(colours) ==
    /\ call = "idle"
    /\ IF WellFormed(colours) THEN Spawn(SetColors(colours))
       ELSE Answer("refused") /\ UNCHANGED <<timevars, argv, began, procvars, readvars>>

\* The config is read afresh for every revert.
Revert ==
    /\ call = "idle"
    /\ \E config \in Configs :
          IF ConfigPalette(config) # None THEN Apply(ConfigPalette(config))
          ELSE Spawn(Fallback)

-----------------------------------------------------------------------------
\* The child, which is the environment of the call: it may get stuck, and leave
\* a process behind that holds the pipe.

ChildWrites ==
    /\ child = "running"
    /\ to_write > 0
    /\ pipe < PIPE_CAPACITY
    /\ pipe' = pipe + 1
    /\ to_write' = to_write - 1
    /\ UNCHANGED <<timevars, call, argv, answer, began, child, code, grandchild, reader,
                   kept, sent>>

\* None: it died of a signal.
ChildExits ==
    /\ child = "running"
    /\ to_write = 0
    /\ child' = "exited"
    /\ code' \in {0, 1, None}
    /\ grandchild' \in BOOLEAN
    /\ UNCHANGED <<timevars, call, argv, answer, began, to_write, readvars>>

ChildSticks ==
    /\ child = "running"
    /\ child' = "stuck"
    /\ UNCHANGED <<timevars, call, argv, answer, began, code, to_write, grandchild, readvars>>

GrandchildExits ==
    /\ grandchild
    /\ grandchild' = FALSE
    /\ UNCHANGED <<timevars, call, argv, answer, began, child, code, to_write, readvars>>

-----------------------------------------------------------------------------
\* The reader thread.

EndOfFile == pipe = 0 /\ ~grandchild /\ child \notin {"running", "stuck"}

Readable == kept < MAX_STDERR_READ /\ pipe > 0
KeptEnough == kept = MAX_STDERR_READ \/ EndOfFile

ReaderKeeps ==
    /\ reader = "keeping"
    /\ Readable
    /\ pipe' = pipe - 1
    /\ kept' = kept + 1
    /\ UNCHANGED <<timevars, call, argv, answer, began, procvars, reader, sent>>

\* Mutant: the thread ends with its limit and nothing drains the pipe.
ReaderStops ==
    /\ reader = "keeping"
    /\ KeptEnough
    /\ sent' = TRUE
    /\ reader' = "gone"
    /\ UNCHANGED <<timevars, call, argv, answer, began, procvars, pipe, kept>>

ReaderSends ==
    /\ reader = "keeping"
    /\ KeptEnough
    /\ sent' = TRUE
    /\ reader' = "draining"
    /\ UNCHANGED <<timevars, call, argv, answer, began, procvars, pipe, kept>>

ReaderDrains ==
    /\ reader = "draining"
    /\ \/ pipe > 0 /\ pipe' = pipe - 1 /\ UNCHANGED reader
       \/ EndOfFile /\ reader' = "gone" /\ UNCHANGED pipe
    /\ UNCHANGED <<timevars, call, argv, answer, began, procvars, kept, sent>>

Reader == ReaderKeeps \/ ReaderSends \/ ReaderDrains

\* The thread is not blocked.
ReaderReady ==
    \/ reader = "keeping" /\ (Readable \/ KeptEnough)
    \/ reader = "draining" /\ (pipe > 0 \/ EndOfFile)

-----------------------------------------------------------------------------
\* ProcessRunner::run after the spawn.

ctl_deadline == began + CTL_TIMEOUT

\* wait_timeout reaps the child.
WaitReturns ==
    /\ call = "wait"
    /\ child = "exited"
    /\ child' = "reaped"
    /\ call' = "stderr"
    /\ UNCHANGED <<timevars, argv, answer, began, code, to_write, grandchild, readvars>>

\* The wait itself fails: the call is given up and the process left to itself.
WaitFails ==
    /\ call = "wait"
    /\ Answer("unwaited")
    /\ UNCHANGED <<timevars, argv, began, procvars, readvars>>

\* kill and wait.
WaitTimesOut ==
    /\ call = "wait"
    /\ child # "exited"
    /\ clock >= ctl_deadline
    /\ child' = IF child = "stuck" THEN "killed_stuck" ELSE "killed_running"
    /\ Answer("failed")
    /\ UNCHANGED <<timevars, argv, began, code, to_write, grandchild, readvars>>

\* The child's diagnostic is awaited for what is left of the time, then done without.
StderrAwaited ==
    /\ call = "stderr"
    /\ sent \/ (clock >= ctl_deadline /\ ~ReaderReady)
    /\ Answer(IF code = 0 THEN "ok" ELSE "failed")
    /\ UNCHANGED <<timevars, argv, began, procvars, readvars>>

Runs == WaitReturns \/ WaitFails \/ WaitTimesOut \/ StderrAwaited

\* None of its waits is over.
Waits ==
    \/ call = "wait" /\ child # "exited" /\ clock < ctl_deadline
    \/ call = "stderr" /\ ~sent /\ clock < ctl_deadline

\* Nothing can move but time.
Idle ==
    /\ Waits
    /\ ~(child = "running" /\ (to_write = 0 \/ pipe < PIPE_CAPACITY))
    /\ ~ReaderReady

Tick ==
    /\ Idle
    /\ clock' = clock + 1
    /\ UNCHANGED <<stop_at, ctlvars>>

Call ==
    \/ ChildWrites \/ ChildExits \/ ChildSticks \/ GrandchildExits
    \/ Reader \/ Runs \/ Tick

-----------------------------------------------------------------------------
\* Properties.

\* The call's state has the types the Rust declares.
CommandTypeOK ==
    /\ call \in {"idle", "wait", "stderr", "done"}
    /\ answer \in {"ok", "failed", "refused", "unwaited", None}
    /\ answer # None <=> call = "done"
    /\ child \in Processes
    /\ code \in {0, 1, None}
    /\ to_write \in 0 .. MaxOutput
    /\ grandchild \in BOOLEAN
    /\ pipe \in 0 .. PIPE_CAPACITY
    /\ reader \in {"none", "keeping", "draining", "gone"}
    /\ kept \in 0 .. MAX_STDERR_READ
    /\ sent \in BOOLEAN

\* Whatever the child does (sticks, floods its standard error, leaves a process
\* behind that holds the pipe), the call is over by its timeout with the child
\* reaped, unless the wait for it fails, and a child that was getting on is never
\* killed for what it wrote.
CallContained ==
    /\ call \in {"wait", "stderr"} => clock <= ctl_deadline
    /\ call = "done" => child \in {"none", "reaped", "killed_stuck"} \/ answer = "unwaited"
    /\ answer = "ok" => child = "reaped" /\ code = 0

\* A revert always comes to a ctl call, with the config's colours when they are
\* well-formed and the named fallback when they are anything else: it is never
\* refused at the boundary that guards apply.
RevertReachesCtl ==
    /\ answer # "refused"
    /\ argv # None => argv = Fallback \/ WellFormed(Tail(argv))
=============================================================================
