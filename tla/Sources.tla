------------------------------- MODULE Sources -------------------------------
(***************************************************************************)
(* Where the daemon's events come from, and how they reach the coordinator *)
(* (src/src/main.rs, src/src/sources, src/src/runtime.rs): playerctl's     *)
(* pipe with its reader thread, the two listeners on the session bus, the  *)
(* signal thread, the bounded channel they block on, and the loop that     *)
(* drains it with the retry timer beside it.                               *)
(*                                                                         *)
(* One player is followed.  What the coordinator does with an event is     *)
(* Coordinator's; here it only keeps the mode, whether the player is       *)
(* tracked, and the armed timer.                                           *)
(***************************************************************************)
EXTENDS Framing

CONSTANTS
    EVENT_QUEUE,  \* capacity of the event channel
    FORCED_MODE,  \* what MPRIS_CHROMA_MODE says, None to follow the portal
    Schemes,      \* what the portal may answer or announce as its color-scheme
    MAX_U32,      \* the largest color-scheme that is taken as it is
    None

Modes == {"dark", "light"}

\* A D-Bus value: an integer or something else, inside any number of variants.
Values == [variants : Nat, type : {"int", "text"}, is : Int]
IsInt(value) == value.type = "int"

\* What a change of the portal's setting may be heard as.
SchemeEvents == [kind : {"Scheme", "SchemeMalformed"}, arg : Nat \cup {None}]

ASSUME SourcesAssumption ==
    /\ EVENT_QUEUE \in Nat \ {0}
    /\ FORCED_MODE \in Modes \cup {None}
    /\ Schemes \subseteq Values
    /\ MAX_U32 \in Nat \ {0, 1}
    /\ None \notin Modes \cup {"Hangup", "Shutdown"}

\* None is neither a number nor a record (a fact about the constant None).
ASSUME AbsentAssumption == None \notin Nat \cup Values \cup SchemeEvents

VARIABLES
    main,       \* how far startup got; "loop" while the event loop runs
    mode,       \* the coordinator's mode
    exit,       \* why the loop returned
    loop,       \* "wait" for an event, or "check" the timer after one
    timer,      \* the retry timer: "none", "armed" or "due"
    channel,    \* the event channel
    child,      \* playerctl: "none", "running" or "gone"
    pipe,       \* what it wrote and was not read yet
    reader,     \* the reader thread
    sent,       \* how many of the framed lines it sent
    watching,   \* the listeners that are subscribed
    names,      \* NameOwnerChanged messages queued for the vanish listener
    settings,   \* SettingChanged messages queued for the scheme listener
    signalled,  \* a signal was caught and not sent yet
    onbus,      \* the player is on the bus
    portal,     \* the portal's color-scheme
    tracked,    \* the coordinator tracks the player
    heard       \* how many lines the loop has handled

\* For the properties to speak about: the portal's last change was before it was
\* followed, and not read; a line of the player was still on its way when its
\* vanishing was handled; the events handled since the timer became due.
VARIABLES missed, overtaken, late

loopvars == <<main, mode, exit, loop, timer, tracked, heard, late, overtaken>>
childvars == <<child, pipe, reader, sent>>
busvars == <<watching, names, settings, signalled, onbus, portal, missed>>
svars == <<fvars, loopvars, childvars, busvars, channel>>

Event(kind, arg) == [kind |-> kind, arg |-> arg]

\* Mutant: an unbounded channel.
SendUnbounded(event) == channel' = Append(channel, event)

\* The blocking send of SyncSender.
Send(event) ==
    /\ Len(channel) < EVENT_QUEUE
    /\ channel' = Append(channel, event)

-----------------------------------------------------------------------------
\* What the portal says.

\* Mutant: the nested variant of an older portal is not unwrapped.
FlatSchemeValue(value) ==
    IF value.variants > 0 \/ ~IsInt(value) THEN None
    ELSE IF value.is \in 0 .. MAX_U32 THEN value.is ELSE 0

\* The variants are unwrapped, whatever their number: the innermost value counts.
SchemeValue(value) ==
    IF ~IsInt(value) THEN None
    ELSE IF value.is \in 0 .. MAX_U32 THEN value.is ELSE 0

ModeOf(value) == IF value = 2 THEN "light" ELSE "dark"

\* The event of a SettingChanged, None for another setting.
SchemeEvent(message) ==
    IF message.key # "color-scheme" THEN None
    ELSE IF SchemeValue(message.value) = None THEN Event("SchemeMalformed", None)
    ELSE Event("Scheme", SchemeValue(message.value))

-----------------------------------------------------------------------------
\* Startup, in main's order.

SInit ==
    /\ FInit
    /\ main = "start"
    /\ mode = "dark"
    /\ exit = None
    /\ loop = "wait"
    /\ timer = "none"
    /\ channel = <<>>
    /\ child = "none"
    /\ pipe = <<>>
    /\ reader = "off"
    /\ sent = 0
    /\ watching = {}
    /\ names = <<>>
    /\ settings = <<>>
    /\ signalled = FALSE
    /\ onbus \in BOOLEAN
    /\ portal \in Schemes \cup {None}   \* None: there is no portal
    /\ tracked = FALSE
    /\ heard = 0
    /\ missed = FALSE
    /\ overtaken = FALSE
    /\ late = 0

\* resolve_playerctl and the connection to the bus come first, then the mode.
ReadScheme ==
    /\ main = "start"
    /\ main' = "vanish"
    /\ \/ FORCED_MODE # None /\ mode' = FORCED_MODE /\ UNCHANGED missed
       \/ /\ FORCED_MODE = None
          /\ \E answer \in {portal, None} :   \* the call may fail
                /\ mode' = IF answer = None \/ SchemeValue(answer) = None THEN "dark"
                           ELSE ModeOf(SchemeValue(answer))
                /\ missed' = (answer # portal)
    /\ UNCHANGED <<fvars, exit, loop, timer, tracked, heard, late, overtaken, childvars,
                   watching, names, settings, signalled, onbus, portal, channel>>

Watch(listener, from, to) ==
    /\ main = from
    /\ main' = to
    /\ watching' = watching \cup {listener}
    /\ UNCHANGED <<fvars, mode, exit, loop, timer, tracked, heard, late, overtaken,
                   childvars, names, settings, signalled, onbus, portal, missed, channel>>

WatchVanish == Watch("vanish", "vanish", "signals")
WatchSignals == Watch("signals", "signals", IF FORCED_MODE = None THEN "scheme" ELSE "run")
WatchScheme == Watch("scheme", "scheme", "run")

\* daemon::run: the startup revert, then playerctl and its reader, then the loop.
SpawnFollow ==
    /\ main = "run"
    /\ main' = "loop"
    /\ child' = "running"
    /\ reader' = "read"
    /\ UNCHANGED <<fvars, mode, exit, loop, timer, tracked, heard, late, overtaken,
                   pipe, sent, busvars, channel>>

\* Whatever cannot be started ends the program with status 1.
StartupFails ==
    /\ main \in {"start", "vanish", "signals", "scheme", "run"}
    /\ main' = "failed"
    /\ UNCHANGED <<fvars, mode, exit, loop, timer, tracked, heard, late, overtaken,
                   childvars, busvars, channel>>

Startup == ReadScheme \/ WatchVanish \/ WatchSignals \/ WatchScheme \/ SpawnFollow

-----------------------------------------------------------------------------
\* The world outside.  The bus delivers to a listener once it is subscribed.

Deliver(listener, queue, message) ==
    IF listener \in watching THEN Append(queue, message) ELSE queue

\* playerctl writes whole lines, for players on the bus.
PlayerctlWrites(line) ==
    /\ child = "running"
    /\ onbus
    /\ pipe' = pipe \o line \o <<Newline>>
    /\ UNCHANGED <<fvars, loopvars, child, reader, sent, busvars, channel>>

\* It may be killed in the middle of a line.
PlayerctlDies(partial) ==
    /\ child = "running"
    /\ child' = "gone"
    /\ pipe' = pipe \o partial
    /\ UNCHANGED <<fvars, loopvars, reader, sent, busvars, channel>>

\* The player leaves the bus or comes back.
OwnerChanges ==
    /\ onbus' = ~onbus
    /\ names' = Deliver("vanish", names, [name |-> "player", new |-> ~onbus])
    /\ UNCHANGED <<fvars, loopvars, childvars, watching, settings, signalled, portal,
                   missed, channel>>

OtherNameLost ==
    /\ names' = Deliver("vanish", names, [name |-> "other", new |-> FALSE])
    /\ UNCHANGED <<fvars, loopvars, childvars, watching, settings, signalled, onbus, portal,
                   missed, channel>>

PortalChanges(value) ==
    /\ portal # None
    /\ portal' = value
    /\ settings' = Deliver("scheme", settings, [key |-> "color-scheme", value |-> value])
    /\ missed' = (main # "start" /\ "scheme" \notin watching)
    /\ UNCHANGED <<fvars, loopvars, childvars, watching, names, signalled, onbus, channel>>

OtherSetting ==
    /\ settings' = Deliver("scheme", settings, [key |-> "accent-color", value |-> None])
    /\ UNCHANGED <<fvars, loopvars, childvars, watching, names, signalled, onbus, portal,
                   missed, channel>>

\* Before the handlers are installed a signal just kills the program.
Signal ==
    /\ "signals" \in watching
    /\ signalled' = TRUE
    /\ UNCHANGED <<fvars, loopvars, childvars, watching, names, settings, onbus, portal,
                   missed, channel>>

\* The armed timer becomes due.
ClockPasses ==
    /\ timer = "armed"
    /\ timer' = "due"
    /\ late' = 0
    /\ UNCHANGED <<fvars, main, mode, exit, loop, tracked, heard, overtaken,
                   childvars, busvars, channel>>

\* The worker sends a result.
WorkerReports ==
    /\ main = "loop"
    /\ Send(Event("Worker", None))
    /\ UNCHANGED <<fvars, loopvars, childvars, busvars>>

-----------------------------------------------------------------------------
\* The reader thread.

Running == main = "loop"

\* One bounded read per wakeup: whatever the pipe holds of it.
Read ==
    /\ Running
    /\ reader = "read"
    /\ ~feeding
    /\ \E n \in 1 .. READ_CHUNK :
          /\ n <= Len(pipe)
          /\ Feed(SubSeq(pipe, 1, n))
          /\ pipe' = SubSeq(pipe, n + 1, Len(pipe))
    /\ UNCHANGED <<loopvars, child, reader, sent, busvars, channel>>

\* The framer's callback sends the report of a refused line from within feed.
FrameStep ==
    /\ Running
    /\ Frame
    /\ IF reports' # reports THEN Send(Event("Oversize", None)) ELSE UNCHANGED channel
    /\ reader' = IF feeding' THEN "read" ELSE "send"
    /\ UNCHANGED <<loopvars, child, pipe, sent, busvars>>

\* Mutant: the rest of the batch is forgotten when playerctl is gone.
SendLineUnlessGone ==
    /\ Running
    /\ reader = "send"
    /\ IF sent < Len(out) /\ child # "gone"
       THEN /\ Send(Event("Line", out[sent + 1]))
            /\ sent' = sent + 1
            /\ UNCHANGED reader
       ELSE reader' = "read" /\ UNCHANGED <<sent, channel>>
    /\ UNCHANGED <<fvars, loopvars, child, pipe, busvars>>

SendLine ==
    /\ Running
    /\ reader = "send"
    /\ IF sent < Len(out)
       THEN /\ Send(Event("Line", out[sent + 1]))
            /\ sent' = sent + 1
            /\ UNCHANGED reader
       ELSE reader' = "read" /\ UNCHANGED <<sent, channel>>
    /\ UNCHANGED <<fvars, loopvars, child, pipe, busvars>>

\* The thread ends with a hangup; a partial line is never emitted.
HangUp(state) ==
    /\ Running
    /\ reader = "read"
    /\ ~feeding
    /\ Send(Event("Hangup", None))
    /\ reader' = state
    /\ UNCHANGED <<fvars, loopvars, child, pipe, sent, busvars>>

\* End of file.
Eof == child = "gone" /\ pipe = <<>> /\ HangUp("done")

\* A read fails, whatever the pipe holds.
ReadFails == HangUp("failed")

Reader == Read \/ FrameStep \/ SendLine \/ Eof

-----------------------------------------------------------------------------
\* The listeners.

\* Mutant: a name that got a new owner is reported lost, too, and one without is not.
VanishOnNewOwner ==
    /\ names # <<>>
    /\ names' = Tail(names)
    /\ IF Head(names).new THEN Send(Event("Vanish", Head(names).name)) ELSE UNCHANGED channel
    /\ UNCHANGED <<fvars, loopvars, childvars, watching, settings, signalled, onbus, portal,
                   missed>>

VanishListener ==
    /\ names # <<>>
    /\ names' = Tail(names)
    /\ IF Head(names).new THEN UNCHANGED channel ELSE Send(Event("Vanish", Head(names).name))
    /\ UNCHANGED <<fvars, loopvars, childvars, watching, settings, signalled, onbus, portal,
                   missed>>

SchemeListener ==
    /\ settings # <<>>
    /\ settings' = Tail(settings)
    /\ IF SchemeEvent(Head(settings)) = None THEN UNCHANGED channel
       ELSE Send(SchemeEvent(Head(settings)))
    /\ UNCHANGED <<fvars, loopvars, childvars, watching, names, signalled, onbus, portal,
                   missed>>

\* Mutant: a signal is not sent when the channel is full.
SignalThreadTries ==
    /\ signalled
    /\ signalled' = FALSE
    /\ Send(Event("Shutdown", None)) \/ (Len(channel) = EVENT_QUEUE /\ UNCHANGED channel)
    /\ UNCHANGED <<fvars, loopvars, childvars, watching, names, settings, onbus, portal,
                   missed>>

SignalThread ==
    /\ signalled
    /\ signalled' = FALSE
    /\ Send(Event("Shutdown", None))
    /\ UNCHANGED <<fvars, loopvars, childvars, watching, names, settings, onbus, portal,
                   missed>>

-----------------------------------------------------------------------------
\* run_loop.

\* What is on its way to the loop from the player's lines.
LinesOnTheWay ==
    \/ pipe # <<>> \/ buf # <<>> \/ sent < Len(out)
    \/ \E i \in DOMAIN channel : channel[i].kind = "Line"

\* The coordinator's handlers, as far as they are seen here.  A line may cancel the
\* retry, a worker's failure arms it; an empty line is dropped as malformed.
Handle(event) ==
    /\ mode' = IF event.kind = "Scheme" THEN ModeOf(event.arg) ELSE mode
    /\ \/ event.kind = "Worker" /\ timer = "none" /\ timer' = "armed"
       \/ event.kind = "Line" /\ timer # "none" /\ timer' = "none"
       \/ UNCHANGED timer
    /\ tracked' = CASE event.kind = "Line" -> tracked \/ event.arg # <<>>
                    [] event.kind = "Vanish" /\ event.arg = "player" -> FALSE
                    [] OTHER -> tracked
    /\ overtaken' = IF event.kind = "Vanish" /\ event.arg = "player" THEN LinesOnTheWay
                    ELSE overtaken
    /\ heard' = heard + (IF event.kind = "Line" THEN 1 ELSE 0)
    /\ late' = IF timer = "due" THEN late + 1 ELSE 0

\* A turn of the loop that receives an event.
Receive ==
    /\ Running
    /\ loop = "wait"
    /\ channel # <<>>
    /\ Head(channel).kind \notin {"Hangup", "Shutdown"}
    /\ channel' = Tail(channel)
    /\ Handle(Head(channel))
    /\ loop' = "check"
    /\ UNCHANGED <<fvars, main, exit, childvars, busvars>>

\* The wait ends because the timer is due: nothing to handle.
TimesOut ==
    /\ Running
    /\ loop = "wait"
    /\ channel = <<>>
    /\ timer = "due"
    /\ loop' = "check"
    /\ UNCHANGED <<fvars, main, mode, exit, timer, tracked, heard, late, overtaken,
                   childvars, busvars, channel>>

\* Mutant: the timer is looked at only when the wait timed out.
FireOnlyWhenIdle ==
    /\ Running
    /\ loop = "check"
    /\ loop' = "wait"
    /\ IF timer = "due" /\ channel = <<>> THEN timer' = "none" /\ late' = 0
       ELSE UNCHANGED <<timer, late>>
    /\ UNCHANGED <<fvars, main, mode, exit, tracked, heard, overtaken,
                   childvars, busvars, channel>>

\* After every event, not only on timeout.
FireDueTimer ==
    /\ Running
    /\ loop = "check"
    /\ loop' = "wait"
    /\ IF timer = "due" THEN timer' = "none" /\ late' = 0 ELSE UNCHANGED <<timer, late>>
    /\ UNCHANGED <<fvars, main, mode, exit, tracked, heard, overtaken,
                   childvars, busvars, channel>>

LoopReturns ==
    /\ Running
    /\ loop = "wait"
    /\ channel # <<>>
    /\ Head(channel).kind \in {"Hangup", "Shutdown"}
    /\ channel' = Tail(channel)
    /\ exit' = Head(channel).kind
    /\ main' = "ended"
    /\ UNCHANGED <<fvars, mode, loop, timer, tracked, heard, late, overtaken,
                   childvars, busvars>>

Loop == Receive \/ TimesOut \/ FireDueTimer \/ LoopReturns

Daemon == Startup \/ Reader \/ VanishListener \/ SchemeListener \/ SignalThread \/ Loop

Outside ==
    \/ \E line \in Seq(Text) : PlayerctlWrites(line)
    \/ \E partial \in Seq(Text) : PlayerctlDies(partial)
    \/ OwnerChanges \/ OtherNameLost
    \/ \E value \in Schemes : PortalChanges(value)
    \/ OtherSetting \/ Signal \/ ClockPasses \/ WorkerReports

SNext == Daemon \/ ReadFails \/ StartupFails \/ Outside

SSpec == SInit /\ [][SNext]_svars

\* The threads keep running; nothing obliges the world outside to do anything.
SFairness ==
    /\ WF_svars(Startup) /\ WF_svars(Reader) /\ WF_svars(VanishListener)
    /\ WF_svars(SchemeListener) /\ WF_svars(SignalThread) /\ WF_svars(Loop)

-----------------------------------------------------------------------------
\* Properties.

EventKinds == {"Line", "Oversize", "Hangup", "Vanish", "Scheme", "SchemeMalformed",
               "Worker", "Shutdown"}

\* The state has the types the Rust declares, the channel its bound, and the
\* reader's buffer that of Framing.
STypeOK ==
    /\ FTypeOK
    /\ BufferBounded
    /\ main \in {"start", "vanish", "signals", "scheme", "run", "loop", "ended", "failed"}
    /\ mode \in Modes
    /\ exit \in {None, "Hangup", "Shutdown"}
    /\ loop \in {"wait", "check"}
    /\ timer \in {"none", "armed", "due"}
    /\ Len(channel) <= EVENT_QUEUE
    /\ \A i \in DOMAIN channel : channel[i].kind \in EventKinds
    /\ child \in {"none", "running", "gone"}
    /\ reader \in {"off", "read", "send", "done", "failed"}
    /\ sent \in 0 .. Len(out)
    /\ heard \in 0 .. sent
    /\ watching \subseteq {"vanish", "signals", "scheme"}

\* When the loop ends because playerctl is gone, the coordinator has heard every
\* complete line playerctl wrote within the cap: the hangup overtakes none of them,
\* wherever the pipe was cut.  After a failed read, every line that was read.
NothingLostBeforeHangup ==
    exit = "Hangup" =>
        /\ reader # "failed" => pipe = <<>>
        /\ heard = Cardinality({i \in Ends(fed) :
                       Len(LineEndingAt(fed, i)) <= MAX_LINE_BYTES})

SchemeOnTheWay ==
    settings # <<>> \/ \E i \in DOMAIN channel : channel[i].kind = "Scheme"

\* Once every announced change was handled the mode is the portal's, whichever
\* form it answers or announces it in, unless the mode is forced, or the portal could
\* not be read or changed between being read and being followed.
ModeFollowsPortal ==
    main \in {"scheme", "run", "loop"} =>
        IF FORCED_MODE # None THEN mode = FORCED_MODE
        ELSE ~missed /\ ~SchemeOnTheWay /\ portal # None /\ IsInt(portal) =>
                 (mode = "light" <=> portal.is = 2)

\* A player that left the bus is forgotten once its vanishing was handled: "this
\* is what reverts to the preset when the last player closes".  Excepted is a player
\* whose last lines were still on their way then, which are handled afterwards.
VanishedIsForgotten ==
    Running /\ ~onbus /\ names = <<>> /\ tracked =>
        overtaken \/ \E i \in DOMAIN channel : channel[i].kind = "Vanish"

\* However many events wait, the retry fires after at most one more of them: "a
\* flood of input cannot starve it".
RetryInTime == late <= 1

\* A signal, or playerctl's end, ends the loop, even when its sender finds the
\* channel full.
LoopEnds == Running /\ (signalled \/ child = "gone") ~> main = "ended"
=============================================================================
