---------------------------- MODULE SourcesProofs ----------------------------
(***************************************************************************)
(* Theorems about the event sources and the loop, for any lines playerctl  *)
(* writes, any cap and read size, any capacity of the channel and any      *)
(* answers of the portal.                                                  *)
(***************************************************************************)
EXTENDS Sources, FramingProofs

\* The types the channel and the queues of the bus carry.
Args == {None, "player", "other"} \cup Nat \cup Seq(Text)
Events == [kind : EventKinds, arg : Args]
OwnerMessages == [name : {"player", "other"}, new : BOOLEAN]
SettingMessages == [key : {"color-scheme", "accent-color"}, value : Schemes \cup {None}]

Typed ==
    /\ main \in {"start", "vanish", "signals", "scheme", "run", "loop", "ended", "failed"}
    /\ mode \in Modes
    /\ exit \in {None, "Hangup", "Shutdown"}
    /\ loop \in {"wait", "check"}
    /\ timer \in {"none", "armed", "due"}
    /\ channel \in Seq(Events)
    /\ Len(channel) <= EVENT_QUEUE
    /\ \A i \in DOMAIN channel : channel[i].kind = "Scheme" => channel[i].arg \in Nat
    /\ child \in {"none", "running", "gone"}
    /\ pipe \in Seq(Bytes)
    /\ reader \in {"off", "read", "send", "done", "failed"}
    /\ sent \in Nat
    /\ heard \in Nat
    /\ watching \subseteq {"vanish", "signals", "scheme"}
    /\ names \in Seq(OwnerMessages)
    /\ settings \in Seq(SettingMessages)
    /\ \A i \in DOMAIN settings :
           settings[i].key = "color-scheme" => settings[i].value \in Schemes
    /\ onbus \in BOOLEAN
    /\ tracked \in BOOLEAN
    /\ portal \in Schemes \cup {None}

-----------------------------------------------------------------------------
\* The inductive invariant, part by part.

Starting == {"start", "vanish", "signals", "scheme", "run", "failed"}

\* Nothing of the player was heard before playerctl was started.
Staged ==
    /\ main \in Starting =>
           /\ exit = None
           /\ child = "none" /\ reader = "off" /\ pipe = <<>>
           /\ buf = <<>> /\ out = <<>> /\ ~tracked
           /\ \A i \in DOMAIN channel : channel[i].kind # "Line"
    /\ main \in {"signals", "scheme", "run", "loop"} => "vanish" \in watching
    /\ main = "loop" => exit = None
    /\ "scheme" \in watching => main \notin {"start", "vanish", "signals", "scheme"}
    /\ FORCED_MODE # None => main # "scheme" /\ "scheme" \notin watching

\* A queue's lines.
Lines(queue) == {i \in DOMAIN queue : queue[i].kind = "Line"}

\* The framed lines are those sent and those of the batch still to send; those sent are
\* in the channel or handled.
LinesInOrder ==
    /\ feeding => reader = "read"
    /\ reader # "send" /\ ~feeding => sent = Len(out)
    /\ sent <= Len(out)
    /\ heard + Cardinality(Lines(channel)) = sent

\* The hangup is the last of playerctl: nothing was left when it was sent, and no line
\* is behind it.
HangupIsLast ==
    /\ reader = "done" => child = "gone" /\ pipe = <<>>
    /\ reader \in {"done", "failed"} => ~feeding
    /\ exit = "Hangup" \/ (\E i \in DOMAIN channel : channel[i].kind = "Hangup") =>
           reader \in {"done", "failed"}
    /\ \A i, j \in DOMAIN channel :
           channel[i].kind = "Hangup" /\ i < j => channel[j].kind # "Line"
    /\ exit = "Hangup" => \A i \in DOMAIN channel : channel[i].kind # "Line"

\* What is framed is every complete line within the cap of what was scanned.
WithinCap(bytes) == {i \in Ends(bytes) : Len(LineEndingAt(bytes, i)) <= MAX_LINE_BYTES}

AllFramed == Len(out) = Cardinality(WithinCap(Scanned))

\* A due timer waits for the turn in progress at most.
DueIsNext ==
    /\ late \in Nat
    /\ late <= 1
    /\ loop = "wait" /\ timer = "due" => late = 0

\* While the player is off the bus, its loss is still to be handled; or it is forgotten,
\* and nothing that could track it again is on its way.
LossOnTheWay ==
    \/ \E i \in DOMAIN names : names[i].name = "player" /\ ~names[i].new
    \/ \E i \in DOMAIN channel : channel[i].kind = "Vanish" /\ channel[i].arg = "player"

NoLineOnTheWay ==
    /\ \A i \in DOMAIN pipe : pipe[i] # Newline
    /\ ~HasNewline
    /\ sent = Len(out)
    /\ \A i \in DOMAIN channel : channel[i].kind # "Line"

LossIsHandled ==
    main = "loop" /\ ~onbus =>
        overtaken \/ LossOnTheWay \/ (~tracked /\ NoLineOnTheWay)

\* The last word on its way to the loop about the color-scheme is the portal's: a
\* message queued, else an event in the channel, else the mode.
Announced == {i \in DOMAIN settings : settings[i].key = "color-scheme"}
SchemesSent == {i \in DOMAIN channel : channel[i].kind = "Scheme"}

Followed == FORCED_MODE = None /\ ~missed /\ main \notin {"start", "failed"} /\ portal # None

LastWordIsThePortals ==
    /\ "scheme" \notin watching => settings = <<>> /\ SchemesSent = {}
    /\ FORCED_MODE # None /\ main \notin {"start", "failed"} => mode = FORCED_MODE
    /\ Followed =>
           /\ \A i \in Announced :
                  (\A j \in Announced : j <= i) => settings[i].value = portal
           /\ Announced = {} /\ IsInt(portal) =>
                  /\ \A i \in SchemesSent :
                         (\A j \in SchemesSent : j <= i) => channel[i].arg = SchemeValue(portal)
                  /\ SchemesSent = {} => mode = ModeOf(SchemeValue(portal))

SInv ==
    /\ FInv
    /\ Typed
    /\ Staged
    /\ LinesInOrder
    /\ HangupIsLast
    /\ AllFramed
    /\ DueIsNext
    /\ LossIsHandled
    /\ LastWordIsThePortals

-----------------------------------------------------------------------------
\* Queues.

LEMMA Appended ==
    ASSUME NEW S, NEW q \in Seq(S), NEW e \in S
    PROVE  /\ Append(q, e) \in Seq(S)
           /\ Len(q) \in Nat /\ DOMAIN q = 1 .. Len(q)
           /\ Len(Append(q, e)) = Len(q) + 1
           /\ DOMAIN Append(q, e) = DOMAIN q \cup {Len(q) + 1}
           /\ Append(q, e)[Len(q) + 1] = e
           /\ \A i \in DOMAIN q : i < Len(q) + 1 /\ Append(q, e)[i] = q[i]
<1>1. Len(q) \in Nat /\ DOMAIN q = 1 .. Len(q)
  BY LenProperties
<1>2. /\ Append(q, e) \in Seq(S)
      /\ Len(Append(q, e)) = Len(q) + 1
      /\ \A i \in 1 .. Len(q) : Append(q, e)[i] = q[i]
      /\ Append(q, e)[Len(q) + 1] = e
  BY AppendProperties
<1>3. DOMAIN Append(q, e) = 1 .. Len(q) + 1
  BY <1>2, LenProperties
<1> QED
  BY <1>1, <1>2, <1>3

LEMMA Removed ==
    ASSUME NEW S, NEW q \in Seq(S), q # <<>>
    PROVE  /\ Head(q) = q[1] /\ Head(q) \in S /\ 1 \in DOMAIN q
           /\ Tail(q) \in Seq(S) /\ Len(q) \in Nat /\ DOMAIN q = 1 .. Len(q)
           /\ Len(Tail(q)) = Len(q) - 1 /\ DOMAIN Tail(q) = 1 .. Len(q) - 1
           /\ \A i \in DOMAIN Tail(q) : i + 1 \in DOMAIN q /\ Tail(q)[i] = q[i + 1]
           /\ \A i \in DOMAIN q : i # 1 => i - 1 \in DOMAIN Tail(q) /\ Tail(q)[i - 1] = q[i]
<1>1. Len(q) \in Nat /\ DOMAIN q = 1 .. Len(q) /\ Len(q) # 0
  BY LenProperties, EmptySeq
<1>2. /\ Head(q) = q[1] /\ Head(q) \in S
      /\ Tail(q) \in Seq(S) /\ Len(Tail(q)) = Len(q) - 1
      /\ \A i \in 1 .. Len(Tail(q)) : Tail(q)[i] = q[i + 1]
  BY HeadTailProperties
<1>3. DOMAIN Tail(q) = 1 .. Len(q) - 1
  BY <1>2, LenProperties
<1>4. \A i \in DOMAIN q : i # 1 => i - 1 \in DOMAIN Tail(q) /\ Tail(q)[i - 1] = q[i]
  <2> SUFFICES ASSUME NEW i \in DOMAIN q, i # 1
               PROVE  i - 1 \in DOMAIN Tail(q) /\ Tail(q)[i - 1] = q[i]
    OBVIOUS
  <2>1. i - 1 \in 1 .. Len(q) - 1 /\ (i - 1) + 1 = i
    BY <1>1
  <2> QED
    BY <1>2, <1>3, <2>1
<1> QED
  BY <1>1, <1>2, <1>3, <1>4

\* One more event, and one fewer, among the lines of a queue.
LEMMA LinesAppended ==
    ASSUME NEW q \in Seq(Events), NEW e \in Events
    PROVE  /\ IsFiniteSet(Lines(q)) /\ Cardinality(Lines(q)) \in Nat
           /\ e.kind = "Line" =>
                  Cardinality(Lines(Append(q, e))) = Cardinality(Lines(q)) + 1
           /\ e.kind # "Line" => Lines(Append(q, e)) = Lines(q)
<1>1. /\ DOMAIN q = 1 .. Len(q) /\ Len(q) \in Nat
      /\ DOMAIN Append(q, e) = DOMAIN q \cup {Len(q) + 1}
      /\ Append(q, e)[Len(q) + 1] = e
      /\ \A i \in DOMAIN q : i < Len(q) + 1 /\ Append(q, e)[i] = q[i]
  BY Appended
<1>2. IsFiniteSet(Lines(q)) /\ Cardinality(Lines(q)) \in Nat
  <2>1. IsFiniteSet(1 .. Len(q)) /\ Lines(q) \subseteq 1 .. Len(q)
    BY <1>1, FS_Interval DEF Lines
  <2> QED
    BY <2>1, FS_Subset, FS_CardinalityType
<1>3. e.kind # "Line" => Lines(Append(q, e)) = Lines(q)
  BY <1>1 DEF Lines
<1>4. e.kind = "Line" => Lines(Append(q, e)) = Lines(q) \cup {Len(q) + 1}
  BY <1>1 DEF Lines
<1>5. Len(q) + 1 \notin Lines(q)
  BY <1>1 DEF Lines
<1> QED
  BY <1>2, <1>3, <1>4, <1>5, FS_AddElement

LEMMA LinesRemoved ==
    ASSUME NEW q \in Seq(Events), q # <<>>
    PROVE  /\ Cardinality(Lines(Tail(q))) \in Nat
           /\ Head(q).kind = "Line" =>
                  Cardinality(Lines(q)) = Cardinality(Lines(Tail(q))) + 1
           /\ Head(q).kind # "Line" => Cardinality(Lines(q)) = Cardinality(Lines(Tail(q)))
<1>1. /\ Head(q) = q[1] /\ 1 \in DOMAIN q /\ Tail(q) \in Seq(Events)
      /\ Len(q) \in Nat /\ DOMAIN q = 1 .. Len(q) /\ DOMAIN Tail(q) = 1 .. Len(q) - 1
      /\ \A i \in DOMAIN Tail(q) : i + 1 \in DOMAIN q /\ Tail(q)[i] = q[i + 1]
      /\ \A i \in DOMAIN q : i # 1 => i - 1 \in DOMAIN Tail(q) /\ Tail(q)[i - 1] = q[i]
  BY Removed
<1> DEFINE rest == Lines(q) \ {1}
           shift == [i \in Lines(Tail(q)) |-> i + 1]
<1>2. PICK e \in Events : TRUE
  BY <1>1, Removed
<1>3. /\ IsFiniteSet(Lines(q)) /\ Cardinality(Lines(q)) \in Nat
      /\ IsFiniteSet(Lines(Tail(q))) /\ Cardinality(Lines(Tail(q))) \in Nat
  BY <1>1, <1>2, LinesAppended
<1>4. shift \in Bijection(Lines(Tail(q)), rest)
  <2>1. \A i \in Lines(Tail(q)) : i \in Nat /\ i >= 1 /\ i + 1 \in rest
    BY <1>1 DEF Lines
  <2>2. \A j \in rest : j - 1 \in Lines(Tail(q)) /\ (j - 1) + 1 = j
    BY <1>1 DEF Lines
  <2>3. \A i, k \in Lines(Tail(q)) : i + 1 = k + 1 => i = k
    BY <2>1
  <2>4. shift \in Injection(Lines(Tail(q)), rest)
    BY <2>1, <2>3 DEF Injection, IsInjective
  <2>5. shift \in Surjection(Lines(Tail(q)), rest)
    BY <2>1, <2>2 DEF Surjection
  <2> QED
    BY <2>4, <2>5 DEF Bijection
<1>5. IsFiniteSet(rest) /\ Cardinality(rest) = Cardinality(Lines(Tail(q)))
  <2> HIDE DEF rest, shift
  <2> QED
    BY <1>3, <1>4, FS_Bijection DEF ExistsBijection
<1>6. CASE Head(q).kind = "Line"
  <2>1. Lines(q) = rest \cup {1} /\ 1 \notin rest
    BY <1>1, <1>6 DEF Lines
  <2> HIDE DEF rest
  <2> QED
    BY <1>3, <1>5, <1>6, <2>1, FS_AddElement
<1>7. CASE Head(q).kind # "Line"
  <2>1. Lines(q) = rest
    BY <1>1, <1>7 DEF Lines
  <2> HIDE DEF rest
  <2> QED
    BY <1>3, <1>5, <1>7, <2>1
<1> QED
  BY <1>6, <1>7

-----------------------------------------------------------------------------
\* Types.

LEMMA EventTypes ==
    ASSUME NEW kind \in EventKinds, NEW arg \in Args
    PROVE  /\ Event(kind, arg) \in Events
           /\ Event(kind, arg).kind = kind /\ Event(kind, arg).arg = arg
BY DEF Event, Events

\* What is made of a portal's value.
LEMMA SchemeTypes ==
    ASSUME NEW value \in Schemes
    PROVE  /\ ~IsInt(value) => SchemeValue(value) = None
           /\ IsInt(value) => /\ SchemeValue(value) \in Nat
                              /\ SchemeValue(value) # None
                              /\ ModeOf(SchemeValue(value)) = "light" <=> value.is = 2
<1>1. value.is \in Int /\ MAX_U32 \in Nat /\ MAX_U32 >= 2
  BY SourcesAssumption DEF Values
<1>2. CASE ~IsInt(value)
  BY <1>2 DEF SchemeValue
<1>3. CASE IsInt(value)
  <2>1. SchemeValue(value) = IF value.is \in 0 .. MAX_U32 THEN value.is ELSE 0
    BY <1>3 DEF SchemeValue
  <2>2. SchemeValue(value) \in Nat /\ (SchemeValue(value) = 2 <=> value.is = 2)
    BY <1>1, <2>1
  <2>3. SchemeValue(value) # None
    BY <2>2, AbsentAssumption
  <2> QED
    BY <1>3, <2>2, <2>3 DEF ModeOf
<1> QED
  BY <1>2, <1>3

\* The event of a message of the portal.
LEMMA SchemeEventTypes ==
    ASSUME NEW message \in SettingMessages,
           message.key = "color-scheme" => message.value \in Schemes
    PROVE  /\ message.key # "color-scheme" => SchemeEvent(message) = None
           /\ message.key = "color-scheme" =>
                  /\ SchemeEvent(message) # None
                  /\ SchemeEvent(message) \in Events
                  /\ IF IsInt(message.value)
                     THEN SchemeEvent(message) = Event("Scheme", SchemeValue(message.value))
                     ELSE SchemeEvent(message) = Event("SchemeMalformed", None)
           /\ SchemeEvent(message) # None =>
                  /\ SchemeEvent(message).kind \in {"Scheme", "SchemeMalformed"}
                  /\ SchemeEvent(message).kind = "Scheme" => SchemeEvent(message).arg \in Nat
<1>1. CASE message.key # "color-scheme"
  BY <1>1 DEF SchemeEvent
<1>2. CASE message.key = "color-scheme" /\ ~IsInt(message.value)
  <2>1. SchemeEvent(message) = Event("SchemeMalformed", None)
    BY <1>2, SchemeTypes DEF SchemeEvent
  <2>2. Event("SchemeMalformed", None) \in SchemeEvents
    BY DEF Event, SchemeEvents
  <2>3. Event("SchemeMalformed", None) \in Events
        /\ Event("SchemeMalformed", None).kind = "SchemeMalformed"
    BY EventTypes DEF EventKinds, Args
  <2> QED
    BY <1>2, <2>1, <2>2, <2>3, AbsentAssumption
<1>3. CASE message.key = "color-scheme" /\ IsInt(message.value)
  <2> DEFINE v == SchemeValue(message.value)
  <2>1. v \in Nat /\ v # None
    BY <1>3, SchemeTypes
  <2>2. SchemeEvent(message) = Event("Scheme", v)
    BY <1>3, <2>1 DEF SchemeEvent
  <2> HIDE DEF v
  <2>3. Event("Scheme", v) \in SchemeEvents
    BY <2>1 DEF Event, SchemeEvents
  <2>4. Event("Scheme", v) \in Events /\ Event("Scheme", v).kind = "Scheme"
        /\ Event("Scheme", v).arg = v
    BY <2>1, EventTypes DEF EventKinds, Args
  <2> QED
    BY <1>3, <2>1, <2>2, <2>3, <2>4, AbsentAssumption DEF v
<1> QED
  BY <1>1, <1>2, <1>3

\* A read takes the first bytes of the pipe.
LEMMA ReadBytes ==
    ASSUME NEW s \in Seq(Bytes), NEW n \in Nat, n <= Len(s)
    PROVE  /\ SubSeq(s, 1, n) \in Seq(Bytes) /\ Len(SubSeq(s, 1, n)) = n
           /\ \A i \in DOMAIN SubSeq(s, 1, n) :
                  i \in DOMAIN s /\ SubSeq(s, 1, n)[i] = s[i]
           /\ SubSeq(s, n + 1, Len(s)) \in Seq(Bytes)
           /\ \A i \in DOMAIN SubSeq(s, n + 1, Len(s)) :
                  n + i \in DOMAIN s /\ SubSeq(s, n + 1, Len(s))[i] = s[n + i]
<1>1. Len(s) \in Nat /\ DOMAIN s = 1 .. Len(s) /\ n \in 0 .. Len(s)
  BY LenProperties
<1>2. /\ SubSeq(s, 1, n) \in Seq(Bytes) /\ Len(SubSeq(s, 1, n)) = n
      /\ \A i \in 1 .. n : SubSeq(s, 1, n)[i] = s[i]
  BY <1>1, ScannedPart
<1>3. DOMAIN SubSeq(s, 1, n) = 1 .. n
  BY <1>2, LenProperties
<1>4. \A i \in n + 1 .. Len(s) : s[i] \in Bytes
  BY <1>1, LenProperties
<1>5. /\ SubSeq(s, n + 1, Len(s)) \in Seq(Bytes)
      /\ Len(SubSeq(s, n + 1, Len(s))) =
             IF n + 1 <= Len(s) THEN Len(s) - (n + 1) + 1 ELSE 0
      /\ \A i \in 1 .. Len(s) - (n + 1) + 1 : SubSeq(s, n + 1, Len(s))[i] = s[n + 1 + i - 1]
  BY <1>1, <1>4, SubSeqProperties
<1>6. DOMAIN SubSeq(s, n + 1, Len(s)) = 1 .. Len(s) - n
  BY <1>1, <1>5, LenProperties
<1>7. \A i \in 1 .. n : i \in DOMAIN s
  BY <1>1
<1>8. \A i \in 1 .. Len(s) - n :
          n + i \in DOMAIN s /\ SubSeq(s, n + 1, Len(s))[i] = s[n + i]
  <2> SUFFICES ASSUME NEW i \in 1 .. Len(s) - n
               PROVE  n + i \in DOMAIN s /\ SubSeq(s, n + 1, Len(s))[i] = s[n + i]
    OBVIOUS
  <2>1. n + 1 + i - 1 = n + i /\ i \in 1 .. Len(s) - (n + 1) + 1 /\ n + i \in 1 .. Len(s)
    BY <1>1
  <2> QED
    BY <1>1, <1>5, <2>1
<1> QED
  BY <1>2, <1>3, <1>5, <1>6, <1>7, <1>8

\* The reader drives the framer; nothing else does.
LEMMA FramerSteps ==
    ASSUME Typed, [SNext]_svars
    PROVE  [FNext]_fvars
<1>1. CASE Read
  <2>1. PICK n \in 1 .. READ_CHUNK : n <= Len(pipe) /\ Feed(SubSeq(pipe, 1, n))
    BY <1>1 DEF Read
  <2>2. n \in Nat
    BY <2>1, FramingAssumption
  <2>3. SubSeq(pipe, 1, n) \in Seq(Bytes) /\ Len(SubSeq(pipe, 1, n)) = n
    BY <2>1, <2>2, ReadBytes DEF Typed
  <2>4. SubSeq(pipe, 1, n) \in Chunks
    BY <2>1, <2>3 DEF Chunks
  <2> QED
    BY <2>1, <2>4 DEF FNext
<1>2. CASE FrameStep
  BY <1>2 DEF FrameStep, FNext
<1>3. CASE UNCHANGED svars
  BY <1>3 DEF svars
<1>4. CASE SNext /\ ~Read /\ ~FrameStep
  <2>1. UNCHANGED fvars
    BY <1>4 DEF SNext, Daemon, Startup, ReadScheme, WatchVanish, WatchSignals, WatchScheme,
       Watch, SpawnFollow, StartupFails, Reader, SendLine, Eof, ReadFails, HangUp,
       VanishListener,
       SchemeListener, SignalThread, Loop, Receive, TimesOut, FireDueTimer, LoopReturns,
       Outside, PlayerctlWrites, PlayerctlDies, OwnerChanges, OtherNameLost, PortalChanges,
       OtherSetting, Signal, ClockPasses, WorkerReports
  <2> QED
    BY <2>1
<1> QED
  BY <1>1, <1>2, <1>3, <1>4

\* What a queue of events keeps.
ChannelTyped ==
    /\ channel \in Seq(Events)
    /\ Len(channel) <= EVENT_QUEUE
    /\ \A i \in DOMAIN channel : channel[i].kind = "Scheme" => channel[i].arg \in Nat

LEMMA SendTypes ==
    ASSUME Typed, NEW e \in Events, Send(e), e.kind = "Scheme" => e.arg \in Nat
    PROVE  ChannelTyped'
<1>1. channel \in Seq(Events) /\ channel' = Append(channel, e) /\ Len(channel) < EVENT_QUEUE
      /\ EVENT_QUEUE \in Nat
  BY SourcesAssumption DEF Typed, Send
<1>2. /\ channel' \in Seq(Events) /\ Len(channel) \in Nat /\ Len(channel') = Len(channel) + 1
      /\ DOMAIN channel' = DOMAIN channel \cup {Len(channel) + 1}
      /\ channel'[Len(channel) + 1] = e
      /\ \A i \in DOMAIN channel : channel'[i] = channel[i]
  BY <1>1, Appended
<1> QED
  BY <1>1, <1>2 DEF Typed, ChannelTyped

LEMMA TakeTypes ==
    ASSUME Typed, channel # <<>>, channel' = Tail(channel)
    PROVE  ChannelTyped' /\ Head(channel) = channel[1] /\ 1 \in DOMAIN channel
           /\ Head(channel) \in Events
<1>1. /\ Head(channel) = channel[1] /\ 1 \in DOMAIN channel /\ Head(channel) \in Events
      /\ channel' \in Seq(Events)
      /\ Len(channel) \in Nat /\ Len(channel') = Len(channel) - 1
      /\ \A i \in DOMAIN channel' : i + 1 \in DOMAIN channel /\ channel'[i] = channel[i + 1]
  BY Removed DEF Typed
<1> QED
  BY <1>1, SourcesAssumption DEF Typed, ChannelTyped

LEMMA StartupTypes ==
    ASSUME Typed, Startup \/ StartupFails
    PROVE  Typed'
<1>1. /\ UNCHANGED <<exit, loop, timer, channel, pipe, sent, heard, names, settings>>
      /\ UNCHANGED <<onbus, tracked, portal>>
  BY DEF Startup, StartupFails, ReadScheme, WatchVanish, WatchSignals, WatchScheme, Watch,
         SpawnFollow, childvars, busvars
<1>2. /\ main' \in {"start", "vanish", "signals", "scheme", "run", "loop", "ended", "failed"}
      /\ child' \in {"none", "running", "gone"}
      /\ reader' \in {"off", "read", "send", "done", "failed"}
      /\ watching' \subseteq {"vanish", "signals", "scheme"}
  BY DEF Typed, Startup, StartupFails, ReadScheme, WatchVanish, WatchSignals, WatchScheme,
         Watch, SpawnFollow, childvars, busvars
<1>3. mode' \in Modes
  BY SourcesAssumption DEF Typed, Startup, StartupFails, ReadScheme, WatchVanish,
     WatchSignals, WatchScheme, Watch, SpawnFollow, ModeOf, Modes
<1> QED
  BY <1>1, <1>2, <1>3 DEF Typed

LEMMA ReaderTypes ==
    ASSUME Typed, FInv, LinesInOrder, Reader \/ ReadFails
    PROVE  Typed'
<1>1. /\ UNCHANGED <<main, mode, exit, loop, timer, child, heard, watching, names, settings>>
      /\ UNCHANGED <<onbus, tracked, portal>>
      /\ reader' \in {"read", "send", "done", "failed"}
  BY DEF Reader, Read, FrameStep, SendLine, Eof, ReadFails, HangUp, loopvars, busvars, Typed
<1>2. ASSUME pipe' \in Seq(Bytes), sent' \in Nat, ChannelTyped'
      PROVE  Typed'
  BY <1>1, <1>2 DEF Typed, ChannelTyped
<1>3. ChannelTyped /\ pipe \in Seq(Bytes) /\ sent \in Nat /\ UNCHANGED channel => ChannelTyped'
  BY DEF Typed, ChannelTyped
<1>4. ChannelTyped /\ pipe \in Seq(Bytes) /\ sent \in Nat /\ None \in Args
  BY DEF Typed, ChannelTyped, Args
<1>5. CASE Read
  <2>1. PICK n \in 1 .. READ_CHUNK :
            n <= Len(pipe) /\ pipe' = SubSeq(pipe, n + 1, Len(pipe))
    BY <1>5 DEF Read
  <2>2. n \in Nat
    BY <2>1, FramingAssumption
  <2>3. pipe' \in Seq(Bytes)
    BY <1>4, <2>1, <2>2, ReadBytes
  <2> QED
    BY <1>2, <1>3, <1>4, <1>5, <2>3 DEF Read
<1>6. CASE FrameStep
  <2>1. Event("Oversize", None) \in Events /\ Event("Oversize", None).kind = "Oversize"
    BY <1>4, EventTypes DEF EventKinds
  <2>2. UNCHANGED <<pipe, sent>> /\ (Send(Event("Oversize", None)) \/ UNCHANGED channel)
    BY <1>6 DEF FrameStep
  <2>3. ChannelTyped'
    BY <1>3, <1>4, <2>1, <2>2, SendTypes
  <2> QED
    BY <1>2, <1>4, <2>2, <2>3
<1>7. CASE SendLine
  <2>1. CASE sent < Len(out)
    <3>1. sent + 1 \in 1 .. Len(out) /\ out \in Seq(Seq(Text))
      BY <1>4, <2>1, LenProperties DEF FInv, FTypeOK
    <3>2. out[sent + 1] \in Args
      BY <3>1, LenProperties DEF Args
    <3>3. Event("Line", out[sent + 1]) \in Events
          /\ Event("Line", out[sent + 1]).kind = "Line"
      BY <3>2, EventTypes DEF EventKinds
    <3>4. pipe' = pipe /\ Send(Event("Line", out[sent + 1])) /\ sent' = sent + 1
      BY <1>7, <2>1 DEF SendLine
    <3>5. ChannelTyped'
      BY <3>3, <3>4, SendTypes
    <3> QED
      BY <1>2, <1>4, <3>4, <3>5
  <2>2. CASE ~(sent < Len(out))
    BY <1>2, <1>3, <1>4, <1>7, <2>2 DEF SendLine
  <2> QED
    BY <2>1, <2>2
<1>8. CASE Eof \/ ReadFails
  <2>1. Event("Hangup", None) \in Events /\ Event("Hangup", None).kind = "Hangup"
    BY <1>4, EventTypes DEF EventKinds
  <2>2. ChannelTyped'
    BY <1>8, <2>1, SendTypes DEF Eof, ReadFails, HangUp
  <2> QED
    BY <1>2, <1>4, <1>8, <2>2 DEF Eof, ReadFails, HangUp
<1> QED
  BY <1>5, <1>6, <1>7, <1>8 DEF Reader

LEMMA ListenerTypes ==
    ASSUME Typed, VanishListener \/ SchemeListener \/ SignalThread
    PROVE  Typed'
<1>1. /\ UNCHANGED <<main, mode, exit, loop, timer, child, heard, watching, pipe, sent>>
      /\ UNCHANGED <<onbus, tracked, portal, reader>>
  BY DEF VanishListener, SchemeListener, SignalThread, loopvars, childvars
<1>2. ASSUME names' \in Seq(OwnerMessages), settings' \in Seq(SettingMessages), ChannelTyped',
             \A i \in DOMAIN settings' :
                 settings'[i].key = "color-scheme" => settings'[i].value \in Schemes
      PROVE  Typed'
  BY <1>1, <1>2 DEF Typed, ChannelTyped
<1>3. /\ names \in Seq(OwnerMessages) /\ settings \in Seq(SettingMessages)
      /\ ChannelTyped
      /\ UNCHANGED channel => ChannelTyped'
  BY DEF Typed, ChannelTyped
<1>4. \A i \in DOMAIN settings : settings[i].key = "color-scheme" => settings[i].value \in Schemes
  BY DEF Typed
<1>5. CASE VanishListener
  <2>1. names # <<>> /\ names' = Tail(names) /\ settings' = settings
    BY <1>5 DEF VanishListener
  <2>2. Head(names) \in OwnerMessages /\ names' \in Seq(OwnerMessages)
    BY <1>3, <2>1, Removed
  <2>3. Head(names).name \in Args
    BY <2>2 DEF OwnerMessages, Args
  <2>4. Event("Vanish", Head(names).name) \in Events
        /\ Event("Vanish", Head(names).name).kind = "Vanish"
    BY <2>3, EventTypes DEF EventKinds
  <2>5. ChannelTyped'
    BY <1>3, <1>5, <2>4, SendTypes DEF VanishListener
  <2> QED
    BY <1>2, <1>3, <1>4, <2>1, <2>2, <2>5
<1>6. CASE SchemeListener
  <2>1. settings # <<>> /\ settings' = Tail(settings) /\ names' = names
    BY <1>6 DEF SchemeListener
  <2>2. /\ Head(settings) = settings[1] /\ 1 \in DOMAIN settings
        /\ Head(settings) \in SettingMessages /\ settings' \in Seq(SettingMessages)
        /\ \A i \in DOMAIN settings' :
               i + 1 \in DOMAIN settings /\ settings'[i] = settings[i + 1]
    BY <1>3, <2>1, Removed
  <2>3. Head(settings).key = "color-scheme" => Head(settings).value \in Schemes
    BY <1>4, <2>2
  <2>4. SchemeEvent(Head(settings)) # None =>
            /\ SchemeEvent(Head(settings)) \in Events
            /\ SchemeEvent(Head(settings)).kind = "Scheme" =>
                   SchemeEvent(Head(settings)).arg \in Nat
    BY <2>2, <2>3, SchemeEventTypes
  <2>5. ChannelTyped'
    BY <1>3, <1>6, <2>4, SendTypes DEF SchemeListener
  <2>6. \A i \in DOMAIN settings' :
            settings'[i].key = "color-scheme" => settings'[i].value \in Schemes
    BY <1>4, <2>2
  <2> QED
    BY <1>2, <1>3, <2>1, <2>2, <2>5, <2>6
<1>7. CASE SignalThread
  <2>1. Event("Shutdown", None) \in Events /\ Event("Shutdown", None).kind = "Shutdown"
    BY EventTypes DEF EventKinds, Args
  <2>2. ChannelTyped' /\ names' = names /\ settings' = settings
    BY <1>7, <2>1, SendTypes DEF SignalThread
  <2> QED
    BY <1>2, <1>3, <1>4, <2>2
<1> QED
  BY <1>5, <1>6, <1>7

LEMMA LoopTypes ==
    ASSUME Typed, Loop
    PROVE  Typed'
<1>1. /\ UNCHANGED <<child, watching, pipe, sent, names, settings, onbus, portal, reader>>
      /\ main' \in {"loop", "ended"} /\ loop' \in {"wait", "check"}
  BY DEF Loop, Receive, TimesOut, FireDueTimer, LoopReturns, childvars, busvars, Typed, Running
<1>2. ASSUME mode' \in Modes, exit' \in {None, "Hangup", "Shutdown"}, ChannelTyped',
             timer' \in {"none", "armed", "due"}, heard' \in Nat, tracked' \in BOOLEAN
      PROVE  Typed'
  BY <1>1, <1>2 DEF Typed, ChannelTyped
<1>3. /\ mode \in Modes /\ exit \in {None, "Hangup", "Shutdown"} /\ heard \in Nat
      /\ timer \in {"none", "armed", "due"} /\ tracked \in BOOLEAN
      /\ UNCHANGED channel => ChannelTyped'
  BY DEF Typed, ChannelTyped
<1>4. CASE Receive
  <2>1. ChannelTyped' /\ Handle(Head(channel)) /\ exit' = exit
    BY <1>4, TakeTypes DEF Receive
  <2>2. mode' \in Modes
    BY <1>3, <2>1 DEF Handle, ModeOf, Modes
  <2>3. timer' \in {"none", "armed", "due"}
    BY <1>3, <2>1 DEF Handle
  <2>4. tracked' \in BOOLEAN
    <3>1. \/ Head(channel).kind = "Line" /\ tracked' = (tracked \/ Head(channel).arg # <<>>)
          \/ tracked' = FALSE
          \/ tracked' = tracked
      BY <2>1 DEF Handle
    <3> QED
      BY <1>3, <3>1
  <2>5. heard' \in Nat
    BY <1>3, <2>1 DEF Handle
  <2> QED
    BY <1>2, <1>3, <2>1, <2>2, <2>3, <2>4, <2>5
<1>5. CASE LoopReturns
  <2>1. ChannelTyped' /\ exit' \in {"Hangup", "Shutdown"}
        /\ UNCHANGED <<mode, timer, tracked, heard>>
    BY <1>5, TakeTypes DEF LoopReturns
  <2> QED
    BY <1>2, <1>3, <2>1
<1>6. CASE TimesOut \/ FireDueTimer
  <2>1. UNCHANGED <<mode, exit, tracked, heard, channel>> /\ timer' \in {timer, "none"}
    BY <1>6 DEF TimesOut, FireDueTimer
  <2> QED
    BY <1>2, <1>3, <2>1
<1> QED
  BY <1>4, <1>5, <1>6 DEF Loop

LEMMA OutsideTypes ==
    ASSUME Typed, Outside
    PROVE  Typed'
<1>1. /\ UNCHANGED <<main, mode, exit, loop, heard, tracked, reader, sent, watching>>
      /\ timer' \in {timer, "due"} /\ child' \in {child, "gone"} /\ onbus' \in {onbus, ~onbus}
  BY DEF Outside, PlayerctlWrites, PlayerctlDies, OwnerChanges, OtherNameLost, PortalChanges,
     OtherSetting, Signal, ClockPasses, WorkerReports, loopvars, childvars, busvars
<1>2. ASSUME pipe' \in Seq(Bytes), names' \in Seq(OwnerMessages),
             settings' \in Seq(SettingMessages), ChannelTyped', portal' \in Schemes \cup {None},
             \A i \in DOMAIN settings' :
                 settings'[i].key = "color-scheme" => settings'[i].value \in Schemes
      PROVE  Typed'
  <2>1. /\ timer' \in {"none", "armed", "due"} /\ child' \in {"none", "running", "gone"}
        /\ onbus' \in BOOLEAN
    BY <1>1 DEF Typed
  <2> QED
    BY <1>1, <1>2, <2>1 DEF Typed, ChannelTyped
<1>3. /\ pipe \in Seq(Bytes) /\ names \in Seq(OwnerMessages)
      /\ settings \in Seq(SettingMessages) /\ portal \in Schemes \cup {None}
      /\ UNCHANGED channel => ChannelTyped'
      /\ \A i \in DOMAIN settings :
             settings[i].key = "color-scheme" => settings[i].value \in Schemes
  BY DEF Typed, ChannelTyped
<1>4. CASE UNCHANGED <<pipe, names, settings, portal, channel>>
  BY <1>2, <1>3, <1>4
<1>5. ASSUME NEW line \in Seq(Text), PlayerctlWrites(line) \/ PlayerctlDies(line)
      PROVE  Typed'
  <2>1. line \in Seq(Bytes) /\ <<Newline>> \in Seq(Bytes)
    BY SeqMonotonic DEF Bytes
  <2>2. pipe \o line \in Seq(Bytes) /\ (pipe \o line) \o <<Newline>> \in Seq(Bytes)
    BY <1>3, <2>1, ConcatProperties
  <2>3. UNCHANGED <<names, settings, portal, channel>>
        /\ (pipe' = (pipe \o line) \o <<Newline>> \/ pipe' = pipe \o line)
    BY <1>5 DEF PlayerctlWrites, PlayerctlDies, busvars
  <2> QED
    BY <1>2, <1>3, <2>2, <2>3
<1>6. CASE OwnerChanges \/ OtherNameLost
  <2>1. PICK message \in OwnerMessages : names' \in {names, Append(names, message)}
    <3>1. [name |-> "player", new |-> ~onbus] \in OwnerMessages
          /\ [name |-> "other", new |-> FALSE] \in OwnerMessages
      BY DEF OwnerMessages, Typed
    <3> QED
      BY <1>6, <3>1 DEF OwnerChanges, OtherNameLost, Deliver
  <2>2. names' \in Seq(OwnerMessages)
    <3>1. names \in Seq(OwnerMessages)
      BY <1>3
    <3>2. Append(names, message) \in Seq(OwnerMessages)
      BY <2>1, <3>1, Appended
    <3> QED
      BY <2>1, <3>1, <3>2
  <2>3. UNCHANGED <<pipe, settings, portal, channel>>
    BY <1>6 DEF OwnerChanges, OtherNameLost, childvars
  <2> QED
    BY <1>2, <1>3, <2>2, <2>3
<1>7. ASSUME NEW value \in Schemes \cup {None},
             \/ value \in Schemes /\ PortalChanges(value)
             \/ OtherSetting
      PROVE  Typed'
  <2>1. PICK message \in SettingMessages :
            /\ settings' \in {settings, Append(settings, message)}
            /\ message.key = "color-scheme" => message.value \in Schemes
    <3>1. CASE value \in Schemes /\ PortalChanges(value)
      <4> DEFINE message == [key |-> "color-scheme", value |-> value]
      <4>1. message \in SettingMessages /\ message.value \in Schemes
        BY <3>1 DEF SettingMessages
      <4>2. settings' \in {settings, Append(settings, message)}
        BY <3>1 DEF PortalChanges, Deliver
      <4> QED
        BY <4>1, <4>2
    <3>2. CASE OtherSetting
      <4> DEFINE message == [key |-> "accent-color", value |-> None]
      <4>1. message \in SettingMessages /\ message.key # "color-scheme"
        BY DEF SettingMessages
      <4>2. settings' \in {settings, Append(settings, message)}
        BY <3>2 DEF OtherSetting, Deliver
      <4> QED
        BY <4>1, <4>2
    <3> QED
      BY <1>7, <3>1, <3>2
  <2>2. settings' \in Seq(SettingMessages)
    BY <1>3, <2>1, Appended, SMTT(30)
  <2>3. \A i \in DOMAIN settings' :
            settings'[i].key = "color-scheme" => settings'[i].value \in Schemes
    <3>1. CASE settings' = settings
      BY <1>3, <3>1
    <3>2. CASE settings' = Append(settings, message)
      <4>1. /\ DOMAIN settings' = DOMAIN settings \cup {Len(settings) + 1}
            /\ settings'[Len(settings) + 1] = message
            /\ \A i \in DOMAIN settings : settings'[i] = settings[i]
        BY <1>3, <3>2, Appended
      <4> QED
        BY <1>3, <2>1, <4>1
    <3> QED
      BY <2>1, <3>1, <3>2
  <2>4. UNCHANGED <<pipe, names, channel>> /\ portal' \in Schemes \cup {None}
    BY <1>3, <1>7 DEF PortalChanges, OtherSetting, childvars
  <2> QED
    BY <1>2, <1>3, <2>2, <2>3, <2>4
<1>8. CASE WorkerReports
  <2>1. Event("Worker", None) \in Events /\ Event("Worker", None).kind = "Worker"
    BY EventTypes DEF EventKinds, Args
  <2>2. ChannelTyped' /\ UNCHANGED <<pipe, names, settings, portal>>
    BY <1>8, <2>1, SendTypes DEF WorkerReports, childvars, busvars
  <2> QED
    BY <1>2, <1>3, <2>2
<1>9. CASE Signal \/ ClockPasses
  BY <1>4, <1>9 DEF Signal, ClockPasses, childvars, busvars
<1> QED
  BY <1>5, <1>6, <1>7, <1>8, <1>9 DEF Outside

LEMMA TypedNext ==
    ASSUME SInv, [SNext]_svars
    PROVE  Typed'
<1>1. Typed /\ FInv /\ LinesInOrder
  BY DEF SInv
<1>2. CASE UNCHANGED svars
  BY <1>1, <1>2 DEF svars, loopvars, childvars, busvars, Typed
<1>3. CASE SNext
  BY <1>1, <1>3, StartupTypes, ReaderTypes, ListenerTypes, LoopTypes, OutsideTypes
     DEF SNext, Daemon
<1> QED
  BY <1>2, <1>3

-----------------------------------------------------------------------------
\* What the steps do to the channel.

\* A send of e, in terms of places in the channel.
LEMMA SendPlaces ==
    ASSUME Typed, NEW e \in Events, Send(e)
    PROVE  /\ channel \in Seq(Events) /\ channel' = Append(channel, e)
           /\ Len(channel) \in Nat /\ DOMAIN channel = 1 .. Len(channel)
           /\ DOMAIN channel' = DOMAIN channel \cup {Len(channel) + 1}
           /\ channel'[Len(channel) + 1] = e
           /\ \A i \in DOMAIN channel : i < Len(channel) + 1 /\ channel'[i] = channel[i]
BY Appended DEF Typed, Send

\* The steps other than the reader's that send an event.
Others == FrameStep \/ VanishListener \/ SchemeListener \/ SignalThread \/ WorkerReports

LEMMA OtherSends ==
    ASSUME Typed, Others
    PROVE  UNCHANGED channel \/ \E e \in Events : Send(e) /\ e.kind \notin {"Line", "Hangup"}
<1>1. \A kind \in EventKinds, arg \in Args :
          Event(kind, arg) \in Events /\ Event(kind, arg).kind = kind
  BY EventTypes
<1>2. CASE FrameStep \/ SignalThread \/ WorkerReports
  <2>1. \A kind \in {"Oversize", "Shutdown", "Worker"} :
            Event(kind, None) \in Events /\ Event(kind, None).kind = kind
    BY <1>1 DEF EventKinds, Args
  <2>2. UNCHANGED channel \/ \E kind \in {"Oversize", "Shutdown", "Worker"} :
                                  Send(Event(kind, None))
    BY <1>2 DEF FrameStep, SignalThread, WorkerReports
  <2> QED
    BY <2>1, <2>2
<1>3. CASE VanishListener
  <2>1. Head(names) \in OwnerMessages
    BY <1>3, Removed DEF VanishListener, Typed
  <2>2. Event("Vanish", Head(names).name) \in Events
        /\ Event("Vanish", Head(names).name).kind = "Vanish"
    BY <1>1, <2>1 DEF OwnerMessages, EventKinds, Args
  <2> QED
    BY <1>3, <2>2 DEF VanishListener
<1>4. CASE SchemeListener
  <2>1. Head(settings) \in SettingMessages
        /\ (Head(settings).key = "color-scheme" => Head(settings).value \in Schemes)
    BY <1>4, Removed DEF SchemeListener, Typed
  <2>2. SchemeEvent(Head(settings)) # None =>
            SchemeEvent(Head(settings)) \in Events
            /\ SchemeEvent(Head(settings)).kind \in {"Scheme", "SchemeMalformed"}
    BY <2>1, SchemeEventTypes
  <2> QED
    BY <1>4, <2>2 DEF SchemeListener
<1> QED
  BY <1>2, <1>3, <1>4 DEF Others

-----------------------------------------------------------------------------
\* Nothing is heard before playerctl runs.

LEMMA StagedNext ==
    ASSUME SInv, [SNext]_svars
    PROVE  Staged'
<1>1. Typed /\ Staged
  BY DEF SInv
<1>2. CASE UNCHANGED svars
  BY <1>1, <1>2 DEF svars, loopvars, childvars, busvars, fvars, framer, Staged
<1>3. CASE Startup \/ StartupFails
  BY <1>1, <1>3 DEF Staged, Starting, Startup, StartupFails, ReadScheme, WatchVanish,
     WatchSignals, WatchScheme, Watch, SpawnFollow, childvars, busvars, fvars, framer
<1>4. CASE Reader \/ ReadFails \/ Loop
  <2>1. main = "loop" /\ main' \in {"loop", "ended"} /\ watching' = watching
        /\ (main' = "loop" => exit' = exit)
    BY <1>4 DEF Reader, Read, FrameStep, SendLine, Eof, ReadFails, HangUp, Loop, Receive,
       TimesOut, FireDueTimer, LoopReturns, Running, loopvars, busvars
  <2> QED
    BY <1>1, <2>1 DEF Staged, Starting
<1>5. CASE VanishListener \/ SchemeListener \/ SignalThread
  <2>1. /\ UNCHANGED <<main, exit, child, reader, pipe, buf, out, tracked, watching>>
    BY <1>5 DEF VanishListener, SchemeListener, SignalThread, fvars, framer, loopvars,
       childvars
  <2>2. (\A i \in DOMAIN channel : channel[i].kind # "Line") =>
            \A i \in DOMAIN channel' : channel'[i].kind # "Line"
    <3>1. CASE UNCHANGED channel
      BY <3>1
    <3>2. ASSUME NEW e \in Events, Send(e), e.kind \notin {"Line", "Hangup"}
          PROVE  (\A i \in DOMAIN channel : channel[i].kind # "Line") =>
                     \A i \in DOMAIN channel' : channel'[i].kind # "Line"
      BY <1>1, <3>2, SendPlaces
    <3> QED
      BY <1>1, <1>5, <3>1, <3>2, OtherSends DEF Others
  <2> QED
    BY <1>1, <2>1, <2>2 DEF Staged
<1>6. CASE Outside
  <2>1. UNCHANGED <<main, exit, reader, buf, out, tracked, watching>>
    BY <1>6 DEF Outside, PlayerctlWrites, PlayerctlDies, OwnerChanges, OtherNameLost,
       PortalChanges, OtherSetting, Signal, ClockPasses, WorkerReports, fvars, framer,
       loopvars, childvars, busvars
  <2>2. main \in Starting => UNCHANGED <<child, pipe, channel>>
    BY <1>1, <1>6 DEF Staged, Starting, Outside, PlayerctlWrites, PlayerctlDies, OwnerChanges,
       OtherNameLost, PortalChanges, OtherSetting, Signal, ClockPasses, WorkerReports,
       childvars
  <2> QED
    BY <1>1, <2>1, <2>2 DEF Staged
<1> QED
  BY <1>2, <1>3, <1>4, <1>5, <1>6 DEF SNext, Daemon

-----------------------------------------------------------------------------
\* No line is lost, and none comes after the hangup.

LEMMA LinesNext ==
    ASSUME SInv, [SNext]_svars
    PROVE  LinesInOrder'
<1>1. /\ Typed /\ Staged /\ LinesInOrder
      /\ channel \in Seq(Events) /\ sent \in Nat /\ heard \in Nat
      /\ out \in Seq(Seq(Text)) /\ Len(out) \in Nat /\ feeding \in BOOLEAN
  BY LenProperties DEF SInv, Typed, FInv, FTypeOK
<1>2. CASE UNCHANGED <<feeding, reader, sent, out, heard, channel>>
  BY <1>1, <1>2 DEF LinesInOrder
<1>3. CASE SpawnFollow
  BY <1>1, <1>3 DEF SpawnFollow, LinesInOrder, Staged, Starting, fvars, framer
<1>4. CASE Read
  <2>1. feeding' /\ reader = "read" /\ UNCHANGED <<reader, sent, out, heard, channel>>
    BY <1>4 DEF Read, Feed, loopvars
  <2> QED
    BY <1>1, <2>1 DEF LinesInOrder
<1>5. ASSUME UNCHANGED channel \/ \E e \in Events : Send(e) /\ e.kind \notin {"Line", "Hangup"}
      PROVE  Cardinality(Lines(channel')) = Cardinality(Lines(channel))
  BY <1>1, <1>5, SendPlaces, LinesAppended
<1>6. CASE FrameStep
  <2>1. /\ feeding /\ UNCHANGED <<sent, heard>>
        /\ reader' = IF feeding' THEN "read" ELSE "send"
        /\ out' = out \/ out' = Append(out, SubSeq(buf, 1, Cut - 1))
    BY <1>6 DEF FrameStep, Frame, EndRefused, DropLine, FrameLine, EndFeed, AtNewline, loopvars
  <2>2. Len(out') >= Len(out) /\ Len(out') \in Nat
    <3>1. Len(Append(out, SubSeq(buf, 1, Cut - 1))) = Len(out) + 1
      BY <1>1
    <3> QED
      BY <1>1, <2>1, <3>1
  <2>3. Cardinality(Lines(channel')) = Cardinality(Lines(channel))
    BY <1>1, <1>5, <1>6, OtherSends DEF Others
  <2> QED
    BY <1>1, <2>1, <2>2, <2>3 DEF LinesInOrder
<1>7. CASE VanishListener \/ SchemeListener \/ SignalThread \/ WorkerReports
  <2>1. UNCHANGED <<feeding, reader, sent, out, heard>>
    BY <1>7 DEF VanishListener, SchemeListener, SignalThread, WorkerReports, fvars, framer,
       loopvars, childvars
  <2>2. Cardinality(Lines(channel')) = Cardinality(Lines(channel))
    BY <1>1, <1>5, <1>7, OtherSends DEF Others
  <2> QED
    BY <1>1, <2>1, <2>2 DEF LinesInOrder
<1>8. CASE SendLine
  <2>1. reader = "send" /\ ~feeding /\ UNCHANGED <<feeding, out, heard>>
    BY <1>1, <1>8 DEF SendLine, LinesInOrder, fvars, framer, loopvars
  <2>2. CASE sent < Len(out)
    <3> DEFINE e == Event("Line", out[sent + 1])
    <3>1. Send(e) /\ sent' = sent + 1 /\ reader' = reader
      BY <1>8, <2>2 DEF SendLine
    <3>2. e \in Events /\ e.kind = "Line"
      <4>1. out[sent + 1] \in Seq(Text)
        BY <1>1, <2>2, LenProperties
      <4> QED
        BY <4>1, EventTypes DEF Args, EventKinds
    <3> HIDE DEF e
    <3>3. /\ Cardinality(Lines(channel')) = Cardinality(Lines(channel)) + 1
          /\ Cardinality(Lines(channel)) \in Nat
      BY <1>1, <3>1, <3>2, SendPlaces, LinesAppended
    <3> QED
      BY <1>1, <2>1, <2>2, <3>1, <3>3 DEF LinesInOrder
  <2>3. CASE ~(sent < Len(out))
    <3>1. UNCHANGED <<sent, channel>> /\ sent = Len(out)
      BY <1>1, <1>8, <2>3 DEF SendLine, LinesInOrder
    <3> QED
      BY <1>1, <2>1, <3>1 DEF LinesInOrder
  <2> QED
    BY <2>2, <2>3
<1>9. CASE Eof \/ ReadFails
  <2>1. /\ reader = "read" /\ ~feeding /\ UNCHANGED <<feeding, out, heard, sent>>
        /\ Send(Event("Hangup", None)) /\ reader' \in {"done", "failed"}
    BY <1>9 DEF Eof, ReadFails, HangUp, fvars, framer, loopvars
  <2>2. Event("Hangup", None) \in Events /\ Event("Hangup", None).kind = "Hangup"
    BY EventTypes DEF EventKinds, Args
  <2>3. Cardinality(Lines(channel')) = Cardinality(Lines(channel))
    BY <1>1, <2>1, <2>2, SendPlaces, LinesAppended
  <2> QED
    BY <1>1, <2>1, <2>3 DEF LinesInOrder
<1>10. CASE Receive \/ LoopReturns
  <2>1. /\ UNCHANGED <<feeding, reader, sent, out>>
        /\ channel # <<>> /\ channel' = Tail(channel)
        /\ heard' = heard + (IF Head(channel).kind = "Line" THEN 1 ELSE 0)
    <3>1. CASE Receive
      BY <3>1 DEF Receive, Handle, fvars, framer, childvars
    <3>2. CASE LoopReturns
      <4>1. /\ UNCHANGED <<feeding, reader, sent, out, heard>>
            /\ channel # <<>> /\ channel' = Tail(channel)
            /\ Head(channel).kind # "Line"
        BY <3>2 DEF LoopReturns, fvars, framer, childvars
      <4> QED
        BY <1>1, <4>1
    <3> QED
      BY <1>10, <3>1, <3>2
  <2>2. /\ Cardinality(Lines(channel')) \in Nat
        /\ Head(channel).kind = "Line" =>
               Cardinality(Lines(channel)) = Cardinality(Lines(channel')) + 1
        /\ Head(channel).kind # "Line" =>
               Cardinality(Lines(channel)) = Cardinality(Lines(channel'))
    BY <1>1, <2>1, LinesRemoved
  <2>3. heard' + Cardinality(Lines(channel')) = heard + Cardinality(Lines(channel))
    BY <1>1, <2>1, <2>2
  <2> QED
    BY <1>1, <2>1, <2>3 DEF LinesInOrder
<1>11. CASE \/ Startup /\ ~SpawnFollow
            \/ StartupFails \/ TimesOut \/ FireDueTimer
            \/ Outside /\ ~WorkerReports
            \/ UNCHANGED svars
  <2>1. UNCHANGED <<feeding, reader, sent, out, heard, channel>>
    BY <1>11 DEF Startup, StartupFails, ReadScheme, WatchVanish, WatchSignals, WatchScheme,
       Watch, TimesOut, FireDueTimer, Outside, PlayerctlWrites, PlayerctlDies, OwnerChanges,
       OtherNameLost, PortalChanges, OtherSetting, Signal, ClockPasses, svars, fvars, framer,
       loopvars, childvars
  <2> QED
    BY <1>2, <2>1
<1> QED
  BY <1>3, <1>4, <1>6, <1>7, <1>8, <1>9, <1>10, <1>11 DEF SNext, Daemon, Reader, Loop

LEMMA HangupNext ==
    ASSUME SInv, [SNext]_svars
    PROVE  HangupIsLast'
<1>1. /\ Typed /\ Staged /\ LinesInOrder /\ HangupIsLast
      /\ channel \in Seq(Events)
      /\ None # "Hangup"
  BY SourcesAssumption DEF SInv, Typed
<1>2. CASE UNCHANGED <<reader, child, pipe, feeding, exit, channel>>
  BY <1>1, <1>2 DEF HangupIsLast
<1>3. CASE SpawnFollow
  BY <1>1, <1>3 DEF SpawnFollow, HangupIsLast, Staged, Starting, fvars, framer
<1>4. CASE \E line \in Seq(Text) : PlayerctlWrites(line) \/ PlayerctlDies(line)
  BY <1>1, <1>4 DEF PlayerctlWrites, PlayerctlDies, HangupIsLast, fvars, framer, loopvars
<1>5. CASE Read
  <2>1. reader = "read" /\ UNCHANGED <<reader, exit, channel>>
    BY <1>5 DEF Read, loopvars
  <2> QED
    BY <1>1, <2>1 DEF HangupIsLast
<1>6. ASSUME \/ UNCHANGED <<exit, reader, child, pipe, feeding>>
             \/ /\ reader \notin {"done", "failed"} /\ reader' \notin {"done", "failed"}
                /\ UNCHANGED exit,
             UNCHANGED channel \/ \E e \in Events : Send(e) /\ e.kind \notin {"Line", "Hangup"}
      PROVE  HangupIsLast'
  <2>1. CASE UNCHANGED channel
    BY <1>1, <1>6, <2>1 DEF HangupIsLast
  <2>2. ASSUME NEW e \in Events, Send(e), e.kind \notin {"Line", "Hangup"}
        PROVE  HangupIsLast'
    <3>1. /\ DOMAIN channel = 1 .. Len(channel) /\ Len(channel) \in Nat
          /\ DOMAIN channel' = DOMAIN channel \cup {Len(channel) + 1}
          /\ channel'[Len(channel) + 1].kind \notin {"Line", "Hangup"}
          /\ \A i \in DOMAIN channel : channel'[i] = channel[i]
      BY <1>1, <2>2, SendPlaces
    <3>2. \A i \in DOMAIN channel' : channel'[i].kind \in {"Line", "Hangup"} =>
              i \in DOMAIN channel /\ channel'[i] = channel[i]
      BY <3>1
    <3> QED
      BY <1>1, <1>6, <3>2 DEF HangupIsLast
  <2> QED
    BY <1>6, <2>1, <2>2
<1>7. CASE FrameStep \/ VanishListener \/ SchemeListener \/ SignalThread \/ WorkerReports
  <2>1. UNCHANGED <<exit, reader, child, pipe, feeding>>
        \/ /\ reader \notin {"done", "failed"} /\ reader' \notin {"done", "failed"}
           /\ UNCHANGED exit
    BY <1>1, <1>7 DEF FrameStep, Frame, EndRefused, DropLine, FrameLine, EndFeed, AtNewline,
       VanishListener, SchemeListener, SignalThread, WorkerReports, LinesInOrder, fvars, framer,
       loopvars, childvars
  <2> QED
    BY <1>1, <1>6, <1>7, <2>1, OtherSends DEF Others
<1>8. CASE SendLine
  <2>1. reader = "send" /\ reader' \notin {"done", "failed"} /\ UNCHANGED exit
    BY <1>8 DEF SendLine, loopvars
  <2>2. /\ exit' # "Hangup"
        /\ \A i \in DOMAIN channel : channel[i].kind # "Hangup"
    BY <1>1, <2>1 DEF HangupIsLast
  <2>3. \A i \in DOMAIN channel' : channel'[i].kind # "Hangup"
    <3>1. CASE UNCHANGED channel
      BY <2>2, <3>1
    <3>2. CASE sent < Len(out)
      <4>1. out[sent + 1] \in Args
        <5>1. sent \in Nat /\ out \in Seq(Seq(Text))
          BY <1>1 DEF SInv, Typed, FInv, FTypeOK
        <5> QED
          BY <3>2, <5>1, LenProperties DEF Args
      <4>2. /\ Event("Line", out[sent + 1]) \in Events
            /\ Event("Line", out[sent + 1]).kind = "Line"
        BY <4>1, EventTypes DEF EventKinds
      <4>3. Send(Event("Line", out[sent + 1]))
        BY <1>8, <3>2 DEF SendLine
      <4> QED
        BY <1>1, <2>2, <4>2, <4>3, SendPlaces
    <3> QED
      BY <1>8, <3>1, <3>2 DEF SendLine
  <2> QED
    BY <2>1, <2>2, <2>3 DEF HangupIsLast
<1>9. CASE Eof \/ ReadFails
  <2>1. /\ reader = "read" /\ reader' \in {"done", "failed"} /\ ~feeding
        /\ reader' = "done" => child = "gone" /\ pipe = <<>>
        /\ UNCHANGED <<feeding, child, pipe, exit>>
        /\ Send(Event("Hangup", None))
    BY <1>9 DEF Eof, ReadFails, HangUp, fvars, framer, loopvars
  <2>2. Event("Hangup", None) \in Events /\ Event("Hangup", None).kind = "Hangup"
    BY EventTypes DEF EventKinds, Args
  <2>3. /\ DOMAIN channel = 1 .. Len(channel) /\ Len(channel) \in Nat
        /\ DOMAIN channel' = DOMAIN channel \cup {Len(channel) + 1}
        /\ channel'[Len(channel) + 1].kind = "Hangup"
        /\ \A i \in DOMAIN channel : i < Len(channel) + 1 /\ channel'[i] = channel[i]
    BY <1>1, <2>1, <2>2, SendPlaces
  <2>4. exit # "Hangup" /\ \A i \in DOMAIN channel : channel[i].kind # "Hangup"
    BY <1>1, <2>1 DEF HangupIsLast
  <2>5. \A i, j \in DOMAIN channel' : channel'[i].kind = "Hangup" => ~(i < j)
    <3>1. \A i \in DOMAIN channel' : channel'[i].kind = "Hangup" => i = Len(channel) + 1
      BY <2>3, <2>4
    <3>2. \A j \in DOMAIN channel' : ~(Len(channel) + 1 < j)
      BY <2>3
    <3> QED
      BY <3>1, <3>2
  <2> QED
    BY <2>1, <2>4, <2>5 DEF HangupIsLast
<1>10. CASE Receive \/ LoopReturns
  <2>1. /\ UNCHANGED <<reader, child, pipe, feeding>>
        /\ channel # <<>> /\ channel' = Tail(channel)
        /\ exit' = exit \/ (exit' = Head(channel).kind /\ LoopReturns)
    BY <1>10 DEF Receive, LoopReturns, fvars, framer, childvars
  <2>2. /\ Head(channel) = channel[1] /\ 1 \in DOMAIN channel
        /\ \A i \in DOMAIN channel' :
               /\ i \in Nat /\ i + 1 \in DOMAIN channel /\ 1 < i + 1
               /\ channel'[i] = channel[i + 1]
    <3>1. /\ Head(channel) = channel[1] /\ 1 \in DOMAIN channel
          /\ DOMAIN channel' = 1 .. Len(channel) - 1 /\ Len(channel) \in Nat
          /\ \A i \in DOMAIN channel' :
                 i + 1 \in DOMAIN channel /\ channel'[i] = channel[i + 1]
      BY <1>1, <2>1, Removed
    <3>2. \A i \in DOMAIN channel' : i \in Nat /\ 1 < i + 1
      BY <3>1
    <3> QED
      BY <3>1, <3>2
  <2>3. \A i, j \in DOMAIN channel' : i < j => i + 1 < j + 1
    BY <2>2
  <2>4. \A i, j \in DOMAIN channel' :
            channel'[i].kind = "Hangup" /\ i < j => channel'[j].kind # "Line"
    BY <1>1, <2>2, <2>3 DEF HangupIsLast
  <2>5. exit' = "Hangup" => exit = "Hangup" \/ channel[1].kind = "Hangup"
    BY <2>1, <2>2
  <2>6. exit' = "Hangup" => \A i \in DOMAIN channel' : channel'[i].kind # "Line"
    BY <1>1, <2>2, <2>5 DEF HangupIsLast
  <2>7. exit' = "Hangup" \/ (\E i \in DOMAIN channel' : channel'[i].kind = "Hangup") =>
            reader \in {"done", "failed"}
    BY <1>1, <2>2, <2>5 DEF HangupIsLast
  <2> QED
    BY <1>1, <2>1, <2>4, <2>6, <2>7 DEF HangupIsLast
<1>11. CASE \/ Startup /\ ~SpawnFollow
            \/ StartupFails \/ TimesOut \/ FireDueTimer
            \/ OwnerChanges \/ OtherNameLost \/ (\E value \in Schemes : PortalChanges(value))
            \/ OtherSetting \/ Signal \/ ClockPasses
            \/ UNCHANGED svars
  <2>1. UNCHANGED <<reader, child, pipe, feeding, exit, channel>>
    BY <1>11 DEF Startup, StartupFails, ReadScheme, WatchVanish, WatchSignals, WatchScheme,
       Watch, TimesOut, FireDueTimer, OwnerChanges, OtherNameLost, PortalChanges, OtherSetting,
       Signal, ClockPasses, svars, fvars, framer, loopvars, childvars
  <2> QED
    BY <1>2, <2>1
<1> QED
  BY <1>3, <1>4, <1>5, <1>7, <1>8, <1>9, <1>10, <1>11
     DEF SNext, Daemon, Reader, Loop, Outside

-----------------------------------------------------------------------------
\* Every line within the cap is framed.

\* The lines of a stream that goes on by one line, counted by their length.
LEMMA OneMoreWithinCap ==
    ASSUME NEW b \in Seq(Bytes), NEW c \in Seq(Bytes), OneMore(b, c), Numbered(b)
    PROVE  /\ Cardinality(WithinCap(b)) \in Nat
           /\ Len(LineEndingAt(c, Len(c))) <= MAX_LINE_BYTES =>
                  Cardinality(WithinCap(c)) = Cardinality(WithinCap(b)) + 1
           /\ ~(Len(LineEndingAt(c, Len(c))) <= MAX_LINE_BYTES) => WithinCap(c) = WithinCap(b)
<1>1. /\ Ends(c) = Ends(b) \cup {Len(c)} /\ Len(c) \notin Ends(b)
      /\ \A end \in Ends(b) : LineEndingAt(c, end) = LineEndingAt(b, end)
  BY OneMoreEnd, OneMoreText
<1>2. IsFiniteSet(WithinCap(b)) /\ Cardinality(WithinCap(b)) \in Nat
  <2>1. WithinCap(b) \subseteq Ends(b)
    BY DEF WithinCap
  <2> QED
    BY <2>1, EndsFinite, FS_Subset, FS_CardinalityType
<1>3. ~(Len(LineEndingAt(c, Len(c))) <= MAX_LINE_BYTES) => WithinCap(c) = WithinCap(b)
  BY <1>1 DEF WithinCap
<1>4. Len(LineEndingAt(c, Len(c))) <= MAX_LINE_BYTES => WithinCap(c) = WithinCap(b) \cup {Len(c)}
  BY <1>1 DEF WithinCap
<1>5. Len(c) \notin WithinCap(b)
  BY <1>1 DEF WithinCap
<1> QED
  BY <1>2, <1>3, <1>4, <1>5, FS_AddElement

\* At a newline the scanned part goes on by a line.
LEMMA ScannedGoesOn ==
    ASSUME FInv, AtNewline
    PROVE  /\ Cardinality(WithinCap(Scanned)) \in Nat
           /\ Border + Cut - 1 - scanned <= MAX_LINE_BYTES =>
                  Cardinality(WithinCap(Scanned')) = Cardinality(WithinCap(Scanned)) + 1
           /\ ~(Border + Cut - 1 - scanned <= MAX_LINE_BYTES) =>
                  WithinCap(Scanned') = WithinCap(Scanned)
<1>1. /\ Scanned \in Seq(Bytes) /\ Scanned' \in Seq(Bytes)
      /\ OneMore(Scanned, Scanned') /\ Numbered(Scanned)
      /\ Len(Scanned) = scanned
      /\ Len(NewLine) = Border + Cut - 1 - scanned
  BY NewlineAdds DEF FInv
<1>2. LineEndingAt(Scanned', Len(Scanned')) = NewLine
  <2>1. LineEndingAt(Scanned', Len(Scanned'))
            = SubSeq(Scanned', Len(Scanned) + 1, Len(Scanned') - 1)
    BY <1>1, OneMoreText
  <2>2. Len(Scanned') = scanned'
    <3>1. scanned' \in 1 .. Len(fed) /\ fed' = fed /\ fed \in Seq(Bytes) /\ Len(fed) \in Nat
      BY NewlineMoves, Lengths DEF AtNewline, FInv, FTypeOK
    <3>2. scanned' \in 0 .. Len(fed) /\ Scanned' = SubSeq(fed, 1, scanned')
      BY <3>1 DEF Scanned
    <3> QED
      BY <3>1, <3>2, ScannedPart
  <2> QED
    BY <1>1, <2>1, <2>2 DEF NewLine
<1> QED
  BY <1>1, <1>2, OneMoreWithinCap

LEMMA AllFramedNext ==
    ASSUME SInv, [SNext]_svars
    PROVE  AllFramed'
<1>1. FInv /\ Typed /\ AllFramed /\ out \in Seq(Seq(Text)) /\ Len(out) \in Nat
  BY LenProperties DEF SInv, FInv, FTypeOK
<1>2. [FNext]_fvars
  BY <1>1, FramerSteps
<1>3. CASE UNCHANGED fvars
  BY <1>1, <1>3 DEF fvars, framer, AllFramed, Scanned
<1>4. CASE \E data \in Chunks : Feed(data)
  BY <1>1, <1>4, FeedKeeps, SMTT(30) DEF Chunks, Feed, AllFramed, FInv
<1>5. CASE EndFeed
  BY <1>1, <1>5, EndFeedKeeps DEF EndFeed, AllFramed
<1>6. ASSUME AtNewline
      PROVE  /\ Border \in Nat /\ scanned \in Nat /\ Cut \in Nat /\ Cut >= 1
             /\ MAX_LINE_BYTES \in Nat
             /\ discarding => Border - scanned > MAX_LINE_BYTES
             /\ ~discarding => Border = scanned
  <2>1. Cut \in 1 .. Len(buf) /\ Len(buf) \in Nat
    BY <1>1, <1>6, NewlineMoves, Lengths
  <2>2. Border \in Nat /\ scanned \in Nat /\ MAX_LINE_BYTES \in Nat
    BY <1>1, Lengths
  <2>3. /\ discarding => Border - scanned > MAX_LINE_BYTES
        /\ ~discarding => Border = scanned
    BY <1>1 DEF FInv
  <2> QED
    BY <2>1, <2>2, <2>3
<1>7. CASE EndRefused
  <2>1. ~(Border + Cut - 1 - scanned <= MAX_LINE_BYTES)
    <3>1. discarding /\ AtNewline
      BY <1>7 DEF EndRefused
    <3> QED
      BY <1>6, <3>1
  <2> QED
    BY <1>1, <1>7, <2>1, ScannedGoesOn DEF EndRefused, AllFramed
<1>8. CASE DropLine
  <2>1. ~(Border + Cut - 1 - scanned <= MAX_LINE_BYTES)
    <3>1. ~discarding /\ AtNewline /\ Cut - 1 > MAX_LINE_BYTES
      BY <1>8 DEF DropLine
    <3> QED
      BY <1>6, <3>1
  <2> QED
    BY <1>1, <1>8, <2>1, ScannedGoesOn DEF DropLine, AllFramed
<1>9. CASE FrameLine
  <2>1. ~discarding /\ AtNewline /\ Cut - 1 <= MAX_LINE_BYTES
    BY <1>9 DEF FrameLine
  <2>2. Border + Cut - 1 - scanned <= MAX_LINE_BYTES
    BY <1>6, <2>1
  <2>3. out' = Append(out, NewLine) /\ NewLine \in Seq(Text)
    BY <1>1, <1>9, <2>1, NewlineAdds DEF FrameLine
  <2>4. Len(out') = Len(out) + 1
    <3>1. NewLine \in Seq(Text)
      BY <2>3
    <3> QED
      BY <1>1, <2>3, AppendProperties
  <2> QED
    BY <1>1, <2>1, <2>2, <2>4, ScannedGoesOn DEF AllFramed
<1> QED
  BY <1>2, <1>3, <1>4, <1>5, <1>7, <1>8, <1>9 DEF FNext, Frame

\* Between reads nothing but an unfinished line is unscanned: the lines of the stream
\* are those of the scanned part.
LEMMA ScannedIsAll ==
    ASSUME FInv, ~feeding
    PROVE  WithinCap(fed) = WithinCap(Scanned)
<1>1. /\ Len(fed) \in Nat /\ Len(buf) \in Nat /\ scanned \in Nat /\ Border \in Nat
      /\ scanned <= Border /\ Len(fed) = Border + Len(buf)
  BY Lengths
<1>2. fed \in Seq(Bytes) /\ buf \in Seq(Bytes) /\ DOMAIN fed = 1 .. Len(fed)
      /\ DOMAIN buf = 1 .. Len(buf)
  BY LenProperties DEF FInv, FTypeOK
<1>3. /\ Scanned \in Seq(Bytes) /\ Len(Scanned) = scanned /\ DOMAIN Scanned = 1 .. scanned
      /\ \A i \in 1 .. scanned : Scanned[i] = fed[i]
  <2>1. scanned \in 0 .. Len(fed)
    BY <1>1
  <2>2. /\ Scanned \in Seq(Bytes) /\ Len(Scanned) = scanned
        /\ \A i \in 1 .. scanned : Scanned[i] = fed[i]
    BY <1>2, <2>1, ScannedPart DEF Scanned
  <2> QED
    BY <2>2, LenProperties
<1>4. \A i \in scanned + 1 .. Len(fed) : fed[i] # Newline
  <2> SUFFICES ASSUME NEW i \in scanned + 1 .. Len(fed)
               PROVE  fed[i] # Newline
    OBVIOUS
  <2>1. CASE i <= Border
    <3>1. i \in scanned + 1 .. Border
      BY <1>1, <2>1
    <3> QED
      BY <3>1 DEF FInv
  <2>2. CASE ~(i <= Border)
    <3>1. i - Border \in 1 .. Len(buf) /\ Border + (i - Border) = i
      BY <1>1, <2>2
    <3>2. buf[i - Border] # Newline
      BY <1>2, <3>1 DEF FInv, BufferBounded, HasNewline
    <3> QED
      BY <3>1, <3>2 DEF FInv
  <2> QED
    BY <2>1, <2>2
<1>5. Ends(fed) = Ends(Scanned)
  <2>1. \A i \in 1 .. Len(fed) : i \in 1 .. scanned \/ i \in scanned + 1 .. Len(fed)
    BY <1>1
  <2>2. \A i \in 1 .. scanned : i \in 1 .. Len(fed)
    BY <1>1
  <2> QED
    BY <1>2, <1>3, <1>4, <2>1, <2>2 DEF Ends
<1>6. ASSUME NEW end \in Ends(Scanned)
      PROVE  LineEndingAt(fed, end) = LineEndingAt(Scanned, end)
  <2>1. LastBefore(fed, end) = LastBefore(Scanned, end)
    BY <1>5 DEF LastBefore
  <2>2. LastBefore(Scanned, end) \in 0 .. end - 1 /\ end \in 1 .. scanned
    BY <1>3 DEF FInv, Numbered, Ends
  <2> DEFINE m == 1 + LastBefore(Scanned, end)
             n == end - 1
  <2>3. m \in Int /\ n \in Int /\ 1 <= m /\ n <= scanned
    BY <1>1, <2>2
  <2>4. \A i \in m .. n : i \in 1 .. scanned /\ i \in 1 .. Len(fed)
    BY <1>1, <2>3
  <2>5. \A i \in m .. n : Scanned[i] \in Bytes /\ fed[i] = Scanned[i]
    BY <1>3, <2>4, LenProperties
  <2>6. /\ SubSeq(fed, m, n) \in Seq(Bytes)
        /\ Len(SubSeq(fed, m, n)) = IF m <= n THEN n - m + 1 ELSE 0
        /\ \A i \in 1 .. n - m + 1 : SubSeq(fed, m, n)[i] = fed[m + i - 1]
    <3> HIDE DEF m, n
    <3> QED
      BY <2>3, <2>5, SubSeqProperties
  <2>7. /\ SubSeq(Scanned, m, n) \in Seq(Bytes)
        /\ Len(SubSeq(Scanned, m, n)) = IF m <= n THEN n - m + 1 ELSE 0
        /\ \A i \in 1 .. n - m + 1 : SubSeq(Scanned, m, n)[i] = Scanned[m + i - 1]
    <3> HIDE DEF m, n
    <3> QED
      BY <2>3, <2>5, SubSeqProperties
  <2>8. \A i \in 1 .. Len(SubSeq(fed, m, n)) : SubSeq(fed, m, n)[i] = SubSeq(Scanned, m, n)[i]
    <3> HIDE DEF m, n
    <3> SUFFICES ASSUME NEW i \in 1 .. Len(SubSeq(fed, m, n))
                 PROVE  SubSeq(fed, m, n)[i] = SubSeq(Scanned, m, n)[i]
      OBVIOUS
    <3>1. m + i - 1 \in m .. n /\ i \in 1 .. n - m + 1
      BY <2>3, <2>6
    <3> QED
      BY <2>5, <2>6, <2>7, <3>1
  <2>9. SubSeq(fed, m, n) = SubSeq(Scanned, m, n)
    <3> HIDE DEF m, n
    <3> QED
      BY <2>6, <2>7, <2>8, SeqEqual
  <2> QED
    BY <2>1, <2>9 DEF LineEndingAt
<1> QED
  BY <1>5, <1>6 DEF WithinCap

-----------------------------------------------------------------------------
\* A due timer waits for one event at most.

LEMMA DueNext ==
    ASSUME SInv, [SNext]_svars
    PROVE  DueIsNext'
<1>1. /\ late \in Nat /\ late <= 1
      /\ loop = "wait" /\ timer = "due" => late = 0
  BY DEF SInv, DueIsNext
<1>2. CASE UNCHANGED <<loop, timer, late>>
  BY <1>1, <1>2 DEF DueIsNext
<1>3. CASE Receive
  <2>1. loop = "wait" /\ loop' = "check" /\ late' = IF timer = "due" THEN late + 1 ELSE 0
    BY <1>3 DEF Receive, Handle
  <2>2. late' = 0 \/ late' = 1
    <3>1. CASE timer = "due"
      BY <1>1, <2>1, <3>1
    <3>2. CASE timer # "due"
      BY <2>1, <3>2
    <3> QED
      BY <3>1, <3>2
  <2> QED
    BY <2>1, <2>2 DEF DueIsNext
<1>4. CASE TimesOut
  BY <1>1, <1>4 DEF TimesOut, DueIsNext
<1>5. CASE FireDueTimer
  <2>1. timer' # "due" /\ late' \in {0, late}
    BY <1>5 DEF FireDueTimer
  <2> QED
    BY <1>1, <2>1 DEF DueIsNext
<1>6. CASE ClockPasses
  BY <1>6 DEF ClockPasses, DueIsNext
<1>7. CASE \/ Startup \/ StartupFails \/ Reader \/ ReadFails \/ VanishListener
           \/ SchemeListener \/ SignalThread \/ LoopReturns
           \/ Outside /\ ~ClockPasses
           \/ UNCHANGED svars
  <2>1. UNCHANGED <<loop, timer, late>>
    BY <1>7 DEF Startup, StartupFails, ReadScheme, WatchVanish, WatchSignals, WatchScheme,
       Watch, SpawnFollow, Reader, Read, FrameStep, SendLine, Eof, ReadFails, HangUp,
       VanishListener,
       SchemeListener, SignalThread, LoopReturns, Outside, PlayerctlWrites, PlayerctlDies,
       OwnerChanges, OtherNameLost, PortalChanges, OtherSetting, Signal, WorkerReports,
       svars, loopvars
  <2> QED
    BY <1>2, <2>1
<1> QED
  BY <1>3, <1>4, <1>5, <1>6, <1>7 DEF SNext, Daemon, Loop

-----------------------------------------------------------------------------
\* A player's loss is handled.

Loss == [name |-> "player", new |-> FALSE]

LEMMA LossNext ==
    ASSUME SInv, [SNext]_svars
    PROVE  LossIsHandled'
<1>1. /\ Typed /\ Staged /\ LinesInOrder /\ LossIsHandled
      /\ channel \in Seq(Events) /\ names \in Seq(OwnerMessages)
      /\ pipe \in Seq(Bytes) /\ buf \in Seq(Bytes)
      /\ sent \in Nat /\ out \in Seq(Seq(Text)) /\ Len(out) \in Nat
  BY LenProperties DEF SInv, Typed, FInv, FTypeOK
<1>2. CASE (Startup /\ ~SpawnFollow) \/ StartupFails \/ LoopReturns
  <2>1. main' # "loop"
    BY <1>2 DEF Startup, StartupFails, LoopReturns, ReadScheme, WatchVanish, WatchSignals,
       WatchScheme, Watch
  <2> QED
    BY <2>1 DEF LossIsHandled
<1>3. CASE SpawnFollow
  <2>1. /\ pipe = <<>> /\ buf = <<>> /\ out = <<>> /\ ~tracked /\ reader = "off"
        /\ \A i \in DOMAIN channel : channel[i].kind # "Line"
        /\ sent = Len(out)
    BY <1>1, <1>3 DEF SpawnFollow, Staged, Starting, LinesInOrder
  <2>2. UNCHANGED <<pipe, buf, out, tracked, channel, sent>>
    BY <1>3 DEF SpawnFollow, fvars, framer
  <2>3. ~tracked' /\ NoLineOnTheWay'
    BY <2>1, <2>2 DEF NoLineOnTheWay, HasNewline
  <2> QED
    BY <2>3 DEF LossIsHandled
<1>4. CASE UNCHANGED <<main, onbus, overtaken, names, channel, tracked, pipe, buf, sent, out>>
  BY <1>1, <1>4 DEF LossIsHandled, LossOnTheWay, NoLineOnTheWay, HasNewline
<1>5. CASE Read
  <2>1. UNCHANGED <<main, onbus, overtaken, names, channel, tracked, sent, out>>
    BY <1>5 DEF Read, Feed, loopvars, busvars
  <2>2. ASSUME NoLineOnTheWay
        PROVE  NoLineOnTheWay'
    <3>1. PICK n \in 1 .. READ_CHUNK : /\ n <= Len(pipe)
                                       /\ buf' = buf \o SubSeq(pipe, 1, n)
                                       /\ pipe' = SubSeq(pipe, n + 1, Len(pipe))
      BY <1>5 DEF Read, Feed
    <3>2. n \in Nat
      BY <3>1, FramingAssumption
    <3>3. /\ SubSeq(pipe, 1, n) \in Seq(Bytes)
          /\ \A i \in DOMAIN SubSeq(pipe, 1, n) : SubSeq(pipe, 1, n)[i] # Newline
          /\ \A i \in DOMAIN pipe' : pipe'[i] # Newline
      BY <1>1, <2>2, <3>1, <3>2, ReadBytes DEF NoLineOnTheWay
    <3>4. \A i \in DOMAIN buf' : buf'[i] # Newline
      <4> DEFINE s == SubSeq(pipe, 1, n)
      <4>1. /\ Len(buf) \in Nat /\ Len(s) \in Nat /\ DOMAIN buf = 1 .. Len(buf)
            /\ DOMAIN s = 1 .. Len(s) /\ s \in Seq(Bytes)
            /\ \A i \in DOMAIN s : s[i] # Newline
            /\ \A i \in DOMAIN buf : buf[i] # Newline
        BY <1>1, <2>2, <3>3, LenProperties DEF NoLineOnTheWay, HasNewline
      <4>2. buf' = buf \o s
        BY <3>1
      <4> HIDE DEF s
      <4>3. /\ Len(buf') = Len(buf) + Len(s) /\ DOMAIN buf' = 1 .. Len(buf')
            /\ \A i \in 1 .. Len(buf) + Len(s) :
                   buf'[i] = IF i <= Len(buf) THEN buf[i] ELSE s[i - Len(buf)]
        BY <1>1, <4>1, <4>2, ConcatProperties, LenProperties
      <4> SUFFICES ASSUME NEW i \in DOMAIN buf'
                   PROVE  buf'[i] # Newline
        OBVIOUS
      <4>4. i \in DOMAIN buf \/ (~(i <= Len(buf)) /\ i - Len(buf) \in DOMAIN s)
        BY <4>1, <4>3
      <4>5. i \in DOMAIN buf => i <= Len(buf)
        BY <4>1
      <4> QED
        BY <4>1, <4>3, <4>4, <4>5
    <3> QED
      BY <2>1, <2>2, <3>3, <3>4 DEF NoLineOnTheWay, HasNewline
  <2> QED
    BY <1>1, <2>1, <2>2 DEF LossIsHandled, LossOnTheWay
\* An event other than a line is sent, and what could be a line moves on.
<1>6. ASSUME NEW e \in Events, Send(e) \/ UNCHANGED channel,
             UNCHANGED <<main, onbus, overtaken, tracked>>,
             UNCHANGED names,
             NoLineOnTheWay =>
                 /\ \A i \in DOMAIN pipe' : pipe'[i] # Newline
                 /\ ~HasNewline'
                 /\ sent' = Len(out')
                 /\ e.kind # "Line" \/ UNCHANGED channel
      PROVE  LossIsHandled'
  <2>1. CASE UNCHANGED channel
    BY <1>1, <1>6, <2>1 DEF LossIsHandled, LossOnTheWay, NoLineOnTheWay
  <2>2. CASE Send(e) /\ ~UNCHANGED channel
    <3>1. /\ DOMAIN channel' = DOMAIN channel \cup {Len(channel) + 1}
          /\ channel'[Len(channel) + 1] = e
          /\ \A i \in DOMAIN channel : channel'[i] = channel[i]
      BY <1>1, <2>2, SendPlaces
    <3>2. LossOnTheWay => LossOnTheWay'
      BY <1>6, <3>1 DEF LossOnTheWay
    <3>3. NoLineOnTheWay => NoLineOnTheWay'
      BY <1>6, <2>2, <3>1 DEF NoLineOnTheWay
    <3> QED
      BY <1>1, <1>6, <3>2, <3>3 DEF LossIsHandled
  <2> QED
    BY <1>6, <2>1, <2>2
<1>7. ASSUME Others \/ Eof \/ ReadFails
      PROVE  \E e \in Events : (Send(e) \/ UNCHANGED channel) /\ e.kind # "Line"
  <2>1. Event("Hangup", None) \in Events /\ Event("Hangup", None).kind = "Hangup"
    BY EventTypes DEF EventKinds, Args
  <2>2. CASE Eof \/ ReadFails
    BY <2>1, <2>2 DEF Eof, ReadFails, HangUp
  <2>3. CASE Others
    BY <1>1, <2>1, <2>3, OtherSends
  <2> QED
    BY <1>7, <2>2, <2>3
<1>8. CASE FrameStep
  <2>1. PICK e \in Events : (Send(e) \/ UNCHANGED channel) /\ e.kind # "Line"
    BY <1>7, <1>8 DEF Others
  <2>2. UNCHANGED <<main, onbus, overtaken, tracked, names, pipe, sent>>
    BY <1>8 DEF FrameStep, loopvars, busvars
  <2>3. ~HasNewline => ~HasNewline' /\ out' = out
    <3>1. ~HasNewline => EndFeed
      BY <1>8 DEF FrameStep, Frame, EndRefused, DropLine, FrameLine, AtNewline
    <3>2. EndFeed => out' = out /\ buf' \in {<<>>, buf}
      BY DEF EndFeed
    <3> QED
      BY <3>1, <3>2 DEF HasNewline
  <2> QED
    BY <1>6, <2>1, <2>2, <2>3 DEF NoLineOnTheWay
<1>9. CASE Eof \/ ReadFails \/ SchemeListener \/ SignalThread \/ WorkerReports
  <2>1. PICK e \in Events : (Send(e) \/ UNCHANGED channel) /\ e.kind # "Line"
    BY <1>7, <1>9 DEF Others
  <2>2. UNCHANGED <<main, onbus, overtaken, tracked, names, pipe, sent, buf, out>>
    BY <1>9 DEF Eof, ReadFails, HangUp, SchemeListener, SignalThread, WorkerReports, loopvars,
       busvars, childvars,
       fvars, framer
  <2>3. HasNewline' = HasNewline
    BY <2>2 DEF HasNewline
  <2> QED
    BY <1>6, <2>1, <2>2, <2>3 DEF NoLineOnTheWay
<1>10. CASE SendLine
  <2>1. UNCHANGED <<main, onbus, overtaken, tracked, names, pipe, buf, out>>
    BY <1>10 DEF SendLine, loopvars, busvars, fvars, framer
  <2>2. HasNewline' = HasNewline
    BY <2>1 DEF HasNewline
  <2>3. CASE sent < Len(out)
    <3>1. out[sent + 1] \in Args
      BY <1>1, <2>3, LenProperties DEF Args
    <3>2. Event("Line", out[sent + 1]) \in Events
      BY <3>1, EventTypes DEF EventKinds
    <3>3. Send(Event("Line", out[sent + 1]))
      BY <1>10, <2>3 DEF SendLine
    <3>4. sent # Len(out)
      BY <1>1, <2>3
    <3>5. ~NoLineOnTheWay
      BY <3>4 DEF NoLineOnTheWay
    <3> QED
      BY <1>6, <2>1, <3>2, <3>3, <3>5
  <2>4. CASE ~(sent < Len(out))
    <3>1. UNCHANGED <<sent, channel>>
      BY <1>10, <2>4 DEF SendLine
    <3> QED
      BY <1>4, <2>1, <3>1
  <2> QED
    BY <2>3, <2>4
<1>11. CASE VanishListener
  <2>1. /\ UNCHANGED <<main, onbus, overtaken, tracked, pipe, sent, buf, out>>
        /\ names # <<>> /\ names' = Tail(names)
        /\ IF Head(names).new THEN UNCHANGED channel
           ELSE Send(Event("Vanish", Head(names).name))
    BY <1>11 DEF VanishListener, loopvars, childvars, fvars, framer
  <2>2. /\ Head(names) = names[1] /\ Head(names) \in OwnerMessages
        /\ \A i \in DOMAIN names : i # 1 =>
               i - 1 \in DOMAIN names' /\ names'[i - 1] = names[i]
    BY <1>1, <2>1, Removed
  <2> DEFINE e == Event("Vanish", Head(names).name)
  <2>3. e \in Events /\ e.kind = "Vanish" /\ e.arg = Head(names).name
    <3>1. Head(names).name \in Args
      BY <2>2 DEF OwnerMessages, Args
    <3> QED
      BY <3>1, EventTypes DEF EventKinds
  <2>4. Send(e) \/ UNCHANGED channel
    BY <2>1
  <2>5. ~Head(names).new => Send(e)
    BY <2>1
  <2> HIDE DEF e
  <2>6. Send(e) => /\ DOMAIN channel' = DOMAIN channel \cup {Len(channel) + 1}
                   /\ channel'[Len(channel) + 1] = e
                   /\ \A i \in DOMAIN channel : channel'[i] = channel[i]
    BY <1>1, <2>3, SendPlaces
  <2>7. ASSUME NEW i \in DOMAIN names, names[i].name = "player", ~names[i].new
        PROVE  LossOnTheWay'
    <3>1. CASE i # 1
      BY <2>2, <2>7, <3>1 DEF LossOnTheWay
    <3>2. CASE i = 1
      BY <2>2, <2>3, <2>5, <2>6, <2>7, <3>2 DEF LossOnTheWay
    <3> QED
      BY <3>1, <3>2
  <2>8. ASSUME NEW i \in DOMAIN channel, channel[i].kind = "Vanish", channel[i].arg = "player"
        PROVE  LossOnTheWay'
    <3>1. i \in DOMAIN channel' /\ channel'[i] = channel[i]
      BY <2>4, <2>6
    <3> QED
      BY <2>8, <3>1 DEF LossOnTheWay
  <2>9. LossOnTheWay => LossOnTheWay'
    BY <2>7, <2>8 DEF LossOnTheWay
  <2>10. NoLineOnTheWay => NoLineOnTheWay'
    <3>1. \A i \in DOMAIN channel' : channel'[i].kind = "Line" =>
              i \in DOMAIN channel /\ channel'[i] = channel[i]
      BY <2>3, <2>4, <2>6
    <3> QED
      BY <2>1, <3>1 DEF NoLineOnTheWay, HasNewline
  <2> QED
    BY <1>1, <2>1, <2>9, <2>10 DEF LossIsHandled
<1>12. CASE Receive
  <2>1. /\ UNCHANGED <<main, onbus, names, pipe, sent, buf, out>>
        /\ channel # <<>> /\ channel' = Tail(channel)
        /\ Handle(Head(channel))
    BY <1>12 DEF Receive, childvars, busvars, fvars, framer
  <2>2. /\ Head(channel) = channel[1] /\ 1 \in DOMAIN channel
        /\ \A i \in DOMAIN channel' : i + 1 \in DOMAIN channel /\ channel'[i] = channel[i + 1]
        /\ \A i \in DOMAIN channel : i # 1 =>
               i - 1 \in DOMAIN channel' /\ channel'[i - 1] = channel[i]
    BY <1>1, <2>1, Removed
  <2>3. NoLineOnTheWay => NoLineOnTheWay' /\ Head(channel).kind # "Line"
    BY <2>1, <2>2 DEF NoLineOnTheWay, HasNewline
  <2>4. CASE Head(channel).kind = "Vanish" /\ Head(channel).arg = "player"
    <3>1. ~tracked' /\ overtaken' = LinesOnTheWay
      BY <2>1, <2>4 DEF Handle
    <3>2. ~LinesOnTheWay => NoLineOnTheWay
      BY <1>1 DEF LinesOnTheWay, NoLineOnTheWay, HasNewline, LinesInOrder
    <3> QED
      BY <2>3, <3>1, <3>2 DEF LossIsHandled
  <2>5. CASE ~(Head(channel).kind = "Vanish" /\ Head(channel).arg = "player")
    <3>1. overtaken' = overtaken
      BY <2>1, <2>5 DEF Handle
    <3>2. Head(channel).kind # "Line" => tracked' = tracked
      BY <2>1, <2>5 DEF Handle
    <3>3. LossOnTheWay => LossOnTheWay'
      BY <2>1, <2>2, <2>5 DEF LossOnTheWay
    <3> QED
      BY <1>1, <2>1, <2>3, <3>1, <3>2, <3>3 DEF LossIsHandled
  <2> QED
    BY <2>4, <2>5
<1>13. ASSUME NEW line \in Seq(Text), PlayerctlWrites(line)
       PROVE  LossIsHandled'
  <2>1. onbus'
    BY <1>13 DEF PlayerctlWrites, busvars
  <2> QED
    BY <2>1 DEF LossIsHandled
<1>14. ASSUME NEW partial \in Seq(Text), PlayerctlDies(partial)
       PROVE  LossIsHandled'
  <2>1. /\ UNCHANGED <<main, onbus, overtaken, names, channel, tracked, buf, sent, out>>
        /\ pipe' = pipe \o partial
    BY <1>14 DEF PlayerctlDies, loopvars, busvars, fvars, framer
  <2>2. ASSUME NoLineOnTheWay
        PROVE  \A i \in DOMAIN pipe' : pipe'[i] # Newline
    <3>1. /\ Len(pipe) \in Nat /\ Len(partial) \in Nat /\ DOMAIN pipe = 1 .. Len(pipe)
          /\ DOMAIN partial = 1 .. Len(partial) /\ partial \in Seq(Bytes)
          /\ \A i \in DOMAIN partial : partial[i] # Newline
          /\ \A i \in DOMAIN pipe : pipe[i] # Newline
      <4>1. partial \in Seq(Bytes)
        BY SeqMonotonic DEF Bytes
      <4>2. \A i \in DOMAIN partial : partial[i] \in Text
        BY LenProperties
      <4> QED
        BY <1>1, <2>2, <4>1, <4>2, FramingAssumption, LenProperties DEF NoLineOnTheWay
    <3>2. /\ Len(pipe') = Len(pipe) + Len(partial) /\ DOMAIN pipe' = 1 .. Len(pipe')
          /\ \A i \in 1 .. Len(pipe) + Len(partial) :
                 pipe'[i] = IF i <= Len(pipe) THEN pipe[i] ELSE partial[i - Len(pipe)]
      BY <1>1, <2>1, <3>1, ConcatProperties, LenProperties
    <3> SUFFICES ASSUME NEW i \in DOMAIN pipe'
                 PROVE  pipe'[i] # Newline
      OBVIOUS
    <3>3. i \in DOMAIN pipe \/ (~(i <= Len(pipe)) /\ i - Len(pipe) \in DOMAIN partial)
      BY <3>1, <3>2
    <3>4. i \in DOMAIN pipe => i <= Len(pipe)
      BY <3>1
    <3> QED
      BY <3>1, <3>2, <3>3, <3>4
  <2>3. NoLineOnTheWay => NoLineOnTheWay'
    BY <2>1, <2>2 DEF NoLineOnTheWay, HasNewline
  <2> QED
    BY <1>1, <2>1, <2>3 DEF LossIsHandled, LossOnTheWay
<1>15. CASE OwnerChanges \/ OtherNameLost
  <2>1. UNCHANGED <<main, overtaken, channel, tracked, pipe, buf, sent, out, watching>>
    BY <1>15 DEF OwnerChanges, OtherNameLost, loopvars, childvars, fvars, framer
  <2>2. CASE OwnerChanges
    <3> SUFFICES ASSUME main' = "loop", ~onbus'
                 PROVE  LossOnTheWay'
      BY DEF LossIsHandled
    <3>1. onbus = TRUE /\ "vanish" \in watching
      BY <1>1, <2>1, <2>2 DEF OwnerChanges, Staged, Typed
    <3>2. names' = Append(names, Loss) /\ Loss \in OwnerMessages
      BY <2>2, <3>1 DEF OwnerChanges, Deliver, Loss, OwnerMessages
    <3>3. Len(names) + 1 \in DOMAIN names' /\ names'[Len(names) + 1] = Loss
      BY <1>1, <3>2, Appended
    <3> QED
      BY <3>3 DEF LossOnTheWay, Loss
  <2>3. CASE OtherNameLost
    <3>1. \A i \in DOMAIN names : i \in DOMAIN names' /\ names'[i] = names[i]
      <4>1. [name |-> "other", new |-> FALSE] \in OwnerMessages
        BY DEF OwnerMessages
      <4> QED
        BY <1>1, <2>3, <4>1, Appended DEF OtherNameLost, Deliver
    <3>2. onbus' = onbus
      BY <2>3 DEF OtherNameLost
    <3> QED
      BY <1>1, <2>1, <3>1, <3>2 DEF LossIsHandled, LossOnTheWay, NoLineOnTheWay, HasNewline
  <2> QED
    BY <1>15, <2>2, <2>3
<1>16. CASE \/ TimesOut \/ FireDueTimer
            \/ (\E value \in Schemes : PortalChanges(value)) \/ OtherSetting
            \/ Signal \/ ClockPasses \/ UNCHANGED svars
  <2>1. UNCHANGED <<main, onbus, overtaken, names, channel, tracked, pipe, buf, sent, out>>
    BY <1>16 DEF TimesOut, FireDueTimer, PortalChanges, OtherSetting, Signal, ClockPasses,
       svars, fvars, framer, loopvars, childvars, busvars
  <2> QED
    BY <1>4, <2>1
<1> QED
  BY <1>2, <1>3, <1>5, <1>8, <1>9, <1>10, <1>11, <1>12, <1>13, <1>14, <1>15, <1>16
     DEF SNext, Daemon, Reader, Loop, Outside

-----------------------------------------------------------------------------
\* The last word about the color-scheme is the portal's.

\* The last of some places of a queue, when the queue loses its head.
Shifted(q, A) == {i \in DOMAIN Tail(q) : i + 1 \in A}

LEMMA LastShifts ==
    ASSUME NEW S, NEW q \in Seq(S), q # <<>>, NEW A, A \subseteq DOMAIN q
    PROVE  /\ \A i \in Shifted(q, A) : i + 1 \in A /\ Tail(q)[i] = q[i + 1]
           /\ \A i \in Shifted(q, A) : (\A j \in Shifted(q, A) : j <= i) => \A j \in A : j <= i + 1
           /\ Shifted(q, A) = {} => \A i \in A : i = 1
<1>1. /\ Len(q) \in Nat /\ DOMAIN q = 1 .. Len(q) /\ DOMAIN Tail(q) = 1 .. Len(q) - 1
      /\ \A i \in DOMAIN Tail(q) : Tail(q)[i] = q[i + 1]
      /\ \A i \in DOMAIN q : i # 1 => i - 1 \in DOMAIN Tail(q)
  BY Removed
<1>2. \A j \in A : j \in Nat /\ j >= 1 /\ (j # 1 => j - 1 \in Shifted(q, A))
  <2> SUFFICES ASSUME NEW j \in A
               PROVE  j \in Nat /\ j >= 1 /\ (j # 1 => j - 1 \in Shifted(q, A))
    OBVIOUS
  <2>1. j \in 1 .. Len(q) /\ (j - 1) + 1 = j
    BY <1>1
  <2> QED
    BY <1>1, <2>1 DEF Shifted
<1>3. ASSUME NEW i \in Shifted(q, A), \A j \in Shifted(q, A) : j <= i, NEW j \in A
      PROVE  j <= i + 1
  <2>1. i \in Nat /\ j \in Nat /\ (j # 1 => j - 1 <= i)
    BY <1>1, <1>2, <1>3 DEF Shifted
  <2> QED
    BY <2>1
<1> QED
  BY <1>1, <1>2, <1>3 DEF Shifted

\* The channel, when no color-scheme is sent or received.
LEMMA SchemesStay ==
    ASSUME Typed, NEW e \in Events, Send(e) \/ UNCHANGED channel, e.kind # "Scheme"
    PROVE  /\ SchemesSent' = SchemesSent
           /\ \A i \in SchemesSent : channel'[i] = channel[i]
<1>1. CASE UNCHANGED channel
  BY <1>1 DEF SchemesSent
<1>2. CASE Send(e)
  <2>1. /\ DOMAIN channel' = DOMAIN channel \cup {Len(channel) + 1}
        /\ channel'[Len(channel) + 1] = e
        /\ \A i \in DOMAIN channel : channel'[i] = channel[i]
    BY <1>2, SendPlaces
  <2> QED
    BY <2>1 DEF SchemesSent
<1> QED
  BY <1>1, <1>2

LEMMA LastWordNext ==
    ASSUME SInv, [SNext]_svars
    PROVE  LastWordIsThePortals'
<1>1. /\ Typed /\ Staged /\ LastWordIsThePortals
      /\ channel \in Seq(Events) /\ settings \in Seq(SettingMessages)
      /\ Len(settings) \in Nat /\ DOMAIN settings = 1 .. Len(settings)
  BY LenProperties DEF SInv, Typed
\* Steps that change neither the mode nor what the bus said, and no color-scheme in
\* the channel.
<1>2. ASSUME UNCHANGED <<mode, settings, portal, missed>>,
             "scheme" \in watching' => "scheme" \in watching \/ main' = "run",
             watching \subseteq watching',
             main' \notin {"start", "failed"} => main \notin {"start", "failed"},
             SchemesSent' = SchemesSent, \A i \in SchemesSent : channel'[i] = channel[i]
      PROVE  LastWordIsThePortals'
  <2>1. Announced' = Announced
    BY <1>2 DEF Announced
  <2>2. Followed' => Followed
    BY <1>2 DEF Followed
  <2>3. "scheme" \notin watching' => "scheme" \notin watching
    BY <1>2
  <2> QED
    BY <1>1, <1>2, <2>1, <2>2, <2>3 DEF LastWordIsThePortals
<1>3. CASE ReadScheme
  <2>1. /\ main = "start" /\ main' = "vanish"
        /\ FORCED_MODE # None => mode' = FORCED_MODE
        /\ FORCED_MODE = None /\ ~missed' =>
               mode' = IF portal = None \/ SchemeValue(portal) = None THEN "dark"
                       ELSE ModeOf(SchemeValue(portal))
        /\ UNCHANGED <<watching, settings, portal, channel>>
    BY <1>3 DEF ReadScheme
  <2>2. "scheme" \notin watching /\ settings = <<>> /\ SchemesSent = {}
    BY <1>1, <2>1 DEF Staged, LastWordIsThePortals
  <2>3. Announced' = {} /\ SchemesSent' = {}
    BY <2>1, <2>2 DEF Announced, SchemesSent
  <2>4. Followed' /\ IsInt(portal) => mode' = ModeOf(SchemeValue(portal))
    <3> SUFFICES ASSUME Followed', IsInt(portal)
                 PROVE  mode' = ModeOf(SchemeValue(portal))
      OBVIOUS
    <3>1. FORCED_MODE = None /\ ~missed' /\ portal # None /\ portal \in Schemes
      BY <1>1, <2>1 DEF Followed, Typed
    <3>2. SchemeValue(portal) # None
      BY <3>1, SchemeTypes
    <3> QED
      BY <2>1, <3>1, <3>2
  <2>5. FORCED_MODE # None => mode' = FORCED_MODE
    BY <2>1
  <2> QED
    BY <2>1, <2>2, <2>3, <2>4, <2>5 DEF LastWordIsThePortals
<1>4. CASE WatchVanish \/ WatchSignals \/ WatchScheme \/ SpawnFollow \/ StartupFails
  <2>1. /\ UNCHANGED <<mode, settings, portal, missed, channel>>
        /\ watching \subseteq watching'
        /\ "scheme" \in watching' => "scheme" \in watching \/ main' = "run"
        /\ main' \notin {"start", "failed"} => main \notin {"start", "failed"}
    BY <1>4 DEF WatchVanish, WatchSignals, WatchScheme, Watch, SpawnFollow, StartupFails, busvars
  <2>2. SchemesSent' = SchemesSent /\ \A i \in SchemesSent : channel'[i] = channel[i]
    BY <2>1 DEF SchemesSent
  <2> QED
    BY <1>2, <2>1, <2>2
<1>5. CASE \/ Read \/ TimesOut \/ FireDueTimer
           \/ (\E line \in Seq(Text) : PlayerctlWrites(line) \/ PlayerctlDies(line))
           \/ OwnerChanges \/ OtherNameLost \/ Signal \/ ClockPasses \/ UNCHANGED svars
  <2>1. UNCHANGED <<main, mode, watching, settings, portal, missed, channel>>
    BY <1>5 DEF Read, TimesOut, FireDueTimer, PlayerctlWrites, PlayerctlDies, OwnerChanges,
       OtherNameLost, Signal, ClockPasses, svars, loopvars, busvars
  <2>2. SchemesSent' = SchemesSent /\ \A i \in SchemesSent : channel'[i] = channel[i]
    BY <2>1 DEF SchemesSent
  <2> QED
    BY <1>2, <2>1, <2>2
<1>6. CASE FrameStep \/ SendLine \/ Eof \/ ReadFails \/ VanishListener \/ SignalThread \/ WorkerReports
  <2>1. UNCHANGED <<main, mode, watching, settings, portal, missed>>
    BY <1>6 DEF FrameStep, SendLine, Eof, ReadFails, HangUp, VanishListener, SignalThread,
       WorkerReports,
       loopvars, busvars
  <2>2. \E e \in Events : (Send(e) \/ UNCHANGED channel) /\ e.kind # "Scheme"
    <3>1. \A kind \in {"Oversize", "Hangup", "Shutdown", "Worker"} :
              Event(kind, None) \in Events /\ Event(kind, None).kind = kind
      BY EventTypes DEF EventKinds, Args
    <3>2. CASE FrameStep \/ Eof \/ ReadFails \/ SignalThread \/ WorkerReports
      <4>1. UNCHANGED channel \/ \E kind \in {"Oversize", "Hangup", "Shutdown", "Worker"} :
                                      Send(Event(kind, None))
        BY <3>2 DEF FrameStep, Eof, ReadFails, HangUp, SignalThread, WorkerReports
      <4> QED
        BY <3>1, <4>1
    <3>3. CASE SendLine
      <4>1. CASE sent < Len(out)
        <5>1. out[sent + 1] \in Args
          <6>1. sent \in Nat /\ out \in Seq(Seq(Text))
            BY DEF SInv, Typed, FInv, FTypeOK
          <6> QED
            BY <4>1, <6>1, LenProperties DEF Args
        <5>2. Event("Line", out[sent + 1]) \in Events
              /\ Event("Line", out[sent + 1]).kind = "Line"
          BY <5>1, EventTypes DEF EventKinds
        <5>3. Send(Event("Line", out[sent + 1]))
          BY <3>3, <4>1 DEF SendLine
        <5> QED
          BY <5>2, <5>3
      <4>2. CASE ~(sent < Len(out))
        <5>1. UNCHANGED channel
          BY <3>3, <4>2 DEF SendLine
        <5> QED
          BY <3>1, <5>1
      <4> QED
        BY <4>1, <4>2
    <3>4. CASE VanishListener
      <4>1. Head(names) \in OwnerMessages
        BY <1>1, <3>4, Removed DEF VanishListener, Typed
      <4>2. Event("Vanish", Head(names).name) \in Events
            /\ Event("Vanish", Head(names).name).kind = "Vanish"
        BY <4>1, EventTypes DEF OwnerMessages, EventKinds, Args
      <4> QED
        BY <3>4, <4>2 DEF VanishListener
    <3> QED
      BY <1>6, <3>2, <3>3, <3>4
  <2>3. SchemesSent' = SchemesSent /\ \A i \in SchemesSent : channel'[i] = channel[i]
    BY <1>1, <2>2, SchemesStay
  <2> QED
    BY <1>2, <2>1, <2>3
<1>7. ASSUME NEW value \in Schemes, PortalChanges(value)
      PROVE  LastWordIsThePortals'
  <2>1. /\ UNCHANGED <<main, mode, watching, channel>>
        /\ portal' = value
        /\ settings' = Deliver("scheme", settings, [key |-> "color-scheme", value |-> value])
        /\ missed' = (main # "start" /\ "scheme" \notin watching)
    BY <1>7 DEF PortalChanges, loopvars
  <2>2. SchemesSent' = SchemesSent
    BY <2>1 DEF SchemesSent
  <2>3. CASE "scheme" \notin watching
    <3>1. settings' = settings /\ ~Followed'
      BY <2>1, <2>3 DEF Deliver, Followed
    <3> QED
      BY <1>1, <2>1, <2>2, <3>1 DEF LastWordIsThePortals
  <2>4. CASE "scheme" \in watching
    <3> DEFINE m == [key |-> "color-scheme", value |-> value]
    <3>1. m \in SettingMessages /\ m.key = "color-scheme" /\ m.value = value
      BY DEF SettingMessages
    <3>2. settings' = Append(settings, m)
      BY <2>1, <2>4 DEF Deliver
    <3> HIDE DEF m
    <3>3. /\ DOMAIN settings' = DOMAIN settings \cup {Len(settings) + 1}
          /\ settings'[Len(settings) + 1] = m
          /\ \A i \in DOMAIN settings : i < Len(settings) + 1
      BY <1>1, <3>1, <3>2, Appended
    <3>4. Len(settings) + 1 \in Announced'
      BY <3>1, <3>3 DEF Announced
    <3>5. ASSUME NEW i \in Announced', \A j \in Announced' : j <= i
          PROVE  settings'[i].value = portal'
      <4>1. i \in DOMAIN settings' /\ Len(settings) + 1 <= i
        BY <3>4, <3>5 DEF Announced
      <4>2. i = Len(settings) + 1
        BY <1>1, <3>3, <4>1
      <4> QED
        BY <2>1, <3>1, <3>3, <4>2
    <3> QED
      BY <1>1, <2>1, <2>4, <3>4, <3>5 DEF LastWordIsThePortals
  <2> QED
    BY <2>3, <2>4
<1>8. CASE OtherSetting
  <2>1. /\ UNCHANGED <<main, mode, watching, channel, portal, missed>>
        /\ settings' = Deliver("scheme", settings, [key |-> "accent-color", value |-> None])
    BY <1>8 DEF OtherSetting, loopvars
  <2> DEFINE m == [key |-> "accent-color", value |-> None]
  <2>2. m \in SettingMessages /\ m.key # "color-scheme"
    BY DEF SettingMessages
  <2>3. settings' = settings \/ ("scheme" \in watching /\ settings' = Append(settings, m))
    BY <2>1 DEF Deliver
  <2> HIDE DEF m
  <2>4. CASE settings' = settings
    <3>1. SchemesSent' = SchemesSent
      BY <2>1 DEF SchemesSent
    <3> QED
      BY <1>1, <1>2, <2>1, <2>4, <3>1
  <2>5. CASE "scheme" \in watching /\ settings' = Append(settings, m)
    <3>1. /\ DOMAIN settings' = DOMAIN settings \cup {Len(settings) + 1}
          /\ settings'[Len(settings) + 1] = m
          /\ \A i \in DOMAIN settings : settings'[i] = settings[i]
      BY <1>1, <2>2, <2>5, Appended
    <3>2. Announced' = Announced /\ \A i \in Announced : settings'[i] = settings[i]
      BY <2>2, <3>1 DEF Announced
    <3>3. SchemesSent' = SchemesSent /\ Followed' = Followed
      BY <2>1 DEF SchemesSent, Followed
    <3> QED
      BY <1>1, <2>1, <2>5, <3>2, <3>3 DEF LastWordIsThePortals
  <2> QED
    BY <2>3, <2>4, <2>5
<1>9. CASE SchemeListener
  <2>1. /\ UNCHANGED <<main, mode, watching, portal, missed>>
        /\ settings # <<>> /\ settings' = Tail(settings)
        /\ IF SchemeEvent(Head(settings)) = None THEN UNCHANGED channel
           ELSE Send(SchemeEvent(Head(settings)))
    BY <1>9 DEF SchemeListener, loopvars
  <2>2. "scheme" \in watching /\ "scheme" \in watching'
    BY <1>1, <2>1 DEF LastWordIsThePortals
  <2>3. /\ Head(settings) = settings[1] /\ 1 \in DOMAIN settings
        /\ Head(settings) \in SettingMessages
        /\ Head(settings).key = "color-scheme" => Head(settings).value \in Schemes
        /\ \A i \in DOMAIN settings' : i + 1 \in DOMAIN settings
                                       /\ settings'[i] = settings[i + 1]
    BY <1>1, <2>1, Removed DEF Typed
  <2>4. Announced' = Shifted(settings, Announced)
    BY <2>1, <2>3 DEF Shifted, Announced
  <2>5. Announced \subseteq DOMAIN settings
    BY DEF Announced
  <2>6. /\ \A i \in Announced' : i + 1 \in Announced /\ settings'[i] = settings[i + 1]
        /\ \A i \in Announced' :
               (\A j \in Announced' : j <= i) => \A j \in Announced : j <= i + 1
        /\ Announced' = {} => \A i \in Announced : i = 1
    BY <1>1, <2>1, <2>4, <2>5, LastShifts
  <2>7. FORCED_MODE # None /\ main' \notin {"start", "failed"} => mode' = FORCED_MODE
    BY <1>1, <2>1 DEF LastWordIsThePortals
  <2>8. ASSUME Followed', NEW i \in Announced', \A j \in Announced' : j <= i
        PROVE  settings'[i].value = portal'
    <3>1. Followed
      BY <2>1, <2>8 DEF Followed
    <3>2. settings[i + 1].value = portal
      BY <1>1, <2>6, <2>8, <3>1 DEF LastWordIsThePortals
    <3> QED
      BY <2>1, <2>6, <3>2
  <2>9. ASSUME Followed', Announced' = {}, IsInt(portal)
        PROVE  /\ \A i \in SchemesSent' : (\A j \in SchemesSent' : j <= i) =>
                      channel'[i].arg = SchemeValue(portal)
               /\ SchemesSent' = {} => mode' = ModeOf(SchemeValue(portal))
    <3>1. Followed
      BY <2>1, <2>9 DEF Followed
    <3>2. CASE Head(settings).key # "color-scheme"
      <4>1. SchemeEvent(Head(settings)) = None
        BY <2>3, <3>2, SchemeEventTypes
      <4>2. UNCHANGED channel
        BY <2>1, <4>1
      <4>3. Announced = {}
        BY <2>3, <2>6, <2>9, <3>2 DEF Announced
      <4>4. SchemesSent' = SchemesSent
        BY <4>2 DEF SchemesSent
      <4> QED
        BY <1>1, <2>1, <2>9, <3>1, <4>2, <4>3, <4>4 DEF LastWordIsThePortals
    <3>3. CASE Head(settings).key = "color-scheme"
      <4> DEFINE e == Event("Scheme", SchemeValue(portal))
      <4>1. 1 \in Announced /\ \A j \in Announced : j <= 1
        BY <2>3, <2>6, <2>9, <3>3 DEF Announced
      <4>2. Head(settings).value = portal /\ portal \in Schemes
        BY <1>1, <2>3, <3>1, <3>3, <4>1 DEF LastWordIsThePortals
      <4>3. SchemeEvent(Head(settings)) = e /\ SchemeEvent(Head(settings)) # None
            /\ SchemeEvent(Head(settings)) \in Events
        BY <2>3, <2>9, <3>3, <4>2, SchemeEventTypes
      <4>4. SchemeValue(portal) \in Args
        BY <2>9, <4>2, SchemeTypes DEF Args
      <4>5. e \in Events /\ e.kind = "Scheme" /\ e.arg = SchemeValue(portal)
        BY <4>4, EventTypes DEF EventKinds
      <4>6. Send(e)
        BY <2>1, <4>3
      <4> HIDE DEF e
      <4>7. /\ DOMAIN channel = 1 .. Len(channel) /\ Len(channel) \in Nat
            /\ DOMAIN channel' = DOMAIN channel \cup {Len(channel) + 1}
            /\ channel'[Len(channel) + 1] = e
        BY <1>1, <4>5, <4>6, SendPlaces
      <4>8. Len(channel) + 1 \in SchemesSent'
        BY <4>5, <4>7 DEF SchemesSent
      <4>9. ASSUME NEW i \in SchemesSent', \A j \in SchemesSent' : j <= i
            PROVE  channel'[i].arg = SchemeValue(portal)
        <5>1. i \in DOMAIN channel' /\ Len(channel) + 1 <= i
          BY <4>8, <4>9 DEF SchemesSent
        <5>2. i = Len(channel) + 1
          BY <4>7, <5>1
        <5> QED
          BY <4>5, <4>7, <5>2
      <4> QED
        BY <4>8, <4>9
    <3> QED
      BY <3>2, <3>3
  <2> QED
    BY <2>1, <2>2, <2>7, <2>8, <2>9 DEF LastWordIsThePortals
<1>10. CASE Receive \/ LoopReturns
  <2>1. /\ UNCHANGED <<watching, portal, missed, settings>>
        /\ main \notin {"start", "failed"}
        /\ channel # <<>> /\ channel' = Tail(channel)
        /\ \/ Head(channel).kind = "Scheme" /\ mode' = ModeOf(Head(channel).arg)
           \/ Head(channel).kind # "Scheme" /\ mode' = mode
    <3>1. CASE Receive
      BY <3>1 DEF Receive, Handle, busvars, Running
    <3>2. CASE LoopReturns
      BY <3>2 DEF LoopReturns, busvars, Running
    <3> QED
      BY <1>10, <3>1, <3>2
  <2>2. /\ Head(channel) = channel[1] /\ 1 \in DOMAIN channel
        /\ \A i \in DOMAIN channel' : i + 1 \in DOMAIN channel
                                      /\ channel'[i] = channel[i + 1]
    BY <1>1, <2>1, Removed
  <2>3. SchemesSent' = Shifted(channel, SchemesSent)
    BY <2>1, <2>2 DEF Shifted, SchemesSent
  <2>4. SchemesSent \subseteq DOMAIN channel
    BY DEF SchemesSent
  <2>5. /\ \A i \in SchemesSent' : i + 1 \in SchemesSent /\ channel'[i] = channel[i + 1]
        /\ \A i \in SchemesSent' :
               (\A j \in SchemesSent' : j <= i) => \A j \in SchemesSent : j <= i + 1
        /\ SchemesSent' = {} => \A i \in SchemesSent : i = 1
    BY <1>1, <2>1, <2>3, <2>4, LastShifts
  <2>6. Announced' = Announced /\ (Followed' => Followed)
    BY <2>1 DEF Announced, Followed
  <2>7. "scheme" \notin watching => SchemesSent' = {} /\ mode' = mode
    <3> SUFFICES ASSUME "scheme" \notin watching
                 PROVE  SchemesSent' = {} /\ mode' = mode
      OBVIOUS
    <3>1. SchemesSent = {}
      BY <1>1 DEF LastWordIsThePortals
    <3>2. Head(channel).kind # "Scheme"
      BY <2>2, <3>1 DEF SchemesSent
    <3> QED
      BY <2>1, <2>5, <3>1, <3>2
  <2>8. FORCED_MODE # None => mode' = FORCED_MODE
    BY <1>1, <2>1, <2>7 DEF LastWordIsThePortals, Staged
  <2>9. ASSUME Followed', Announced = {}, IsInt(portal)
        PROVE  /\ \A i \in SchemesSent' : (\A j \in SchemesSent' : j <= i) =>
                      channel'[i].arg = SchemeValue(portal)
               /\ SchemesSent' = {} => mode' = ModeOf(SchemeValue(portal))
    <3>1. /\ \A i \in SchemesSent : (\A j \in SchemesSent : j <= i) =>
                 channel[i].arg = SchemeValue(portal)
          /\ SchemesSent = {} => mode = ModeOf(SchemeValue(portal))
      BY <1>1, <2>6, <2>9 DEF LastWordIsThePortals
    <3>2. \A i \in SchemesSent' : (\A j \in SchemesSent' : j <= i) =>
              channel'[i].arg = SchemeValue(portal)
      BY <2>5, <3>1
    <3>3. ASSUME SchemesSent' = {}
          PROVE  mode' = ModeOf(SchemeValue(portal))
      <4>1. CASE Head(channel).kind = "Scheme"
        <5>1. 1 \in SchemesSent /\ \A j \in SchemesSent : j <= 1
          BY <2>2, <2>5, <3>3, <4>1 DEF SchemesSent
        <5>2. Head(channel).arg = SchemeValue(portal)
          BY <2>2, <3>1, <5>1
        <5> QED
          BY <2>1, <4>1, <5>2
      <4>2. CASE Head(channel).kind # "Scheme"
        <5>1. SchemesSent = {}
          BY <2>2, <2>5, <3>3, <4>2 DEF SchemesSent
        <5> QED
          BY <2>1, <3>1, <4>2, <5>1
      <4> QED
        BY <4>1, <4>2
    <3> QED
      BY <3>2, <3>3
  <2>10. Followed' => \A i \in Announced : (\A j \in Announced : j <= i) =>
                          settings[i].value = portal
    BY <1>1, <2>6 DEF LastWordIsThePortals
  <2>11. "scheme" \notin watching' => settings' = <<>> /\ SchemesSent' = {}
    BY <1>1, <2>1, <2>7 DEF LastWordIsThePortals
  <2> QED
    BY <2>1, <2>6, <2>8, <2>9, <2>10, <2>11 DEF LastWordIsThePortals
<1> QED
  BY <1>3, <1>4, <1>5, <1>6, <1>7, <1>8, <1>9, <1>10
     DEF SNext, Daemon, Startup, Reader, Loop, Outside

-----------------------------------------------------------------------------
\* The invariant holds.

LEMMA SInvInit == SInit => SInv
<1> SUFFICES ASSUME SInit
             PROVE  SInv
  OBVIOUS
<1>1. FInv
  BY FInvInit DEF SInit
<1>2. /\ buf = <<>> /\ feeding = FALSE /\ out = <<>> /\ fed = <<>> /\ scanned = 0
  BY DEF SInit, FInit
<1>3. /\ <<>> \in Seq(Events) /\ <<>> \in Seq(OwnerMessages)
      /\ <<>> \in Seq(SettingMessages) /\ <<>> \in Seq(Bytes)
      /\ Len(<<>>) = 0 /\ DOMAIN <<>> = {}
  BY EmptySeq
<1>4. Typed
  <2>1. mode \in Modes /\ EVENT_QUEUE \in Nat
    BY SourcesAssumption DEF SInit, Modes
  <2>2. Len(channel) <= EVENT_QUEUE
    BY <1>3, <2>1 DEF SInit
  <2> QED
    BY <1>3, <2>1, <2>2 DEF SInit, Typed
<1>5. Staged
  BY <1>2 DEF SInit, Staged, Starting
<1>6. Lines(channel) = {} /\ Cardinality(Lines(channel)) = 0
  BY <1>3, FS_EmptySet DEF SInit, Lines
<1>7. LinesInOrder
  BY <1>2, <1>3, <1>6 DEF SInit, LinesInOrder
<1>8. HangupIsLast
  BY SourcesAssumption DEF SInit, HangupIsLast
<1>9. AllFramed
  <2>1. Scanned = <<>>
    BY <1>2, SubSeqEmpty DEF Scanned
  <2>2. WithinCap(Scanned) = {}
    BY <1>3, <2>1 DEF WithinCap, Ends
  <2> QED
    BY <1>2, <1>3, <2>2, FS_EmptySet DEF AllFramed
<1>10. DueIsNext
  BY DEF SInit, DueIsNext
<1>11. LossIsHandled
  BY DEF SInit, LossIsHandled
<1>12. LastWordIsThePortals
  BY DEF SInit, LastWordIsThePortals, Followed, SchemesSent, Announced
<1> QED
  BY <1>1, <1>4, <1>5, <1>7, <1>8, <1>9, <1>10, <1>11, <1>12 DEF SInv

LEMMA SInvNext ==
    ASSUME SInv, [SNext]_svars
    PROVE  SInv'
<1>1. FInv'
  BY FramerSteps, FInvNext DEF SInv
<1> QED
  BY <1>1, TypedNext, StagedNext, LinesNext, HangupNext, AllFramedNext, DueNext, LossNext,
     LastWordNext DEF SInv

\* The inductive invariant: what is between playerctl, the bus and the coordinator.
THEOREM SourcesInvariant == SSpec => []SInv
<1>1. SInv /\ [SNext]_svars => SInv'
  BY SInvNext
<1> QED
  BY <1>1, SInvInit, PTL DEF SSpec

\* The types, the channel's bound and the reader's buffer hold for any capacity, cap
\* and read size.
THEOREM SourcesTypesHold == SSpec => []STypeOK
<1>1. SInv => STypeOK
  <2> SUFFICES ASSUME SInv
               PROVE  STypeOK
    OBVIOUS
  <2>1. FTypeOK /\ BufferBounded /\ Typed
    BY DEF SInv, FInv
  <2>2. \A i \in DOMAIN channel : channel[i].kind \in EventKinds
    <3>1. \A i \in DOMAIN channel : channel[i] \in Events
      BY <2>1, LenProperties DEF Typed
    <3> QED
      BY <3>1 DEF Events
  <2>3. sent \in 0 .. Len(out) /\ heard \in 0 .. sent
    <3>1. /\ sent \in Nat /\ heard \in Nat /\ Len(out) \in Nat /\ sent <= Len(out)
          /\ heard + Cardinality(Lines(channel)) = sent
      BY <2>1, LenProperties DEF SInv, LinesInOrder, Typed, FTypeOK
    <3>2. Cardinality(Lines(channel)) \in Nat
      <4>1. /\ channel \in Seq(Events)
            /\ Event("Hangup", None) \in Events
        BY <2>1, EventTypes DEF Typed, EventKinds, Args
      <4> QED
        BY <4>1, LinesAppended
    <3> QED
      BY <3>1, <3>2
  <2> QED
    BY <2>1, <2>2, <2>3 DEF STypeOK, Typed
<1> QED
  BY <1>1, SourcesInvariant, PTL

\* When playerctl's end ends the loop, the coordinator has handled every line within
\* the cap that playerctl completed, and that was read when a read failed, for any stream
\* and any interleaving.
THEOREM HangupLosesNothing == SSpec => []NothingLostBeforeHangup
<1>1. SInv => NothingLostBeforeHangup
  <2> SUFFICES ASSUME SInv, exit = "Hangup"
               PROVE  /\ reader # "failed" => pipe = <<>>
                      /\ heard = Cardinality(WithinCap(fed))
    BY DEF NothingLostBeforeHangup, WithinCap
  <2>1. /\ reader # "failed" => pipe = <<>>
        /\ ~feeding /\ reader \in {"done", "failed"}
        /\ \A i \in DOMAIN channel : channel[i].kind # "Line"
    BY DEF SInv, HangupIsLast
  <2>2. Lines(channel) = {} /\ Cardinality(Lines(channel)) = 0
    BY <2>1, FS_EmptySet DEF Lines
  <2>3. heard = Len(out)
    <3>1. heard \in Nat /\ sent = Len(out) /\ heard + Cardinality(Lines(channel)) = sent
      BY <2>1 DEF SInv, LinesInOrder, Typed
    <3> QED
      BY <2>2, <3>1
  <2>4. Len(out) = Cardinality(WithinCap(fed))
    BY <2>1, ScannedIsAll DEF SInv, AllFramed
  <2> QED
    BY <2>1, <2>3, <2>4
<1> QED
  BY <1>1, SourcesInvariant, PTL

\* Once every announced change was handled the mode is the portal's, for any answers,
\* announcements and capacity.
THEOREM ModeIsFollowed == SSpec => []ModeFollowsPortal
<1>1. SInv => ModeFollowsPortal
  <2> SUFFICES ASSUME SInv, main \in {"scheme", "run", "loop"}
               PROVE  IF FORCED_MODE # None THEN mode = FORCED_MODE
                      ELSE ~missed /\ ~SchemeOnTheWay /\ portal # None /\ IsInt(portal) =>
                               (mode = "light" <=> portal.is = 2)
    BY DEF ModeFollowsPortal
  <2>1. CASE FORCED_MODE # None
    BY <2>1 DEF SInv, LastWordIsThePortals
  <2>2. CASE FORCED_MODE = None
    <3> SUFFICES ASSUME ~missed, ~SchemeOnTheWay, portal # None, IsInt(portal)
                 PROVE  mode = "light" <=> portal.is = 2
      BY <2>2
    <3>1. Followed
      BY <2>2 DEF Followed
    <3>2. Announced = {} /\ SchemesSent = {}
      BY DEF SchemeOnTheWay, Announced, SchemesSent
    <3>3. mode = ModeOf(SchemeValue(portal))
      BY <3>1, <3>2 DEF SInv, LastWordIsThePortals
    <3>4. portal \in Schemes
      BY DEF SInv, Typed
    <3> QED
      BY <3>3, <3>4, SchemeTypes
  <2> QED
    BY <2>1, <2>2
<1> QED
  BY <1>1, SourcesInvariant, PTL

\* A player that left the bus is not tracked for longer than its loss takes to be
\* handled, unless its own lines were still behind it.
THEOREM LossIsNotMissed == SSpec => []VanishedIsForgotten
<1>1. SInv => VanishedIsForgotten
  <2>1. SInv => LossIsHandled /\ DOMAIN <<>> = {}
    BY EmptySeq DEF SInv
  <2> QED
    BY <2>1 DEF VanishedIsForgotten, LossIsHandled, LossOnTheWay, Running
<1> QED
  BY <1>1, SourcesInvariant, PTL

\* Between the moment the retry is due and the moment it fires at most one event is
\* handled, however many wait.
THEOREM RetryIsNotStarved == SSpec => []RetryInTime
<1>1. SInv => RetryInTime
  BY DEF SInv, DueIsNext, RetryInTime
<1> QED
  BY <1>1, SourcesInvariant, PTL

\* Inside the daemon, where the channel, the loop and the listeners interleave with
\* it, the reader's framer is still the line filter.
THEOREM ReaderIsFilter == SSpec => ImplementsFilter
<1>1. Typed /\ [SNext]_svars => [FNext]_fvars
  BY FramerSteps
<1>2. SInv => Typed
  BY DEF SInv
<1>3. SInit => FInit
  BY DEF SInit
<1>4. SSpec => FSpec
  BY <1>1, <1>2, <1>3, SourcesInvariant, PTL DEF SSpec, FSpec
<1> QED
  BY <1>4, FramerIsFilter
=============================================================================
