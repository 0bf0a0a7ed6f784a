------------------------------- MODULE Framing -------------------------------
(***************************************************************************)
(* Bounded newline framing of playerctl's output: LineFramer of            *)
(* src/src/framing.rs.                                                     *)
(*                                                                         *)
(* feed is a loop over the newlines of the buffer and takes a step per     *)
(* newline here: reporting a refused line sends an event and may block in  *)
(* the middle of feed.  The prefix a loop step is done with leaves buf at  *)
(* once; the code drains all of it when the loop ends.                     *)
(***************************************************************************)
EXTENDS Integers, Sequences, FiniteSets

CONSTANTS
    Text,            \* bytes other than the newline
    Newline,
    MAX_LINE_BYTES,  \* what a single line may cost
    READ_CHUNK       \* what one read returns at most

ASSUME FramingAssumption ==
    /\ Newline \notin Text
    /\ MAX_LINE_BYTES \in Nat
    /\ READ_CHUNK \in Nat \ {0}

VARIABLES
    buf,         \* bytes of the line in progress, and unscanned ones during feed
    discarding,  \* the rest of a refused line is being skipped
    feeding,     \* feed is running
    out,         \* every line framed so far
    reports,     \* every refusal reported so far
    fed,         \* every byte fed so far
    scanned      \* how many of them were fed up to the last newline scanned

framer == <<buf, discarding, feeding, out, reports>>
fvars == <<framer, fed, scanned>>

Bytes == Text \cup {Newline}

FInit ==
    /\ buf = <<>>
    /\ discarding = FALSE
    /\ feeding = FALSE
    /\ out = <<>>
    /\ reports = 0
    /\ fed = <<>>
    /\ scanned = 0

-----------------------------------------------------------------------------
HasNewline == \E i \in DOMAIN buf : buf[i] = Newline

\* The first newline of the buffer.
Cut == CHOOSE i \in DOMAIN buf : buf[i] = Newline /\ \A j \in 1 .. i - 1 : buf[j] # Newline

AtNewline ==
    /\ feeding
    /\ HasNewline
    /\ buf' = SubSeq(buf, Cut + 1, Len(buf))
    /\ scanned' = Len(fed) - Len(buf) + Cut
    /\ UNCHANGED <<feeding, fed>>

\* feed appends what was read.
Feed(data) ==
    /\ ~feeding
    /\ feeding' = TRUE
    /\ buf' = buf \o data
    /\ fed' = fed \o data
    /\ UNCHANGED <<discarding, out, reports, scanned>>

\* The remainder of a refused line ends.
EndRefused ==
    /\ AtNewline
    /\ discarding
    /\ discarding' = FALSE
    /\ UNCHANGED <<out, reports>>

\* A complete line over the cap.
DropLine ==
    /\ AtNewline
    /\ ~discarding
    /\ Cut - 1 > MAX_LINE_BYTES
    /\ reports' = reports + 1
    /\ UNCHANGED <<discarding, out>>

FrameLine ==
    /\ AtNewline
    /\ ~discarding
    /\ Cut - 1 <= MAX_LINE_BYTES
    /\ out' = Append(out, SubSeq(buf, 1, Cut - 1))
    /\ UNCHANGED <<discarding, reports>>

TailTooLong == Len(buf) > MAX_LINE_BYTES

\* Mutant: the buffer is cleared only when the line is refused.
EndFeedKeepsRemainder ==
    /\ feeding
    /\ ~HasNewline
    /\ feeding' = FALSE
    /\ discarding' = (discarding \/ TailTooLong)
    /\ reports' = reports + (IF TailTooLong /\ ~discarding THEN 1 ELSE 0)
    /\ buf' = IF TailTooLong /\ ~discarding THEN <<>> ELSE buf
    /\ UNCHANGED <<out, fed, scanned>>

\* Mutant: every read of a refused line reports it.
EndFeedReportsAgain ==
    /\ feeding
    /\ ~HasNewline
    /\ feeding' = FALSE
    /\ discarding' = (discarding \/ TailTooLong)
    /\ reports' = reports + (IF discarding' THEN 1 ELSE 0)
    /\ buf' = IF discarding' THEN <<>> ELSE buf
    /\ UNCHANGED <<out, fed, scanned>>

\* No newline is left: keep the tail, refuse it (once) when it is over the cap,
\* and hold nothing of a line that was refused.
EndFeed ==
    /\ feeding
    /\ ~HasNewline
    /\ feeding' = FALSE
    /\ discarding' = (discarding \/ TailTooLong)
    /\ reports' = reports + (IF TailTooLong /\ ~discarding THEN 1 ELSE 0)
    /\ buf' = IF discarding' THEN <<>> ELSE buf
    /\ UNCHANGED <<out, fed, scanned>>

\* The steps of feed after its first.
Frame == EndRefused \/ DropLine \/ FrameLine \/ EndFeed

Chunks == {data \in Seq(Bytes) : Len(data) \in 1 .. READ_CHUNK}

FNext == (\E data \in Chunks : Feed(data)) \/ Frame

FSpec == FInit /\ [][FNext]_fvars

-----------------------------------------------------------------------------
\* The lines of a stream, by definition: what lies between two newlines.
Ends(bytes) == {i \in DOMAIN bytes : bytes[i] = Newline}

Latest(ends) == CHOOSE i \in ends : \A j \in ends : j <= i
LastBefore(bytes, end) == Latest({i \in Ends(bytes) : i < end} \cup {0})
LineEndingAt(bytes, end) == SubSeq(bytes, 1 + LastBefore(bytes, end), end - 1)

Only(ends) == CHOOSE i \in ends : TRUE
EndsUpTo(bytes, i) == {j \in Ends(bytes) : j <= i}
EndOfLine(bytes, k) == Only({i \in Ends(bytes) : Cardinality(EndsUpTo(bytes, i)) = k})
CompleteLines(bytes) ==
    [k \in 1 .. Cardinality(Ends(bytes)) |-> LineEndingAt(bytes, EndOfLine(bytes, k))]

\* A line refused before its end was seen is not yet one of the complete lines.
Filter == INSTANCE LineFilter WITH
    taken <- CompleteLines(SubSeq(fed, 1, scanned)),
    reports <- reports - (IF discarding THEN 1 ELSE 0)

-----------------------------------------------------------------------------
\* Properties.

\* The framer's state has the types the Rust declares.
FTypeOK ==
    /\ buf \in Seq(Bytes)
    /\ discarding \in BOOLEAN
    /\ feeding \in BOOLEAN
    /\ out \in Seq(Seq(Text))
    /\ reports \in Nat
    /\ fed \in Seq(Bytes)
    /\ scanned \in 0 .. Len(fed)

\* However the stream is cut into reads, the framer is the line filter: a line
\* split at the cap, a line of exactly the cap, several lines in one read, or the
\* remainder of a refused line make no difference.
ImplementsFilter == Filter!FilterSpec

\* "the buffer cannot grow with the flood": between reads it holds no more than
\* the cap, and no complete line is left in it.
BufferBounded ==
    /\ ~feeding => Len(buf) <= MAX_LINE_BYTES /\ ~HasNewline
    /\ Len(buf) <= MAX_LINE_BYTES + READ_CHUNK
=============================================================================
