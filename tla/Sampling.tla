------------------------------ MODULE Sampling -------------------------------
(***************************************************************************)
(* From a cover file to the sample the quantizer works on: sample_file and *)
(* decode of src/src/color/decode.rs and the resampling of                 *)
(* color/resize.rs.                                                        *)
(*                                                                         *)
(* A raster is its width and height; of a row of a raster the model keeps  *)
(* which rows of the image it was made from.  Fractions are exact.         *)
(***************************************************************************)
EXTENDS Integers, Sequences, FiniteSetsExt

CONSTANTS
    Sizes,             \* lengths a cover file may have
    Headers,           \* <<width, height>> an image may declare
    MAX_DECODE_BYTES,
    MAX_PIXELS,
    SAMPLE,            \* <<width, height>> of the sample
    TallRatio          \* beyond it an image is resized in two steps

\* The decoders refuse an image without pixels.
ASSUME SamplingAssumption ==
    /\ Sizes \subseteq Nat
    /\ Headers \subseteq (Nat \ {0}) \X (Nat \ {0})
    /\ SAMPLE \in (Nat \ {0}) \X (Nat \ {0})
    /\ MAX_DECODE_BYTES \in Nat
    /\ MAX_PIXELS \in Nat
    /\ TallRatio \in Nat

Formats == {"jpeg", "png", "webp"}  \* ACCEPTED

VARIABLES
    reading,   \* where sample_file is
    refused,   \* why it gave up
    held,      \* bytes of the file in memory
    format,
    declared,  \* the header's size
    raster,    \* the size of the raster in memory, <<0, 0>> before there is one
    scale,     \* JPEG's draft
    rows       \* for the rows of the raster: the rows of the decoded image they show

samvars == <<reading, refused, held, format, declared, raster, scale, rows>>

SampleInit ==
    /\ reading = "open"
    /\ refused = "no"
    /\ held = 0
    /\ format = "unknown"
    /\ declared = <<0, 0>>
    /\ raster = <<0, 0>>
    /\ scale = 1
    /\ rows = <<>>

Refuse(why) ==
    /\ reading' = "over"
    /\ refused' = why
    /\ UNCHANGED <<held, format, declared, raster, scale, rows>>

-----------------------------------------------------------------------------
OpenFile ==
    /\ reading = "open"
    /\ \/ Refuse("Io")
       \/ \E size \in Sizes :
             IF size > MAX_DECODE_BYTES THEN Refuse("TooLarge")
             ELSE /\ reading' = "read"
                  /\ UNCHANGED <<refused, held, format, declared, raster, scale, rows>>

\* The file may have grown since, and the read may fail.
ReadFile ==
    /\ reading = "read"
    /\ \/ Refuse("Io")
       \/ /\ \E size \in Sizes :
                /\ held' = Min({size, MAX_DECODE_BYTES + 1})
                /\ IF held' > MAX_DECODE_BYTES
                   THEN reading' = "over" /\ refused' = "TooLarge"
                   ELSE reading' = "guess" /\ UNCHANGED refused
          /\ UNCHANGED <<format, declared, raster, scale, rows>>

GuessFormat ==
    /\ reading = "guess"
    /\ \/ Refuse("Unaccepted")
       \/ /\ format' \in Formats
          /\ reading' = "header"
          /\ UNCHANGED <<refused, held, declared, raster, scale, rows>>

ReadHeader ==
    /\ reading = "header"
    /\ \/ Refuse("Corrupt")
       \/ \E size \in Headers :
             IF size[1] * size[2] > MAX_PIXELS THEN Refuse("TooManyPixels")
             ELSE /\ declared' = size
                  /\ reading' = "decode"
                  /\ UNCHANGED <<refused, held, format, raster, scale, rows>>

\* draft_scale: the largest of 8, 4, 2 that fits both sides.
DraftScale(w, h) ==
    LET times == Min({w \div SAMPLE[1], h \div SAMPLE[2]})
    IN  Max({s \in {8, 4, 2} : times >= s} \cup {1})

\* The rows of the image that a block of box_reduce averages.
Block(s, i, size) == {j \in 0 .. size - 1 : j >= i * s /\ j < (i + 1) * s}

CeilDiv(a, b) == (a + b - 1) \div b

\* The decoder's raster has the declared size: the limits say so.
Decode ==
    /\ reading = "decode"
    /\ \/ Refuse("Corrupt")
       \/ /\ scale' = IF format = "jpeg" THEN DraftScale(declared[1], declared[2]) ELSE 1
          /\ raster' = <<CeilDiv(declared[1], scale'), CeilDiv(declared[2], scale')>>
          /\ rows' = [i \in 0 .. raster'[2] - 1 |-> Block(scale', i, declared[2])]
          /\ reading' = "resize"
          /\ UNCHANGED <<refused, held, format, declared>>

-----------------------------------------------------------------------------
\* Resampling.

\* Mutant: the window is not cut off at the far side.
EndTapBeyond(from, to, x) == ((2 * x + 1) * from + 4 * Max({from, to}) + to) \div (2 * to)

\* precompute_coeffs: of a side of `from` pixels, the first that output pixel x is
\* made of, and the end of those; and how many there is room for.
FirstTap(from, to, x) ==
    Max({0, ((2 * x + 1) * from - 4 * Max({from, to}) + to) \div (2 * to)})
EndTap(from, to, x) ==
    Min({from, ((2 * x + 1) * from + 4 * Max({from, to}) + to) \div (2 * to)})
ksize(from, to) == 2 * CeilDiv(2 * Max({from, to}), to) + 1

\* The rows the first pass has to prepare for the second one.
ybox_first(from, to) == FirstTap(from, to, 0)
ybox_last(from, to) == EndTap(from, to, to - 1)

RowsOf(r, used) == UNION {r[j] : j \in used}

\* vertical: the bounds of the rows are shifted to where the first pass put them.
ShiftedRows(r, from, to, first) ==
    [y \in 0 .. to - 1 |->
        RowsOf(r, (FirstTap(from, to, y) - first) .. (EndTap(from, to, y) - first - 1))]

\* horizontal: the rows that the second pass needs, counted from zero.
CutRows(r, first, last) == [y \in 0 .. last - first - 1 |-> r[y + first]]

\* The rows of a raster of `size` resampled to <<w, h>>.
Resampled(r, size, w, h) ==
    LET first == ybox_first(size[2], h)
        wide == IF w # size[1] THEN CutRows(r, first, ybox_last(size[2], h)) ELSE r
    IN  IF h # size[2]
        THEN ShiftedRows(wide, size[2], h, IF w # size[1] THEN first ELSE 0)
        ELSE wide

\* A very tall image loses its height first.
Tall == raster[2] > TallRatio * raster[1] /\ SAMPLE[2] < raster[2]

ResizeTall ==
    /\ reading = "resize"
    /\ Tall
    /\ raster' = <<raster[1], SAMPLE[2]>>
    /\ rows' = Resampled(rows, raster, raster[1], SAMPLE[2])
    /\ UNCHANGED <<reading, refused, held, format, declared, scale>>

\* An image of the sample's size is taken as it is.
Resize ==
    /\ reading = "resize"
    /\ ~Tall
    /\ rows' = IF raster = SAMPLE THEN rows ELSE Resampled(rows, raster, SAMPLE[1], SAMPLE[2])
    /\ raster' = SAMPLE
    /\ reading' = "over"
    /\ UNCHANGED <<refused, held, format, declared, scale>>

SampleNext ==
    \/ OpenFile
    \/ ReadFile
    \/ GuessFormat
    \/ ReadHeader
    \/ Decode
    \/ ResizeTall
    \/ Resize

SampleSpec == SampleInit /\ [][SampleNext]_samvars

-----------------------------------------------------------------------------
\* Properties.

\* What a file may cost is bounded before it is paid for: its bytes although it may
\* grow between the stat and the read, its pixels although a few bytes may declare
\* any number; and a JPEG's draft neither undercuts the sample nor keeps a raster
\* twice as large as it need be.
SamplingIsBounded ==
    /\ held <= MAX_DECODE_BYTES + 1
    /\ raster # <<0, 0>> =>
          /\ held <= MAX_DECODE_BYTES
          /\ declared[1] * declared[2] <= MAX_PIXELS
          /\ \A side \in {1, 2} : raster[side] <= Max({declared[side], SAMPLE[side]})
    /\ format = "jpeg" /\ raster # <<0, 0>> =>
          LET Fits(s) == declared[1] >= s * SAMPLE[1] /\ declared[2] >= s * SAMPLE[2]
          IN  scale > 1 => Fits(scale) /\ (scale < 8 => ~Fits(2 * scale))

\* No pixel of the sample is made of pixels beyond the raster or of more than there
\* are coefficients for; and the sample shows the image from its first row to its
\* last, in their order, however many passes it went through.
SampleShowsTheImage ==
    /\ reading = "resize" =>
          \A side \in {1, 2} : \A x \in 0 .. SAMPLE[side] - 1 :
             LET first == FirstTap(raster[side], SAMPLE[side], x)
                 end == EndTap(raster[side], SAMPLE[side], x)
             IN  /\ 0 <= first /\ first < end /\ end <= raster[side]
                 /\ end - first <= ksize(raster[side], SAMPLE[side])
    /\ reading = "over" /\ refused = "no" =>
          /\ DOMAIN rows = 0 .. SAMPLE[2] - 1
          /\ \A y \in DOMAIN rows : rows[y] # {}
          /\ \A y, z \in DOMAIN rows :
                y < z => Min(rows[y]) <= Min(rows[z]) /\ Max(rows[y]) <= Max(rows[z])
          /\ Min(rows[0]) = 0
          /\ Max(rows[SAMPLE[2] - 1]) = declared[2] - 1

SampleIsSound == SamplingIsBounded /\ SampleShowsTheImage
=============================================================================
