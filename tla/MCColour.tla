------------------------------ MODULE MCColour -------------------------------
(***************************************************************************)
(* The parts of extract_colors on small inputs: a behaviour is one   *)
(* of them, from any input of its own, not only from what the part before  *)
(* it made of a cover.                                                     *)
(***************************************************************************)
EXTENDS Sampling, MedianCut, Palette, TLC

VARIABLE part

allvars == <<samvars, cutvars, palvars, sepvars, part>>

\* A sample of 3 by 2 pixels; budgets that some files are just below and just over.
MCSample == <<3, 2>>
MCHeaders == {<<w, h>> : w \in {1, 2, 3, 4, 6, 7, 13, 24}, h \in {1, 2, 3, 5, 8, 9, 16, 17}}

\* Three channels; two of the colours have one hash.
Black == <<0, 0, 0>>
Collider == <<0, 0, 1>>
Low == <<0, 4, 0>>
High == <<0, 6, 0>>
Red == <<9, 1, 0>>
Grey == <<5, 5, 5>>
Colours == {Black, Collider, Low, High, Red, Grey}
MCHash == [c \in Colours |-> IF c = Collider THEN Black ELSE c]
MCSamples ==
    UNION {[some -> {1, 2, 5}] : some \in {s \in SUBSET Colours : Cardinality(s) \in 1 .. 4}}

\* Lightness in units of 0.005.  A speck, a drab and two vivid shares; the hue a is
\* there in four steps of lightness.
MCLightness == 0 .. 200
MCModes == {"dark", "light"}
MCEnvelope == ("dark" :> <<30, 110>>) @@ ("light" :> <<110, 184>>)
MCCurve ==
    ("dark" :> [l \in 0 .. 200 |-> 30 + (80 * l) \div 200])
        @@ ("light" :> [l \in 0 .. 200 |-> 110 + (74 * l) \div 200])
Entry(n, v, lightness, hue) == [count |-> n, vibrancy |-> v, l |-> lightness, hue |-> hue]
MCEntries == {
    Entry(1, 90, 101, "b"), Entry(60, 0, 200, "a"), Entry(60, 0, 176, "a"), Entry(90, 0, 0, "a"),
    Entry(40, 70, 165, "a"), Entry(40, 70, 99, "b"), Entry(99, 30, 102, "c")}
\* At the upper end of the dark mode's envelope, where a slot is soon pinned.
MCToned == [{1} -> {107, 109, 110}] \cup [1 .. 3 -> {107, 109, 110}]
MCHistograms == UNION {[1 .. n -> MCEntries] : n \in 0 .. 4}

QuantizeOff ==
    /\ pixels = <<>> /\ colors = 1 /\ boxes = <<>> /\ heap = <<>> /\ cuts = 0
    /\ palette = <<>> /\ index = <<>> /\ quant = "off"
PaletteOff == hist = <<>> /\ picks = <<>> /\ source = <<>> /\ rendered = <<>>
SeparateOff ==
    /\ lo = 0 /\ hi = 0 /\ toned = <<0>> /\ work = <<0>> /\ order = <<1>> /\ budget = <<0>>
    /\ pair = <<1, 1>> /\ moved = FALSE /\ passes = 0 /\ step = "off" /\ reason = "Passes"

MCInit ==
    /\ SampleInit
    /\ \/ part = "sample" /\ QuantizeOff /\ PaletteOff /\ SeparateOff
       \/ part = "quantize" /\ CutInit /\ PaletteOff /\ SeparateOff
       \/ part = "palette" /\ QuantizeOff /\ PaletteInit
       \/ part = "separate" /\ QuantizeOff /\ PaletteOff
          /\ lo = 30 /\ hi = 110 /\ toned \in MCToned /\ SepInit

Rests == reading = "over" \/ quant = "done" \/ (step = "done" /\ (picks # <<>> => rendered # <<>>))

MCNext ==
    \/ part = "sample" /\ SampleNext /\ UNCHANGED <<cutvars, palvars, sepvars, part>>
    \/ part = "quantize" /\ CutNext /\ UNCHANGED <<samvars, palvars, sepvars, part>>
    \/ part = "palette" /\ PaletteNext /\ UNCHANGED <<samvars, cutvars, part>>
    \/ part = "separate" /\ Separate /\ UNCHANGED <<samvars, cutvars, part>>
    \/ Rests /\ UNCHANGED allvars

MCSpec == MCInit /\ [][MCNext]_allvars
=============================================================================
