------------------------------- MODULE Palette -------------------------------
(***************************************************************************)
(* From the histogram of a cover to its palette: select of                 *)
(* src/src/color/pick.rs, tone of tone.rs, and render_palette of           *)
(* color/mod.rs, which ends with Separation.                               *)
(*                                                                         *)
(* Colours of one hue class differ in lightness alone; those of different  *)
(* classes are far apart.                                                  *)
(***************************************************************************)
EXTENDS Separation, Sequences, FiniteSets, Functions

CONSTANTS
    Histograms,       \* sequences of entries
    Hues,             \* classes of hue and chroma
    SELECT_MIN_DE,    \* minimum distance of two picks
    Modes,
    Envelope,         \* mode -> <<lo, hi>>
    Curve             \* mode -> the compressive curve from lightness into the envelope

\* vibrancy: s*v in percent.
Entries == [count : Nat, vibrancy : Nat, l : Lightness, hue : Hues]

ASSUME PaletteAssumption ==
    /\ Histograms \subseteq Seq(Entries)
    /\ SELECT_MIN_DE \in Nat \ {0}
    /\ \E white \in Lightness : white \in Nat /\ Lightness = 0 .. white
    /\ \A m \in Modes :
          /\ Envelope[m] \in Lightness \X Lightness
          /\ Curve[m] \in [Lightness -> Envelope[m][1] .. Envelope[m][2]]
          /\ \A a, b \in Lightness : a <= b => Curve[m][a] <= Curve[m][b]

VARIABLES
    hist,      \* the histogram, in palette index order
    picks,     \* the picks, as indices of it
    source,    \* the lightness of the three slots before toning
    rendered   \* the lightness of the palette's three colours

palvars == <<hist, picks, source, rendered>>

PaletteInit ==
    /\ hist \in Histograms
    /\ picks = <<>>
    /\ source = <<>>
    /\ rendered = <<>>
    /\ lo = 0 /\ hi = 0 /\ toned = <<0>> /\ work = toned /\ order = <<1>>
    /\ budget = <<0>> /\ pair = <<1, 1>> /\ moved = FALSE /\ passes = 0
    /\ step = "select" /\ reason = "Passes"

-----------------------------------------------------------------------------
\* select.

Total(h) == SumFunction([i \in DOMAIN h |-> h[i].count])

\* Mutant: a speck gets its boost, too.
BoostedScore(e, total) == 200 * e.count + e.vibrancy * total

\* The share of the pixels and, from VIBRANCY_MIN_POP (1 %) on, half the vibrancy;
\* in units of 1 / (200 * total).
Score(e, total) ==
    200 * e.count + (IF 100 * e.count < total THEN 0 ELSE e.vibrancy * total)

\* By score, descending; equal scores keep the histogram's order.
Outranks(h, i, j) ==
    LET si == Score(h[i], Total(h))
        sj == Score(h[j], Total(h))
    IN  si > sj \/ (si = sj /\ i < j)
Ranked(h) ==
    [k \in DOMAIN h |->
        CHOOSE i \in DOMAIN h : Cardinality({j \in DOMAIN h : Outranks(h, j, i)}) = k - 1]

Near(a, b) == a.hue = b.hue /\ Distance(a.l, b.l) < SELECT_MIN_DE

\* What is picked of the first k in rank.
Picked(h) ==
    LET ranked == Ranked(h)
        P[k \in 0 .. Len(h)] ==
            IF k = 0 THEN <<>>
            ELSE LET e == h[ranked[k]]
                 IN  IF /\ Len(P[k - 1]) < 3
                        /\ \A n \in DOMAIN P[k - 1] : ~Near(e, h[P[k - 1][n]])
                     THEN Append(P[k - 1], ranked[k])
                     ELSE P[k - 1]
    IN  P[Len(h)]

\* A palette repeats its last real slot.
Padded(s) == [i \in 1 .. 3 |-> IF i <= Len(s) THEN s[i] ELSE s[Len(s)]]

\* A cover without a histogram gets the default accent.
NoPicks ==
    /\ step = "select"
    /\ hist = <<>>
    /\ Stop("Duplicates")
    /\ UNCHANGED palvars

Select ==
    /\ step = "select"
    /\ hist # <<>>
    /\ picks' = Picked(hist)
    /\ source' = Padded([n \in DOMAIN picks' |-> hist[picks'[n]].l])
    /\ step' = "tone"
    /\ UNCHANGED <<hist, rendered, lo, hi, toned, work, order, budget, pair, moved, passes, reason>>

-----------------------------------------------------------------------------
\* tone: the mean lightness goes through the mode's curve, and each slot keeps its
\* offset from the mean, within the envelope.
Toned(slots, m) ==
    LET anchor == SumFunction(slots) \div Len(slots)
        Moved(l) == Curve[m][anchor] + l - anchor
    IN  [i \in DOMAIN slots |-> Greatest(Envelope[m][1], Least(Moved(slots[i]), Envelope[m][2]))]

\* Only the real slots are separated.
Tone ==
    /\ step = "tone"
    /\ \E m \in Modes :
          /\ lo' = Envelope[m][1]
          /\ hi' = Envelope[m][2]
          /\ toned' = SubSeq(Toned(source, m), 1, Len(picks))
    /\ work' = toned'
    /\ order' \in [DOMAIN toned' -> DOMAIN toned']
    /\ Sorts(order', toned')
    /\ budget' = [s \in DOMAIN toned' |-> MAX_SEPARATION_SHIFT]
    /\ step' = "compare"
    /\ hist' = <<>>
    /\ UNCHANGED <<picks, source, rendered, pair, moved, passes, reason>>

Separate ==
    /\ SepNext
    /\ UNCHANGED palvars

Render ==
    /\ step = "done"
    /\ picks # <<>>
    /\ rendered = <<>>
    /\ rendered' = Padded(work)
    /\ UNCHANGED <<hist, picks, source, sepvars>>

PaletteNext == NoPicks \/ Select \/ Tone \/ Separate \/ Render

PaletteSpec == PaletteInit /\ [][PaletteNext]_<<palvars, sepvars>>

-----------------------------------------------------------------------------
\* Properties.

\* The picks are the cover's: up to three, pairwise distinct, and nothing is left
\* out for a colour of lower rank, except what is near a pick that outranks it; a
\* speck below VIBRANCY_MIN_POP never stands before a colour that is not one.
PicksStand ==
    step = "tone" =>
        LET n == Len(picks)
            Speck(i) == 100 * hist[i].count < Total(hist)
        IN  /\ n \in 1 .. 3
            /\ \A k, m \in 1 .. n : k # m => ~Near(hist[picks[k]], hist[picks[m]])
            /\ \A i \in DOMAIN hist :
                  \/ \E k \in 1 .. n :
                        /\ Near(hist[i], hist[picks[k]])
                        /\ i = picks[k] \/ Outranks(hist, picks[k], i)
                  \/ n = 3 /\ \A k \in 1 .. n : Outranks(hist, picks[k], i)
            /\ \A i, j \in DOMAIN hist : Speck(i) /\ ~Speck(j) => Outranks(hist, j, i)

\* The colours of a palette stand in the order of lightness of the cover's own,
\* whatever the mode: how a cover's "three slots relate to each other" is "preserved",
\* up to "the same slot rank order, for the same cover in both modes".
RenderKeepsOrder ==
    rendered # <<>> =>
        \A i, j \in 1 .. 3 : source[i] < source[j] => rendered[i] <= rendered[j]
=============================================================================
