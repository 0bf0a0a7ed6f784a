----------------------------- MODULE MedianCut -------------------------------
(***************************************************************************)
(* The median cut of a cover's sample: src/src/color/quantize.rs.          *)
(*                                                                         *)
(* The sample is the number of its pixels of each colour.  Its order       *)
(* matters only between colours of one hash: the first of them stands for  *)
(* all of them.                                                            *)
(***************************************************************************)
EXTENDS Integers, Sequences, FiniteSets, SequencesExt, FiniteSetsExt, Functions

CONSTANTS
    Samples,     \* functions from colours (three channels) to numbers of pixels
    pixel_hash,  \* colour -> hash, for all their colours
    Targets      \* numbers of colours to reduce to

Axes == 1 .. 3
Rgb == [Axes -> 0 .. 255]

ASSUME MedianCutAssumption ==
    /\ \A sample \in Samples :
          /\ IsFiniteSet(DOMAIN sample)
          /\ DOMAIN sample \subseteq Rgb
          /\ sample \in [DOMAIN sample -> Nat \ {0}]
          /\ DOMAIN sample # {}
    /\ Targets \subseteq Nat \ {0}

VARIABLES
    pixels,    \* the sample
    colors,    \* the number of colours asked for
    boxes,     \* the boxes of the cut: a tree
    heap,      \* the leaves that may be cut, as a binary heap
    cuts,      \* cuts made
    palette,   \* the palette
    index,     \* colour -> palette entry
    quant      \* where quantize is

cutvars == <<pixels, colors, boxes, heap, cuts, palette, index, quant>>

Weights == <<77, 150, 29>>

DistSq(a, b) ==
    LET Square(i) == (a[i] - b[i]) * (a[i] - b[i])
    IN  Square(1) + Square(2) + Square(3)

Sharing(hash) == {c \in DOMAIN pixels : pixel_hash[c] = hash}

\* One entry for every hash; a table of the first colours decides its colour.
Histogram(first) ==
    {[color |-> first[h], count |-> SumFunctionOnSet(pixels, Sharing(h))] : h \in DOMAIN first}

Pixels(entries) == SumFunction([e \in entries |-> e.count])
MakeBox(entries) == [entries |-> entries, pixel_count |-> Pixels(entries), children |-> <<>>]

CutInit ==
    /\ pixels \in Samples
    /\ colors \in Targets
    /\ LET hashes == {pixel_hash[c] : c \in DOMAIN pixels}
       IN  \E first \in [hashes -> DOMAIN pixels] :
              /\ \A h \in hashes : pixel_hash[first[h]] = h
              /\ boxes = <<MakeBox(Histogram(first))>>
    /\ heap = <<1>>
    /\ cuts = 0
    /\ palette = <<>>
    /\ index = <<>>
    /\ quant = "cut"

-----------------------------------------------------------------------------
\* QuantHeap: on equal counts the sifting decides which box comes first.

Count(b) == boxes[b].pixel_count

\* The new box rises from the end of the heap h to where no smaller box is above it;
\* the boxes it passes come down.  weight: the pixels of each box.
HeapAdd(h, b, weight) ==
    LET Rise[k \in 1 .. Len(h) + 1] ==
            IF k = 1 \/ weight[b] <= weight[h[k \div 2]]
            THEN [Append(h, b) EXCEPT ![k] = b]
            ELSE [Rise[k \div 2] EXCEPT ![k] = h[k \div 2]]
    IN  Rise[Len(h) + 1]

\* The top is taken out; the last box sinks from there to where no larger child is
\* below it.
HeapRemove(h) ==
    LET v == Last(h)
        count == Len(h) - 1
        Larger(k) == IF 2 * k < count /\ Count(h[2 * k]) < Count(h[2 * k + 1])
                     THEN 2 * k + 1 ELSE 2 * k
        Sink[k \in 1 .. count] ==
            IF 2 * k > count \/ Count(v) > Count(h[Larger(k)])
            THEN [Front(h) EXCEPT ![k] = v]
            ELSE [Sink[Larger(k)] EXCEPT ![k] = h[Larger(k)]]
    IN  IF count = 0 THEN <<>> ELSE Sink[1]

-----------------------------------------------------------------------------
\* A cut.

Values(entries, axis) == {e.color[axis] : e \in entries}
Extent(entries, axis) == Max(Values(entries, axis)) - Min(Values(entries, axis))

Volume(b) ==
    LET Side(axis) == Extent(boxes[b].entries, axis) + 1
    IN  IF boxes[b].entries = {} THEN 0 ELSE Side(1) * Side(2) * Side(3)

\* The axis of the largest weighted extent, the first of equals.
CutAxis(entries) ==
    LET Weighted(a) == Extent(entries, a) * Weights[a]
    IN  Min({a \in Axes : \A other \in Axes : Weighted(other) <= Weighted(a)})

\* Mutant: the entries that share the median's value all go left, and that is it.
HighHalfOnly(box) ==
    LET axis == CutAxis(box.entries)
        From(v) == {e \in box.entries : e.color[axis] >= v}
        values == Values(box.entries, axis)
    IN  From(Max({v \in values : 2 * Pixels(From(v)) > box.pixel_count}))

\* The left side: from the top of the axis down past half of the pixels, with every
\* entry of the last value; but not the lowest value when that leaves nothing.
HighHalf(box) ==
    LET axis == CutAxis(box.entries)
        From(v) == {e \in box.entries : e.color[axis] >= v}
        values == Values(box.entries, axis)
        median == Max({v \in values : 2 * Pixels(From(v)) > box.pixel_count})
    IN  IF median > Min(values) THEN From(median) ELSE From(Min(values) + 1)

DropUnitBox ==
    /\ quant = "cut"
    /\ cuts < colors - 1
    /\ heap # <<>>
    /\ Volume(heap[1]) = 1
    /\ heap' = HeapRemove(heap)
    /\ UNCHANGED <<pixels, colors, boxes, cuts, palette, index, quant>>

CutTopBox ==
    /\ quant = "cut"
    /\ cuts < colors - 1
    /\ heap # <<>>
    /\ Volume(heap[1]) # 1
    /\ LET box == boxes[heap[1]]
           high == HighHalf(box)
           left == Len(boxes) + 1
       IN  /\ boxes' = [boxes EXCEPT ![heap[1]].children = <<left, left + 1>>]
                           \o <<MakeBox(high), MakeBox(box.entries \ high)>>
           /\ LET weight == [b \in DOMAIN boxes' |-> boxes'[b].pixel_count]
              IN  heap' = HeapAdd(HeapAdd(HeapRemove(heap), left, weight), left + 1, weight)
    /\ cuts' = cuts + 1
    /\ UNCHANGED <<pixels, colors, palette, index, quant>>

-----------------------------------------------------------------------------
\* The palette.

IsLeaf(b) == boxes[b].children = <<>>

\* The leaves that hold anything, numbered depth-first, left first.
Numbered ==
    LET Under[b \in 1 .. Len(boxes)] ==
            IF ~IsLeaf(b) THEN Under[boxes[b].children[1]] \o Under[boxes[b].children[2]]
            ELSE IF boxes[b].entries = {} THEN <<>> ELSE <<b>>
    IN  Under[1]

\* Whose pixels a leaf's are: the colours that share a hash with one of its entries.
Members(b) ==
    {c \in DOMAIN pixels : \E e \in boxes[b].entries : pixel_hash[e.color] = pixel_hash[c]}

\* The rounded mean of a leaf's pixels.
Mean(b) ==
    LET count == SumFunctionOnSet(pixels, Members(b))
        Sum(a) == SumFunction([c \in Members(b) |-> pixels[c] * c[a]])
    IN  [a \in Axes |-> (2 * Sum(a) + count) \div (2 * count)]

MakePalette ==
    /\ quant = "cut"
    /\ cuts = colors - 1 \/ heap = <<>>
    /\ palette' = [i \in DOMAIN Numbered |-> Mean(Numbered[i])]
    /\ quant' = "map"
    /\ UNCHANGED <<pixels, colors, boxes, heap, cuts, index>>

-----------------------------------------------------------------------------
\* The map from the pixels to the palette.

OwnEntry(c) == CHOOSE i \in DOMAIN palette : c \in Members(Numbered[i])

\* Mutant: entries are looked at up to twice the own one's squared distance.
SearchTwice(own, c) ==
    {i \in DOMAIN palette :
        DistSq(palette[own], palette[i]) <= 2 * DistSq(palette[own], c)}

\* The entries that are looked at: those no further from the own one than twice the
\* pixel is, as squares.
SearchFrom(own, c) ==
    {i \in DOMAIN palette :
        DistSq(palette[own], palette[i]) <= 4 * DistSq(palette[own], c)}

\* The nearest of them; among equals the own one, then the nearest to it.
Nearest(c) ==
    LET own == OwnEntry(c)
        seen == SearchFrom(own, c) \cup {own}
        least == Min({DistSq(palette[i], c) : i \in seen})
        best == {i \in seen : DistSq(palette[i], c) = least}
        Far(i) == DistSq(palette[own], palette[i])
    IN  IF own \in best THEN own
        ELSE CHOOSE i \in best :
                \A j \in best : Far(i) < Far(j) \/ (Far(i) = Far(j) /\ i <= j)

MapPixels ==
    /\ quant = "map"
    /\ index' = [c \in DOMAIN pixels |-> Nearest(c)]
    /\ quant' = "done"
    /\ UNCHANGED <<pixels, colors, boxes, heap, cuts, palette>>

CutNext == DropUnitBox \/ CutTopBox \/ MakePalette \/ MapPixels

CutSpec == CutInit /\ [][CutNext]_cutvars

-----------------------------------------------------------------------------
\* Properties.

Leaves == {b \in DOMAIN boxes : IsLeaf(b)}

\* The cut loses and doubles nothing, and comes to no box that would leave a palette
\* entry without pixels to average: the leaves are a partition of the histogram into
\* at most the boxes asked for, none empty, each with the pixels of its entries; and
\* a box that could still be cut is in the heap, whose top has the most pixels.
CutIsSound ==
    boxes # <<>> =>
        /\ Cardinality(Leaves) <= colors
        /\ \A b \in Leaves : boxes[b].entries # {} /\ Count(b) = Pixels(boxes[b].entries)
        /\ UNION {boxes[b].entries : b \in Leaves} = boxes[1].entries
        /\ \A b, c \in Leaves : b # c => boxes[b].entries \cap boxes[c].entries = {}
        /\ \A b \in Leaves : Volume(b) > 1 => \E k \in DOMAIN heap : heap[k] = b
        /\ \A k, m \in DOMAIN heap : k # m => heap[k] # heap[m]
        /\ \A k \in DOMAIN heap : IsLeaf(heap[k]) /\ Count(heap[k]) <= Count(heap[1])

\* The search that stops at four times the squared distance misses nothing: every
\* pixel is mapped to an entry as near as any of the palette.
NearestIsFound ==
    quant = "done" =>
        \A c \in DOMAIN pixels, i \in DOMAIN palette :
            DistSq(palette[index[c]], c) <= DistSq(palette[i], c)
=============================================================================
