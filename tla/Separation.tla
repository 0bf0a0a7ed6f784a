----------------------------- MODULE Separation ------------------------------
(***************************************************************************)
(* Pushing the slots of a palette apart: separate of                       *)
(* src/src/color/tone.rs.                                                  *)
(*                                                                         *)
(* Lightness is an integer; its unit divides all the limits.  Of the       *)
(* distance of two slots the model knows that it is no less than the       *)
(* difference of their lightness: what their hue and chroma, which moves   *)
(* with the lightness, add to it is any amount.                            *)
(***************************************************************************)
EXTENDS Integers

CONSTANTS
    MIN_DE,                 \* pairs closer than this read as duplicates
    SEPARATION_STEP,        \* lightness nudge of a pass
    MAX_SEPARATION_SHIFT,   \* what a slot may accumulate
    MAX_SEPARATION_PASSES,
    Lightness               \* bounds every envelope

ASSUME SeparationAssumption ==
    /\ {MIN_DE, SEPARATION_STEP, MAX_SEPARATION_SHIFT, MAX_SEPARATION_PASSES} \subseteq Nat \ {0}
    /\ Lightness \subseteq Int

VARIABLES
    lo, hi,   \* the mode's envelope
    toned,    \* the lightness of the real slots as toned
    work,     \* and as moved so far
    order,    \* the slots by lightness, fixed at the start
    budget,   \* what each slot may still move
    pair,     \* the pair being pushed apart: <<up, down>>
    moved,    \* this pass moved a slot
    passes,
    step,     \* where the loop is
    reason    \* why separation stopped

sepvars == <<lo, hi, toned, work, order, budget, pair, moved, passes, step, reason>>

\* Also the places in their order.
Slots == DOMAIN toned

Reasons == {"Clear", "Duplicates", "Budget", "Blocked", "Passes"}

\* f sorts the slots by lightness, equal ones by number.
Sorts(f, w) ==
    /\ \A s \in DOMAIN w : \E k \in DOMAIN w : f[k] = s
    /\ \A k, m \in DOMAIN w :
          k < m => w[f[k]] < w[f[m]] \/ (w[f[k]] = w[f[m]] /\ f[k] < f[m])

\* separate starts with up to three real slots, which tone clamped to the envelope.
SepInit ==
    /\ lo \in Lightness
    /\ hi \in Lightness
    /\ \E n \in 1 .. 3 : toned \in [1 .. n -> Lightness]
    /\ \A s \in Slots : lo <= toned[s] /\ toned[s] <= hi
    /\ work = toned
    /\ order \in [Slots -> Slots]
    /\ Sorts(order, work)
    /\ budget = [s \in Slots |-> MAX_SEPARATION_SHIFT]
    /\ pair = <<1, 1>>
    /\ moved = FALSE
    /\ passes = 0
    /\ step = "compare"
    /\ reason = "Passes"

-----------------------------------------------------------------------------
Least(a, b) == IF a <= b THEN a ELSE b
Greatest(a, b) == IF a >= b THEN a ELSE b
Distance(a, b) == IF a <= b THEN b - a ELSE a - b

Rank(s) == CHOOSE k \in Slots : order[k] = s

Stop(why) ==
    /\ step' = "done"
    /\ reason' = why
    /\ UNCHANGED <<lo, hi, toned, work, order, budget, pair, moved, passes>>

\* Fewer than two real picks: nothing to separate.
Nothing ==
    /\ step = "compare"
    /\ \A s, t \in Slots : s = t
    /\ Stop("Duplicates")

\* The closest pair is far enough apart.
FarEnough ==
    /\ step = "compare"
    /\ passes < MAX_SEPARATION_PASSES
    /\ \E s, t \in Slots : s # t
    /\ Stop("Clear")

\* The closest pair collides: its higher slot is to go up, the lower one down.
Collide ==
    /\ step = "compare"
    /\ passes < MAX_SEPARATION_PASSES
    /\ \E up, down \in Slots :
          /\ Rank(up) > Rank(down)
          /\ Distance(work[up], work[down]) < MIN_DE
          /\ pair' = <<up, down>>
    /\ step' = "up"
    /\ moved' = FALSE
    /\ passes' = passes + 1
    /\ UNCHANGED <<lo, hi, toned, work, order, budget, reason>>

\* The pass cap was hit; the distances are looked at once more.
OutOfPasses ==
    /\ step = "compare"
    /\ passes = MAX_SEPARATION_PASSES
    /\ \E why \in {"Passes", "Clear"} : Stop(why)

\* Mutant: the neighbours are not looked at.
AboveAlone(s) == Least(work[s] + Least(SEPARATION_STEP, budget[s]), hi)

\* Where a nudge would take slot s: the envelope first, then the neighbours.
Above(s) ==
    LET free == Least(work[s] + Least(SEPARATION_STEP, budget[s]), hi)
    IN  IF Rank(s) + 1 \in Slots THEN Least(free, work[order[Rank(s) + 1]]) ELSE free
Below(s) ==
    LET free == Greatest(work[s] - Least(SEPARATION_STEP, budget[s]), lo)
    IN  IF Rank(s) - 1 \in Slots THEN Greatest(free, work[order[Rank(s) - 1]]) ELSE free

\* (Neither leads away from the nudge: tone left every slot inside the envelope.)

\* A move costs its length; one of no length is no move.
MoveTo(s, target) ==
    /\ work' = [work EXCEPT ![s] = target]
    /\ budget' = [budget EXCEPT ![s] = @ - Distance(target, work[s])]
    /\ moved' = (moved \/ target # work[s])
    /\ UNCHANGED <<lo, hi, toned, order, pair, passes, reason>>

MoveUp ==
    /\ step = "up"
    /\ MoveTo(pair[1], Above(pair[1]))
    /\ step' = "down"

MoveDown ==
    /\ step = "down"
    /\ MoveTo(pair[2], Below(pair[2]))
    /\ step' = "passed"

\* Exhaustion before blockage.  The distances are looked at once more at the end.
PassOver ==
    /\ step = "passed"
    /\ \/ /\ \A s \in Slots : budget[s] = 0
          /\ \E why \in {"Budget", "Clear"} : Stop(why)
       \/ /\ \E s \in Slots : budget[s] # 0
          /\ ~moved
          /\ \E why \in {"Blocked", "Clear"} : Stop(why)
       \/ /\ \E s \in Slots : budget[s] # 0
          /\ moved
          /\ step' = "compare"
          /\ UNCHANGED <<lo, hi, toned, work, order, budget, pair, moved, passes, reason>>

SepNext == Nothing \/ FarEnough \/ Collide \/ OutOfPasses \/ MoveUp \/ MoveDown \/ PassOver

SepSpec == SepInit /\ [][SepNext]_sepvars

-----------------------------------------------------------------------------
\* Properties.

\* Separation repairs collisions without changing what the palette says: however
\* often a slot is pushed up by one neighbour and down by another, the slots keep
\* the order of lightness they came in and the mode's envelope, and none ends up
\* further than MAX_SEPARATION_SHIFT from where toning put it.
SeparationIsGentle ==
    /\ \A k, m \in Slots : k < m => work[order[k]] <= work[order[m]]
    /\ \A s \in Slots :
          /\ lo <= work[s] /\ work[s] <= hi
          /\ Distance(work[s], toned[s]) <= MAX_SEPARATION_SHIFT
=============================================================================
