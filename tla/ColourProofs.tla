---------------------------- MODULE ColourProofs ----------------------------
(***************************************************************************)
(* That a file is sampled within its limits and from top to bottom, that   *)
(* the picks of a histogram stand, and that separating the slots of a      *)
(* palette keeps their order, the envelope and the limit of displacement,  *)
(* for any limits, envelope, histogram and slots.                          *)
(*                                                                         *)
(* That limit is kept because every move is paid for: what a slot has      *)
(* moved and what it may still move never add up to more than the limit.   *)
(* The order is kept because a nudge ends at the next slot in the order of *)
(* the start, and the slots beyond that one are no nearer.                 *)
(***************************************************************************)
EXTENDS Sampling, Palette, CutProofs

-----------------------------------------------------------------------------
\* The sample.

LEMMA MinOfTwo ==
    ASSUME NEW x \in Int, NEW y \in Int
    PROVE  Min({x, y}) = IF x <= y THEN x ELSE y
<1>1. CASE x <= y
  BY <1>1 DEF Min
<1>2. CASE y < x
  BY <1>2 DEF Min
<1> QED
  BY <1>1, <1>2

LEMMA MaxOfTwo ==
    ASSUME NEW x \in Int, NEW y \in Int
    PROVE  Max({x, y}) = IF x <= y THEN y ELSE x
<1>1. CASE x <= y
  BY <1>1 DEF Max
<1>2. CASE y < x
  BY <1>2 DEF Max
<1> QED
  BY <1>1, <1>2

\* The floor of a quotient.
LEMMA Quotient ==
    ASSUME NEW a \in Int, NEW b \in Nat \ {0}
    PROVE  a \div b \in Int /\ b * (a \div b) <= a /\ a < b * (a \div b) + b
  BY SMT

LEMMA QuotientAtLeast ==
    ASSUME NEW a \in Int, NEW b \in Nat \ {0}, NEW k \in Int, b * k <= a
    PROVE  k <= a \div b
<1> DEFINE q == a \div b
<1>1. q \in Int /\ a < b * q + b
  BY Quotient
<1> HIDE DEF q
<1>2. SUFFICES ASSUME q + 1 <= k PROVE FALSE
  BY <1>1 DEF q
<1>3. b * (q + 1) <= b * k
  BY <1>1, <1>2, SMT
<1>4. b * (q + 1) = b * q + b
  BY <1>1, SMT
<1> QED
  BY <1>1, <1>3, <1>4, SMT

LEMMA QuotientAtMost ==
    ASSUME NEW a \in Int, NEW b \in Nat \ {0}, NEW k \in Int, a < b * k + b
    PROVE  a \div b <= k
<1> DEFINE q == a \div b
<1>1. q \in Int /\ b * q <= a
  BY Quotient
<1> HIDE DEF q
<1>2. SUFFICES ASSUME k + 1 <= q PROVE FALSE
  BY <1>1 DEF q
<1>3. b * (k + 1) <= b * q
  BY <1>1, <1>2, SMT
<1>4. b * (k + 1) = b * k + b
  BY <1>1, SMT
<1> QED
  BY <1>1, <1>3, <1>4, SMT

LEMMA Ceiling ==
    ASSUME NEW a \in Nat, NEW b \in Nat \ {0}
    PROVE  /\ CeilDiv(a, b) \in Nat
           /\ a <= b * CeilDiv(a, b) /\ b * CeilDiv(a, b) < a + b
<1> DEFINE q == (a + b - 1) \div b
<1>1. a + b - 1 \in Int /\ b * 0 <= a + b - 1
  BY SMT
<1>2. q \in Int /\ b * q <= a + b - 1 /\ a + b - 1 < b * q + b /\ 0 <= q
  BY <1>1, Quotient, QuotientAtLeast
<1>3. CeilDiv(a, b) = q
  BY DEF CeilDiv
<1> HIDE DEF q
<1> QED
  BY <1>2, <1>3, SMT

-----------------------------------------------------------------------------
\* The window of an output pixel: its bounds lie inside the side it is taken from, it
\* is not empty, and there are coefficients for it.
LEMMA WindowIsInside ==
    ASSUME NEW f \in Nat \ {0}, NEW t \in Nat \ {0}, NEW x \in 0 .. t - 1
    PROVE  /\ FirstTap(f, t, x) \in Int /\ EndTap(f, t, x) \in Int
           /\ 0 <= FirstTap(f, t, x) /\ FirstTap(f, t, x) < EndTap(f, t, x)
           /\ EndTap(f, t, x) <= f
           /\ EndTap(f, t, x) - FirstTap(f, t, x) <= ksize(f, t)
<1> DEFINE big == Max({f, t})
           at == (2 * x + 1) * f
           low == (at - 4 * big + t) \div (2 * t)
           high == (at + 4 * big + t) \div (2 * t)
<1>1. big \in Nat /\ f <= big /\ t <= big
  BY MaxOfTwo
<1>2. at \in Nat /\ f <= at /\ at + f <= 2 * t * f
  <2>1. 2 * x + 1 \in Nat /\ 1 <= 2 * x + 1 /\ 2 * x + 2 <= 2 * t
    OBVIOUS
  <2>2. 1 * f <= (2 * x + 1) * f /\ (2 * x + 2) * f <= (2 * t) * f
    BY <2>1, SMT
  <2>3. (2 * x + 1) * f \in Nat /\ (2 * x + 2) * f = (2 * x + 1) * f + f
    BY <2>1, SMT
  <2> QED
    BY <2>2, <2>3, SMT
<1> HIDE DEF big, at
<1>3. /\ low \in Int /\ high \in Int /\ 2 * t \in Nat \ {0}
      /\ at - 4 * big + t \in Int /\ at + 4 * big + t \in Int
  BY <1>1, <1>2, SMT
<1>4. low <= f - 1
  <2>1. at - 4 * big + t < (2 * t) * (f - 1) + 2 * t
    BY <1>1, <1>2, SMT
  <2> QED
    BY <2>1, <1>1, <1>2, <1>3, QuotientAtMost
<1>5. 1 <= high
  <2>1. (2 * t) * 1 <= at + 4 * big + t
    BY <1>1, <1>2, SMT
  <2> QED
    BY <2>1, <1>1, <1>2, <1>3, QuotientAtLeast
<1>6. low + 1 <= high
  <2>1. (2 * t) * low <= at - 4 * big + t
    BY <1>1, <1>2, <1>3, Quotient
  <2>2. (2 * t) * (low + 1) = (2 * t) * low + 2 * t
    BY <1>3, SMT
  <2>3. (2 * t) * (low + 1) <= at + 4 * big + t
    BY <2>1, <2>2, <1>1, <1>2, <1>3, SMT
  <2> QED
    BY <2>3, <1>1, <1>2, <1>3, QuotientAtLeast
<1>7. high <= low + ksize(f, t)
  <2> DEFINE c == CeilDiv(2 * big, t)
  <2>1. c \in Int /\ 2 * big <= t * c
    BY <1>1, Ceiling
  <2>2. ksize(f, t) = 2 * c + 1
    BY DEF ksize, big
  <2> HIDE DEF c
  <2>3. at - 4 * big + t < (2 * t) * low + 2 * t
    BY <1>3, Quotient
  <2>4. (2 * t) * (low + (2 * c + 1)) + 2 * t = (2 * t) * low + 2 * t + 4 * (t * c) + 2 * t
    BY <2>1, <1>3, SMT
  <2>5. at + 4 * big + t < (2 * t) * (low + (2 * c + 1)) + 2 * t
    BY <2>1, <2>3, <2>4, <1>1, <1>2, <1>3, SMT
  <2>6. low + (2 * c + 1) \in Int
    BY <2>1, <1>3
  <2>7. high <= low + (2 * c + 1)
    BY <2>5, <2>6, <1>3, QuotientAtMost
  <2> QED
    BY <2>2, <2>7
<1>8. ksize(f, t) \in Int /\ ksize(f, t) >= 0
  <2> DEFINE c == CeilDiv(2 * big, t)
  <2>1. c \in Int /\ 0 <= c
    BY <1>1, Ceiling
  <2>2. ksize(f, t) = 2 * c + 1
    BY DEF ksize, big
  <2> QED
    BY <2>1, <2>2
<1>9. FirstTap(f, t, x) = Max({0, low}) /\ EndTap(f, t, x) = Min({f, high})
  BY DEF FirstTap, EndTap, at, big
<1> HIDE DEF low, high
<1> QED
  BY <1>3, <1>4, <1>5, <1>6, <1>7, <1>8, <1>9, MinOfTwo, MaxOfTwo

\* The windows move on with the output pixel, from the side's first pixel to its last.
LEMMA WindowsMoveOn ==
    ASSUME NEW f \in Nat \ {0}, NEW t \in Nat \ {0},
           NEW x \in 0 .. t - 1, NEW y \in 0 .. t - 1, x <= y
    PROVE  FirstTap(f, t, x) <= FirstTap(f, t, y) /\ EndTap(f, t, x) <= EndTap(f, t, y)
<1> DEFINE big == Max({f, t})
           atx == (2 * x + 1) * f
           aty == (2 * y + 1) * f
           lowx == (atx - 4 * big + t) \div (2 * t)
           lowy == (aty - 4 * big + t) \div (2 * t)
           highx == (atx + 4 * big + t) \div (2 * t)
           highy == (aty + 4 * big + t) \div (2 * t)
<1>1. big \in Nat
  BY MaxOfTwo
<1>2. atx \in Nat /\ aty \in Nat /\ atx <= aty
  <2>1. 2 * x + 1 \in Nat /\ 2 * y + 1 \in Nat /\ 2 * x + 1 <= 2 * y + 1
    OBVIOUS
  <2> QED
    BY <2>1, SMT
<1>3. /\ FirstTap(f, t, x) = Max({0, lowx}) /\ FirstTap(f, t, y) = Max({0, lowy})
      /\ EndTap(f, t, x) = Min({f, highx}) /\ EndTap(f, t, y) = Min({f, highy})
  BY DEF FirstTap, EndTap
<1> HIDE DEF big, atx, aty
<1>4. /\ lowx \in Int /\ lowy \in Int /\ highx \in Int /\ highy \in Int
      /\ 2 * t \in Nat \ {0}
      /\ atx - 4 * big + t \in Int /\ aty - 4 * big + t \in Int
      /\ atx + 4 * big + t \in Int /\ aty + 4 * big + t \in Int
  BY <1>1, <1>2, SMT
<1>5. lowx <= lowy
  <2>1. (2 * t) * lowx <= atx - 4 * big + t
    BY <1>4, Quotient
  <2>2. (2 * t) * lowx <= aty - 4 * big + t
    BY <2>1, <1>1, <1>2, <1>4, SMT
  <2> QED
    BY <2>2, <1>4, QuotientAtLeast
<1>6. highx <= highy
  <2>1. (2 * t) * highx <= atx + 4 * big + t
    BY <1>4, Quotient
  <2>2. (2 * t) * highx <= aty + 4 * big + t
    BY <2>1, <1>1, <1>2, <1>4, SMT
  <2> QED
    BY <2>2, <1>4, QuotientAtLeast
<1> HIDE DEF lowx, lowy, highx, highy
<1> QED
  BY <1>3, <1>4, <1>5, <1>6, MinOfTwo, MaxOfTwo

LEMMA FirstWindow ==
    ASSUME NEW f \in Nat \ {0}, NEW t \in Nat \ {0}
    PROVE  FirstTap(f, t, 0) = 0
<1> DEFINE big == Max({f, t})
           low == (f - 4 * big + t) \div (2 * t)
<1>1. big \in Nat /\ f <= big /\ t <= big
  BY MaxOfTwo
<1>2. (2 * 0 + 1) * f = f
  OBVIOUS
<1>3. FirstTap(f, t, 0) = Max({0, low})
  BY <1>2 DEF FirstTap
<1> HIDE DEF big
<1>4. low \in Int /\ low <= 0
  <2>1. f - 4 * big + t \in Int /\ 2 * t \in Nat \ {0}
    BY <1>1
  <2>2. f - 4 * big + t < (2 * t) * 0 + 2 * t
    BY <1>1, SMT
  <2> QED
    BY <2>1, <2>2, Quotient, QuotientAtMost
<1> HIDE DEF low
<1> QED
  BY <1>3, <1>4, MaxOfTwo

LEMMA LastWindow ==
    ASSUME NEW f \in Nat \ {0}, NEW t \in Nat \ {0}
    PROVE  EndTap(f, t, t - 1) = f
<1> DEFINE big == Max({f, t})
           at == (2 * (t - 1) + 1) * f
           high == (at + 4 * big + t) \div (2 * t)
<1>1. big \in Nat /\ f <= big /\ t <= big
  BY MaxOfTwo
<1>2. at \in Int /\ at + f = (2 * t) * f
  BY SMT
<1>3. EndTap(f, t, t - 1) = Min({f, high})
  BY DEF EndTap
<1> HIDE DEF big, at
<1>4. high \in Int /\ f <= high
  <2>1. at + 4 * big + t \in Int /\ 2 * t \in Nat \ {0}
    BY <1>1, <1>2
  <2>2. (2 * t) * f <= at + 4 * big + t
    BY <1>1, <1>2, SMT
  <2> QED
    BY <2>1, <2>2, Quotient, QuotientAtLeast
<1> HIDE DEF high
<1> QED
  BY <1>3, <1>4, MinOfTwo

-----------------------------------------------------------------------------
\* The rows r, n of them, show an image of m rows: each shows some, in their order, from
\* the first row to the last.
Shows(r, n, m) ==
    /\ DOMAIN r = 0 .. n - 1
    /\ \A y \in 0 .. n - 1 : r[y] # {} /\ r[y] \subseteq 0 .. m - 1
    /\ \A y, z \in 0 .. n - 1 :
          y < z => Min(r[y]) <= Min(r[z]) /\ Max(r[y]) <= Max(r[z])
    /\ Min(r[0]) = 0
    /\ Max(r[n - 1]) = m - 1

LEMMA LeastIs ==
    ASSUME NEW T, NEW x \in T, T \subseteq Int, \A y \in T : x <= y
    PROVE  Min(T) = x
<1>1. Min(T) \in T /\ \A y \in T : Min(T) <= y
  BY DEF Min
<1>2. Min(T) <= x /\ x <= Min(T) /\ Min(T) \in Int
  BY <1>1
<1> QED
  BY <1>2

LEMMA GreatestIs ==
    ASSUME NEW T, NEW x \in T, T \subseteq Int, \A y \in T : y <= x
    PROVE  Max(T) = x
<1>1. Max(T) \in T /\ \A y \in T : y <= Max(T)
  BY DEF Max
<1>2. Max(T) <= x /\ x <= Max(T) /\ Max(T) \in Int
  BY <1>1
<1> QED
  BY <1>2

\* The rows a window takes show from the first of them to the last.
LEMMA WindowShows ==
    ASSUME NEW n \in Nat \ {0}, NEW m \in Nat \ {0}, NEW r, Shows(r, n, m),
           NEW a \in 0 .. n - 1, NEW b \in 0 .. n - 1, a <= b
    PROVE  /\ RowsOf(r, a .. b) # {} /\ RowsOf(r, a .. b) \subseteq 0 .. m - 1
           /\ Min(RowsOf(r, a .. b)) = Min(r[a])
           /\ Max(RowsOf(r, a .. b)) = Max(r[b])
<1> DEFINE U == RowsOf(r, a .. b)
<1>1. \A y \in 0 .. n - 1 :
        /\ Min(r[y]) \in r[y] /\ \A v \in r[y] : Min(r[y]) <= v
        /\ Max(r[y]) \in r[y] /\ \A v \in r[y] : v <= Max(r[y])
  <2> TAKE y \in 0 .. n - 1
  <2>1. r[y] # {} /\ r[y] \subseteq 0 .. m - 1 /\ m - 1 \in Nat
    BY DEF Shows
  <2> QED
    BY <2>1, ExtremesOf
<1>2. \A v : v \in U <=> \E y \in a .. b : v \in r[y]
  BY DEF RowsOf
<1>3. \A y \in a .. b : y \in 0 .. n - 1
  OBVIOUS
<1>4. \A v \in U : v \in 0 .. m - 1
  BY <1>2, <1>3 DEF Shows
<1>5. Min(r[a]) \in U /\ Max(r[b]) \in U
  <2>1. a \in a .. b /\ b \in a .. b
    OBVIOUS
  <2> QED
    BY <1>1, <1>2, <2>1
<1>6. \A v \in U : Min(r[a]) <= v /\ v <= Max(r[b])
  <2> TAKE v \in U
  <2>1. PICK y \in a .. b : v \in r[y]
    BY <1>2
  <2>2. Min(r[y]) <= v /\ v <= Max(r[y])
    BY <1>1, <1>3, <2>1
  <2>3. Min(r[a]) <= Min(r[y]) /\ Max(r[y]) <= Max(r[b])
    <3>1. a < y => Min(r[a]) <= Min(r[y])
      BY <1>3 DEF Shows
    <3>2. y < b => Max(r[y]) <= Max(r[b])
      BY <1>3 DEF Shows
    <3>3. /\ Min(r[a]) \in Int /\ Max(r[b]) \in Int
          /\ Min(r[y]) \in Int /\ Max(r[y]) \in Int
      BY <1>1, <1>3 DEF Shows
    <3> QED
      BY <3>1, <3>2, <3>3
  <2>4. /\ Min(r[a]) \in Int /\ Max(r[b]) \in Int /\ v \in Int
        /\ Min(r[y]) \in Int /\ Max(r[y]) \in Int
    BY <1>1, <1>3, <1>4, SMTT(30) DEF Shows
  <2> QED
    BY <2>2, <2>3, <2>4
<1>7. U # {} /\ U \subseteq 0 .. m - 1 /\ U \subseteq Int
  BY <1>4, <1>5
<1> HIDE DEF U
<1>8. Min(U) = Min(r[a]) /\ Max(U) = Max(r[b])
  BY <1>5, <1>6, <1>7, LeastIs, GreatestIs
<1> QED
  BY <1>7, <1>8 DEF U

\* Resampling rows that show an image gives rows that show it: the shifted bounds of
\* the second pass meet the rows that the first one put there.
LEMMA ResampledShows ==
    ASSUME NEW m \in Nat \ {0}, NEW r, NEW v \in Nat \ {0}, NEW size, size[2] = v,
           NEW w, NEW h \in Nat \ {0}, Shows(r, v, m)
    PROVE  Shows(Resampled(r, size, w, h), h, m)
<1> DEFINE first == ybox_first(v, h)
           last == ybox_last(v, h)
           wide == IF w # size[1] THEN CutRows(r, first, last) ELSE r
           out == ShiftedRows(wide, v, h, IF w # size[1] THEN first ELSE 0)
<1>1. first = 0 /\ last = v
  BY FirstWindow, LastWindow DEF ybox_first, ybox_last
<1>2. Shows(CutRows(r, first, last), v, m)
  <2> DEFINE c == CutRows(r, first, last)
  <2>1. c = [y \in 0 .. v - 1 |-> r[y + 0]]
    BY <1>1 DEF CutRows
  <2>2. DOMAIN c = 0 .. v - 1 /\ \A y \in 0 .. v - 1 : c[y] = r[y]
    BY <2>1
  <2>3. 0 \in 0 .. v - 1 /\ v - 1 \in 0 .. v - 1
    OBVIOUS
  <2> HIDE DEF c
  <2>4. Shows(c, v, m)
    BY <2>2, <2>3 DEF Shows
  <2> QED
    BY <2>4 DEF c
<1>3. Shows(wide, v, m)
  BY <1>2
<1>4. Resampled(r, size, w, h) = IF h # v THEN out ELSE wide
  BY DEF Resampled
<1>5. out = [y \in 0 .. h - 1 |-> RowsOf(wide, FirstTap(v, h, y) .. (EndTap(v, h, y) - 1))]
  <2>1. out = ShiftedRows(wide, v, h, 0)
    BY <1>1
  <2>2. \A y \in 0 .. h - 1 :
          /\ FirstTap(v, h, y) - 0 = FirstTap(v, h, y)
          /\ EndTap(v, h, y) - 0 - 1 = EndTap(v, h, y) - 1
    BY WindowIsInside
  <2> HIDE DEF wide
  <2> QED
    BY <2>1, <2>2 DEF ShiftedRows
<1> HIDE DEF wide, out
<1>6. Shows(out, h, m)
  <2> DEFINE a(y) == FirstTap(v, h, y)
             b(y) == EndTap(v, h, y) - 1
  <2>1. \A y \in 0 .. h - 1 : a(y) \in 0 .. v - 1 /\ b(y) \in 0 .. v - 1 /\ a(y) <= b(y)
    <3> TAKE y \in 0 .. h - 1
    <3>1. /\ FirstTap(v, h, y) \in Int /\ EndTap(v, h, y) \in Int
          /\ 0 <= FirstTap(v, h, y) /\ FirstTap(v, h, y) < EndTap(v, h, y)
          /\ EndTap(v, h, y) <= v
      BY WindowIsInside
    <3> QED
      BY <3>1
  <2>2. \A y, z \in 0 .. h - 1 : y < z => a(y) <= a(z) /\ b(y) <= b(z)
    <3> TAKE y, z \in 0 .. h - 1
    <3> HAVE y < z
    <3>1. FirstTap(v, h, y) <= FirstTap(v, h, z) /\ EndTap(v, h, y) <= EndTap(v, h, z)
      BY WindowsMoveOn
    <3> QED
      BY <3>1, <2>1, WindowIsInside
  <2>3. a(0) = 0 /\ b(h - 1) = v - 1
    BY FirstWindow, LastWindow
  <2> HIDE DEF a, b
  <2>4. \A y \in 0 .. h - 1 :
          /\ out[y] # {} /\ out[y] \subseteq 0 .. m - 1
          /\ Min(out[y]) = Min(wide[a(y)]) /\ Max(out[y]) = Max(wide[b(y)])
    <3> TAKE y \in 0 .. h - 1
    <3>1. out[y] = RowsOf(wide, a(y) .. b(y))
      BY <1>5 DEF a, b
    <3>2. a(y) \in 0 .. v - 1 /\ b(y) \in 0 .. v - 1 /\ a(y) <= b(y)
      BY <2>1
    <3>3. /\ RowsOf(wide, a(y) .. b(y)) # {} /\ RowsOf(wide, a(y) .. b(y)) \subseteq 0 .. m - 1
          /\ Min(RowsOf(wide, a(y) .. b(y))) = Min(wide[a(y)])
          /\ Max(RowsOf(wide, a(y) .. b(y))) = Max(wide[b(y)])
      <4> DEFINE p == a(y)
                 q == b(y)
      <4>1. p \in 0 .. v - 1 /\ q \in 0 .. v - 1 /\ p <= q
        BY <3>2
      <4> HIDE DEF p, q
      <4>2. /\ RowsOf(wide, p .. q) # {} /\ RowsOf(wide, p .. q) \subseteq 0 .. m - 1
            /\ Min(RowsOf(wide, p .. q)) = Min(wide[p])
            /\ Max(RowsOf(wide, p .. q)) = Max(wide[q])
        BY <1>3, <4>1, WindowShows
      <4> QED
        BY <4>2 DEF p, q
    <3> QED
      BY <3>1, <3>3
  <2>5. \A y \in 0 .. v - 1 : Min(wide[y]) \in Int /\ Max(wide[y]) \in Int
    <3> TAKE y \in 0 .. v - 1
    <3>1. wide[y] # {} /\ wide[y] \subseteq 0 .. m - 1 /\ m - 1 \in Nat
      BY <1>3 DEF Shows
    <3>2. Min(wide[y]) \in wide[y] /\ Max(wide[y]) \in wide[y]
      BY <3>1, ExtremesOf
    <3> QED
      BY <3>1, <3>2
  <2>6. \A y, z \in 0 .. v - 1 :
           y <= z => Min(wide[y]) <= Min(wide[z]) /\ Max(wide[y]) <= Max(wide[z])
    BY <1>3, <2>5 DEF Shows
  <2>7. \A y, z \in 0 .. h - 1 :
          y < z => Min(out[y]) <= Min(out[z]) /\ Max(out[y]) <= Max(out[z])
    BY <2>1, <2>2, <2>4, <2>6
  <2>8. Min(out[0]) = 0 /\ Max(out[h - 1]) = m - 1
    <3>1. 0 \in 0 .. h - 1 /\ h - 1 \in 0 .. h - 1
      OBVIOUS
    <3> QED
      BY <3>1, <1>3, <2>3, <2>4 DEF Shows
  <2>9. DOMAIN out = 0 .. h - 1
    BY <1>5
  <2> QED
    BY <2>4, <2>7, <2>8, <2>9 DEF Shows
<1> QED
  BY <1>3, <1>4, <1>6

-----------------------------------------------------------------------------
\* The draft of a JPEG.

\* The scale of a draft is the largest that still fits the sample.
LEMMA DraftFits ==
    ASSUME NEW w \in Nat \ {0}, NEW h \in Nat \ {0}
    PROVE  LET s == DraftScale(w, h)
               Fits(k) == w >= k * SAMPLE[1] /\ h >= k * SAMPLE[2]
           IN  s \in {1, 2, 4, 8} /\ (s > 1 => Fits(s) /\ (s < 8 => ~Fits(2 * s)))
<1> DEFINE a == w \div SAMPLE[1]
           b == h \div SAMPLE[2]
           times == Min({a, b})
           Fits(k) == w >= k * SAMPLE[1] /\ h >= k * SAMPLE[2]
           fit == {s \in {8, 4, 2} : times >= s} \cup {1}
<1>1. SAMPLE[1] \in Nat \ {0} /\ SAMPLE[2] \in Nat \ {0}
  BY SamplingAssumption
<1>2. a \in Int /\ b \in Int
  BY <1>1, Quotient
<1>3. \A k \in Nat : (k <= a <=> w >= k * SAMPLE[1]) /\ (k <= b <=> h >= k * SAMPLE[2])
  <2> TAKE k \in Nat
  <2>1. k * SAMPLE[1] = SAMPLE[1] * k /\ k * SAMPLE[2] = SAMPLE[2] * k
    BY <1>1, SMT
  <2>2. w >= k * SAMPLE[1] => k <= a
    BY <1>1, <2>1, QuotientAtLeast
  <2>3. h >= k * SAMPLE[2] => k <= b
    BY <1>1, <2>1, QuotientAtLeast
  <2>4. w < SAMPLE[1] * (k - 1) + SAMPLE[1] => a <= k - 1
    BY <1>1, QuotientAtMost
  <2>5. h < SAMPLE[2] * (k - 1) + SAMPLE[2] => b <= k - 1
    BY <1>1, QuotientAtMost
  <2>6. /\ SAMPLE[1] * (k - 1) + SAMPLE[1] = SAMPLE[1] * k
        /\ SAMPLE[2] * (k - 1) + SAMPLE[2] = SAMPLE[2] * k
    <3>1. \A z \in Nat : z * (k - 1) + z = z * k
      BY SMT
    <3> QED
      BY <1>1, <3>1
  <2> HIDE DEF a, b
  <2> QED
    BY <1>1, <1>2, <2>1, <2>2, <2>3, <2>4, <2>5, <2>6, SMT
<1> HIDE DEF a, b
<1>4. times \in Int /\ \A k \in Nat : k <= times <=> Fits(k)
  BY <1>2, <1>3, MinOfTwo
<1>5. DraftScale(w, h) = Max(fit)
  BY DEF DraftScale, a, b
<1> HIDE DEF times, Fits
<1>6. CASE times >= 8
  <2>1. fit = {8, 4, 2, 1}
    BY <1>4, <1>6
  <2>2. Max(fit) = 8
    BY <2>1, GreatestIs
  <2> QED
    BY <1>4, <1>5, <1>6, <2>2 DEF Fits
<1>7. CASE times >= 4 /\ times < 8
  <2>1. fit = {4, 2, 1}
    BY <1>4, <1>7
  <2>2. Max(fit) = 4
    BY <2>1, GreatestIs
  <2>3. Fits(4) /\ ~Fits(8)
    BY <1>4, <1>7
  <2> QED
    BY <1>5, <2>2, <2>3 DEF Fits
<1>8. CASE times >= 2 /\ times < 4
  <2>1. fit = {2, 1}
    BY <1>4, <1>8
  <2>2. Max(fit) = 2
    BY <2>1, GreatestIs
  <2>3. Fits(2) /\ ~Fits(4)
    BY <1>4, <1>8
  <2> QED
    BY <1>5, <2>2, <2>3 DEF Fits
<1>9. CASE times < 2
  <2>1. fit = {1}
    BY <1>4, <1>9
  <2>2. Max(fit) = 1
    BY <2>1, GreatestIs
  <2> QED
    BY <1>5, <2>2
<1> QED
  BY <1>4, <1>6, <1>7, <1>8, <1>9

\* The blocks of a draft show the image.
LEMMA BlocksShow ==
    ASSUME NEW m \in Nat \ {0}, NEW s \in {1, 2, 4, 8}
    PROVE  /\ CeilDiv(m, s) \in Nat \ {0} /\ CeilDiv(m, s) <= m
           /\ Shows([i \in 0 .. CeilDiv(m, s) - 1 |-> Block(s, i, m)], CeilDiv(m, s), m)
<1> DEFINE n == CeilDiv(m, s)
           r == [i \in 0 .. n - 1 |-> Block(s, i, m)]
           end(i) == IF (i + 1) * s <= m THEN (i + 1) * s - 1 ELSE m - 1
<1>1. n \in Nat \ {0} /\ n <= m /\ m <= s * n /\ s * n < m + s
  <2>1. n \in Nat /\ m <= s * n /\ s * n < m + s
    BY Ceiling
  <2> HIDE DEF n
  <2> QED
    BY <2>1
<1>2. \A i \in 0 .. n - 1 :
         i * s \in Nat /\ i * s <= m - 1 /\ end(i) \in 0 .. m - 1 /\ i * s <= end(i)
  <2> HIDE DEF n
  <2> QED
    BY <1>1
<1>3. \A i \in 0 .. n - 1 :
        /\ r[i] # {} /\ r[i] \subseteq 0 .. m - 1
        /\ Min(r[i]) = i * s /\ Max(r[i]) = end(i)
  <2> TAKE i \in 0 .. n - 1
  <2>1. r[i] = {j \in 0 .. m - 1 : j >= i * s /\ j < (i + 1) * s}
    BY DEF Block
  <2> HIDE DEF n, r
  <2>2. i * s \in r[i] /\ end(i) \in r[i] /\ r[i] \subseteq Int
    BY <1>1, <1>2, <2>1
  <2>3. \A j \in r[i] : i * s <= j /\ j <= end(i)
    BY <1>1, <1>2, <2>1
  <2> HIDE DEF end
  <2>4. Min(r[i]) = i * s /\ Max(r[i]) = end(i)
    BY <2>2, <2>3, LeastIs, GreatestIs
  <2> QED
    BY <2>1, <2>2, <2>4
<1>4. DOMAIN r = 0 .. n - 1
  OBVIOUS
<1> HIDE DEF n, r
<1>5. \A i, j \in 0 .. n - 1 : i < j => i * s <= j * s /\ end(i) <= end(j)
  BY <1>1
<1>6. 0 \in 0 .. n - 1 /\ n - 1 \in 0 .. n - 1 /\ 0 * s = 0 /\ end(n - 1) = m - 1
  BY <1>1
<1> HIDE DEF end
<1>7. Shows(r, n, m)
  BY <1>3, <1>4, <1>5, <1>6 DEF Shows
<1> QED
  BY <1>1, <1>7 DEF n, r

-----------------------------------------------------------------------------
\* The invariant: what has been read is within its budget, what is in memory is no larger
\* than what was declared within its own, and shows all of it.

Sides == Nat \ {0}

\* A raster that is in memory.
RasterOK ==
    /\ held <= MAX_DECODE_BYTES
    /\ declared \in Headers
    /\ declared[1] * declared[2] <= MAX_PIXELS
    /\ raster \in Sides \X Sides
    /\ \A side \in {1, 2} : raster[side] <= Max({declared[side], SAMPLE[side]})
    /\ Shows(rows, raster[2], declared[2])
    /\ format = "jpeg" =>
          LET Fits(s) == declared[1] >= s * SAMPLE[1] /\ declared[2] >= s * SAMPLE[2]
          IN  scale > 1 => Fits(scale) /\ (scale < 8 => ~Fits(2 * scale))

\* The inductive invariant: what the decoder holds at each step.
SampleInv ==
    /\ held \in Nat /\ held <= MAX_DECODE_BYTES + 1
    /\ reading \in {"open", "read", "guess", "header", "decode", "resize", "over"}
    /\ reading \in {"guess", "header", "decode"} => held <= MAX_DECODE_BYTES
    /\ reading = "decode" =>
          declared \in Headers /\ declared[1] * declared[2] <= MAX_PIXELS
    /\ reading \in {"open", "read", "guess", "header", "decode", "resize"} => refused = "no"
    /\ reading \in {"open", "read", "guess", "header", "decode"} => raster = <<0, 0>>
    /\ reading = "over" /\ refused # "no" => raster = <<0, 0>>
    /\ reading = "resize" => RasterOK
    /\ reading = "over" /\ refused = "no" => RasterOK /\ raster = SAMPLE

LEMMA SampleInitInv ==
    ASSUME SampleInit
    PROVE  SampleInv
BY SamplingAssumption DEF SampleInit, SampleInv

LEMMA RefuseStep ==
    ASSUME SampleInv, NEW why, why # "no", Refuse(why),
           reading \in {"open", "read", "guess", "header", "decode"}
    PROVE  SampleInv'
BY DEF SampleInv, Refuse

LEMMA ReadStep ==
    ASSUME SampleInv, OpenFile \/ ReadFile
    PROVE  SampleInv'
<1>1. CASE OpenFile
  <2>1. CASE Refuse("Io") \/ Refuse("TooLarge")
    BY <1>1, <2>1, RefuseStep DEF OpenFile
  <2>2. CASE reading' = "read"
             /\ UNCHANGED <<refused, held, format, declared, raster, scale, rows>>
    BY <1>1, <2>2 DEF OpenFile, SampleInv
  <2> QED
    BY <1>1, <2>1, <2>2 DEF OpenFile
<1>2. CASE ReadFile
  <2>1. CASE Refuse("Io")
    BY <1>2, <2>1, RefuseStep DEF ReadFile
  <2>2. CASE ~Refuse("Io")
    <3>1. PICK size \in Sizes :
            /\ held' = Min({size, MAX_DECODE_BYTES + 1})
            /\ IF held' > MAX_DECODE_BYTES
               THEN reading' = "over" /\ refused' = "TooLarge"
               ELSE reading' = "guess" /\ UNCHANGED refused
      BY <1>2, <2>2 DEF ReadFile
    <3>2. held' \in Nat /\ held' <= MAX_DECODE_BYTES + 1
      BY <3>1, SamplingAssumption, MinOfTwo
    <3>3. \/ reading' = "over" /\ refused' = "TooLarge"
          \/ reading' = "guess" /\ UNCHANGED refused /\ held' <= MAX_DECODE_BYTES
      BY <3>1, <3>2, SamplingAssumption
    <3>4. reading = "read" /\ UNCHANGED <<format, declared, raster, scale, rows>>
      BY <1>2, <2>2 DEF ReadFile
    <3> QED
      BY <3>2, <3>3, <3>4 DEF SampleInv
  <2> QED
    BY <2>1, <2>2
<1> QED
  BY <1>1, <1>2

LEMMA HeaderStep ==
    ASSUME SampleInv, GuessFormat \/ ReadHeader
    PROVE  SampleInv'
<1>1. CASE Refuse("Unaccepted") \/ Refuse("Corrupt") \/ Refuse("TooManyPixels")
  BY <1>1, RefuseStep DEF GuessFormat, ReadHeader
<1>2. CASE GuessFormat /\ reading' = "header"
           /\ UNCHANGED <<refused, held, declared, raster, scale, rows>>
  BY <1>2 DEF GuessFormat, SampleInv
<1>3. CASE /\ reading = "header"
           /\ \E size \in Headers : size[1] * size[2] <= MAX_PIXELS /\ declared' = size
           /\ reading' = "decode"
           /\ UNCHANGED <<refused, held, format, raster, scale, rows>>
  BY <1>3 DEF SampleInv
<1>4. ReadHeader =>
        \/ Refuse("Corrupt") \/ Refuse("TooManyPixels")
        \/ /\ reading = "header"
           /\ \E size \in Headers : size[1] * size[2] <= MAX_PIXELS /\ declared' = size
           /\ reading' = "decode"
           /\ UNCHANGED <<refused, held, format, raster, scale, rows>>
  <2> SUFFICES ASSUME ReadHeader, ~Refuse("Corrupt"), ~Refuse("TooManyPixels")
               PROVE  /\ reading = "header"
                      /\ \E size \in Headers : size[1] * size[2] <= MAX_PIXELS /\ declared' = size
                      /\ reading' = "decode"
                      /\ UNCHANGED <<refused, held, format, raster, scale, rows>>
    OBVIOUS
  <2>1. PICK size \in Headers :
            /\ ~(size[1] * size[2] > MAX_PIXELS)
            /\ declared' = size /\ reading' = "decode"
            /\ UNCHANGED <<refused, held, format, raster, scale, rows>>
    BY DEF ReadHeader
  <2>2. size[1] \in Nat /\ size[2] \in Nat
    BY SamplingAssumption
  <2>3. size[1] * size[2] \in Int /\ MAX_PIXELS \in Int
    BY <2>2, SamplingAssumption, SMT
  <2>4. size[1] * size[2] <= MAX_PIXELS
    BY <2>1, <2>3
  <2> QED
    BY <2>1, <2>4 DEF ReadHeader
<1> QED
  BY <1>1, <1>2, <1>3, <1>4 DEF GuessFormat

LEMMA DecodeStep ==
    ASSUME SampleInv, Decode
    PROVE  SampleInv'
<1>1. CASE Refuse("Corrupt")
  BY <1>1, RefuseStep DEF Decode
<1>2. CASE ~Refuse("Corrupt")
  <2> DEFINE w == declared[1]
             h == declared[2]
  <2>1. /\ reading = "decode" /\ reading' = "resize"
        /\ scale' = IF format = "jpeg" THEN DraftScale(w, h) ELSE 1
        /\ raster' = <<CeilDiv(w, scale'), CeilDiv(h, scale')>>
        /\ rows' = [i \in 0 .. raster'[2] - 1 |-> Block(scale', i, h)]
        /\ UNCHANGED <<refused, held, format, declared>>
    BY <1>2 DEF Decode
  <2>2. /\ declared \in Headers /\ w * h <= MAX_PIXELS
        /\ held \in Nat /\ held <= MAX_DECODE_BYTES /\ refused = "no"
    BY <2>1 DEF SampleInv
  <2>3. w \in Nat \ {0} /\ h \in Nat \ {0} /\ SAMPLE[1] \in Nat /\ SAMPLE[2] \in Nat
    BY <2>2, SamplingAssumption
  <2>4. scale' \in {1, 2, 4, 8}
    BY <2>1, <2>3, DraftFits
  <2>5. /\ CeilDiv(w, scale') \in Nat \ {0} /\ CeilDiv(w, scale') <= w
        /\ CeilDiv(h, scale') \in Nat \ {0} /\ CeilDiv(h, scale') <= h
        /\ Shows([i \in 0 .. CeilDiv(h, scale') - 1 |-> Block(scale', i, h)],
                 CeilDiv(h, scale'), h)
    BY <2>3, <2>4, BlocksShow
  <2>6. RasterOK'
    <3>1. /\ raster' \in Sides \X Sides
          /\ raster'[1] = CeilDiv(w, scale') /\ raster'[2] = CeilDiv(h, scale')
      BY <2>1, <2>5 DEF Sides
    <3>2. \A side \in {1, 2} : raster'[side] <= Max({declared'[side], SAMPLE[side]})
      <4>1. /\ \A side \in {1, 2} : declared[side] \in Int /\ SAMPLE[side] \in Int
            /\ raster'[1] \in Int /\ raster'[2] \in Int
        BY <2>3, <2>5, <3>1
      <4>2. \A side \in {1, 2} : declared[side] <= Max({declared[side], SAMPLE[side]})
                                /\ Max({declared[side], SAMPLE[side]}) \in Int
        BY <4>1, MaxOfTwo
      <4>3. \A side \in {1, 2} : raster'[side] <= declared[side]
        BY <2>5, <3>1
      <4>4. UNCHANGED declared
        BY <2>1
      <4> QED
        BY <4>1, <4>2, <4>3, <4>4
    <3>3. Shows(rows', raster'[2], declared'[2])
      BY <2>1, <2>5, <3>1
    <3>4. format' = "jpeg" =>
            LET Fits(s) == declared'[1] >= s * SAMPLE[1] /\ declared'[2] >= s * SAMPLE[2]
            IN  scale' > 1 => Fits(scale') /\ (scale' < 8 => ~Fits(2 * scale'))
      <4> SUFFICES ASSUME format' = "jpeg", scale' > 1
                   PROVE  /\ w >= scale' * SAMPLE[1] /\ h >= scale' * SAMPLE[2]
                          /\ scale' < 8 =>
                                ~(w >= (2 * scale') * SAMPLE[1] /\ h >= (2 * scale') * SAMPLE[2])
        BY <2>1
      <4>1. scale' = DraftScale(w, h)
        BY <2>1
      <4> QED
        BY <2>3, <4>1, DraftFits
    <3> QED
      BY <2>1, <2>2, <3>1, <3>2, <3>3, <3>4 DEF RasterOK
  <2> QED
    BY <2>1, <2>2, <2>6 DEF SampleInv
<1> QED
  BY <1>1, <1>2

LEMMA ResizeStep ==
    ASSUME SampleInv, ResizeTall \/ Resize
    PROVE  SampleInv'
<1>1. /\ reading = "resize" /\ RasterOK /\ refused = "no"
      /\ UNCHANGED <<refused, held, format, declared, scale>>
      /\ held \in Nat /\ held <= MAX_DECODE_BYTES + 1
  BY DEF SampleInv, ResizeTall, Resize
<1>2. /\ declared[2] \in Nat \ {0} /\ declared[1] \in Nat
      /\ raster[1] \in Nat \ {0} /\ raster[2] \in Nat \ {0}
      /\ SAMPLE[1] \in Nat \ {0} /\ SAMPLE[2] \in Nat \ {0}
      /\ SAMPLE \in Sides \X Sides /\ SAMPLE = <<SAMPLE[1], SAMPLE[2]>>
      /\ Shows(rows, raster[2], declared[2])
  BY <1>1, SamplingAssumption DEF RasterOK, Sides
<1>3. \A w : Shows(Resampled(rows, raster, w, SAMPLE[2]), SAMPLE[2], declared[2])
  BY <1>2, ResampledShows
<1>4. CASE ResizeTall
  <2>1. /\ raster' = <<raster[1], SAMPLE[2]>> /\ reading' = "resize"
        /\ rows' = Resampled(rows, raster, raster[1], SAMPLE[2])
    BY <1>1, <1>4 DEF ResizeTall
  <2>2. Shows(rows', raster'[2], declared'[2])
    BY <1>1, <1>3, <2>1
  <2>3. raster' \in Sides \X Sides /\ raster'[1] = raster[1] /\ raster'[2] = SAMPLE[2]
    BY <1>2, <2>1 DEF Sides
  <2>4. \A side \in {1, 2} : raster'[side] <= Max({declared'[side], SAMPLE[side]})
    BY <1>1, <1>2, <2>3, MaxOfTwo DEF RasterOK
  <2>5. RasterOK'
    BY <1>1, <2>2, <2>3, <2>4 DEF RasterOK
  <2> QED
    BY <1>1, <2>1, <2>5 DEF SampleInv
<1>5. CASE Resize
  <2>1. /\ raster' = SAMPLE /\ reading' = "over"
        /\ rows' = IF raster = SAMPLE THEN rows
                   ELSE Resampled(rows, raster, SAMPLE[1], SAMPLE[2])
    BY <1>5 DEF Resize
  <2>2. Shows(rows', raster'[2], declared'[2])
    BY <1>1, <1>2, <1>3, <2>1
  <2>3. raster' \in Sides \X Sides
    BY <1>2, <2>1
  <2>4. \A side \in {1, 2} : raster'[side] <= Max({declared'[side], SAMPLE[side]})
    <3>1. \A side \in {1, 2} : declared[side] \in Int /\ SAMPLE[side] \in Int
      BY <1>2
    <3>2. \A side \in {1, 2} : SAMPLE[side] <= Max({declared[side], SAMPLE[side]})
      BY <3>1, MaxOfTwo
    <3> QED
      BY <1>1, <2>1, <3>2
  <2>5. RasterOK'
    BY <1>1, <2>2, <2>3, <2>4 DEF RasterOK
  <2> QED
    BY <1>1, <2>1, <2>5 DEF SampleInv
<1> QED
  BY <1>4, <1>5

LEMMA SampleInvIsSound ==
    ASSUME SampleInv
    PROVE  SampleIsSound
<1>1. raster # <<0, 0>> => RasterOK
  BY DEF SampleInv
<1>2. SamplingIsBounded
  BY <1>1 DEF SampleInv, RasterOK, SamplingIsBounded
<1>3. ASSUME reading = "resize", NEW side \in {1, 2}, NEW x \in 0 .. SAMPLE[side] - 1
      PROVE  LET first == FirstTap(raster[side], SAMPLE[side], x)
                 end == EndTap(raster[side], SAMPLE[side], x)
             IN  /\ 0 <= first /\ first < end /\ end <= raster[side]
                 /\ end - first <= ksize(raster[side], SAMPLE[side])
  <2>1. raster[side] \in Nat \ {0} /\ SAMPLE[side] \in Nat \ {0}
    BY <1>3, SamplingAssumption DEF SampleInv, RasterOK, Sides
  <2> QED
    BY <2>1, WindowIsInside
<1>4. ASSUME reading = "over", refused = "no"
      PROVE  /\ DOMAIN rows = 0 .. SAMPLE[2] - 1
             /\ \A y \in DOMAIN rows : rows[y] # {}
             /\ \A y, z \in DOMAIN rows :
                   y < z => Min(rows[y]) <= Min(rows[z]) /\ Max(rows[y]) <= Max(rows[z])
             /\ Min(rows[0]) = 0
             /\ Max(rows[SAMPLE[2] - 1]) = declared[2] - 1
  BY <1>4 DEF SampleInv, RasterOK, Shows
<1>5. SampleShowsTheImage
  BY <1>3, <1>4 DEF SampleShowsTheImage
<1> QED
  BY <1>2, <1>5 DEF SampleIsSound

\* Whatever a file says of itself, what is read of it stays within MAX_DECODE_BYTES
\* and what is decoded within MAX_PIXELS; a refusal leaves no raster; a JPEG is drafted
\* at the scale that fits the sample best; and a sample shows the image from its first
\* row to its last, in order, whatever passes it took: sample_file and decode of
\* color/decode.rs, resize of color/resize.rs, for every header, every size of the
\* sample and every limit.
THEOREM SamplesAreSound == SampleSpec => []SampleIsSound
<1>1. ASSUME SampleInv, [SampleNext]_samvars
      PROVE  SampleInv'
  <2>1. CASE UNCHANGED samvars
    BY <1>1, <2>1 DEF SampleInv, RasterOK, samvars
  <2>2. CASE SampleNext
    BY <1>1, <2>2, ReadStep, HeaderStep, DecodeStep, ResizeStep DEF SampleNext
  <2> QED
    BY <1>1, <2>1, <2>2
<1>2. SampleInv => SampleIsSound
  BY SampleInvIsSound
<1> QED
  BY <1>1, <1>2, SampleInitInv, PTL DEF SampleSpec

-----------------------------------------------------------------------------
\* The separation of the slots.

Shape ==
    /\ \E n \in 1 .. 3 : Slots = 1 .. n
    /\ lo \in Int
    /\ hi \in Int
    /\ toned \in [Slots -> Int]
    /\ work \in [Slots -> Int]
    /\ order \in [Slots -> Slots]
    /\ budget \in [Slots -> Int]
    /\ pair \in Slots \X Slots

\* order is a permutation of the slots.
Permutes ==
    /\ \A s \in Slots : \E k \in Slots : order[k] = s
    /\ \A k, m \in Slots : order[k] = order[m] => k = m

Ordered == \A k, m \in Slots : k < m => work[order[k]] <= work[order[m]]
Enclosed == \A s \in Slots : lo <= work[s] /\ work[s] <= hi

\* What a slot has moved and what it may still move.
Paid ==
    \A s \in Slots :
        /\ 0 <= budget[s]
        /\ Distance(work[s], toned[s]) + budget[s] <= MAX_SEPARATION_SHIFT

SInv == Shape /\ Permutes /\ Ordered /\ Enclosed /\ Paid

-----------------------------------------------------------------------------
LEMMA Limits ==
    /\ SEPARATION_STEP \in Int /\ 0 < SEPARATION_STEP
    /\ MAX_SEPARATION_SHIFT \in Int /\ 0 < MAX_SEPARATION_SHIFT
BY SeparationAssumption

\* A slot's rank is its place in the order.
LEMMA RankIsPlace ==
    ASSUME SInv, NEW s \in Slots
    PROVE  Rank(s) \in Slots /\ order[Rank(s)] = s
BY DEF SInv, Permutes, Rank

\* A nudge upwards goes up, by no more than the budget, and stays in the envelope
\* and below the slots that rank higher.
LEMMA AboveBounds ==
    ASSUME SInv, NEW s \in Slots
    PROVE  /\ Above(s) \in Int
           /\ work[s] <= Above(s)
           /\ Above(s) <= work[s] + budget[s]
           /\ Above(s) <= hi
           /\ \A m \in Slots : Rank(s) < m => Above(s) <= work[order[m]]
<1> DEFINE free == Least(work[s] + Least(SEPARATION_STEP, budget[s]), hi)
           next == Rank(s) + 1
<1>1. /\ Rank(s) \in Slots
      /\ order[Rank(s)] = s
  BY RankIsPlace
<1>2. /\ free \in Int
      /\ work[s] <= free
      /\ free <= work[s] + budget[s]
      /\ free <= hi
  <2>1. /\ work[s] \in Int
        /\ budget[s] \in Int
        /\ hi \in Int
    BY DEF SInv, Shape
  <2>2. 0 <= budget[s] /\ work[s] <= hi
    BY DEF SInv, Enclosed, Paid
  <2> QED
    BY <2>1, <2>2, Limits DEF Least
<1>3. PICK n \in 1 .. 3 : Slots = 1 .. n
  BY DEF SInv, Shape
<1>4. CASE next \in Slots
  <2>1. Above(s) = Least(free, work[order[next]])
    BY <1>4 DEF Above
  <2>2. order[next] \in Slots /\ work[order[next]] \in Int
    BY <1>4 DEF SInv, Shape
  <2>3. work[s] <= work[order[next]]
    BY <1>1, <1>3, <1>4 DEF SInv, Ordered
  <2>4. ASSUME NEW m \in Slots, Rank(s) < m
        PROVE  work[order[next]] <= work[order[m]]
    <3>1. m = next \/ next < m
      BY <1>1, <1>3, <2>4
    <3>2. work[order[m]] \in Int
      BY DEF SInv, Shape
    <3> QED
      BY <1>4, <2>2, <3>1, <3>2 DEF SInv, Ordered
  <2>5. /\ Least(free, work[order[next]]) \in Int
        /\ Least(free, work[order[next]]) <= free
        /\ Least(free, work[order[next]]) <= work[order[next]]
        /\ work[s] <= Least(free, work[order[next]])
    BY <1>2, <2>2, <2>3 DEF Least
  <2>6. /\ work[s] \in Int
        /\ budget[s] \in Int
        /\ hi \in Int
        /\ \A m \in Slots : work[order[m]] \in Int
    BY DEF SInv, Shape
  <2> HIDE DEF free, next
  <2> QED
    BY <1>2, <2>1, <2>2, <2>4, <2>5, <2>6 DEF next
<1>5. CASE next \notin Slots
  <2>1. Above(s) = free
    BY <1>5 DEF Above
  <2>2. \A m \in Slots : ~(Rank(s) < m)
    BY <1>1, <1>3, <1>5
  <2> QED
    BY <1>2, <2>1, <2>2
<1> QED
  BY <1>4, <1>5

\* A nudge downwards likewise.
LEMMA BelowBounds ==
    ASSUME SInv, NEW s \in Slots
    PROVE  /\ Below(s) \in Int
           /\ Below(s) <= work[s]
           /\ work[s] - budget[s] <= Below(s)
           /\ lo <= Below(s)
           /\ \A k \in Slots : k < Rank(s) => work[order[k]] <= Below(s)
<1> DEFINE free == Greatest(work[s] - Least(SEPARATION_STEP, budget[s]), lo)
           prev == Rank(s) - 1
<1>1. /\ Rank(s) \in Slots
      /\ order[Rank(s)] = s
  BY RankIsPlace
<1>2. /\ free \in Int
      /\ free <= work[s]
      /\ work[s] - budget[s] <= free
      /\ lo <= free
  <2>1. /\ work[s] \in Int
        /\ budget[s] \in Int
        /\ lo \in Int
    BY DEF SInv, Shape
  <2>2. 0 <= budget[s] /\ lo <= work[s]
    BY DEF SInv, Enclosed, Paid
  <2> QED
    BY <2>1, <2>2, Limits DEF Least, Greatest
<1>3. PICK n \in 1 .. 3 : Slots = 1 .. n
  BY DEF SInv, Shape
<1>4. CASE prev \in Slots
  <2>1. Below(s) = Greatest(free, work[order[prev]])
    BY <1>4 DEF Below
  <2>2. order[prev] \in Slots /\ work[order[prev]] \in Int
    BY <1>4 DEF SInv, Shape
  <2>3. work[order[prev]] <= work[s]
    BY <1>1, <1>3, <1>4 DEF SInv, Ordered
  <2>4. ASSUME NEW k \in Slots, k < Rank(s)
        PROVE  work[order[k]] <= work[order[prev]]
    <3>1. k = prev \/ k < prev
      BY <1>1, <1>3, <2>4
    <3>2. work[order[k]] \in Int
      BY DEF SInv, Shape
    <3> QED
      BY <1>4, <2>2, <3>1, <3>2 DEF SInv, Ordered
  <2>5. /\ Greatest(free, work[order[prev]]) \in Int
        /\ free <= Greatest(free, work[order[prev]])
        /\ work[order[prev]] <= Greatest(free, work[order[prev]])
        /\ Greatest(free, work[order[prev]]) <= work[s]
    BY <1>2, <2>2, <2>3 DEF Greatest
  <2>6. /\ work[s] \in Int
        /\ budget[s] \in Int
        /\ lo \in Int
        /\ \A m \in Slots : work[order[m]] \in Int
    BY DEF SInv, Shape
  <2> HIDE DEF free, prev
  <2> QED
    BY <1>2, <2>1, <2>2, <2>4, <2>5, <2>6 DEF prev
<1>5. CASE prev \notin Slots
  <2>1. Below(s) = free
    BY <1>5 DEF Below
  <2>2. \A m \in Slots : ~(m < Rank(s))
    BY <1>1, <1>3, <1>5
  <2> QED
    BY <1>2, <2>1, <2>2
<1> QED
  BY <1>4, <1>5

\* A move that stays between the neighbours, in the envelope and within the budget
\* keeps the invariant.
LEMMA MoveKeeps ==
    ASSUME SInv, NEW s \in Slots, NEW target \in Int, MoveTo(s, target),
           lo <= target, target <= hi,
           Distance(target, work[s]) <= budget[s],
           \A m \in Slots : Rank(s) < m => target <= work[order[m]],
           \A k \in Slots : k < Rank(s) => work[order[k]] <= target
    PROVE  SInv'
<1>1. /\ Rank(s) \in Slots
      /\ order[Rank(s)] = s
  BY RankIsPlace
<1>2. /\ work' = [work EXCEPT ![s] = target]
      /\ budget' = [budget EXCEPT ![s] = @ - Distance(target, work[s])]
      /\ UNCHANGED <<lo, hi, toned, order, pair>>
  BY DEF MoveTo
<1>3. /\ Slots' = Slots
      /\ work' \in [Slots -> Int]
      /\ work'[s] = target
      /\ \A t \in Slots : t # s => work'[t] = work[t] /\ budget'[t] = budget[t]
  BY <1>2 DEF SInv, Shape, Slots
<1>4. /\ work[s] \in Int
      /\ toned[s] \in Int
      /\ budget[s] \in Int
  BY DEF SInv, Shape
<1>5. /\ Distance(target, work[s]) \in Int
      /\ Distance(work[s], toned[s]) \in Int
      /\ Distance(target, toned[s]) \in Int
      /\ Distance(target, toned[s]) <= Distance(work[s], toned[s]) + Distance(target, work[s])
  BY <1>4 DEF Distance
<1>6. budget'[s] = budget[s] - Distance(target, work[s])
  BY <1>2 DEF SInv, Shape
<1>7. budget' \in [Slots -> Int]
  <2>1. budget[s] - Distance(target, work[s]) \in Int
    BY <1>4, <1>5
  <2>2. budget \in [Slots -> Int]
    BY DEF SInv, Shape
  <2> QED
    BY <1>2, <2>1, <2>2
<1>8. Shape'
  BY <1>2, <1>3, <1>7 DEF SInv, Shape
<1>9. Permutes'
  BY <1>2, <1>3 DEF SInv, Permutes
<1>10. Ordered'
  <2> SUFFICES ASSUME NEW k \in Slots, NEW m \in Slots, k < m
               PROVE  work'[order[k]] <= work'[order[m]]
    BY <1>2, <1>3 DEF Ordered
  <2>1. order[k] \in Slots /\ order[m] \in Slots /\ order[k] # order[m]
    <3>1. k # m
      BY DEF SInv, Shape
    <3> QED
      BY <3>1 DEF SInv, Shape, Permutes
  <2>2. CASE order[k] = s
    <3>1. k = Rank(s)
      BY <1>1, <2>2 DEF SInv, Permutes
    <3> QED
      BY <1>3, <2>1, <2>2, <3>1
  <2>3. CASE order[m] = s
    <3>1. m = Rank(s)
      BY <1>1, <2>3 DEF SInv, Permutes
    <3> QED
      BY <1>3, <2>1, <2>3, <3>1
  <2>4. CASE order[k] # s /\ order[m] # s
    BY <1>3, <2>1, <2>4 DEF SInv, Ordered
  <2> QED
    BY <2>2, <2>3, <2>4
<1>11. Enclosed'
  BY <1>2, <1>3 DEF SInv, Enclosed
<1>12. Paid'
  <2> SUFFICES ASSUME NEW t \in Slots
               PROVE  /\ 0 <= budget'[t]
                      /\ Distance(work'[t], toned[t]) + budget'[t] <= MAX_SEPARATION_SHIFT
    BY <1>2, <1>3 DEF Paid, Distance
  <2>1. CASE t # s
    BY <1>3, <2>1 DEF SInv, Paid
  <2>2. CASE t = s
    <3>1. Distance(work[s], toned[s]) + budget[s] <= MAX_SEPARATION_SHIFT
      BY DEF SInv, Paid
    <3> QED
      BY <1>3, <1>4, <1>5, <1>6, <2>2, <3>1, Limits
  <2> QED
    BY <2>1, <2>2
<1> QED
  BY <1>8, <1>9, <1>10, <1>11, <1>12 DEF SInv

-----------------------------------------------------------------------------
LEMMA SInvInit == SepInit => SInv
<1> SUFFICES ASSUME SepInit
             PROVE  SInv
  OBVIOUS
<1>1. PICK n \in 1 .. 3 : toned \in [1 .. n -> Lightness]
  BY DEF SepInit
<1>2. Slots = 1 .. n
  BY <1>1 DEF Slots
<1>3. /\ toned \in [Slots -> Int]
      /\ work = toned
      /\ \A s \in Slots : work[s] \in Int
  BY <1>1, <1>2, SeparationAssumption DEF SepInit
<1>4. Shape
  <2>1. budget \in [Slots -> Int]
    BY Limits DEF SepInit
  <2>2. pair \in Slots \X Slots
    BY <1>2 DEF SepInit
  <2> QED
    BY <1>1, <1>2, <1>3, <2>1, <2>2, SeparationAssumption DEF SepInit, Shape
<1>5. Slots = DOMAIN work
  BY <1>3
<1>6. /\ \A s \in Slots : \E k \in Slots : order[k] = s
      /\ \A k, m \in Slots :
            k < m => \/ work[order[k]] < work[order[m]]
                     \/ work[order[k]] = work[order[m]] /\ order[k] < order[m]
  BY <1>5 DEF SepInit, Sorts
<1>7. Permutes
  <2> SUFFICES ASSUME NEW k \in Slots, NEW m \in Slots, order[k] = order[m]
               PROVE  k = m
    BY <1>6 DEF Permutes
  <2>1. order[k] \in Slots /\ order[k] \in Int /\ work[order[k]] \in Int
    BY <1>2, <1>3, <1>4 DEF Shape
  <2>2. ~(k < m) /\ ~(m < k)
    BY <1>6, <2>1
  <2> QED
    BY <1>2, <2>2
<1>8. Ordered
  <2> SUFFICES ASSUME NEW k \in Slots, NEW m \in Slots, k < m
               PROVE  work[order[k]] <= work[order[m]]
    BY DEF Ordered
  <2>1. work[order[k]] \in Int /\ work[order[m]] \in Int
    BY <1>4 DEF Shape
  <2> QED
    BY <1>6, <2>1
<1>9. Enclosed
  BY <1>3 DEF SepInit, Enclosed
<1>10. Paid
  <2> SUFFICES ASSUME NEW s \in Slots
               PROVE  /\ 0 <= budget[s]
                      /\ Distance(work[s], toned[s]) + budget[s] <= MAX_SEPARATION_SHIFT
    BY DEF Paid
  <2>1. budget[s] = MAX_SEPARATION_SHIFT
    BY DEF SepInit
  <2>2. Distance(work[s], toned[s]) = 0
    BY <1>3 DEF Distance
  <2> QED
    BY <2>1, <2>2, Limits
<1> QED
  BY <1>4, <1>7, <1>8, <1>9, <1>10 DEF SInv

\* Nothing the invariant speaks of changes but the pair.
LEMMA OnlyPairChanges ==
    ASSUME SInv, UNCHANGED <<lo, hi, toned, work, order, budget>>, pair' \in Slots \X Slots
    PROVE  SInv'
<1>1. Slots' = Slots
  BY DEF Slots
<1>2. Shape'
  BY <1>1 DEF SInv, Shape
<1>3. Permutes'
  BY <1>1 DEF SInv, Permutes
<1>4. Ordered'
  BY <1>1 DEF SInv, Ordered
<1>5. Enclosed'
  BY <1>1 DEF SInv, Enclosed
<1>6. Paid'
  BY <1>1 DEF SInv, Paid, Distance
<1> QED
  BY <1>2, <1>3, <1>4, <1>5, <1>6 DEF SInv

LEMMA SInvNext == SInv /\ [SepNext]_sepvars => SInv'
<1> SUFFICES ASSUME SInv, [SepNext]_sepvars
             PROVE  SInv'
  OBVIOUS
<1>1. pair \in Slots \X Slots
  BY DEF SInv, Shape
<1>2. ASSUME NEW why, Stop(why)
      PROVE  SInv'
  BY <1>1, <1>2, OnlyPairChanges DEF Stop
<1>3. CASE Nothing
  BY <1>2, <1>3 DEF Nothing
<1>4. CASE FarEnough
  BY <1>2, <1>4 DEF FarEnough
<1>5. CASE Collide
  <2>1. pair' \in Slots \X Slots
    BY <1>5 DEF Collide
  <2> QED
    BY <1>5, <2>1, OnlyPairChanges DEF Collide
<1>6. CASE OutOfPasses
  BY <1>2, <1>6 DEF OutOfPasses
<1>7. CASE MoveUp
  <2> DEFINE s == pair[1]
  <2>1. s \in Slots
    BY <1>1
  <2>2. MoveTo(s, Above(s))
    BY <1>7 DEF MoveUp
  <2>3. /\ work[s] \in Int
        /\ budget[s] \in Int
        /\ lo \in Int
        /\ lo <= work[s]
    BY <2>1 DEF SInv, Shape, Enclosed
  <2>4. /\ Above(s) \in Int
        /\ work[s] <= Above(s)
        /\ Above(s) <= work[s] + budget[s]
        /\ Above(s) <= hi
        /\ \A m \in Slots : Rank(s) < m => Above(s) <= work[order[m]]
    BY <2>1, AboveBounds
  <2>5. lo <= Above(s) /\ Distance(Above(s), work[s]) <= budget[s]
    BY <2>3, <2>4 DEF Distance
  <2>6. \A k \in Slots : k < Rank(s) => work[order[k]] <= Above(s)
    <3> SUFFICES ASSUME NEW k \in Slots, k < Rank(s)
                 PROVE  work[order[k]] <= Above(s)
      OBVIOUS
    <3>1. Rank(s) \in Slots /\ order[Rank(s)] = s
      BY <2>1, RankIsPlace
    <3>2. work[order[k]] \in Int /\ work[order[k]] <= work[s]
      BY <3>1 DEF SInv, Shape, Ordered
    <3> QED
      BY <2>3, <2>4, <3>2
  <2> QED
    BY <2>1, <2>2, <2>4, <2>5, <2>6, MoveKeeps
<1>8. CASE MoveDown
  <2> DEFINE s == pair[2]
  <2>1. s \in Slots
    BY <1>1
  <2>2. MoveTo(s, Below(s))
    BY <1>8 DEF MoveDown
  <2>3. /\ work[s] \in Int
        /\ budget[s] \in Int
        /\ hi \in Int
        /\ work[s] <= hi
    BY <2>1 DEF SInv, Shape, Enclosed
  <2>4. /\ Below(s) \in Int
        /\ Below(s) <= work[s]
        /\ work[s] - budget[s] <= Below(s)
        /\ lo <= Below(s)
        /\ \A k \in Slots : k < Rank(s) => work[order[k]] <= Below(s)
    BY <2>1, BelowBounds
  <2>5. Below(s) <= hi /\ Distance(Below(s), work[s]) <= budget[s]
    BY <2>3, <2>4 DEF Distance
  <2>6. \A m \in Slots : Rank(s) < m => Below(s) <= work[order[m]]
    <3> SUFFICES ASSUME NEW m \in Slots, Rank(s) < m
                 PROVE  Below(s) <= work[order[m]]
      OBVIOUS
    <3>1. Rank(s) \in Slots /\ order[Rank(s)] = s
      BY <2>1, RankIsPlace
    <3>2. work[order[m]] \in Int /\ work[s] <= work[order[m]]
      BY <3>1 DEF SInv, Shape, Ordered
    <3> QED
      BY <2>3, <2>4, <3>2
  <2> QED
    BY <2>1, <2>2, <2>4, <2>5, <2>6, MoveKeeps
<1>9. CASE PassOver
  BY <1>1, <1>2, <1>9, OnlyPairChanges DEF PassOver
<1>10. CASE UNCHANGED sepvars
  BY <1>1, <1>10, OnlyPairChanges DEF sepvars
<1> QED
  BY <1>3, <1>4, <1>5, <1>6, <1>7, <1>8, <1>9, <1>10 DEF SepNext

LEMMA SInvSuffices == SInv => SeparationIsGentle
<1> SUFFICES ASSUME SInv, NEW s \in Slots
             PROVE  Distance(work[s], toned[s]) <= MAX_SEPARATION_SHIFT
  BY DEF SInv, Ordered, Enclosed, SeparationIsGentle
<1>1. /\ Distance(work[s], toned[s]) \in Int
      /\ budget[s] \in Int
      /\ 0 <= budget[s]
      /\ Distance(work[s], toned[s]) + budget[s] <= MAX_SEPARATION_SHIFT
  <2>1. work[s] \in Int /\ toned[s] \in Int /\ budget[s] \in Int
    BY DEF SInv, Shape
  <2>2. Distance(work[s], toned[s]) \in Int
    BY <2>1 DEF Distance
  <2> QED
    BY <2>1, <2>2 DEF SInv, Paid
<1> QED
  BY <1>1, Limits

\* Separation never reorders the slots it is given, never leaves the envelope, and
\* moves none by more than MAX_SEPARATION_SHIFT, whatever the limits, the envelope
\* and the slots (up to three, inside the envelope): separate of color/tone.rs.
THEOREM SeparationStaysGentle == SepSpec => []SeparationIsGentle
<1>1. SepSpec => []SInv
  BY SInvInit, SInvNext, PTL DEF SepSpec
<1> QED
  BY <1>1, SInvSuffices, PTL

\* Counting up: a set that has 0 and with a number the next one, up to n.
LEMMA UpTo ==
    ASSUME NEW n \in Nat, NEW T, 0 \in T, \A k \in 1 .. n : k - 1 \in T => k \in T
    PROVE  0 .. n \subseteq T
<1> DEFINE U == {k \in 0 .. n : k \notin T}
<1>1. SUFFICES ASSUME U # {} PROVE FALSE
  OBVIOUS
<1>2. U \subseteq Nat
  OBVIOUS
<1>3. PICK x \in U : \A y \in U : x <= y
  BY <1>1, <1>2, LeastOf
<1>4. x \in 1 .. n /\ x - 1 \in 0 .. n /\ ~(x <= x - 1)
  BY <1>3
<1>5. x - 1 \in T
  BY <1>3, <1>4
<1> QED
  BY <1>3, <1>4, <1>5

-----------------------------------------------------------------------------
\* Rank.
LEMMA ScoresAreNumbers ==
    ASSUME NEW h \in Seq(Entries)
    PROVE  /\ Total(h) \in Nat
           /\ \A i \in DOMAIN h :
                 /\ h[i].count \in Nat /\ h[i].vibrancy \in Nat /\ h[i].l \in Lightness
                 /\ Score(h[i], Total(h)) \in Nat
<1> DEFINE D == DOMAIN h
           f == [i \in D |-> h[i].count]
<1>1. IsFiniteSet(D) /\ \A i \in D : f[i] \in Nat
  <2>1. DOMAIN h = 1 .. Len(h) /\ Len(h) \in Nat
    OBVIOUS
  <2>2. \A i \in 1 .. Len(h) : h[i] \in Entries
    OBVIOUS
  <2>3. IsFiniteSet(1 .. Len(h))
    BY <2>1, FS_Interval
  <2> QED
    BY <2>1, <2>2, <2>3 DEF Entries
<1>2. Total(h) \in Nat
  <2>1. Total(h) = SumFunctionOnSet(f, D)
    BY DEF Total, SumFunction
  <2> HIDE DEF f, D
  <2> QED
    BY <1>1, <2>1, SumsAreNumbers
<1>3. ASSUME NEW i \in DOMAIN h
      PROVE  /\ h[i].count \in Nat /\ h[i].vibrancy \in Nat /\ h[i].l \in Lightness
             /\ Score(h[i], Total(h)) \in Nat
  <2> DEFINE e == h[i]
             t == Total(h)
  <2>1. e \in Entries
    OBVIOUS
  <2>2. e.count \in Nat /\ e.vibrancy \in Nat /\ e.l \in Lightness
    BY <2>1 DEF Entries
  <2>3. t \in Nat
    BY <1>2
  <2> HIDE DEF e, t
  <2>4. e.vibrancy * t \in Nat
    BY <2>2, <2>3, SMT
  <2>5. Score(e, t) \in Nat
    BY <2>2, <2>3, <2>4, SMTT(30) DEF Score
  <2> QED
    BY <2>2, <2>5 DEF e, t
<1> QED
  BY <1>2, <1>3

\* Outranking is a strict order of the entries, and no speck outranks what is none.
LEMMA OutrankingOrders ==
    ASSUME NEW h \in Seq(Entries), NEW i \in DOMAIN h, NEW j \in DOMAIN h
    PROVE  /\ ~Outranks(h, i, i)
           /\ i # j => Outranks(h, i, j) \/ Outranks(h, j, i)
           /\ Outranks(h, i, j) => ~Outranks(h, j, i)
           /\ \A k \in DOMAIN h : Outranks(h, i, j) /\ Outranks(h, j, k) => Outranks(h, i, k)
           /\ 100 * h[i].count < Total(h) /\ ~(100 * h[j].count < Total(h)) => Outranks(h, j, i)
<1>1. DOMAIN h \subseteq Nat
  OBVIOUS
<1> DEFINE t == Total(h)
           si == Score(h[i], t)
           sj == Score(h[j], t)
<1>2. si \in Nat /\ sj \in Nat /\ t \in Nat
  BY ScoresAreNumbers
<1>3. Outranks(h, i, j) <=> si > sj \/ (si = sj /\ i < j)
  BY DEF Outranks
<1>4. Outranks(h, j, i) <=> sj > si \/ (sj = si /\ j < i)
  BY DEF Outranks
<1>5. ~Outranks(h, i, i)
  BY <1>1, <1>2 DEF Outranks
<1>6. ASSUME NEW k \in DOMAIN h, Outranks(h, i, j), Outranks(h, j, k)
      PROVE  Outranks(h, i, k)
  <2> DEFINE sk == Score(h[k], t)
  <2>1. sk \in Nat
    BY ScoresAreNumbers
  <2>2. Outranks(h, j, k) <=> sj > sk \/ (sj = sk /\ j < k)
    BY DEF Outranks
  <2>3. Outranks(h, i, k) <=> si > sk \/ (si = sk /\ i < k)
    BY DEF Outranks
  <2> HIDE DEF si, sj, sk
  <2> QED
    BY <1>1, <1>2, <1>3, <1>6, <2>1, <2>2, <2>3
<1>7. ASSUME 100 * h[i].count < t, ~(100 * h[j].count < t)
      PROVE  Outranks(h, j, i)
  <2> DEFINE ci == h[i].count
             cj == h[j].count
             vj == h[j].vibrancy
  <2>1. ci \in Nat /\ cj \in Nat /\ vj \in Nat
    BY ScoresAreNumbers
  <2>2. si = 200 * ci /\ sj = 200 * cj + vj * t
    BY <1>7, <1>2, <2>1 DEF Score
  <2> HIDE DEF ci, cj, vj, si, sj, t
  <2>3. vj * t \in Nat
    BY <1>2, <2>1, SMT
  <2>4. ci < cj
    BY <1>2, <1>7, <2>1 DEF ci, cj
  <2>5. sj > si
    BY <2>1, <2>2, <2>3, <2>4
  <2> QED
    BY <1>4, <2>5
<1> HIDE DEF si, sj
<1> QED
  BY <1>1, <1>2, <1>3, <1>4, <1>5, <1>6, <1>7 DEF t

\* Who outranks i.
Before(h, i) == {j \in DOMAIN h : Outranks(h, j, i)}

\* Every place in the ranking has its entry, and who outranks stands before.
LEMMA RankingOrders ==
    ASSUME NEW h \in Seq(Entries)
    PROVE  /\ Ranked(h) \in [1 .. Len(h) -> 1 .. Len(h)]
           /\ \A i \in 1 .. Len(h) : \E k \in 1 .. Len(h) : Ranked(h)[k] = i
           /\ \A k, m \in 1 .. Len(h) : k < m => Outranks(h, Ranked(h)[k], Ranked(h)[m])
<1> DEFINE n == Len(h)
           c(i) == Cardinality(Before(h, i))
<1>1. DOMAIN h = 1 .. n /\ n \in Nat
  OBVIOUS
<1>2. ASSUME NEW i \in 1 .. n
      PROVE  /\ IsFiniteSet(Before(h, i)) /\ c(i) \in 0 .. n - 1
             /\ \A j \in 1 .. n : Outranks(h, j, i) => c(j) < c(i)
  <2>1. IsFiniteSet(1 .. n) /\ Cardinality(1 .. n) = n
    BY <1>1, FS_Interval
  <2>2. i \notin Before(h, i) /\ Before(h, i) \subseteq 1 .. n
    BY <1>1, OutrankingOrders DEF Before
  <2>3. IsFiniteSet(Before(h, i)) /\ c(i) <= n /\ (n = c(i) => 1 .. n = Before(h, i))
    BY <2>1, <2>2, FS_Subset
  <2>4. c(i) \in Nat
    BY <2>3, FS_CardinalityType
  <2>5. c(i) # n
    BY <2>2, <2>3
  <2>6. ASSUME NEW j \in 1 .. n, Outranks(h, j, i)
        PROVE  c(j) < c(i)
    <3>1. Before(h, j) \subseteq Before(h, i)
      BY <1>1, <2>6, OutrankingOrders DEF Before
    <3>2. j \in Before(h, i) /\ j \notin Before(h, j)
      BY <1>1, <2>6, OutrankingOrders DEF Before
    <3>3. IsFiniteSet(Before(h, j)) /\ c(j) <= c(i) /\ (c(i) = c(j) => Before(h, i) = Before(h, j))
      BY <2>3, <3>1, FS_Subset
    <3>4. c(j) \in Nat
      BY <3>3, FS_CardinalityType
    <3> HIDE DEF c
    <3> QED
      BY <2>4, <3>2, <3>3, <3>4
  <2> HIDE DEF c
  <2> QED
    BY <1>1, <2>3, <2>4, <2>5, <2>6
<1> HIDE DEF c
<1>3. \A i, j \in 1 .. n : c(i) = c(j) => i = j
  <2> SUFFICES ASSUME NEW i \in 1 .. n, NEW j \in 1 .. n, c(i) = c(j), i # j
               PROVE  FALSE
    OBVIOUS
  <2>1. Outranks(h, i, j) \/ Outranks(h, j, i)
    BY <1>1, OutrankingOrders
  <2>2. c(i) \in Int /\ c(j) \in Int
    BY <1>2
  <2> QED
    BY <1>2, <2>1, <2>2
<1>4. \A p \in 0 .. n - 1 : \E i \in 1 .. n : c(i) = p
  <2> DEFINE f == [i \in 1 .. n |-> c(i)]
  <2>1. f \in [1 .. n -> 0 .. n - 1]
    BY <1>2
  <2>2. f \in Injection(1 .. n, 0 .. n - 1)
    BY <1>3, <2>1 DEF Injection, IsInjective
  <2>3. IsFiniteSet(1 .. n) /\ IsFiniteSet(0 .. n - 1)
        /\ Cardinality(1 .. n) = Cardinality(0 .. n - 1)
    BY <1>1, FS_Interval
  <2> HIDE DEF f
  <2>4. f \in Surjection(1 .. n, 0 .. n - 1)
    BY <2>2, <2>3, FS_Injection
  <2>5. \A p \in 0 .. n - 1 : \E i \in 1 .. n : f[i] = p
    BY <2>4 DEF Surjection
  <2> QED
    BY <2>5 DEF f
<1>5. ASSUME NEW k \in 1 .. n
      PROVE  Ranked(h)[k] \in 1 .. n /\ c(Ranked(h)[k]) = k - 1
  <2>1. k - 1 \in 0 .. n - 1
    BY <1>1
  <2>2. \E i \in 1 .. n : c(i) = k - 1
    BY <1>4, <2>1
  <2>3. Ranked(h)[k] = CHOOSE i \in 1 .. n : c(i) = k - 1
    BY <1>1 DEF Ranked, c, Before
  <2> QED
    BY <2>2, <2>3
<1>6. Ranked(h) \in [1 .. n -> 1 .. n]
  <2>1. \A k \in 1 .. n : Ranked(h)[k] \in 1 .. n
    BY <1>5
  <2> QED
    BY <1>1, <2>1 DEF Ranked
<1>7. ASSUME NEW i \in 1 .. n PROVE \E k \in 1 .. n : Ranked(h)[k] = i
  <2> DEFINE k == c(i) + 1
  <2>1. k \in 1 .. n /\ k - 1 = c(i)
    BY <1>1, <1>2
  <2> HIDE DEF k
  <2>2. c(Ranked(h)[k]) = c(i) /\ Ranked(h)[k] \in 1 .. n
    BY <1>5, <2>1
  <2>3. Ranked(h)[k] = i
    BY <1>3, <2>2
  <2> QED
    BY <2>1, <2>3
<1>8. ASSUME NEW k \in 1 .. n, NEW m \in 1 .. n, k < m
      PROVE  Outranks(h, Ranked(h)[k], Ranked(h)[m])
  <2> DEFINE i == Ranked(h)[k]
             j == Ranked(h)[m]
  <2>1. i \in 1 .. n /\ j \in 1 .. n /\ c(i) = k - 1 /\ c(j) = m - 1
    BY <1>5
  <2> HIDE DEF i, j
  <2>2. i # j /\ ~(c(j) < c(i))
    BY <1>1, <1>8, <2>1
  <2>3. Outranks(h, i, j)
    BY <1>1, <1>2, <2>1, <2>2, OutrankingOrders
  <2> QED
    BY <2>3 DEF i, j
<1> QED
  BY <1>6, <1>7, <1>8

-----------------------------------------------------------------------------
\* The picks.
LEMMA NearIsSymmetric ==
    ASSUME NEW h \in Seq(Entries), NEW i \in DOMAIN h, NEW j \in DOMAIN h
    PROVE  Near(h[i], h[i]) /\ (Near(h[i], h[j]) <=> Near(h[j], h[i]))
<1>1. h[i].l \in Int /\ h[j].l \in Int
  BY ScoresAreNumbers, SeparationAssumption
<1>2. SELECT_MIN_DE \in Nat \ {0}
  BY PaletteAssumption
<1> QED
  BY <1>1, <1>2 DEF Near, Distance

\* What is picked after the entry of rank k has been looked at.
Taken(h, k, p) ==
    LET i == Ranked(h)[k]
    IN  IF Len(p) < 3 /\ \A m \in DOMAIN p : ~Near(h[i], h[p[m]]) THEN Append(p, i) ELSE p

\* The recursion of Picked, one entry at a time in the order of rank.
LEMMA PickedStepByStep ==
    ASSUME NEW h \in Seq(Entries)
    PROVE  \E P \in [0 .. Len(h) -> Seq(1 .. Len(h))] :
              /\ P[0] = <<>>
              /\ \A k \in 1 .. Len(h) : P[k] = Taken(h, k, P[k - 1])
              /\ Picked(h) = P[Len(h)]
<1> DEFINE n == Len(h)
           D == 0 .. n
           V == Seq(1 .. n)
           Body(k, g) == IF k = 0 THEN <<>> ELSE Taken(h, k, g[k - 1])
           Step(g) == [k \in D |-> Body(k, g)]
           S == CHOOSE g : g = Step(g)
           r == [k \in D |-> k]
           F == [x \in D \X [D -> V] |-> Body(x[1], x[2])]
<1>1. n \in Nat /\ \A k \in D : k \in Nat /\ (k # 0 => k \in 1 .. n /\ k - 1 \in D)
  OBVIOUS
<1>2. \A k \in 1 .. n, p \in V : Taken(h, k, p) \in V
  <2> TAKE k \in 1 .. n, p \in V
  <2>1. Ranked(h)[k] \in 1 .. n
    BY RankingOrders
  <2>2. Append(p, Ranked(h)[k]) \in V
    BY <2>1
  <2> QED
    BY <2>2 DEF Taken
<1>3. <<>> \in V
  OBVIOUS
<1> HIDE DEF n, D, V
<1>4. \A k \in D, g \in [D -> V] : Body(k, g) \in V
  <2> TAKE k \in D, g \in [D -> V]
  <2>1. CASE k = 0
    BY <1>3, <2>1
  <2>2. CASE k # 0
    <3>1. k \in 1 .. n /\ g[k - 1] \in V
      BY <1>1, <2>2
    <3> QED
      BY <1>2, <2>2, <3>1
  <2> QED
    BY <2>1, <2>2
<1>5. F \in [D \X [D -> V] -> V]
  <2> HIDE DEF Body
  <2> QED
    BY <1>4
<1>6. LooksDown(F, D, V, r)
  <2> SUFFICES ASSUME NEW k \in D, NEW f \in [D -> V], NEW g \in [D -> V],
                      \A e \in D : r[e] < r[k] => f[e] = g[e]
               PROVE  F[<<k, f>>] = F[<<k, g>>]
    BY DEF LooksDown
  <2>1. F[<<k, f>>] = Body(k, f) /\ F[<<k, g>>] = Body(k, g)
    <3> HIDE DEF Body
    <3> QED
      OBVIOUS
  <2>2. k # 0 => f[k - 1] = g[k - 1]
    <3> SUFFICES ASSUME k # 0 PROVE f[k - 1] = g[k - 1]
      OBVIOUS
    <3>1. k - 1 \in D /\ r[k - 1] = k - 1 /\ r[k] = k /\ k - 1 < k
      BY <1>1
    <3> QED
      BY <3>1
  <2> HIDE DEF F, r
  <2> QED
    BY <2>1, <2>2
<1>7. 0 \in D /\ r \in [D -> 0 .. n] /\ r \in [D -> Nat]
  BY <1>1 DEF D
<1>8. PICK g \in [D -> V] : IsSolution(g, F, D)
  <2> HIDE DEF F, r
  <2> QED
    BY <1>1, <1>3, <1>5, <1>6, <1>7, RecursionHasSolution
<1>9. g = Step(g)
  <2>1. \A k \in D : F[<<k, g>>] = Body(k, g)
    <3> HIDE DEF Body
    <3> QED
      OBVIOUS
  <2> HIDE DEF F, Body
  <2> QED
    BY <1>8, <2>1 DEF IsSolution
<1>10. S = Step(S)
  <2> HIDE DEF Step
  <2> QED
    BY <1>9
<1>11. Picked(h) = S[n]
  BY DEF Picked, Taken, n, D
<1> HIDE DEF S
<1>12. \A k \in D : S[k] = Body(k, S)
  <2> HIDE DEF Body
  <2> QED
    BY <1>10
<1>13. S[0] = <<>> /\ \A k \in 1 .. n : S[k] = Taken(h, k, S[k - 1])
  <2>1. \A k \in 1 .. n : k \in D /\ k # 0
    BY <1>1 DEF D
  <2> QED
    BY <1>7, <1>12, <2>1
<1>14. D \subseteq {k \in D : S[k] \in V}
  <2> DEFINE T == {k \in D : S[k] \in V}
  <2>1. 0 \in T
    BY <1>3, <1>7, <1>13
  <2>2. ASSUME NEW k \in 1 .. n, k - 1 \in T PROVE k \in T
    BY <1>1, <1>2, <1>13, <2>2 DEF D
  <2> HIDE DEF T
  <2>3. D \subseteq T
    BY <1>1, <2>1, <2>2, UpTo DEF D
  <2> QED
    BY <2>3 DEF T
<1>15. S \in [D -> V]
  <2>1. S = [k \in D |-> S[k]]
    <3> DEFINE B(k) == Body(k, S)
    <3>1. S = [k \in D |-> B(k)]
      BY <1>10
    <3> HIDE DEF B
    <3> QED
      BY <3>1
  <2> QED
    BY <1>14, <2>1
<1> QED
  BY <1>11, <1>13, <1>15 DEF n, V, D

\* The picks of the first k in rank stand.
Stands(h, k, p) ==
    /\ Len(p) \in 0 .. 3
    /\ k >= 1 => Len(p) >= 1
    /\ \A a \in 1 .. Len(p) : \E m \in 1 .. k : p[a] = Ranked(h)[m]
    /\ \A a, b \in 1 .. Len(p) : a # b => ~Near(h[p[a]], h[p[b]])
    /\ \A m \in 1 .. k :
          LET i == Ranked(h)[m]
          IN  \/ \E a \in 1 .. Len(p) :
                    Near(h[i], h[p[a]]) /\ (i = p[a] \/ Outranks(h, p[a], i))
              \/ Len(p) = 3 /\ \A a \in 1 .. Len(p) : Outranks(h, p[a], i)

LEMMA TakenStands ==
    ASSUME NEW h \in Seq(Entries), NEW k \in 1 .. Len(h), NEW p \in Seq(1 .. Len(h)),
           Stands(h, k - 1, p)
    PROVE  Stands(h, k, Taken(h, k, p))
<1> DEFINE n == Len(h)
           R == Ranked(h)
           i == R[k]
           q == Taken(h, k, p)
           Fits == Len(p) < 3 /\ \A m \in DOMAIN p : ~Near(h[i], h[p[m]])
<1>1. /\ R \in [1 .. n -> 1 .. n]
      /\ \A l, m \in 1 .. n : l < m => Outranks(h, R[l], R[m])
      /\ DOMAIN h = 1 .. n /\ n \in Nat /\ k \in 1 .. n
  BY RankingOrders, SMTT(30)
<1>2. i \in 1 .. n
  BY <1>1
<1>3. /\ Len(p) \in 0 .. 3 /\ DOMAIN p = 1 .. Len(p)
      /\ k - 1 >= 1 => Len(p) >= 1
      /\ \A a \in 1 .. Len(p) : p[a] \in 1 .. n /\ \E m \in 1 .. k - 1 : p[a] = R[m]
      /\ \A a, b \in 1 .. Len(p) : a # b => ~Near(h[p[a]], h[p[b]])
  <2>1. DOMAIN p = 1 .. Len(p) /\ \A a \in 1 .. Len(p) : p[a] \in 1 .. n
    OBVIOUS
  <2>2. /\ Len(p) \in 0 .. 3
        /\ k - 1 >= 1 => Len(p) >= 1
        /\ \A a \in 1 .. Len(p) : \E m \in 1 .. k - 1 : p[a] = R[m]
        /\ \A a, b \in 1 .. Len(p) : a # b => ~Near(h[p[a]], h[p[b]])
    BY DEF Stands
  <2> HIDE DEF R, n
  <2> QED
    BY <2>1, <2>2
<1>4. \A m \in 1 .. k - 1 :
          \/ \E a \in 1 .. Len(p) :
                Near(h[R[m]], h[p[a]]) /\ (R[m] = p[a] \/ Outranks(h, p[a], R[m]))
          \/ Len(p) = 3 /\ \A a \in 1 .. Len(p) : Outranks(h, p[a], R[m])
  BY DEF Stands
<1>5. q = IF Fits THEN Append(p, i) ELSE p
  BY DEF Taken
<1>6. \A a \in 1 .. Len(p) : Outranks(h, p[a], i)
  <2> TAKE a \in 1 .. Len(p)
  <2>1. PICK m \in 1 .. k - 1 : p[a] = R[m]
    BY <1>3
  <2>2. m \in 1 .. n /\ m < k
    BY <1>1, <2>1
  <2> QED
    BY <1>1, <2>1, <2>2
<1>7. \A a \in 1 .. Len(p) : Near(h[p[a]], h[i]) <=> Near(h[i], h[p[a]])
  BY <1>1, <1>2, <1>3, NearIsSymmetric
<1>8. Near(h[i], h[i])
  BY <1>1, <1>2, NearIsSymmetric
<1> HIDE DEF R, n
<1>9. CASE Fits
  <2>1. q = Append(p, i)
    BY <1>5, <1>9
  <2>2. /\ Len(q) = Len(p) + 1 /\ q[Len(p) + 1] = i
        /\ \A a \in 1 .. Len(p) : q[a] = p[a]
    <3>1. p \in Seq(1 .. n) /\ i \in 1 .. n
      BY <1>2 DEF n
    <3> HIDE DEF i, q
    <3> QED
      BY <2>1, <3>1
  <2>3. \A a \in 1 .. Len(p) : ~Near(h[i], h[p[a]]) /\ ~Near(h[p[a]], h[i])
    BY <1>3, <1>7, <1>9
  <2>4. \A a \in 1 .. Len(q) : (a \in 1 .. Len(p) /\ q[a] = p[a]) \/ (a = Len(p) + 1 /\ q[a] = i)
    BY <1>3, <2>2
  <2>5. Len(q) \in 1 .. 3
    BY <1>3, <1>9, <2>2
  <2>6. ASSUME NEW a \in 1 .. Len(q) PROVE \E m \in 1 .. k : q[a] = R[m]
    <3>1. CASE a \in 1 .. Len(p) /\ q[a] = p[a]
      <4>1. PICK m \in 1 .. k - 1 : p[a] = R[m]
        BY <1>3, <3>1
      <4>2. m \in 1 .. k
        BY <1>1, <4>1
      <4> QED
        BY <3>1, <4>1, <4>2
    <3>2. CASE q[a] = i
      BY <1>1, <3>2
    <3> QED
      BY <2>4, <3>1, <3>2
  <2> HIDE DEF q, i
  <2>7. \A a, b \in 1 .. Len(q) : a # b => ~Near(h[q[a]], h[q[b]])
    <3> TAKE a, b \in 1 .. Len(q)
    <3> HAVE a # b
    <3>1. a \in 1 .. Len(p) \/ b \in 1 .. Len(p)
      BY <2>4
    <3>2. CASE a \in 1 .. Len(p) /\ b \in 1 .. Len(p)
      BY <1>3, <2>2, <3>2
    <3>3. CASE a \in 1 .. Len(p) /\ b \notin 1 .. Len(p)
      BY <2>2, <2>3, <2>4, <3>3
    <3>4. CASE a \notin 1 .. Len(p) /\ b \in 1 .. Len(p)
      BY <2>2, <2>3, <2>4, <3>4
    <3> QED
      BY <3>1, <3>2, <3>3, <3>4
  <2>8. ASSUME NEW m \in 1 .. k
        PROVE  \E a \in 1 .. Len(q) :
                  Near(h[R[m]], h[q[a]]) /\ (R[m] = q[a] \/ Outranks(h, q[a], R[m]))
    <3>1. CASE m = k
      <4>1. q[Len(p) + 1] = R[m] /\ Len(p) + 1 \in 1 .. Len(q)
        BY <1>3, <2>2, <3>1 DEF i
      <4> QED
        BY <1>8, <3>1, <4>1 DEF i
    <3>2. CASE m # k
      <4>1. m \in 1 .. k - 1
        BY <1>1, <3>2
      <4>2. PICK a \in 1 .. Len(p) :
                Near(h[R[m]], h[p[a]]) /\ (R[m] = p[a] \/ Outranks(h, p[a], R[m]))
        <5>1. Len(p) # 3
          BY <1>3, <1>9
        <5> QED
          BY <1>4, <4>1, <5>1
      <4>3. a \in 1 .. Len(q) /\ q[a] = p[a]
        BY <1>3, <2>2
      <4> QED
        BY <4>2, <4>3
    <3> QED
      BY <3>1, <3>2
  <2>9. Len(q) \in 0 .. 3 /\ Len(q) >= 1
    BY <1>3, <1>9, <2>2
  <2>10. Stands(h, k, q)
    BY <2>6, <2>7, <2>8, <2>9, Zenon DEF Stands, R
  <2> QED
    BY <2>10 DEF q
<1>10. CASE ~Fits
  <2>1. q = p
    BY <1>5, <1>10
  <2>2. ASSUME NEW m \in 1 .. k
        PROVE  \/ \E a \in 1 .. Len(p) :
                     Near(h[R[m]], h[p[a]]) /\ (R[m] = p[a] \/ Outranks(h, p[a], R[m]))
               \/ Len(p) = 3 /\ \A a \in 1 .. Len(p) : Outranks(h, p[a], R[m])
    <3>1. CASE m = k
      <4>1. CASE Len(p) < 3
        <5>1. PICK a \in 1 .. Len(p) : Near(h[i], h[p[a]])
          BY <1>3, <1>10, <4>1
        <5> QED
          BY <1>6, <3>1, <5>1
      <4>2. CASE ~(Len(p) < 3)
        BY <1>3, <1>6, <3>1, <4>2
      <4> QED
        BY <4>1, <4>2
    <3>2. CASE m # k
      <4>1. m \in 1 .. k - 1
        BY <1>1, <3>2
      <4> QED
        BY <1>4, <4>1
    <3> QED
      BY <3>1, <3>2
  <2>3. Len(p) >= 1
    <3>1. SUFFICES ASSUME Len(p) = 0 PROVE FALSE
      BY <1>3
    <3> QED
      BY <1>3, <1>10, <3>1
  <2>4. \A a \in 1 .. Len(p) : \E m \in 1 .. k : p[a] = R[m]
    <3>1. 1 .. k - 1 \subseteq 1 .. k
      BY <1>1
    <3> QED
      BY <1>3, <3>1
  <2> QED
    BY <1>3, <2>1, <2>2, <2>3, <2>4 DEF Stands, R
<1> QED
  BY <1>9, <1>10

LEMMA PickedStands ==
    ASSUME NEW h \in Seq(Entries)
    PROVE  Picked(h) \in Seq(1 .. Len(h)) /\ Stands(h, Len(h), Picked(h))
<1> DEFINE n == Len(h)
<1>1. PICK P \in [0 .. n -> Seq(1 .. n)] :
              /\ P[0] = <<>>
              /\ \A k \in 1 .. n : P[k] = Taken(h, k, P[k - 1])
              /\ Picked(h) = P[n]
  BY PickedStepByStep
<1> DEFINE T == {k \in 0 .. n : Stands(h, k, P[k])}
<1>2. n \in Nat
  OBVIOUS
<1>3. 0 \in T
  <2>1. Stands(h, 0, <<>>)
    BY DEF Stands
  <2> QED
    BY <1>1, <1>2, <2>1
<1>4. ASSUME NEW k \in 1 .. n, k - 1 \in T PROVE k \in T
  <2>1. P[k - 1] \in Seq(1 .. n) /\ Stands(h, k - 1, P[k - 1]) /\ k \in 0 .. n
    BY <1>1, <1>2, <1>4
  <2>2. Stands(h, k, P[k])
    BY <1>1, <2>1, TakenStands
  <2> QED
    BY <2>1, <2>2
<1>5. n \in T
  <2> HIDE DEF T, n
  <2>1. 0 .. n \subseteq T
    BY <1>2, <1>3, <1>4, UpTo
  <2> QED
    BY <1>2, <2>1
<1> HIDE DEF T, n
<1> QED
  BY <1>1, <1>5 DEF T, n

\* As PicksStand says it.
LEMMA StandingPicksStand ==
    ASSUME NEW h \in Seq(Entries), h # <<>>, hist = h, picks = Picked(h)
    PROVE  PicksStand
<1> DEFINE n == Len(h)
           p == Picked(h)
<1>1. p \in Seq(1 .. n) /\ Stands(h, n, p) /\ DOMAIN h = 1 .. n /\ n \in Nat /\ n >= 1
  BY PickedStands
<1>2. \A i \in 1 .. n : \E m \in 1 .. n : Ranked(h)[m] = i
  BY RankingOrders
<1>3. Len(p) \in 1 .. 3 /\ \A a, b \in 1 .. Len(p) : a # b => ~Near(h[p[a]], h[p[b]])
  BY <1>1 DEF Stands
<1>4. \A i \in DOMAIN h :
          \/ \E a \in 1 .. Len(p) : Near(h[i], h[p[a]]) /\ (i = p[a] \/ Outranks(h, p[a], i))
          \/ Len(p) = 3 /\ \A a \in 1 .. Len(p) : Outranks(h, p[a], i)
  <2> TAKE i \in DOMAIN h
  <2>1. PICK m \in 1 .. n : Ranked(h)[m] = i
    BY <1>1, <1>2
  <2> HIDE DEF n, p
  <2> QED
    BY <1>1, <2>1 DEF Stands
<1>5. \A i, j \in DOMAIN h :
          100 * h[i].count < Total(h) /\ ~(100 * h[j].count < Total(h)) => Outranks(h, j, i)
  BY OutrankingOrders
<1> HIDE DEF p, n
<1> QED
  BY <1>3, <1>4, <1>5 DEF PicksStand, p

\* The inductive invariant: the separation's own, and before it has run, that the slots
\* it will get were toned from picks of the histogram.
PaletteInv ==
    /\ SInv
    /\ step = "select" => hist \in Histograms
    /\ step = "tone" =>
          /\ hist \in Histograms
          /\ hist # <<>>
          /\ picks = Picked(hist)
          /\ source \in [1 .. 3 -> Lightness]
    /\ step \in {"select", "tone"} =>
          pair = <<1, 1>> /\ moved = FALSE /\ passes = 0 /\ reason = "Passes"

LEMMA PaletteInitInv == PaletteInit => PaletteInv
<1> SUFFICES ASSUME PaletteInit PROVE PaletteInv
  OBVIOUS
<1>1. /\ lo = 0 /\ hi = 0 /\ toned = <<0>> /\ work = <<0>> /\ order = <<1>> /\ budget = <<0>>
      /\ pair = <<1, 1>>
  BY DEF PaletteInit
<1>2. Slots = 1 .. 1 /\ toned[1] = 0 /\ order[1] = 1 /\ work[1] = 0 /\ budget[1] = 0
  BY <1>1 DEF Slots
<1>3. \A s \in Slots : s = 1
  BY <1>2
<1>4. Shape
  <2>1. \E n \in 1 .. 3 : Slots = 1 .. n
    BY <1>2
  <2>2. toned \in [Slots -> Int] /\ work \in [Slots -> Int] /\ budget \in [Slots -> Int]
    BY <1>1, <1>2
  <2>3. order \in [Slots -> Slots] /\ pair \in Slots \X Slots
    BY <1>1, <1>2
  <2> QED
    BY <1>1, <2>1, <2>2, <2>3 DEF Shape
<1>5. Permutes /\ Ordered /\ Enclosed
  BY <1>1, <1>2, <1>3 DEF Permutes, Ordered, Enclosed
<1>6. Paid
  BY <1>2, <1>3, Limits DEF Paid, Distance
<1> QED
  BY <1>4, <1>5, <1>6 DEF PaletteInv, SInv, PaletteInit

\* None of the separation's variables but where the loop is.
LEMMA SInvStays ==
    ASSUME SInv, UNCHANGED <<lo, hi, toned, work, order, budget, pair>>
    PROVE  SInv'
BY DEF SInv, Shape, Permutes, Ordered, Enclosed, Paid, Slots, Distance

LEMMA SelectKeeps ==
    ASSUME PaletteInv, Select
    PROVE  PaletteInv'
<1>1. /\ step = "select" /\ hist \in Histograms /\ hist # <<>> /\ picks' = Picked(hist)
      /\ source' = Padded([n \in DOMAIN picks' |-> hist[picks'[n]].l])
      /\ step' = "tone" /\ hist' = hist
      /\ UNCHANGED <<lo, hi, toned, work, order, budget, pair, moved, passes, reason>>
  BY DEF PaletteInv, Select
<1>2. SInv'
  BY <1>1, SInvStays DEF PaletteInv
<1>3. hist \in Seq(Entries)
  BY <1>1, PaletteAssumption
<1>4. /\ picks' \in Seq(1 .. Len(hist)) /\ Len(picks') \in 1 .. 3
      /\ \A n \in 1 .. Len(picks') : hist[picks'[n]].l \in Lightness
  <2>1. Len(hist) \in Nat /\ Len(hist) >= 1 /\ DOMAIN hist = 1 .. Len(hist)
    BY <1>1, <1>3
  <2>2. picks' \in Seq(1 .. Len(hist)) /\ Stands(hist, Len(hist), picks')
    BY <1>1, <1>3, PickedStands
  <2>3. Len(picks') \in 1 .. 3
    BY <2>1, <2>2 DEF Stands
  <2>4. \A n \in 1 .. Len(picks') : picks'[n] \in DOMAIN hist
    BY <2>1, <2>2
  <2> QED
    BY <1>3, <2>2, <2>3, <2>4, ScoresAreNumbers
<1>5. source' \in [1 .. 3 -> Lightness]
  <2> DEFINE f == [n \in DOMAIN picks' |-> hist[picks'[n]].l]
             m == Len(picks')
  <2>1. DOMAIN picks' = 1 .. m /\ m \in 1 .. 3
    BY <1>4
  <2>2. f \in [1 .. m -> Lightness]
    BY <1>4, <2>1
  <2>3. Len(f) = m
    BY <2>1
  <2> HIDE DEF f, m
  <2>4. Padded(f) \in [1 .. 3 -> Lightness]
    BY <2>1, <2>2, <2>3 DEF Padded
  <2> QED
    BY <1>1, <2>4 DEF f
<1> QED
  BY <1>1, <1>2, <1>5 DEF PaletteInv

\* What toning makes of a slot lies in the envelope, and that in the lightness there is.
LEMMA TonedIsEnclosed ==
    ASSUME NEW m \in Modes, NEW slots \in [1 .. 3 -> Lightness]
    PROVE  /\ Envelope[m][1] \in Lightness /\ Envelope[m][2] \in Lightness
           /\ Toned(slots, m) \in [1 .. 3 -> Lightness]
           /\ \A i \in 1 .. 3 :
                 Envelope[m][1] <= Toned(slots, m)[i] /\ Toned(slots, m)[i] <= Envelope[m][2]
<1>1. PICK white \in Nat : Lightness = 0 .. white
  BY PaletteAssumption
<1> DEFINE a == Envelope[m][1]
           b == Envelope[m][2]
           sum == SumFunction(slots)
           anchor == sum \div Len(slots)
           at == Curve[m][anchor]
<1>2. a \in Lightness /\ b \in Lightness /\ Curve[m] \in [Lightness -> a .. b]
  BY PaletteAssumption
<1>3. slots \in Seq(Nat) /\ Len(slots) = 3
  <2>1. slots = [i \in 1 .. 3 |-> slots[i]] /\ \A i \in 1 .. 3 : slots[i] \in Nat
    BY <1>1
  <2>2. [i \in 1 .. 3 |-> slots[i]] \in Seq(Nat)
    BY <2>1
  <2>3. Len([i \in 1 .. 3 |-> slots[i]]) = 3
    OBVIOUS
  <2> QED
    BY <2>1, <2>2, <2>3
<1>4. sum \in Nat /\ sum <= white * 3
  <2>1. DOMAIN slots = 1 .. 3
    OBVIOUS
  <2>2. IsFiniteSet(1 .. 3) /\ Cardinality(1 .. 3) = 3
    <3> DEFINE k == 3
    <3>1. 1 \in Int /\ k \in Int /\ 1 <= k /\ k - 1 + 1 = k
      OBVIOUS
    <3> HIDE DEF k
    <3>2. IsFiniteSet(1 .. k) /\ Cardinality(1 .. k) = IF 1 > k THEN 0 ELSE k - 1 + 1
      BY <3>1, FS_Interval
    <3> QED
      BY <3>1, <3>2 DEF k
  <2>3. \A i \in 1 .. 3 : slots[i] \in Nat /\ slots[i] <= white
    BY <1>1
  <2>4. sum = SumFunctionOnSet(slots, 1 .. 3)
    BY <2>1 DEF SumFunction
  <2>5. /\ SumFunctionOnSet(slots, 1 .. 3) \in Nat
        /\ \A k \in Nat : (\A i \in 1 .. 3 : slots[i] <= k)
              => SumFunctionOnSet(slots, 1 .. 3) <= k * Cardinality(1 .. 3)
    BY <2>2, <2>3, SumsAreNumbers
  <2> QED
    BY <2>2, <2>3, <2>4, <2>5
<1>5. \A i \in 1 .. 3 : slots[i] \in 0 .. white
  BY <1>1
<1>6. anchor \in 0 .. white
  <2>1. sum \in Nat /\ sum <= 3 * white
    BY <1>4
  <2>2. anchor = sum \div 3
    BY <1>3
  <2> HIDE DEF sum, anchor
  <2> QED
    BY <2>1, <2>2, SMT
<1> HIDE DEF anchor, sum
<1>7. at \in a .. b
  BY <1>1, <1>2, <1>6
<1>8. a \in Int /\ b \in Int /\ at \in Int /\ anchor \in Int /\ 0 <= a /\ a <= b /\ b <= white
  <2>1. a \in 0 .. white /\ b \in 0 .. white
    BY <1>1, <1>2
  <2> HIDE DEF a, b, at
  <2> QED
    BY <1>6, <1>7, <2>1
<1>9. Len(slots) = 3 /\ DOMAIN slots = 1 .. 3
  BY <1>3
<1>10. Toned(slots, m)
        = [i \in 1 .. 3 |-> Greatest(a, Least(at + slots[i] - anchor, b))]
  BY <1>9 DEF Toned, sum, anchor
<1> HIDE DEF a, b, at
<1>11. ASSUME NEW i \in 1 .. 3
       PROVE  /\ Greatest(a, Least(at + slots[i] - anchor, b)) \in 0 .. white
              /\ a <= Greatest(a, Least(at + slots[i] - anchor, b))
              /\ Greatest(a, Least(at + slots[i] - anchor, b)) <= b
  BY <1>5, <1>8 DEF Greatest, Least
<1>12. a \in Lightness /\ b \in Lightness
  BY <1>2
<1>13. Toned(slots, m) \in [1 .. 3 -> Lightness]
  BY <1>1, <1>10, <1>11
<1>14. \A i \in 1 .. 3 : a <= Toned(slots, m)[i] /\ Toned(slots, m)[i] <= b
  BY <1>10, <1>11
<1> QED
  BY <1>12, <1>13, <1>14 DEF a, b

LEMMA ToneKeeps ==
    ASSUME PaletteInv, Tone
    PROVE  PaletteInv'
<1>1. PICK m \in Modes :
          /\ lo' = Envelope[m][1]
          /\ hi' = Envelope[m][2]
          /\ toned' = SubSeq(Toned(source, m), 1, Len(picks))
  BY DEF Tone
<1>2. /\ work' = toned'
      /\ order' \in [DOMAIN toned' -> DOMAIN toned']
      /\ Sorts(order', toned')
      /\ budget' = [s \in DOMAIN toned' |-> MAX_SEPARATION_SHIFT]
      /\ step' = "compare"
      /\ UNCHANGED <<pair, moved, passes, reason>>
      /\ step = "tone"
  BY DEF Tone
<1>3. /\ hist \in Seq(Entries) /\ hist # <<>> /\ picks = Picked(hist)
      /\ source \in [1 .. 3 -> Lightness]
      /\ pair = <<1, 1>> /\ moved = FALSE /\ passes = 0 /\ reason = "Passes"
  BY <1>2, PaletteAssumption DEF PaletteInv
<1>4. Len(picks) \in 1 .. 3
  <2>1. Len(hist) \in Nat /\ Len(hist) >= 1
    BY <1>3
  <2> QED
    BY <1>3, <2>1, PickedStands DEF Stands
<1> DEFINE n == Len(picks)
           t == Toned(source, m)
<1>5. /\ lo' \in Lightness /\ hi' \in Lightness
      /\ t \in [1 .. 3 -> Lightness]
      /\ \A i \in 1 .. 3 : lo' <= t[i] /\ t[i] <= hi'
  BY <1>1, <1>3, TonedIsEnclosed
<1> HIDE DEF n, t
<1>6. toned' = [i \in 1 .. n |-> t[i]]
  <2>1. toned' = SubSeq(t, 1, n) /\ n \in 1 .. 3
    BY <1>1, <1>4 DEF n, t
  <2>2. \A i \in 1 .. n : t[i + 1 - 1] = t[i]
    BY <2>1
  <2>3. n - 1 + 1 = n
    BY <2>1
  <2>4. SubSeq(t, 1, n) = [i \in 1 .. n |-> t[i + 1 - 1]]
    BY <2>1, <1>5, SMT
  <2> QED
    BY <2>1, <2>2, <2>4
<1>7. toned' \in [1 .. n -> Lightness] /\ n \in 1 .. 3 /\ 1 .. n \subseteq 1 .. 3
  <2>1. n \in 1 .. 3
    BY <1>4 DEF n
  <2>2. 1 .. n \subseteq 1 .. 3
    BY <2>1
  <2>3. \A i \in 1 .. n : t[i] \in Lightness
    BY <1>5, <2>2
  <2> QED
    BY <1>6, <2>1, <2>2, <2>3
<1>8. Slots' = 1 .. n /\ DOMAIN toned' = 1 .. n
  BY <1>7 DEF Slots
<1>9. \A s \in 1 .. n : lo' <= toned'[s] /\ toned'[s] <= hi'
  BY <1>5, <1>6, <1>7
<1>10. SepInit'
  BY <1>2, <1>3, <1>5, <1>7, <1>8, <1>9 DEF SepInit
<1>11. SepInit' => SInv'
  BY SInvInit, PTL
<1> QED
  BY <1>2, <1>10, <1>11 DEF PaletteInv

LEMMA PaletteInvNext == PaletteInv /\ [PaletteNext]_<<palvars, sepvars>> => PaletteInv'
<1> SUFFICES ASSUME PaletteInv, [PaletteNext]_<<palvars, sepvars>> PROVE PaletteInv'
  OBVIOUS
<1>1. CASE NoPicks
  <2>1. /\ step' = "done" /\ UNCHANGED <<lo, hi, toned, work, order, budget, pair>>
    BY <1>1 DEF NoPicks, Stop
  <2>2. SInv'
    BY <2>1, SInvStays DEF PaletteInv
  <2> QED
    BY <2>1, <2>2 DEF PaletteInv
<1>2. CASE Select
  BY <1>2, SelectKeeps
<1>3. CASE Tone
  BY <1>3, ToneKeeps
<1>4. CASE Separate
  <2>1. SInv'
    BY <1>4, SInvNext DEF Separate, PaletteInv
  <2>2. step' \in {"done", "up", "down", "passed", "compare"}
    BY <1>4 DEF Separate, SepNext, Nothing, FarEnough, Collide, OutOfPasses, MoveUp,
                MoveDown, PassOver, Stop
  <2> QED
    BY <2>1, <2>2 DEF PaletteInv
<1>5. CASE Render
  <2>1. step = "done" /\ step' = step /\ UNCHANGED <<lo, hi, toned, work, order, budget, pair>>
    BY <1>5 DEF Render, sepvars
  <2>2. SInv'
    BY <2>1, SInvStays DEF PaletteInv
  <2> QED
    BY <2>1, <2>2 DEF PaletteInv
<1>6. CASE UNCHANGED <<palvars, sepvars>>
  <2>1. UNCHANGED <<lo, hi, toned, work, order, budget, pair, step, moved, passes, reason>>
        /\ UNCHANGED <<hist, picks, source>>
    BY <1>6 DEF sepvars, palvars
  <2>2. SInv'
    BY <2>1, SInvStays DEF PaletteInv
  <2> QED
    BY <2>1, <2>2 DEF PaletteInv
<1> QED
  BY <1>1, <1>2, <1>3, <1>4, <1>5, <1>6 DEF PaletteNext

LEMMA PaletteInvShows == PaletteInv => PicksStand /\ SeparationIsGentle
<1> SUFFICES ASSUME PaletteInv PROVE PicksStand /\ SeparationIsGentle
  OBVIOUS
<1>1. SeparationIsGentle
  BY SInvSuffices DEF PaletteInv
<1>2. CASE step = "tone"
  BY <1>1, <1>2, PaletteAssumption, StandingPicksStand DEF PaletteInv
<1>3. CASE step # "tone"
  BY <1>1, <1>3 DEF PicksStand
<1> QED
  BY <1>2, <1>3

\* What is picked of a histogram is up to three entries far from one another, and an
\* entry is passed over only for such as outrank it: select of color/pick.rs, for every
\* histogram and every choice of what is near.
THEOREM PicksAlwaysStand == PaletteSpec => []PicksStand
<1>1. PaletteInit => PaletteInv
  BY PaletteInitInv
<1>2. PaletteInv /\ [PaletteNext]_<<palvars, sepvars>> => PaletteInv'
  BY PaletteInvNext
<1>3. PaletteInv => PicksStand
  BY PaletteInvShows
<1> QED
  BY <1>1, <1>2, <1>3, PTL DEF PaletteSpec

\* The separation of a palette is as gentle as that of any slots: up to three, picked
\* from any histogram and toned for any mode, they are slots in the envelope with their
\* whole budget to spend: tone and separate of color/tone.rs, called by render_palette.
THEOREM PalettesAreGentle == PaletteSpec => []SeparationIsGentle
<1>1. PaletteInit => PaletteInv
  BY PaletteInitInv
<1>2. PaletteInv /\ [PaletteNext]_<<palvars, sepvars>> => PaletteInv'
  BY PaletteInvNext
<1>3. PaletteInv => SeparationIsGentle
  BY PaletteInvShows
<1> QED
  BY <1>1, <1>2, <1>3, PTL DEF PaletteSpec
=============================================================================
