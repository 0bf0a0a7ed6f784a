---------------------------- MODULE FramingProofs ----------------------------
(***************************************************************************)
(* That the framer is the line filter and keeps its buffer bounded, for    *)
(* any stream, however it is cut into reads, and any cap.                  *)
(*                                                                         *)
(* The stream is in three parts: what was scanned, which ends with a       *)
(* newline and holds the complete lines; what was skipped of a refused     *)
(* line, which has no newline and is longer than the cap; and the buffer,  *)
(* which is the rest.  Every newline found moves the border of the first   *)
(* part by one line.                                                       *)
(***************************************************************************)
EXTENDS Framing, SequenceTheorems, FiniteSetTheorems, WellFoundedInduction, TLAPS

\* What a definition of lines by CHOOSE needs to make sense; every stream has it,
\* and the invariant carries it along from the empty one.
Numbered(bytes) ==
    /\ \A k \in 1 .. Cardinality(Ends(bytes)) : EndOfLine(bytes, k) \in Ends(bytes)
    /\ \A end \in Ends(bytes) : LastBefore(bytes, end) \in 0 .. end - 1

-----------------------------------------------------------------------------
\* The lines of a stream that goes on by one line.

LEMMA EndsFinite ==
    ASSUME NEW b \in Seq(Bytes)
    PROVE  /\ Ends(b) \subseteq 1 .. Len(b)
           /\ IsFiniteSet(Ends(b))
           /\ Cardinality(Ends(b)) \in Nat
<1>1. Ends(b) \subseteq 1 .. Len(b)
  BY LenProperties DEF Ends
<1>2. IsFiniteSet(1 .. Len(b))
  BY FS_Interval, LenProperties
<1>3. IsFiniteSet(Ends(b))
  BY <1>1, <1>2, FS_Subset
<1> QED
  BY <1>1, <1>3, FS_CardinalityType

\* c is b and one more line with its newline.
OneMore(b, c) ==
    /\ Len(b) < Len(c)
    /\ Len(b) = 0 \/ b[Len(b)] = Newline
    /\ \A i \in 1 .. Len(b) : c[i] = b[i]
    /\ c[Len(c)] = Newline
    /\ \A i \in Len(b) + 1 .. Len(c) - 1 : c[i] # Newline

LEMMA OneMoreEnd ==
    ASSUME NEW b \in Seq(Bytes), NEW c \in Seq(Bytes), OneMore(b, c)
    PROVE  /\ Ends(c) = Ends(b) \cup {Len(c)}
           /\ Len(c) \notin Ends(b)
           /\ Cardinality(Ends(c)) = Cardinality(Ends(b)) + 1
<1>1. /\ Len(b) \in Nat
      /\ Len(c) \in Nat
      /\ DOMAIN b = 1 .. Len(b)
      /\ DOMAIN c = 1 .. Len(c)
  BY LenProperties
<1>2. Ends(c) = Ends(b) \cup {Len(c)}
  <2>1. ASSUME NEW i \in Ends(c)
        PROVE  i \in Ends(b) \cup {Len(c)}
    <3>1. i \in 1 .. Len(c) /\ c[i] = Newline
      BY <1>1, <2>1 DEF Ends
    <3>2. i \in 1 .. Len(b) \/ i \in Len(b) + 1 .. Len(c) - 1 \/ i = Len(c)
      <4> DEFINE x == Len(b)
                 y == Len(c)
      <4>1. x \in Nat /\ y \in Nat /\ i \in 1 .. y
        BY <1>1, <3>1
      <4> HIDE DEF x, y
      <4>2. i \in 1 .. x \/ i \in x + 1 .. y - 1 \/ i = y
        BY <4>1
      <4> QED
        BY <4>2 DEF x, y
    <3> QED
      BY <1>1, <3>1, <3>2 DEF OneMore, Ends
  <2>2. ASSUME NEW i \in Ends(b)
        PROVE  i \in Ends(c)
    BY <1>1, <2>2 DEF OneMore, Ends
  <2>3. Len(c) \in Ends(c)
    BY <1>1 DEF OneMore, Ends
  <2> QED
    BY <2>1, <2>2, <2>3
<1>3. Len(c) \notin Ends(b)
  BY <1>1 DEF OneMore, Ends
<1> QED
  BY <1>2, <1>3, EndsFinite, FS_AddElement

\* The lines there were keep their numbers and their ends; the new one is the next.
LEMMA OneMoreNumber ==
    ASSUME NEW b \in Seq(Bytes), NEW c \in Seq(Bytes), OneMore(b, c)
    PROVE  /\ \A k \in 1 .. Cardinality(Ends(b)) : EndOfLine(c, k) = EndOfLine(b, k)
           /\ EndOfLine(c, Cardinality(Ends(c))) = Len(c)
<1> DEFINE n == Cardinality(Ends(b))
<1>1. /\ Len(b) \in Nat
      /\ Len(c) \in Nat
      /\ Len(b) < Len(c)
      /\ Ends(b) \subseteq 1 .. Len(b)
      /\ IsFiniteSet(Ends(b))
      /\ n \in Nat
  BY EndsFinite, LenProperties DEF OneMore
<1>2. /\ Ends(c) = Ends(b) \cup {Len(c)}
      /\ Len(c) \notin Ends(b)
      /\ Cardinality(Ends(c)) = n + 1
  BY OneMoreEnd
<1>3. ASSUME NEW i \in Ends(b)
      PROVE  /\ EndsUpTo(c, i) = EndsUpTo(b, i)
             /\ Cardinality(EndsUpTo(b, i)) \in Nat
             /\ Cardinality(EndsUpTo(b, i)) <= n
  <2>1. EndsUpTo(c, i) = EndsUpTo(b, i)
    BY <1>1, <1>2 DEF EndsUpTo
  <2>2. EndsUpTo(b, i) \in SUBSET Ends(b)
    BY DEF EndsUpTo
  <2> QED
    BY <1>1, <2>1, <2>2, FS_Subset, FS_CardinalityType
<1>4. Cardinality(EndsUpTo(c, Len(c))) = n + 1
  <2>1. EndsUpTo(c, Len(c)) = Ends(c)
    BY <1>1, <1>2 DEF EndsUpTo
  <2> QED
    BY <1>2, <2>1
<1>5. ASSUME NEW k \in 1 .. n
      PROVE  EndOfLine(c, k) = EndOfLine(b, k)
  <2>1. {i \in Ends(c) : Cardinality(EndsUpTo(c, i)) = k}
          = {i \in Ends(b) : Cardinality(EndsUpTo(b, i)) = k}
    <3>1. Cardinality(EndsUpTo(c, Len(c))) # k
      BY <1>1, <1>4
    <3> QED
      BY <1>2, <1>3, <3>1
  <2> QED
    BY <2>1 DEF EndOfLine
<1>6. EndOfLine(c, n + 1) = Len(c)
  <2>1. {i \in Ends(c) : Cardinality(EndsUpTo(c, i)) = n + 1} = {Len(c)}
    <3>1. \A i \in Ends(b) : Cardinality(EndsUpTo(c, i)) # n + 1
      BY <1>1, <1>3
    <3> QED
      BY <1>2, <1>4, <3>1
  <2>2. Only({Len(c)}) = Len(c)
    BY DEF Only
  <2> QED
    BY <2>1, <2>2 DEF EndOfLine
<1> QED
  BY <1>2, <1>5, <1>6

\* The lines there were stay what they are; the new one is what came after them.
LEMMA OneMoreText ==
    ASSUME NEW b \in Seq(Bytes), NEW c \in Seq(Bytes), OneMore(b, c), Numbered(b)
    PROVE  /\ \A end \in Ends(b) :
                 /\ LastBefore(c, end) = LastBefore(b, end)
                 /\ LineEndingAt(c, end) = LineEndingAt(b, end)
                 /\ LineEndingAt(b, end) \in Seq(Bytes)
           /\ LastBefore(c, Len(c)) = Len(b)
           /\ LineEndingAt(c, Len(c)) = SubSeq(c, Len(b) + 1, Len(c) - 1)
<1>1. /\ Len(b) \in Nat
      /\ Len(c) \in Nat
      /\ Len(b) < Len(c)
      /\ Ends(b) \subseteq 1 .. Len(b)
      /\ Ends(c) = Ends(b) \cup {Len(c)}
  BY EndsFinite, OneMoreEnd, LenProperties DEF OneMore
<1>2. ASSUME NEW end \in Ends(b)
      PROVE  /\ LastBefore(c, end) = LastBefore(b, end)
             /\ LineEndingAt(c, end) = LineEndingAt(b, end)
             /\ LineEndingAt(b, end) \in Seq(Bytes)
  <2>1. {i \in Ends(c) : i < end} = {i \in Ends(b) : i < end}
    BY <1>1
  <2>2. LastBefore(c, end) = LastBefore(b, end)
    BY <2>1 DEF LastBefore
  <2> DEFINE m == 1 + LastBefore(b, end)
             n == end - 1
  <2>3. m \in Int /\ n \in Int /\ 1 <= m /\ n <= Len(b)
    BY <1>1 DEF Numbered
  <2>4. \A i \in m .. n : i \in 1 .. Len(b) /\ b[i] \in Bytes /\ c[i] = b[i]
    BY <1>1, <2>3, LenProperties DEF OneMore
  <2>5. /\ SubSeq(b, m, n) \in Seq(Bytes)
        /\ Len(SubSeq(b, m, n)) = IF m <= n THEN n - m + 1 ELSE 0
        /\ \A i \in 1 .. n - m + 1 : SubSeq(b, m, n)[i] = b[m + i - 1]
    BY <2>3, <2>4, SubSeqProperties
  <2>6. /\ SubSeq(c, m, n) \in Seq(Bytes)
        /\ Len(SubSeq(c, m, n)) = IF m <= n THEN n - m + 1 ELSE 0
        /\ \A i \in 1 .. n - m + 1 : SubSeq(c, m, n)[i] = c[m + i - 1]
    BY <2>3, <2>4, SubSeqProperties
  <2>7. \A i \in 1 .. Len(SubSeq(b, m, n)) : SubSeq(c, m, n)[i] = SubSeq(b, m, n)[i]
    <3> SUFFICES ASSUME NEW i \in 1 .. Len(SubSeq(b, m, n))
                 PROVE  SubSeq(c, m, n)[i] = SubSeq(b, m, n)[i]
      OBVIOUS
    <3>1. m + i - 1 \in m .. n /\ i \in 1 .. n - m + 1
      BY <2>3, <2>5
    <3> QED
      BY <2>4, <2>5, <2>6, <3>1
  <2>8. SubSeq(c, m, n) = SubSeq(b, m, n)
    BY <2>5, <2>6, <2>7, SeqEqual
  <2> QED
    BY <2>2, <2>5, <2>8 DEF LineEndingAt
<1>3. LastBefore(c, Len(c)) = Len(b)
  <2> DEFINE before == {i \in Ends(c) : i < Len(c)} \cup {0}
  <2>1. before = Ends(b) \cup {0}
    BY <1>1
  <2>2. Len(b) \in before
    <3>1. CASE Len(b) = 0
      BY <2>1, <3>1
    <3>2. CASE Len(b) # 0
      BY <1>1, <2>1, <3>2, LenProperties DEF OneMore, Ends
    <3> QED
      BY <3>1, <3>2
  <2>3. \A i \in before : i \in Int /\ i <= Len(b)
    BY <1>1, <2>1
  <2>4. Latest(before) = Len(b)
    <3>1. Latest(before) \in before /\ \A j \in before : j <= Latest(before)
      BY <2>2, <2>3 DEF Latest
    <3>2. /\ Latest(before) \in Int
          /\ Latest(before) <= Len(b)
          /\ Len(b) <= Latest(before)
      BY <2>2, <2>3, <3>1
    <3> HIDE DEF before
    <3> QED
      BY <1>1, <3>2
  <2> QED
    BY <2>4 DEF LastBefore
<1>4. LineEndingAt(c, Len(c)) = SubSeq(c, Len(b) + 1, Len(c) - 1)
  BY <1>1, <1>3 DEF LineEndingAt
<1> QED
  BY <1>2, <1>3, <1>4

LEMMA OneMoreLine ==
    ASSUME NEW b \in Seq(Bytes), NEW c \in Seq(Bytes), OneMore(b, c), Numbered(b)
    PROVE  /\ CompleteLines(c) = Append(CompleteLines(b), SubSeq(c, Len(b) + 1, Len(c) - 1))
           /\ Len(CompleteLines(b)) = Cardinality(Ends(b))
           /\ CompleteLines(b) \in Seq(Seq(Bytes))
           /\ Numbered(c)
<1> DEFINE n == Cardinality(Ends(b))
           line == SubSeq(c, Len(b) + 1, Len(c) - 1)
<1>1. /\ n \in Nat
      /\ Len(b) \in Nat
      /\ Len(c) \in Nat
      /\ Len(b) < Len(c)
      /\ Ends(b) \subseteq 1 .. Len(b)
      /\ Ends(c) = Ends(b) \cup {Len(c)}
      /\ Cardinality(Ends(c)) = n + 1
  BY EndsFinite, OneMoreEnd, LenProperties DEF OneMore
<1>2. ASSUME NEW k \in 1 .. n
      PROVE  /\ EndOfLine(b, k) \in Ends(b)
             /\ EndOfLine(c, k) = EndOfLine(b, k)
  BY <1>1, OneMoreNumber DEF Numbered
<1>3. EndOfLine(c, n + 1) = Len(c)
  BY <1>1, OneMoreNumber
<1>4. line \in Seq(Bytes)
  <2>1. \A i \in Len(b) + 1 .. Len(c) - 1 : c[i] \in Bytes
    BY <1>1, LenProperties
  <2> QED
    BY <1>1, <2>1, SubSeqProperties
<1>5. \A k \in 1 .. n : LineEndingAt(b, EndOfLine(b, k)) \in Seq(Bytes)
  BY <1>2, OneMoreText
<1>6. /\ CompleteLines(b) \in Seq(Seq(Bytes))
      /\ Len(CompleteLines(b)) = n
      /\ \A k \in 1 .. n : CompleteLines(b)[k] = LineEndingAt(b, EndOfLine(b, k))
  BY <1>1, <1>5 DEF CompleteLines
<1>7. \A k \in 1 .. n : LineEndingAt(c, EndOfLine(c, k)) = CompleteLines(b)[k]
  BY <1>2, <1>6, OneMoreText
<1>8. LineEndingAt(c, EndOfLine(c, n + 1)) = line
  BY <1>3, OneMoreText
<1>9. \A k \in 1 .. n + 1 : LineEndingAt(c, EndOfLine(c, k)) \in Seq(Bytes)
  <2> SUFFICES ASSUME NEW k \in 1 .. n + 1
               PROVE  LineEndingAt(c, EndOfLine(c, k)) \in Seq(Bytes)
    OBVIOUS
  <2>1. k \in 1 .. n \/ k = n + 1
    BY <1>1
  <2>2. CASE k \in 1 .. n
    BY <1>2, <2>2, OneMoreText
  <2>3. CASE k = n + 1
    BY <1>4, <1>8, <2>3
  <2> QED
    BY <2>1, <2>2, <2>3
<1>10. /\ CompleteLines(c) \in Seq(Seq(Bytes))
       /\ Len(CompleteLines(c)) = n + 1
       /\ \A k \in 1 .. n + 1 : CompleteLines(c)[k] = LineEndingAt(c, EndOfLine(c, k))
  <2>1. CompleteLines(c) = [k \in 1 .. n + 1 |-> LineEndingAt(c, EndOfLine(c, k))]
    BY <1>1 DEF CompleteLines
  <2> HIDE DEF n
  <2> QED
    BY <1>1, <1>9, <2>1
<1>11. /\ Append(CompleteLines(b), line) \in Seq(Seq(Bytes))
       /\ Len(Append(CompleteLines(b), line)) = n + 1
       /\ \A k \in 1 .. n : Append(CompleteLines(b), line)[k] = CompleteLines(b)[k]
       /\ Append(CompleteLines(b), line)[n + 1] = line
  BY <1>4, <1>6, AppendProperties
<1>12. \A k \in 1 .. n + 1 : CompleteLines(c)[k] = Append(CompleteLines(b), line)[k]
  <2> SUFFICES ASSUME NEW k \in 1 .. n + 1
               PROVE  CompleteLines(c)[k] = Append(CompleteLines(b), line)[k]
    OBVIOUS
  <2>1. k \in 1 .. n \/ k = n + 1
    BY <1>1
  <2>2. CASE k \in 1 .. n
    BY <1>7, <1>10, <1>11, <2>2
  <2>3. CASE k = n + 1
    BY <1>8, <1>10, <1>11, <2>3
  <2> QED
    BY <2>1, <2>2, <2>3
<1>13. CompleteLines(c) = Append(CompleteLines(b), line)
  BY <1>10, <1>11, <1>12, SeqEqual
<1>14. Numbered(c)
  <2>1. \A k \in 1 .. n + 1 : EndOfLine(c, k) \in Ends(c)
    <3> SUFFICES ASSUME NEW k \in 1 .. n + 1
                 PROVE  EndOfLine(c, k) \in Ends(c)
      OBVIOUS
    <3>1. k \in 1 .. n \/ k = n + 1
      BY <1>1
    <3> QED
      BY <1>1, <1>2, <1>3, <3>1
  <2>2. \A end \in Ends(c) : LastBefore(c, end) \in 0 .. end - 1
    <3> SUFFICES ASSUME NEW end \in Ends(c)
                 PROVE  LastBefore(c, end) \in 0 .. end - 1
      OBVIOUS
    <3>1. CASE end \in Ends(b)
      BY <3>1, OneMoreText DEF Numbered
    <3>2. CASE end = Len(c)
      BY <1>1, <3>2, OneMoreText
    <3> QED
      BY <1>1, <3>1, <3>2
  <2> QED
    BY <1>1, <2>1, <2>2 DEF Numbered
<1> QED
  BY <1>6, <1>13, <1>14

-----------------------------------------------------------------------------
\* The invariant.

\* How much of the stream is scanned or skipped.
Border == Len(fed) - Len(buf)

Scanned == SubSeq(fed, 1, scanned)

FInv ==
    /\ FTypeOK
    /\ BufferBounded
    /\ scanned <= Border
    /\ \A i \in 1 .. Len(buf) : buf[i] = fed[Border + i]
    /\ \A i \in scanned + 1 .. Border : fed[i] # Newline
    /\ IF discarding THEN Border - scanned > MAX_LINE_BYTES ELSE Border = scanned
    /\ scanned = 0 \/ fed[scanned] = Newline
    /\ Numbered(Scanned)

LEMMA LeastOf ==
    ASSUME NEW T, T \subseteq Nat, T # {}
    PROVE  \E x \in T : \A y \in T : x <= y
<1>1. PICK x \in T : \A y \in T : ~(<<y, x>> \in OpToRel(<, Nat))
  BY NatLessThanWellFounded, WFMin
<1>2. \A y \in T : ~(y < x)
  BY <1>1 DEF OpToRel
<1> QED
  BY <1>2

\* Cut is the first newline of the buffer.
LEMMA CutIsFirst ==
    ASSUME buf \in Seq(Bytes), HasNewline
    PROVE  /\ Cut \in 1 .. Len(buf)
           /\ buf[Cut] = Newline
           /\ \A j \in 1 .. Cut - 1 : buf[j] # Newline
<1>1. DOMAIN buf = 1 .. Len(buf) /\ Len(buf) \in Nat
  BY LenProperties
<1> DEFINE T == {i \in 1 .. Len(buf) : buf[i] = Newline}
<1>2. T \subseteq Nat /\ T # {}
  BY <1>1 DEF HasNewline
<1>3. PICK x \in T : \A y \in T : x <= y
  BY <1>2, LeastOf
<1>4. ASSUME NEW j \in 1 .. x - 1
      PROVE  buf[j] # Newline
  <2>1. j \in 1 .. Len(buf) /\ ~(x <= j)
    BY <1>1, <1>3
  <2> QED
    BY <1>3, <2>1
<1>5. \E i \in DOMAIN buf : buf[i] = Newline /\ \A j \in 1 .. i - 1 : buf[j] # Newline
  BY <1>1, <1>3, <1>4
<1> QED
  BY <1>1, <1>5 DEF Cut

\* What the invariant says of lengths, for the arithmetic.
LEMMA Lengths ==
    ASSUME FInv
    PROVE  /\ Len(fed) \in Nat
           /\ Len(buf) \in Nat
           /\ scanned \in Nat
           /\ Border \in Nat
           /\ scanned <= Border
           /\ Len(fed) = Border + Len(buf)
           /\ MAX_LINE_BYTES \in Nat
           /\ READ_CHUNK \in Nat
<1>1. Len(fed) \in Nat /\ Len(buf) \in Nat
  BY LenProperties DEF FInv, FTypeOK
<1>2. scanned \in Nat /\ scanned <= Border
  BY <1>1 DEF FInv, FTypeOK
<1> QED
  BY <1>1, <1>2, FramingAssumption DEF Border

\* What is scanned is a stream as long as scanned says.
LEMMA ScannedPart ==
    ASSUME NEW s \in Seq(Bytes), NEW n \in 0 .. Len(s)
    PROVE  /\ SubSeq(s, 1, n) \in Seq(Bytes)
           /\ Len(SubSeq(s, 1, n)) = n
           /\ \A i \in 1 .. n : SubSeq(s, 1, n)[i] = s[i]
<1>1. Len(s) \in Nat
  BY LenProperties
<1>2. \A i \in 1 .. n : s[i] \in Bytes
  BY <1>1, LenProperties
<1>3. /\ SubSeq(s, 1, n) \in Seq(Bytes)
      /\ Len(SubSeq(s, 1, n)) = IF 1 <= n THEN n - 1 + 1 ELSE 0
      /\ \A i \in 1 .. n - 1 + 1 : SubSeq(s, 1, n)[i] = s[1 + i - 1]
  BY <1>1, <1>2, SubSeqProperties
<1> QED
  BY <1>1, <1>3

-----------------------------------------------------------------------------
LEMMA FInvInit == FInit => FInv
<1> SUFFICES ASSUME FInit
             PROVE  FInv
  OBVIOUS
<1>1. /\ buf = <<>>
      /\ fed = <<>>
      /\ Len(buf) = 0
      /\ Len(fed) = 0
      /\ scanned = 0
      /\ ~discarding
      /\ ~feeding
  BY DEF FInit
<1>2. FTypeOK
  <2>1. <<>> \in Seq(Bytes) /\ <<>> \in Seq(Seq(Text))
    BY EmptySeq
  <2>2. out = <<>> /\ reports = 0 /\ discarding = FALSE /\ feeding = FALSE
    BY DEF FInit
  <2>3. scanned \in 0 .. Len(fed)
    BY <1>1
  <2> QED
    BY <1>1, <2>1, <2>2, <2>3 DEF FTypeOK
<1>3. ~HasNewline
  BY <1>1 DEF HasNewline
<1>4. BufferBounded
  BY <1>1, <1>3, FramingAssumption DEF BufferBounded
<1>5. Border = 0
  BY <1>1 DEF Border
<1>6. Numbered(Scanned)
  <2>1. Scanned = <<>>
    BY <1>1, SubSeqEmpty DEF Scanned
  <2>2. Ends(<<>>) = {}
    BY DEF Ends
  <2>3. Cardinality(Ends(<<>>)) = 0
    BY <2>2, FS_EmptySet
  <2> QED
    BY <2>1, <2>2, <2>3 DEF Numbered
<1> QED
  BY <1>1, <1>2, <1>4, <1>5, <1>6 DEF FInv

\* Feeding moves neither border.
LEMMA FeedKeeps ==
    ASSUME FInv, NEW data \in Seq(Bytes), Len(data) <= READ_CHUNK, Feed(data)
    PROVE  FInv' /\ Scanned' = Scanned
<1>1. /\ ~feeding
      /\ feeding' = TRUE
      /\ buf' = buf \o data
      /\ fed' = fed \o data
      /\ UNCHANGED <<discarding, out, reports, scanned>>
  BY DEF Feed
<1>2. /\ Len(fed) \in Nat
      /\ Len(buf) \in Nat
      /\ Len(data) \in Nat
      /\ scanned \in Nat
      /\ Border \in Nat
      /\ scanned <= Border
      /\ Len(fed) = Border + Len(buf)
      /\ MAX_LINE_BYTES \in Nat
      /\ READ_CHUNK \in Nat
  BY Lengths, LenProperties
<1>3. /\ buf \in Seq(Bytes)
      /\ fed \in Seq(Bytes)
      /\ scanned \in 0 .. Len(fed)
  BY DEF FInv, FTypeOK
<1>4. /\ buf' \in Seq(Bytes)
      /\ Len(buf') = Len(buf) + Len(data)
      /\ \A i \in 1 .. Len(buf) + Len(data) :
            buf'[i] = IF i <= Len(buf) THEN buf[i] ELSE data[i - Len(buf)]
  BY <1>1, <1>3, ConcatProperties
<1>5. /\ fed' \in Seq(Bytes)
      /\ Len(fed') = Len(fed) + Len(data)
      /\ \A i \in 1 .. Len(fed) + Len(data) :
            fed'[i] = IF i <= Len(fed) THEN fed[i] ELSE data[i - Len(fed)]
  BY <1>1, <1>3, ConcatProperties
<1>6. Border' = Border
  BY <1>2, <1>4, <1>5 DEF Border
<1>7. \A i \in 1 .. Len(fed) : fed'[i] = fed[i]
  BY <1>2, <1>5
<1>8. FTypeOK'
  BY <1>1, <1>2, <1>4, <1>5 DEF FInv, FTypeOK
<1>9. BufferBounded'
  <2>1. Len(buf) <= MAX_LINE_BYTES
    BY <1>1 DEF FInv, BufferBounded
  <2> QED
    BY <1>1, <1>2, <1>4, <2>1 DEF BufferBounded
<1>10. \A i \in 1 .. Len(buf') : buf'[i] = fed'[Border' + i]
  <2> SUFFICES ASSUME NEW i \in 1 .. Len(buf')
               PROVE  buf'[i] = fed'[Border + i]
    BY <1>6
  <2> DEFINE size == Len(buf)
             all == Len(fed)
             more == Len(data)
  <2>0. i \in 1 .. size + more
    BY <1>4
  <2>1. CASE i <= Len(buf)
    <3>1. buf'[i] = buf[i]
      BY <1>2, <1>4, <2>1
    <3>2. buf[i] = fed[Border + i] /\ Border + i \in 1 .. Len(fed)
      BY <1>2, <1>4, <2>1 DEF FInv
    <3> QED
      BY <1>7, <3>1, <3>2
  <2>2. CASE ~(i <= Len(buf))
    <3>1. buf'[i] = data[i - Len(buf)]
      BY <1>2, <1>4, <2>2
    <3>2. PICK x \in Nat : x = Border + i
      BY <1>2, <2>0
    <3>3. x \in 1 .. all + more /\ ~(x <= all)
      <4>1. /\ Border \in Nat /\ size \in Nat /\ more \in Nat /\ all = Border + size
            /\ ~(i <= size)
        BY <1>2, <2>2
      <4> HIDE DEF size, all, more
      <4> QED
        BY <2>0, <3>2, <4>1
    <3>4. fed'[x] = IF x <= all THEN fed[x] ELSE data[x - all]
      BY <1>5, <3>3
    <3>5. x - all = i - size
      BY <1>2, <2>0, <3>2
    <3> QED
      BY <3>1, <3>2, <3>3, <3>4, <3>5
  <2> QED
    BY <2>1, <2>2
<1>11. \A i \in scanned + 1 .. Border : fed'[i] # Newline
  BY <1>2, <1>7 DEF FInv
<1>12. scanned = 0 \/ fed'[scanned] = Newline
  BY <1>2, <1>7 DEF FInv
<1>13. Scanned' = Scanned
  <2>1. scanned \in 0 .. Len(fed')
    BY <1>2, <1>5
  <2>2. /\ SubSeq(fed', 1, scanned) \in Seq(Bytes)
        /\ Len(SubSeq(fed', 1, scanned)) = scanned
        /\ \A i \in 1 .. scanned : SubSeq(fed', 1, scanned)[i] = fed'[i]
    BY <1>5, <2>1, ScannedPart
  <2>3. /\ SubSeq(fed, 1, scanned) \in Seq(Bytes)
        /\ Len(SubSeq(fed, 1, scanned)) = scanned
        /\ \A i \in 1 .. scanned : SubSeq(fed, 1, scanned)[i] = fed[i]
    BY <1>3, ScannedPart
  <2>4. \A i \in 1 .. scanned : SubSeq(fed', 1, scanned)[i] = SubSeq(fed, 1, scanned)[i]
    BY <1>2, <1>7, <2>2, <2>3
  <2>5. SubSeq(fed', 1, scanned) = SubSeq(fed, 1, scanned)
    BY <2>2, <2>3, <2>4, SeqEqual
  <2> QED
    BY <1>1, <2>5 DEF Scanned
<1>14. Numbered(Scanned')
  BY <1>13 DEF FInv
<1>15. IF discarding' THEN Border' - scanned' > MAX_LINE_BYTES ELSE Border' = scanned'
  BY <1>1, <1>6 DEF FInv
<1>16. scanned' <= Border'
  BY <1>1, <1>2, <1>6
<1> QED
  BY <1>1, <1>6, <1>8, <1>9, <1>10, <1>11, <1>12, <1>13, <1>14, <1>15, <1>16 DEF FInv

\* At a newline the border moves behind it, and the scanned part gains the line
\* that ends there: what was skipped and what the buffer has before the newline.
LEMMA NewlineMoves ==
    ASSUME FInv, AtNewline
    PROVE  /\ scanned' = Border + Cut
           /\ Cut \in 1 .. Len(buf)
           /\ buf' \in Seq(Bytes)
           /\ Len(buf') = Len(buf) - Cut
           /\ \A i \in 1 .. Len(buf') : buf'[i] = fed[scanned' + i]
           /\ \A i \in scanned + 1 .. scanned' - 1 : fed[i] # Newline
           /\ fed[scanned'] = Newline
           /\ scanned' \in 1 .. Len(fed)
           /\ scanned < scanned'
<1>1. /\ buf \in Seq(Bytes)
      /\ fed \in Seq(Bytes)
  BY DEF FInv, FTypeOK
<1>2. /\ Cut \in 1 .. Len(buf)
      /\ buf[Cut] = Newline
      /\ \A j \in 1 .. Cut - 1 : buf[j] # Newline
  BY <1>1, CutIsFirst DEF AtNewline
<1>3. /\ Len(fed) \in Nat
      /\ Len(buf) \in Nat
      /\ scanned \in Nat
      /\ Border \in Nat
      /\ scanned <= Border
      /\ Len(fed) = Border + Len(buf)
  BY Lengths
<1> DEFINE size == Len(buf)
<1>4. scanned' = Border + Cut
  BY DEF AtNewline, Border
<1>5. /\ buf' \in Seq(Bytes)
      /\ Len(buf') = size - Cut
      /\ \A i \in 1 .. size - Cut : buf'[i] = buf[Cut + i]
  <2>1. buf' = SubSeq(buf, Cut + 1, size)
    BY DEF AtNewline
  <2>2. Cut \in Nat /\ size \in Nat /\ 1 <= Cut /\ Cut <= size
    BY <1>2, <1>3
  <2>3. \A i \in Cut + 1 .. size : buf[i] \in Bytes
    <3> SUFFICES ASSUME NEW i \in Cut + 1 .. size
                 PROVE  buf[i] \in Bytes
      OBVIOUS
    <3>1. i \in 1 .. Len(buf)
      BY <2>2
    <3> QED
      BY <1>1, <3>1, ElementOfSeq
  <2>4. Cut + 1 \in Int /\ size \in Int
    BY <2>2
  <2> DEFINE m == Cut + 1
  <2>5. /\ SubSeq(buf, m, size) \in Seq(Bytes)
        /\ Len(SubSeq(buf, m, size)) = IF m <= size THEN size - m + 1 ELSE 0
        /\ \A i \in 1 .. size - m + 1 : SubSeq(buf, m, size)[i] = buf[m + i - 1]
    <3> HIDE DEF size
    <3> QED
      BY <2>3, <2>4, SubSeqProperties
  <2>6. (IF m <= size THEN size - m + 1 ELSE 0) = size - Cut /\ size - m + 1 = size - Cut
    BY <2>2
  <2>7. \A i \in 1 .. size - Cut : buf[m + i - 1] = buf[Cut + i]
    <3> SUFFICES ASSUME NEW i \in 1 .. size - Cut
                 PROVE  m + i - 1 = Cut + i
      OBVIOUS
    <3> QED
      BY <2>2
  <2> HIDE DEF size, m
  <2> QED
    BY <2>1, <2>5, <2>6, <2>7 DEF m
<1>6. \A i \in 1 .. size : buf[i] = fed[Border + i]
  BY DEF FInv
<1>7. \A i \in 1 .. size - Cut : buf'[i] = fed[scanned' + i]
  <2> SUFFICES ASSUME NEW i \in 1 .. size - Cut
               PROVE  buf'[i] = fed[scanned' + i]
    OBVIOUS
  <2>1. Cut + i \in 1 .. size /\ Border + (Cut + i) = scanned' + i
    BY <1>2, <1>3, <1>4
  <2>2. buf[Cut + i] = fed[Border + (Cut + i)]
    BY <1>6, <2>1
  <2> QED
    BY <1>5, <2>1, <2>2
<1>8. fed[scanned'] = Newline
  BY <1>2, <1>4, <1>6
<1>9. ASSUME NEW i \in scanned + 1 .. scanned' - 1
      PROVE  fed[i] # Newline
  <2>1. CASE i <= Border
    <3>1. i \in scanned + 1 .. Border
      BY <1>2, <1>3, <1>4, <2>1
    <3> QED
      BY <3>1 DEF FInv
  <2>2. CASE ~(i <= Border)
    <3>1. PICK j \in 1 .. Cut - 1 : i = Border + j
      <4>1. i - Border \in 1 .. Cut - 1 /\ i = Border + (i - Border)
        BY <1>2, <1>3, <1>4, <2>2
      <4> QED
        BY <4>1
    <3>2. j \in 1 .. size
      BY <1>2, <1>3, <3>1
    <3> QED
      BY <1>2, <1>6, <3>1, <3>2
  <2> QED
    BY <2>1, <2>2
<1>10. scanned' \in 1 .. Len(fed) /\ scanned < scanned'
  BY <1>2, <1>3, <1>4
<1> QED
  BY <1>2, <1>4, <1>5, <1>7, <1>8, <1>9, <1>10

\* The line that a newline ends.
NewLine == SubSeq(Scanned', scanned + 1, scanned' - 1)

LEMMA NewlineAdds ==
    ASSUME FInv, AtNewline
    PROVE  /\ Scanned \in Seq(Bytes)
           /\ Len(Scanned) = scanned
           /\ Scanned' \in Seq(Bytes)
           /\ OneMore(Scanned, Scanned')
           /\ CompleteLines(Scanned') = Append(CompleteLines(Scanned), NewLine)
           /\ CompleteLines(Scanned) \in Seq(Seq(Bytes))
           /\ Numbered(Scanned')
           /\ NewLine \in Seq(Text)
           /\ Len(NewLine) = Border + Cut - 1 - scanned
           /\ ~discarding => NewLine = SubSeq(buf, 1, Cut - 1)
<1>1. /\ scanned' = Border + Cut
      /\ Cut \in 1 .. Len(buf)
      /\ \A i \in scanned + 1 .. scanned' - 1 : fed[i] # Newline
      /\ fed[scanned'] = Newline
      /\ scanned' \in 1 .. Len(fed)
      /\ scanned < scanned'
  BY NewlineMoves
<1>2. /\ Len(fed) \in Nat
      /\ Len(buf) \in Nat
      /\ scanned \in Nat
      /\ Border \in Nat
      /\ scanned <= Border
      /\ Len(fed) = Border + Len(buf)
  BY Lengths
<1>3. /\ fed \in Seq(Bytes)
      /\ buf \in Seq(Bytes)
      /\ fed' = fed
  BY DEF FInv, FTypeOK, AtNewline
<1>4. /\ Scanned \in Seq(Bytes)
      /\ Len(Scanned) = scanned
      /\ \A i \in 1 .. scanned : Scanned[i] = fed[i]
  <2>1. scanned \in 0 .. Len(fed)
    BY <1>2
  <2> QED
    BY <1>3, <2>1, ScannedPart DEF Scanned
<1>5. /\ Scanned' \in Seq(Bytes)
      /\ Len(Scanned') = scanned'
      /\ \A i \in 1 .. scanned' : Scanned'[i] = fed[i]
  <2>1. scanned' \in 0 .. Len(fed)
    BY <1>1, <1>2
  <2>2. Scanned' = SubSeq(fed, 1, scanned')
    BY <1>3 DEF Scanned
  <2> QED
    BY <1>3, <2>1, <2>2, ScannedPart
<1>6. OneMore(Scanned, Scanned')
  <2>1. Len(Scanned) < Len(Scanned')
    BY <1>1, <1>4, <1>5
  <2>2. Len(Scanned) = 0 \/ Scanned[Len(Scanned)] = Newline
    <3>1. CASE scanned = 0
      BY <1>4, <3>1
    <3>2. CASE scanned # 0
      <4>1. scanned \in 1 .. scanned
        BY <1>2, <3>2
      <4>2. fed[scanned] = Newline
        BY <3>2 DEF FInv
      <4> QED
        BY <1>4, <4>1, <4>2
    <3> QED
      BY <3>1, <3>2
  <2>3. \A i \in 1 .. Len(Scanned) : Scanned'[i] = Scanned[i]
    <3>1. \A i \in 1 .. scanned : i \in 1 .. scanned'
      BY <1>1, <1>2
    <3> QED
      BY <1>4, <1>5, <3>1
  <2>4. Scanned'[Len(Scanned')] = Newline
    BY <1>1, <1>2, <1>5
  <2>5. \A i \in Len(Scanned) + 1 .. Len(Scanned') - 1 : Scanned'[i] # Newline
    <3>1. \A i \in scanned + 1 .. scanned' - 1 : i \in 1 .. scanned'
      BY <1>1, <1>2
    <3> QED
      BY <1>1, <1>4, <1>5, <3>1
  <2> QED
    BY <2>1, <2>2, <2>3, <2>4, <2>5 DEF OneMore
<1>7. Numbered(Scanned)
  BY DEF FInv
<1>8. /\ CompleteLines(Scanned') = Append(CompleteLines(Scanned), NewLine)
      /\ CompleteLines(Scanned) \in Seq(Seq(Bytes))
      /\ Numbered(Scanned')
  BY <1>4, <1>5, <1>6, <1>7, OneMoreLine DEF NewLine
<1> DEFINE m == scanned + 1
           n == scanned' - 1
<1>9. /\ m \in Int
      /\ n \in Int
      /\ m <= n + 1
      /\ n - m + 1 = Border + Cut - 1 - scanned
  BY <1>1, <1>2
<1>10. \A i \in m .. n : Scanned'[i] \in Text /\ Scanned'[i] = fed[i]
  <2> SUFFICES ASSUME NEW i \in m .. n
               PROVE  Scanned'[i] \in Text /\ Scanned'[i] = fed[i]
    OBVIOUS
  <2>1. i \in 1 .. scanned' /\ i \in scanned + 1 .. scanned' - 1
    BY <1>1, <1>2
  <2>2. Scanned'[i] \in Bytes
    BY <1>5, <2>1, ElementOfSeq
  <2> QED
    BY <1>1, <1>5, <2>1, <2>2 DEF Bytes
<1>11. /\ NewLine \in Seq(Text)
       /\ Len(NewLine) = n - m + 1
       /\ \A i \in 1 .. n - m + 1 : NewLine[i] = Scanned'[m + i - 1]
  <2>1. /\ SubSeq(Scanned', m, n) \in Seq(Text)
        /\ Len(SubSeq(Scanned', m, n)) = IF m <= n THEN n - m + 1 ELSE 0
        /\ \A i \in 1 .. n - m + 1 : SubSeq(Scanned', m, n)[i] = Scanned'[m + i - 1]
    <3> HIDE DEF m, n
    <3> QED
      BY <1>9, <1>10, SubSeqProperties
  <2>2. (IF m <= n THEN n - m + 1 ELSE 0) = n - m + 1
    BY <1>9
  <2> QED
    BY <2>1, <2>2 DEF NewLine
<1>12. ASSUME ~discarding
       PROVE  NewLine = SubSeq(buf, 1, Cut - 1)
  <2>1. Border = scanned
    BY <1>12 DEF FInv
  <2>2. /\ Cut - 1 \in Int
        /\ n - m + 1 = Cut - 1
        /\ \A i \in 1 .. Cut - 1 : i \in 1 .. Len(buf) /\ m + i - 1 = Border + i
                                   /\ Border + i \in m .. n
    BY <1>1, <1>2, <2>1
  <2>3. \A i \in 1 .. Cut - 1 : buf[i] = NewLine[i] /\ buf[i] \in Text
    <3> SUFFICES ASSUME NEW i \in 1 .. Cut - 1
                 PROVE  buf[i] = NewLine[i] /\ buf[i] \in Text
      OBVIOUS
    <3>1. buf[i] = fed[Border + i]
      BY <2>2 DEF FInv
    <3>2. NewLine[i] = Scanned'[Border + i]
      BY <1>11, <2>2
    <3>3. Scanned'[Border + i] \in Text /\ Scanned'[Border + i] = fed[Border + i]
      BY <1>10, <2>2
    <3> QED
      BY <3>1, <3>2, <3>3
  <2>4. /\ SubSeq(buf, 1, Cut - 1) \in Seq(Text)
        /\ Len(SubSeq(buf, 1, Cut - 1)) = IF 1 <= Cut - 1 THEN Cut - 1 - 1 + 1 ELSE 0
        /\ \A i \in 1 .. Cut - 1 - 1 + 1 : SubSeq(buf, 1, Cut - 1)[i] = buf[1 + i - 1]
    BY <2>2, <2>3, SubSeqProperties
  <2>5. /\ Len(SubSeq(buf, 1, Cut - 1)) = Cut - 1
        /\ \A i \in 1 .. Cut - 1 : SubSeq(buf, 1, Cut - 1)[i] = buf[i]
    BY <1>1, <1>2, <2>4
  <2>6. Len(NewLine) = Len(SubSeq(buf, 1, Cut - 1))
    BY <1>11, <2>2, <2>5
  <2>7. \A i \in 1 .. Len(NewLine) : NewLine[i] = SubSeq(buf, 1, Cut - 1)[i]
    BY <1>11, <2>2, <2>3, <2>5
  <2> QED
    BY <1>11, <2>4, <2>6, <2>7, SeqEqual
<1> QED
  BY <1>4, <1>5, <1>6, <1>8, <1>9, <1>11, <1>12

LEMMA NewlineKeeps ==
    ASSUME FInv, AtNewline, discarding' = FALSE, out' \in Seq(Seq(Text)), reports' \in Nat
    PROVE  FInv'
<1>1. /\ scanned' = Border + Cut
      /\ Cut \in 1 .. Len(buf)
      /\ buf' \in Seq(Bytes)
      /\ Len(buf') = Len(buf) - Cut
      /\ \A i \in 1 .. Len(buf') : buf'[i] = fed[scanned' + i]
      /\ fed[scanned'] = Newline
      /\ scanned' \in 1 .. Len(fed)
  BY NewlineMoves
<1>2. /\ Len(fed) \in Nat
      /\ Len(buf) \in Nat
      /\ scanned \in Nat
      /\ Border \in Nat
      /\ Len(fed) = Border + Len(buf)
      /\ MAX_LINE_BYTES \in Nat
      /\ READ_CHUNK \in Nat
  BY Lengths
<1>3. fed' = fed /\ feeding' = feeding /\ feeding = TRUE
  BY DEF AtNewline, FInv, FTypeOK
<1>4. Border' = scanned'
  BY <1>1, <1>2, <1>3 DEF Border
<1>5. FTypeOK'
  <2>1. scanned' \in 0 .. Len(fed)
    BY <1>1, <1>2
  <2> QED
    BY <1>1, <1>3, <2>1 DEF FInv, FTypeOK
<1>6. BufferBounded'
  <2>1. Len(buf) <= MAX_LINE_BYTES + READ_CHUNK
    BY DEF FInv, BufferBounded
  <2>2. Len(buf') <= MAX_LINE_BYTES + READ_CHUNK
    BY <1>1, <1>2, <2>1
  <2> QED
    BY <1>3, <2>2 DEF BufferBounded
<1>7. \A i \in 1 .. Len(buf') : buf'[i] = fed'[Border' + i]
  BY <1>1, <1>3, <1>4
<1>8. \A i \in scanned' + 1 .. Border' : fed'[i] # Newline
  BY <1>1, <1>2, <1>4
<1>9. Numbered(Scanned')
  BY NewlineAdds
<1>10. scanned' <= Border' /\ (IF discarding' THEN Border' - scanned' > MAX_LINE_BYTES
                               ELSE Border' = scanned')
  BY <1>1, <1>2, <1>4
<1>11. scanned' = 0 \/ fed'[scanned'] = Newline
  BY <1>1, <1>3
<1> QED
  BY <1>5, <1>6, <1>7, <1>8, <1>9, <1>10, <1>11 DEF FInv

\* At the end of feed the buffer may join what is skipped; nothing is scanned.
LEMMA EndFeedKeeps ==
    ASSUME FInv, EndFeed
    PROVE  FInv' /\ Scanned' = Scanned
<1>1. /\ feeding' = FALSE
      /\ discarding' = (discarding \/ TailTooLong)
      /\ reports' = reports + (IF TailTooLong /\ ~discarding THEN 1 ELSE 0)
      /\ buf' = IF discarding' THEN <<>> ELSE buf
      /\ UNCHANGED <<out, fed, scanned>>
      /\ ~HasNewline
  BY DEF EndFeed
<1>2. /\ Len(fed) \in Nat
      /\ Len(buf) \in Nat
      /\ scanned \in Nat
      /\ Border \in Nat
      /\ scanned <= Border
      /\ Len(fed) = Border + Len(buf)
      /\ MAX_LINE_BYTES \in Nat
      /\ READ_CHUNK \in Nat
  BY Lengths
<1>3. FTypeOK
  BY DEF FInv
<1>4. \A i \in 1 .. Len(buf) : buf[i] # Newline /\ buf[i] = fed[Border + i]
  <2>1. DOMAIN buf = 1 .. Len(buf)
    BY <1>3, LenProperties DEF FTypeOK
  <2> QED
    BY <1>1, <2>1 DEF FInv, HasNewline
<1>5. \A i \in Border + 1 .. Len(fed) : fed[i] # Newline
  <2> SUFFICES ASSUME NEW i \in Border + 1 .. Len(fed)
               PROVE  fed[i] # Newline
    OBVIOUS
  <2>1. PICK j \in 1 .. Len(buf) : i = Border + j
    <3>1. i - Border \in 1 .. Len(buf) /\ i = Border + (i - Border)
      BY <1>2
    <3> QED
      BY <3>1
  <2> QED
    BY <1>4, <2>1
<1>6. reports' \in Nat
  BY <1>1, <1>3 DEF FTypeOK
<1>7. Scanned' = Scanned
  BY <1>1 DEF Scanned
<1>8. /\ Numbered(Scanned')
      /\ scanned' = 0 \/ fed'[scanned'] = Newline
  BY <1>1, <1>7 DEF FInv
<1>9. CASE discarding'
  <2>1. /\ buf' = <<>>
        /\ Len(buf') = 0
        /\ buf' \in Seq(Bytes)
    <3>1. buf' = <<>>
      BY <1>1, <1>9
    <3>2. <<>> \in Seq(Bytes) /\ Len(<<>>) = 0
      BY EmptySeq
    <3> QED
      BY <3>1, <3>2
  <2>2. Border' = Len(fed)
    <3>1. fed' = fed /\ Len(fed) \in Nat
      BY <1>1, <1>2
    <3>2. Border' = Len(fed') - Len(buf')
      BY DEF Border
    <3> QED
      BY <2>1, <3>1, <3>2
  <2>3. FTypeOK'
    BY <1>1, <1>3, <1>6, <2>1 DEF FTypeOK
  <2>4. BufferBounded'
    <3>1. ~HasNewline'
      BY <2>1 DEF HasNewline
    <3> QED
      BY <1>2, <2>1, <3>1 DEF BufferBounded
  <2>5. \A i \in scanned + 1 .. Len(fed) : fed[i] # Newline
    <3> SUFFICES ASSUME NEW i \in scanned + 1 .. Len(fed)
                 PROVE  fed[i] # Newline
      OBVIOUS
    <3>1. i \in scanned + 1 .. Border \/ i \in Border + 1 .. Len(fed)
      BY <1>2
    <3> QED
      BY <1>5, <3>1 DEF FInv
  <2>6. Len(fed) - scanned > MAX_LINE_BYTES
    <3>1. CASE discarding
      <4>1. Border - scanned > MAX_LINE_BYTES
        BY <3>1 DEF FInv
      <4> QED
        BY <1>2, <4>1
    <3>2. CASE ~discarding
      <4>1. Border = scanned /\ Len(buf) > MAX_LINE_BYTES
        BY <1>1, <1>9, <3>2 DEF FInv, TailTooLong
      <4> QED
        BY <1>2, <4>1
    <3> QED
      BY <3>1, <3>2
  <2>7. scanned <= Len(fed)
    BY <1>2
  <2>8. \A i \in 1 .. Len(buf') : buf'[i] = fed'[Border' + i]
    BY <2>1
  <2> QED
    BY <1>1, <1>7, <1>8, <1>9, <2>2, <2>3, <2>4, <2>5, <2>6, <2>7, <2>8 DEF FInv
<1>10. CASE ~discarding'
  <2>1. ~discarding /\ ~TailTooLong /\ buf' = buf
    BY <1>1, <1>10
  <2>2. discarding' = discarding
    BY <1>1, <1>3, <2>1 DEF FTypeOK
  <2>3. Border' = Border
    BY <1>1, <2>1 DEF Border
  <2>4. FTypeOK'
    BY <1>1, <1>3, <1>6, <2>1, <2>2 DEF FTypeOK
  <2>5. BufferBounded'
    <3>1. HasNewline' = HasNewline
      BY <2>1 DEF HasNewline
    <3>2. Len(buf) <= MAX_LINE_BYTES
      BY <1>2, <2>1 DEF TailTooLong
    <3> QED
      BY <1>1, <1>2, <2>1, <3>1, <3>2 DEF BufferBounded
  <2> QED
    BY <1>1, <1>7, <1>8, <2>1, <2>2, <2>3, <2>4, <2>5 DEF FInv
<1> QED
  BY <1>7, <1>9, <1>10

-----------------------------------------------------------------------------
\* Every step keeps the invariant and is a step of the filter, or none.

Taken == CompleteLines(SubSeq(fed, 1, scanned))

LEMMA FilterTakes ==
    ASSUME Taken \in Seq(Seq(Bytes)), NEW line \in Seq(Text),
           Taken' = Append(Taken, line),
           Filter!Emit(line) \/ Filter!Refuse(line)
    PROVE  Filter!FilterNext
<1>1. line \in Seq(Bytes)
  BY SeqMonotonic DEF Bytes
<1>2. /\ Len(Taken') = Len(Taken) + 1
      /\ Taken'[Len(Taken) + 1] = line
  BY <1>1, AppendProperties
<1>3. Taken'[Len(Taken')] = line
  BY <1>2
<1> QED
  BY <1>2, <1>3 DEF Filter!FilterNext, Taken

LEMMA RefusedEnds ==
    ASSUME FInv, EndRefused
    PROVE  FInv' /\ Filter!FilterNext
<1>1. /\ AtNewline
      /\ discarding
      /\ discarding' = FALSE
      /\ UNCHANGED <<out, reports>>
  BY DEF EndRefused
<1>2. out \in Seq(Seq(Text)) /\ reports \in Nat
  BY DEF FInv, FTypeOK
<1>3. FInv'
  BY <1>1, <1>2, NewlineKeeps
<1>4. /\ Taken' = Append(Taken, NewLine)
      /\ Taken \in Seq(Seq(Bytes))
      /\ NewLine \in Seq(Text)
      /\ Len(NewLine) = Border + Cut - 1 - scanned
  BY <1>1, NewlineAdds DEF Taken, Scanned
<1>5. Len(NewLine) > MAX_LINE_BYTES
  <2>1. Border - scanned > MAX_LINE_BYTES
    BY <1>1 DEF FInv
  <2>2. Cut \in 1 .. Len(buf)
    BY <1>1, NewlineMoves
  <2> QED
    BY <1>4, <2>1, <2>2, Lengths
<1>6. reports' - (IF discarding' THEN 1 ELSE 0) = reports - (IF discarding THEN 1 ELSE 0) + 1
  BY <1>1, <1>2
<1>7. Filter!Refuse(NewLine)
  BY <1>1, <1>5, <1>6 DEF Filter!Refuse
<1> QED
  BY <1>3, <1>4, <1>7, FilterTakes

LEMMA LineDropped ==
    ASSUME FInv, DropLine
    PROVE  FInv' /\ Filter!FilterNext
<1>1. /\ AtNewline
      /\ ~discarding
      /\ Cut - 1 > MAX_LINE_BYTES
      /\ reports' = reports + 1
      /\ UNCHANGED <<discarding, out>>
  BY DEF DropLine
<1>2. out \in Seq(Seq(Text)) /\ reports \in Nat /\ discarding = FALSE
  BY <1>1 DEF FInv, FTypeOK
<1>3. FInv'
  <2>1. discarding' = FALSE /\ out' = out
    BY <1>1, <1>2
  <2>2. reports' \in Nat
    BY <1>1, <1>2
  <2> QED
    BY <1>1, <1>2, <2>1, <2>2, NewlineKeeps
<1>4. /\ Taken' = Append(Taken, NewLine)
      /\ Taken \in Seq(Seq(Bytes))
      /\ NewLine \in Seq(Text)
      /\ Len(NewLine) = Border + Cut - 1 - scanned
  BY <1>1, NewlineAdds DEF Taken, Scanned
<1>5. Len(NewLine) > MAX_LINE_BYTES
  <2>1. Border = scanned
    BY <1>1 DEF FInv
  <2>2. Cut \in 1 .. Len(buf)
    BY <1>1, NewlineMoves
  <2> QED
    BY <1>1, <1>4, <2>1, <2>2, Lengths
<1>6. reports' - (IF discarding' THEN 1 ELSE 0) = reports - (IF discarding THEN 1 ELSE 0) + 1
  BY <1>1, <1>2
<1>7. Filter!Refuse(NewLine)
  BY <1>1, <1>5, <1>6 DEF Filter!Refuse
<1> QED
  BY <1>3, <1>4, <1>7, FilterTakes

LEMMA LineFramed ==
    ASSUME FInv, FrameLine
    PROVE  FInv' /\ Filter!FilterNext
<1>1. /\ AtNewline
      /\ ~discarding
      /\ Cut - 1 <= MAX_LINE_BYTES
      /\ out' = Append(out, SubSeq(buf, 1, Cut - 1))
      /\ UNCHANGED <<discarding, reports>>
  BY DEF FrameLine
<1>2. out \in Seq(Seq(Text)) /\ reports \in Nat /\ discarding = FALSE
  BY <1>1 DEF FInv, FTypeOK
<1>3. /\ Taken' = Append(Taken, NewLine)
      /\ Taken \in Seq(Seq(Bytes))
      /\ NewLine \in Seq(Text)
      /\ Len(NewLine) = Border + Cut - 1 - scanned
      /\ NewLine = SubSeq(buf, 1, Cut - 1)
  BY <1>1, NewlineAdds DEF Taken, Scanned
<1>4. out' = Append(out, NewLine) /\ out' \in Seq(Seq(Text))
  BY <1>1, <1>2, <1>3, AppendProperties
<1>5. FInv'
  BY <1>1, <1>2, <1>4, NewlineKeeps
<1>6. Len(NewLine) <= MAX_LINE_BYTES
  <2>1. Border = scanned
    BY <1>1 DEF FInv
  <2>2. Cut \in 1 .. Len(buf)
    BY <1>1, NewlineMoves
  <2> QED
    BY <1>1, <1>3, <2>1, <2>2, Lengths
<1>7. Filter!Emit(NewLine)
  BY <1>1, <1>4, <1>6 DEF Filter!Emit
<1> QED
  BY <1>3, <1>5, <1>7, FilterTakes

\* The variables of the filter.
FilterVars == <<Taken, out, reports - (IF discarding THEN 1 ELSE 0)>>

LEMMA FInvNext ==
    ASSUME FInv, [FNext]_fvars
    PROVE  FInv' /\ (Filter!FilterNext \/ UNCHANGED FilterVars)
<1>1. CASE UNCHANGED fvars
  <2>1. /\ UNCHANGED <<buf, discarding, feeding, out, reports, fed, scanned>>
    BY <1>1 DEF fvars, framer
  <2>2. FInv'
    BY <2>1 DEF FInv, FTypeOK, BufferBounded, HasNewline, Border, Scanned
  <2>3. UNCHANGED FilterVars
    BY <2>1 DEF FilterVars, Taken
  <2> QED
    BY <2>2, <2>3
<1>2. ASSUME NEW data \in Chunks, Feed(data)
      PROVE  FInv' /\ UNCHANGED FilterVars
  <2>1. data \in Seq(Bytes) /\ Len(data) <= READ_CHUNK
    BY FramingAssumption DEF Chunks
  <2>2. FInv' /\ Scanned' = Scanned
    BY <1>2, <2>1, FeedKeeps
  <2>3. UNCHANGED <<discarding, out, reports>>
    BY <1>2 DEF Feed
  <2> QED
    BY <2>2, <2>3 DEF FilterVars, Taken, Scanned
<1>3. CASE EndFeed
  <2>1. FInv' /\ Scanned' = Scanned
    BY <1>3, EndFeedKeeps
  <2>2. /\ discarding' = (discarding \/ TailTooLong)
        /\ reports' = reports + (IF TailTooLong /\ ~discarding THEN 1 ELSE 0)
        /\ out' = out
    BY <1>3 DEF EndFeed
  <2>3. reports \in Nat /\ discarding \in BOOLEAN
    BY DEF FInv, FTypeOK
  <2>4. reports' - (IF discarding' THEN 1 ELSE 0) = reports - (IF discarding THEN 1 ELSE 0)
    <3>1. CASE discarding
      <4>1. discarding' /\ reports' = reports + 0
        BY <2>2, <3>1
      <4> QED
        BY <2>3, <3>1, <4>1
    <3>2. CASE ~discarding /\ TailTooLong
      <4>1. discarding' /\ reports' = reports + 1
        BY <2>2, <3>2
      <4> QED
        BY <2>3, <3>2, <4>1
    <3>3. CASE ~discarding /\ ~TailTooLong
      <4>1. ~discarding' /\ reports' = reports + 0
        BY <2>2, <3>3
      <4> QED
        BY <2>3, <3>3, <4>1
    <3> QED
      BY <3>1, <3>2, <3>3
  <2> QED
    BY <2>1, <2>2, <2>4 DEF FilterVars, Taken, Scanned
<1> QED
  BY <1>1, <1>2, <1>3, RefusedEnds, LineDropped, LineFramed DEF FNext, Frame

LEMMA FilterStarts == FInit => Filter!FilterInit
<1> SUFFICES ASSUME FInit
             PROVE  Filter!FilterInit
  OBVIOUS
<1>1. SubSeq(fed, 1, scanned) = <<>>
  BY SubSeqEmpty DEF FInit
<1>2. Ends(<<>>) = {}
  BY DEF Ends
<1>3. Cardinality(Ends(<<>>)) = 0
  BY <1>2, FS_EmptySet
<1>4. CompleteLines(<<>>) = <<>>
  BY <1>3 DEF CompleteLines
<1>5. out = <<>> /\ reports - (IF discarding THEN 1 ELSE 0) = 0
  <2>1. out = <<>>
    BY DEF FInit
  <2>2. reports = 0
    BY DEF FInit
  <2>3. discarding = FALSE
    BY DEF FInit
  <2>4. (IF discarding THEN 1 ELSE 0) = 0
    BY <2>3, Zenon
  <2>5. PICK k : k = (IF discarding THEN 1 ELSE 0)
    OBVIOUS
  <2>6. reports - k = 0
    <3>1. k = 0
      BY <2>4, <2>5, Zenon
    <3> QED
      BY <3>1, <2>2
  <2>7. reports - (IF discarding THEN 1 ELSE 0) = 0
    BY <2>5, <2>6, Zenon
  <2> QED
    BY <2>1, <2>7
<1>6. CompleteLines(SubSeq(fed, 1, scanned)) = <<>>
  BY <1>1, <1>4
<1> QED
  BY <1>5, <1>6 DEF Filter!FilterInit

LEMMA FramerInvariant == FSpec => []FInv
<1>1. FInv /\ [FNext]_fvars => FInv'
  BY FInvNext
<1> QED
  BY <1>1, FInvInit, PTL DEF FSpec

\* However playerctl's output is cut into reads, the lines that LineFramer hands on
\* are those of the output, in order and unchanged, without the ones over the cap,
\* each of which is reported once: for any stream, read size and cap.
THEOREM FramerIsFilter == FSpec => ImplementsFilter
<1>1. FInv /\ [FNext]_fvars => [Filter!FilterNext]_FilterVars
  BY FInvNext
<1>2. FSpec => Filter!FilterInit /\ [][Filter!FilterNext]_FilterVars
  BY <1>1, FilterStarts, FramerInvariant, PTL DEF FSpec
<1> QED
  BY <1>2 DEF ImplementsFilter, Filter!FilterSpec, FilterVars, Taken

\* What the reader holds of playerctl's output is bounded by the cap between reads,
\* and by the cap and one read during one.
THEOREM BufferStaysBounded == FSpec => [](FTypeOK /\ BufferBounded)
<1>1. FInv => FTypeOK /\ BufferBounded
  BY DEF FInv
<1> QED
  BY <1>1, FramerInvariant, PTL
=============================================================================
