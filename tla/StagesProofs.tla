---------------------------- MODULE StagesProofs -----------------------------
(***************************************************************************)
(* What a job of the worker may connect to, how long it may take and that  *)
(* its child process is contained, for every allowlist, every server and   *)
(* every wlchroma-ctl.                                                     *)
(***************************************************************************)
EXTENDS Stages, SequenceTheorems, TLAPS

-----------------------------------------------------------------------------
\* The destination policy is what it says.

\* A host that is allowed is a provider's or one of its subdomains.
LEMMA AllowedIsProvider ==
    ASSUME NEW host \in Hosts, host # <<>>, HostAllowed(host)
    PROVE  ProviderHost(host)
<1>1. PICK d \in art_domains :
          \/ host = d
          \/ /\ IsSuffix(d, host)
             /\ Len(host) > Len(d)
             /\ host[Len(host) - Len(d)] = "."
  BY DEF HostAllowed
<1>2. d \in Hosts
  BY PolicyAssumption DEF art_domains
<1>3. CASE host = d
  <2>1. SubSeq(host, 1, Len(host)) = d
    BY <1>3, SubSeqFull DEF Hosts
  <2> QED
    BY <2>1 DEF ProviderHost, LabelStarts
<1>4. CASE IsSuffix(d, host) /\ Len(host) > Len(d) /\ host[Len(host) - Len(d)] = "."
  <2> DEFINE start == Len(host) - Len(d) + 1
  <2>1. Len(host) \in Nat /\ Len(d) \in Nat
    BY <1>2 DEF Hosts
  <2>2. start \in LabelStarts(host)
    BY <1>4, <2>1 DEF LabelStarts, Hosts
  <2>3. SubSeq(Reverse(d), 1, Len(Reverse(d))) = SubSeq(Reverse(host), 1, Len(Reverse(d)))
    BY <1>4 DEF IsSuffix, IsPrefix
  <2>4. Len(Reverse(d)) = Len(d) /\ Len(Reverse(host)) = Len(host)
    BY <2>1 DEF Reverse
  <2>5. ASSUME NEW k \in 1 .. Len(d)
        PROVE  Reverse(d)[k] = Reverse(host)[k]
    <3>1. SubSeq(Reverse(d), 1, Len(d))[k] = SubSeq(Reverse(host), 1, Len(d))[k]
      BY <2>3, <2>4
    <3> QED
      BY <1>4, <2>1, <2>4, <3>1 DEF Reverse
  <2>6. ASSUME NEW i \in 1 .. Len(d)
        PROVE  d[i] = host[Len(host) - Len(d) + i]
    <3>1. Len(d) - i + 1 \in 1 .. Len(d)
      BY <2>1
    <3>2. Reverse(d)[Len(d) - i + 1] = Reverse(host)[Len(d) - i + 1]
      BY <2>5, <3>1
    <3> QED
      BY <1>4, <2>1, <3>1, <3>2 DEF Reverse
  <2>7. SubSeq(host, start, Len(host)) = d
    <3>1. SubSeq(host, start, Len(host)) \in Hosts
      BY <1>4, <2>1 DEF Hosts
    <3>2. Len(SubSeq(host, start, Len(host))) = Len(d)
      BY <1>4, <2>1 DEF Hosts
    <3>3. ASSUME NEW i \in 1 .. Len(d)
          PROVE  SubSeq(host, start, Len(host))[i] = d[i]
      BY <1>4, <2>1, <2>6 DEF Hosts
    <3> QED
      BY <1>2, <3>1, <3>2, <3>3, SeqEqual DEF Hosts
  <2> QED
    BY <2>2, <2>7 DEF ProviderHost
<1> QED
  BY <1>1, <1>3, <1>4

\* What it means that an address is not before another, group by group.
LEMMA NotBefore ==
    ASSUME NEW n \in {4, 8}, NEW a \in [1 .. n -> Nat], NEW b \in [1 .. n -> Nat],
           ~Before(a, b)
    PROVE  /\ b[1] <= a[1]
           /\ a[1] = b[1] => b[2] <= a[2]
           /\ a[1] = b[1] /\ a[2] = b[2] => b[3] <= a[3]
<1>1. DOMAIN a = 1 .. n /\ 1 \in 1 .. n /\ 2 \in 1 .. n /\ 3 \in 1 .. n
  OBVIOUS
<1>2. /\ a[1] \in Nat /\ a[2] \in Nat /\ a[3] \in Nat
      /\ b[1] \in Nat /\ b[2] \in Nat /\ b[3] \in Nat
  BY <1>1
<1>3. ASSUME NEW i \in {1, 2, 3}
      PROVE  ~(a[i] < b[i] /\ \A j \in 1 .. i - 1 : a[j] = b[j])
  BY <1>1 DEF Before
<1>4. b[1] <= a[1]
  BY <1>2, <1>3
<1>5. a[1] = b[1] => b[2] <= a[2]
  <2>1. 1 .. 2 - 1 = {1}
    OBVIOUS
  <2> QED
    BY <1>2, <1>3, <2>1
<1>6. a[1] = b[1] /\ a[2] = b[2] => b[3] <= a[3]
  <2>1. 1 .. 3 - 1 = {1, 2}
    OBVIOUS
  <2> QED
    BY <1>2, <1>3, <2>1
<1> QED
  BY <1>4, <1>5, <1>6

\* What it means for an address to lie between two others.
LEMMA WithinBounds ==
    ASSUME NEW n \in {4, 8}, NEW a \in [1 .. n -> Nat],
           NEW lo \in [1 .. n -> Nat], NEW hi \in [1 .. n -> Nat],
           Within(a, <<lo, hi>>)
    PROVE  /\ lo[1] <= a[1] /\ a[1] <= hi[1]
           /\ a[1] = lo[1] => lo[2] <= a[2]
           /\ a[1] = hi[1] => a[2] <= hi[2]
           /\ a[1] = lo[1] /\ a[2] = lo[2] => lo[3] <= a[3]
           /\ a[1] = hi[1] /\ a[2] = hi[2] => a[3] <= hi[3]
<1>1. ~Before(a, lo) /\ ~Before(hi, a)
  BY DEF Within
<1> HIDE DEF Within
<1> QED
  BY <1>1, NotBefore

\* What the first bits of an address of four groups are, one case for each kind of
\* prefix in the table.
LEMMA Block4 ==
    ASSUME NEW a \in [1 .. 4 -> 0 .. 255]
    PROVE  /\ \A x : InBlock(a, <<x>>, 8) <=> a[1] = x
           /\ \A x, y : InBlock(a, <<x, y>>, 16) <=> a[1] = x /\ a[2] = y
           /\ \A x, y, z : InBlock(a, <<x, y, z>>, 24) <=> a[1] = x /\ a[2] = y /\ a[3] = z
           /\ \A x : InBlock(a, <<x>>, 4) <=> a[1] \div 16 = x \div 16
           /\ \A x, y : InBlock(a, <<x, y>>, 10) <=> a[1] = x /\ a[2] \div 64 = y \div 64
           /\ \A x, y : InBlock(a, <<x, y>>, 12) <=> a[1] = x /\ a[2] \div 16 = y \div 16
           /\ \A x, y : InBlock(a, <<x, y>>, 15) <=> a[1] = x /\ a[2] \div 2 = y \div 2
<1>1. Len(a) = 4
  OBVIOUS
<1>2. 1 .. 0 = {} /\ 1 .. 1 = {1} /\ 1 .. 2 = {1, 2} /\ 1 .. 3 = {1, 2, 3}
  OBVIOUS
<1>3. ASSUME NEW x PROVE InBlock(a, <<x>>, 8) <=> a[1] = x
  <2>1. 8 \div 8 = 1 /\ 8 % 8 = 0
    OBVIOUS
  <2> QED
    BY <1>1, <1>2, <2>1 DEF InBlock
<1>4. ASSUME NEW x, NEW y PROVE InBlock(a, <<x, y>>, 16) <=> a[1] = x /\ a[2] = y
  <2>1. 16 \div 8 = 2 /\ 16 % 8 = 0
    OBVIOUS
  <2> QED
    BY <1>1, <1>2, <2>1 DEF InBlock
<1>5. ASSUME NEW x, NEW y, NEW z
      PROVE  InBlock(a, <<x, y, z>>, 24) <=> a[1] = x /\ a[2] = y /\ a[3] = z
  <2>1. 24 \div 8 = 3 /\ 24 % 8 = 0
    OBVIOUS
  <2> QED
    BY <1>1, <1>2, <2>1 DEF InBlock
<1>6. ASSUME NEW x PROVE InBlock(a, <<x>>, 4) <=> a[1] \div 16 = x \div 16
  <2>1. 4 \div 8 = 0 /\ 4 % 8 = 4 /\ PowersOf2[4] = 16
    BY DEF PowersOf2
  <2> QED
    BY <1>1, <1>2, <2>1 DEF InBlock
<1>7. ASSUME NEW x, NEW y
      PROVE  InBlock(a, <<x, y>>, 10) <=> a[1] = x /\ a[2] \div 64 = y \div 64
  <2>1. 10 \div 8 = 1 /\ 10 % 8 = 2 /\ PowersOf2[6] = 64
    BY DEF PowersOf2
  <2> QED
    BY <1>1, <1>2, <2>1 DEF InBlock
<1>8. ASSUME NEW x, NEW y
      PROVE  InBlock(a, <<x, y>>, 12) <=> a[1] = x /\ a[2] \div 16 = y \div 16
  <2>1. 12 \div 8 = 1 /\ 12 % 8 = 4 /\ PowersOf2[4] = 16
    BY DEF PowersOf2
  <2> QED
    BY <1>1, <1>2, <2>1 DEF InBlock
<1>9. ASSUME NEW x, NEW y
      PROVE  InBlock(a, <<x, y>>, 15) <=> a[1] = x /\ a[2] \div 2 = y \div 2
  <2>1. 15 \div 8 = 1 /\ 15 % 8 = 7 /\ PowersOf2[1] = 2
    BY DEF PowersOf2
  <2> QED
    BY <1>1, <1>2, <2>1 DEF InBlock
<1> QED
  BY <1>3, <1>4, <1>5, <1>6, <1>7, <1>8, <1>9
\* An address in a reserved range of four groups, range by range.
LEMMA Reserved4Blocked ==
    ASSUME NEW a \in [1 .. 4 -> 0 .. 255], NEW range \in ReservedRanges4, Within(a, range)
    PROVE  \E block \in NonGlobal4 : InBlock(a, block[1], block[2])
<1>1. a[1] \in 0 .. 255 /\ a[2] \in 0 .. 255 /\ a[3] \in 0 .. 255 /\ a \in [1 .. 4 -> Nat]
  OBVIOUS
<1>2. CASE range = <<<<0, 0, 0, 0>>, <<0, 255, 255, 255>>>>
  <2>1. a[1] >= 0 /\ a[1] <= 0
    BY <1>1, <1>2, WithinBounds
  <2>2. InBlock(a, <<0>>, 8)
    BY <1>1, <2>1, Block4
  <2> QED
    BY <2>2 DEF NonGlobal4
<1>3. CASE range = <<<<10, 0, 0, 0>>, <<10, 255, 255, 255>>>>
  <2>1. a[1] >= 10 /\ a[1] <= 10
    BY <1>1, <1>3, WithinBounds
  <2>2. InBlock(a, <<10>>, 8)
    BY <1>1, <2>1, Block4
  <2> QED
    BY <2>2 DEF NonGlobal4
<1>4. CASE range = <<<<100, 64, 0, 0>>, <<100, 127, 255, 255>>>>
  <2>1. a[1] >= 100 /\ a[1] <= 100 /\ a[2] >= 64 /\ a[2] <= 127
    BY <1>1, <1>4, WithinBounds
  <2>2. InBlock(a, <<100, 64>>, 10)
    BY <1>1, <2>1, Block4
  <2> QED
    BY <2>2 DEF NonGlobal4
<1>5. CASE range = <<<<127, 0, 0, 0>>, <<127, 255, 255, 255>>>>
  <2>1. a[1] >= 127 /\ a[1] <= 127
    BY <1>1, <1>5, WithinBounds
  <2>2. InBlock(a, <<127>>, 8)
    BY <1>1, <2>1, Block4
  <2> QED
    BY <2>2 DEF NonGlobal4
<1>6. CASE range = <<<<169, 254, 0, 0>>, <<169, 254, 255, 255>>>>
  <2>1. a[1] >= 169 /\ a[1] <= 169 /\ a[2] >= 254 /\ a[2] <= 254
    BY <1>1, <1>6, WithinBounds
  <2>2. InBlock(a, <<169, 254>>, 16)
    BY <1>1, <2>1, Block4
  <2> QED
    BY <2>2 DEF NonGlobal4
<1>7. CASE range = <<<<172, 16, 0, 0>>, <<172, 31, 255, 255>>>>
  <2>1. a[1] >= 172 /\ a[1] <= 172 /\ a[2] >= 16 /\ a[2] <= 31
    BY <1>1, <1>7, WithinBounds
  <2>2. InBlock(a, <<172, 16>>, 12)
    BY <1>1, <2>1, Block4
  <2> QED
    BY <2>2 DEF NonGlobal4
<1>8. CASE range = <<<<192, 0, 0, 0>>, <<192, 0, 0, 255>>>>
  <2>1. a[1] >= 192 /\ a[1] <= 192 /\ a[2] >= 0 /\ a[2] <= 0 /\ a[3] >= 0 /\ a[3] <= 0
    BY <1>1, <1>8, WithinBounds
  <2>2. InBlock(a, <<192, 0, 0>>, 24)
    BY <1>1, <2>1, Block4
  <2> QED
    BY <2>2 DEF NonGlobal4
<1>9. CASE range = <<<<192, 0, 2, 0>>, <<192, 0, 2, 255>>>>
  <2>1. a[1] >= 192 /\ a[1] <= 192 /\ a[2] >= 0 /\ a[2] <= 0 /\ a[3] >= 2 /\ a[3] <= 2
    BY <1>1, <1>9, WithinBounds
  <2>2. InBlock(a, <<192, 0, 2>>, 24)
    BY <1>1, <2>1, Block4
  <2> QED
    BY <2>2 DEF NonGlobal4
<1>10. CASE range = <<<<192, 88, 99, 0>>, <<192, 88, 99, 255>>>>
  <2>1. a[1] >= 192 /\ a[1] <= 192 /\ a[2] >= 88 /\ a[2] <= 88 /\ a[3] >= 99 /\ a[3] <= 99
    BY <1>1, <1>10, WithinBounds
  <2>2. InBlock(a, <<192, 88, 99>>, 24)
    BY <1>1, <2>1, Block4
  <2> QED
    BY <2>2 DEF NonGlobal4
<1>11. CASE range = <<<<192, 168, 0, 0>>, <<192, 168, 255, 255>>>>
  <2>1. a[1] >= 192 /\ a[1] <= 192 /\ a[2] >= 168 /\ a[2] <= 168
    BY <1>1, <1>11, WithinBounds
  <2>2. InBlock(a, <<192, 168>>, 16)
    BY <1>1, <2>1, Block4
  <2> QED
    BY <2>2 DEF NonGlobal4
<1>12. CASE range = <<<<198, 18, 0, 0>>, <<198, 19, 255, 255>>>>
  <2>1. a[1] >= 198 /\ a[1] <= 198 /\ a[2] >= 18 /\ a[2] <= 19
    BY <1>1, <1>12, WithinBounds
  <2>2. InBlock(a, <<198, 18>>, 15)
    BY <1>1, <2>1, Block4
  <2> QED
    BY <2>2 DEF NonGlobal4
<1>13. CASE range = <<<<198, 51, 100, 0>>, <<198, 51, 100, 255>>>>
  <2>1. a[1] >= 198 /\ a[1] <= 198 /\ a[2] >= 51 /\ a[2] <= 51 /\ a[3] >= 100 /\ a[3] <= 100
    BY <1>1, <1>13, WithinBounds
  <2>2. InBlock(a, <<198, 51, 100>>, 24)
    BY <1>1, <2>1, Block4
  <2> QED
    BY <2>2 DEF NonGlobal4
<1>14. CASE range = <<<<203, 0, 113, 0>>, <<203, 0, 113, 255>>>>
  <2>1. a[1] >= 203 /\ a[1] <= 203 /\ a[2] >= 0 /\ a[2] <= 0 /\ a[3] >= 113 /\ a[3] <= 113
    BY <1>1, <1>14, WithinBounds
  <2>2. InBlock(a, <<203, 0, 113>>, 24)
    BY <1>1, <2>1, Block4
  <2> QED
    BY <2>2 DEF NonGlobal4
<1>15. CASE range = <<<<224, 0, 0, 0>>, <<255, 255, 255, 255>>>>
  <2>1. a[1] >= 224 /\ a[1] <= 255
    BY <1>1, <1>15, WithinBounds
  <2>2. CASE a[1] < 240
    BY <1>1, <2>1, <2>2, Block4 DEF NonGlobal4
  <2>3. CASE a[1] >= 240
    BY <1>1, <2>1, <2>3, Block4 DEF NonGlobal4
  <2> QED
    BY <1>1, <2>2, <2>3
<1> QED
  BY <1>2, <1>3, <1>4, <1>5, <1>6, <1>7, <1>8, <1>9, <1>10, <1>11, <1>12, <1>13,
        <1>14, <1>15 DEF ReservedRanges4

\* The largest group of sixteen bits is a number.
LEMMA MaxWordIsNat == MaxWord \in Nat
BY DEF MaxWord

\* The prefixes of eight groups.
LEMMA Block6 ==
    ASSUME NEW a \in Addresses6
    PROVE  /\ InBlock(a, <<8192>>, 3) <=> a[1] \div 8192 = 1
           /\ InBlock(a, <<8193>>, 23) <=> a[1] = 8193 /\ a[2] \div 512 = 0
           /\ InBlock(a, <<8193, 3512>>, 32) <=> a[1] = 8193 /\ a[2] = 3512
           /\ InBlock(a, <<8194>>, 16) <=> a[1] = 8194
           /\ InBlock(a, <<16383>>, 20) <=> a[1] = 16383 /\ a[2] \div 4096 = 0
<1>1. Len(a) = 8 /\ Len(a) # 4
  <2>1. a \in [1 .. 8 -> Nat]
    BY MaxWordIsNat, SMT DEF Addresses6
  <2> QED
    BY <2>1, SMT
<1>2. 1 .. 0 = {} /\ 1 .. 1 = {1} /\ 1 .. 2 = {1, 2}
  BY SMT
<1>3. InBlock(a, <<8192>>, 3) <=> a[1] \div 8192 = 1
  <2>1. 3 \div 16 = 0 /\ 3 % 16 = 3 /\ PowersOf2[13] = 8192 /\ 8192 \div 8192 = 1
    BY SMT DEF PowersOf2
  <2> QED
    BY <1>1, <1>2, <2>1, SMT DEF InBlock
<1>4. InBlock(a, <<8193>>, 23) <=> a[1] = 8193 /\ a[2] \div 512 = 0
  <2>1. 23 \div 16 = 1 /\ 23 % 16 = 7 /\ PowersOf2[9] = 512 /\ 0 \div 512 = 0
    BY SMT DEF PowersOf2
  <2> QED
    BY <1>1, <1>2, <2>1, SMT DEF InBlock
<1>5. InBlock(a, <<8193, 3512>>, 32) <=> a[1] = 8193 /\ a[2] = 3512
  <2>1. 32 \div 16 = 2 /\ 32 % 16 = 0
    BY SMT
  <2> QED
    BY <1>1, <1>2, <2>1, SMT DEF InBlock
<1>6. InBlock(a, <<8194>>, 16) <=> a[1] = 8194
  <2>1. 16 \div 16 = 1 /\ 16 % 16 = 0
    BY SMT
  <2> QED
    BY <1>1, <1>2, <2>1, SMT DEF InBlock
<1>7. InBlock(a, <<16383>>, 20) <=> a[1] = 16383 /\ a[2] \div 4096 = 0
  <2>1. 20 \div 16 = 1 /\ 20 % 16 = 4 /\ PowersOf2[12] = 4096 /\ 0 \div 4096 = 0
    BY SMT DEF PowersOf2
  <2> QED
    BY <1>1, <1>2, <2>1, SMT DEF InBlock
<1> QED
  BY <1>3, <1>4, <1>5, <1>6, <1>7, SMT

\* An address in a reserved range of eight groups.
LEMMA Reserved6Blocked ==
    ASSUME NEW a \in Addresses6, NEW range \in ReservedRanges6, Within(a, range)
    PROVE  \E block \in NonGlobal6 : InBlock(a, block[1], block[2])
<1>1. a[1] \in Nat /\ a[2] \in Nat /\ a \in [1 .. 8 -> Nat]
  BY MaxWordIsNat, SMT DEF Addresses6
<1>6. ASSUME NEW x \in Nat, NEW y \in Nat, NEW z \in Nat, Within(a, <<From6(x, y), To6(x, z)>>)
      PROVE  a[1] = x /\ y <= a[2] /\ a[2] <= z
  <2>1. From6(x, y) \in [1 .. 8 -> Nat] /\ To6(x, z) \in [1 .. 8 -> Nat]
    BY SMT DEF From6, To6
  <2>2. From6(x, y)[1] = x /\ From6(x, y)[2] = y /\ To6(x, z)[1] = x /\ To6(x, z)[2] = z
    BY SMT DEF From6, To6
  <2>3. a[1] = x
    BY <1>1, <1>6, <2>1, <2>2, WithinBounds, SMT
  <2> QED
    BY <1>1, <1>6, <2>1, <2>2, <2>3, WithinBounds, SMT
<1>2. CASE range = <<From6(8193, 0), To6(8193, 511)>>
  <2>1. a[1] = 8193 /\ 0 <= a[2] /\ a[2] <= 511
    BY <1>2, <1>6, SMT
  <2>2. InBlock(a, <<8193>>, 23)
    BY <1>1, <2>1, Block6, SMT
  <2> QED
    BY <2>2, SMT DEF NonGlobal6
<1>3. CASE range = <<From6(8193, 3512), To6(8193, 3512)>>
  <2>1. a[1] = 8193 /\ a[2] = 3512
    BY <1>1, <1>3, <1>6, SMT
  <2>2. InBlock(a, <<8193, 3512>>, 32)
    BY <1>1, <2>1, Block6, SMT
  <2> QED
    BY <2>2, SMT DEF NonGlobal6
<1>4. CASE range = <<From6(8194, 0), To6(8194, 65535)>>
  <2>1. InBlock(a, <<8194>>, 16)
    BY <1>1, <1>4, <1>6, Block6, SMT
  <2> QED
    BY <2>1, SMT DEF NonGlobal6
<1>5. CASE range = <<From6(16383, 0), To6(16383, 4095)>>
  <2>1. a[1] = 16383 /\ 0 <= a[2] /\ a[2] <= 4095
    BY <1>5, <1>6, SMT
  <2>2. InBlock(a, <<16383>>, 20)
    BY <1>1, <2>1, Block6, SMT
  <2> QED
    BY <2>2, SMT DEF NonGlobal6
<1> QED
  BY <1>2, <1>3, <1>4, <1>5, SMT DEF ReservedRanges6

\* The first three bits that policy.rs tests are what the registry calls global unicast.
LEMMA UnicastIsWithin ==
    ASSUME NEW a \in Addresses6, a[1] \div 8192 = 1
    PROVE  Within(a, UnicastRange6)
<1>1. \A i \in 1 .. 8 : a[i] \in Nat /\ a[i] <= 65535
  <2>1. \A i \in 1 .. 8 : a[i] \in Nat /\ a[i] <= MaxWord
    BY MaxWordIsNat, SMT DEF Addresses6
  <2> QED
    BY <2>1, SMT DEF MaxWord
<1>2. 8192 <= a[1] /\ a[1] <= 16383
  BY <1>1, SMT
<1>3. \A i \in 1 .. 8 : From6(8192, 0)[i] <= a[i]
  BY <1>1, <1>2, SMT DEF From6
<1>4. \A i \in 1 .. 8 : a[i] <= To6(16383, 65535)[i]
  BY <1>1, <1>2, SMT DEF To6
<1>5. DOMAIN To6(16383, 65535) = 1 .. 8 /\ To6(16383, 65535) \in [1 .. 8 -> Nat]
  BY SMT DEF To6
<1>6. From6(8192, 0) \in [1 .. 8 -> Nat]
  BY SMT DEF From6
<1>7. a \in [1 .. 8 -> Nat]
  BY MaxWordIsNat, SMT DEF Addresses6
<1>8. ~Before(a, From6(8192, 0)) /\ ~Before(To6(16383, 65535), a)
  BY <1>3, <1>4, <1>5, <1>6, <1>7, SMT DEF Before
<1> QED
  BY <1>8, SMT DEF Within, UnicastRange6

\* What the prefix tables of policy.rs let pass is routable by the registry's
\* ranges: the two ways to say it agree where it matters.
LEMMA GlobalIsRoutable ==
    ASSUME NEW a \in Addresses, IsGlobal(a)
    PROVE  Routable(a)
<1>1. CASE a \in Addresses4
  <2>1. Len(a) = 4
    BY <1>1, SMT DEF Addresses4
  <2> QED
    BY <1>1, <2>1, Reserved4Blocked, SMT DEF IsGlobal, Routable, Addresses4
<1>2. CASE a \in Addresses6
  <2>1. Len(a) = 8 /\ Len(a) # 4
    <3>1. a \in [1 .. 8 -> Nat]
      BY <1>2, MaxWordIsNat, SMT DEF Addresses6
    <3> QED
      BY <3>1, SMT
  <2>2. a[1] \div 8192 = 1
    BY <1>2, <2>1, Block6, SMT DEF IsGlobal, GlobalUnicast6
  <2> QED
    BY <1>2, <2>1, <2>2, Reserved6Blocked, UnicastIsWithin, SMT DEF IsGlobal, Routable
<1> QED
  BY <1>1, <1>2 DEF Addresses

-----------------------------------------------------------------------------
\* The inductive invariant.

\* A hop that is being asked for passed both halves of the policy, with the
\* addresses its own lookup gave.
HopChecked ==
    /\ phase \in {"check", "get"} => url \in FetchUrls
    /\ phase = "get" =>
          /\ UrlPermitted(url)
          /\ addrs \in AnswersOf[url.host]
          /\ AddressesPermitted(addrs)

\* Only the cover job downloads, a call of its comes after the download, and no time
\* passes before either.
StagesInOrder ==
    /\ job = "revert" => phase = "off"
    /\ job = "cover" /\ call # "idle" => phase = "over"
    /\ call # "idle" => phase \in {"off", "over"}
    /\ phase = "off" /\ call = "idle" => clock = 0
    /\ phase = "off" => began = 0

\* How late each phase of the download may still be, and where the clock stands to
\* the head and to the last read.
DownloadTimes ==
    /\ head_at \in Nat /\ across \in Nat
    /\ phase # "off" => deadline = DOWNLOAD_DEADLINE
    /\ phase = "check" => clock <= DOWNLOAD_DEADLINE + 3 * DOWNLOAD_TIMEOUT
    /\ phase = "get" => clock <= DOWNLOAD_DEADLINE
    /\ phase = "body" =>
          /\ head_at <= clock
          /\ clock <= expires
          /\ expires <= head_at + DOWNLOAD_DEADLINE
    /\ phase \in {"off", "check", "get"} => head_at = Never
    /\ call = "idle" => clock <= 2 * DOWNLOAD_DEADLINE /\ (clock <= head_at \/ clock <= across)

\* The call is where its process is, and a process that can move lets no time pass.
CallInStep ==
    /\ began \in Nat
    /\ call = "idle" => /\ child = "none" /\ reader = "none" /\ ~grandchild
                        /\ argv = None
    /\ call = "wait" => child \in {"running", "stuck", "exited"}
    /\ call = "stderr" => child = "reaped"
    /\ child = "running" =>
          /\ call = "wait" \/ answer = "unwaited"
          /\ clock = began
          /\ reader \in {"keeping", "draining"}
    /\ call # "idle" =>
          /\ clock <= ctl_deadline
          /\ began <= head_at \/ began <= across

SInv ==
    /\ StagesTypeOK
    /\ HopChecked
    /\ StagesInOrder
    /\ DownloadTimes
    /\ CallInStep
    /\ CallContained
    /\ RevertReachesCtl

-----------------------------------------------------------------------------
\* The limits as numbers, and what a blocking call does to the clock.

LEMMA Limits ==
    /\ DOWNLOAD_TIMEOUT \in Nat \ {0} /\ DOWNLOAD_DEADLINE \in Nat \ {0}
    /\ MAX_COVER_BYTES \in Nat \ {0} /\ CHUNK \in Nat \ {0} /\ MAX_REDIRECTS \in Nat
    /\ CTL_TIMEOUT \in Nat \ {0} /\ PIPE_CAPACITY \in Nat \ {0}
    /\ MAX_STDERR_READ \in Nat /\ MaxOutput \in Nat /\ Never \in Nat
    /\ 4 * DOWNLOAD_TIMEOUT <= DOWNLOAD_DEADLINE
    /\ 2 * DOWNLOAD_DEADLINE <= Never
BY FetchAssumption, CommandAssumption, StagesAssumption, ClockAssumption

\* A blocking call returns within its limit.
LEMMA BlocksWithin ==
    ASSUME NEW limit \in Nat, clock \in Nat, Blocks(limit)
    PROVE  clock' \in Nat /\ clock <= clock' /\ clock' <= clock + limit /\ stop_at' = stop_at
BY DEF Blocks

\* The lesser and the greater of two numbers.
LEMMA MinOfTwo ==
    ASSUME NEW x \in Nat, NEW y \in Nat
    PROVE  Min({x, y}) \in {x, y} /\ Min({x, y}) <= x /\ Min({x, y}) <= y
<1>1. \E m \in {x, y} : \A k \in {x, y} : m <= k
  OBVIOUS
<1> QED
  BY <1>1 DEF Min

LEMMA MaxOfTwo ==
    ASSUME NEW x \in Nat, NEW y \in Nat
    PROVE  Max({x, y}) \in {x, y} /\ x <= Max({x, y}) /\ y <= Max({x, y})
<1>1. \E m \in {x, y} : \A k \in {x, y} : m >= k
  OBVIOUS
<1> QED
  BY <1>1 DEF Max

-----------------------------------------------------------------------------
\* The download.

\* While no call runs, what the download does is not seen by the call.
LEMMA DownloadKeepsCall ==
    ASSUME SInv, call = "idle", UNCHANGED <<ctlvars, job>>
    PROVE  CommandTypeOK' /\ CallInStep' /\ CallContained' /\ RevertReachesCtl'
BY DEF SInv, StagesTypeOK, CommandTypeOK, CallInStep, CallContained, RevertReachesCtl,
       ctl_deadline, ctlvars, procvars, readvars

\* A download runs while no call does.
LEMMA DownloadAlone ==
    ASSUME SInv, job = "cover", phase # "over"
    PROVE  call = "idle"
BY DEF SInv, StagesInOrder

LEMMA ResolveStep ==
    ASSUME SInv, ResolveCover
    PROVE  SInv'
<1> USE Limits
<1>1. PICK first \in FirstUrls : StartFetch(first)
  BY DEF ResolveCover
<1>2. job = "cover" /\ phase = "off" /\ UNCHANGED <<ctlvars, job, timevars>>
  BY <1>1 DEF ResolveCover, StartFetch
<1>3. call = "idle" /\ clock = 0 /\ first \in FetchUrls
  BY <1>2, DownloadAlone, StagesAssumption DEF SInv, StagesInOrder
<1>4. CommandTypeOK' /\ CallInStep' /\ CallContained' /\ RevertReachesCtl'
  BY <1>2, <1>3, DownloadKeepsCall
<1>5. FetchTypeOK' /\ StagesTypeOK'
  BY <1>1, <1>2, <1>3, <1>4
     DEF SInv, StagesTypeOK, FetchTypeOK, StartFetch, Continue, Phases, timevars
<1>6. HopChecked'
  BY <1>1, <1>3 DEF StartFetch, Continue, HopChecked
<1>7. StagesInOrder'
  BY <1>1, <1>2, <1>3 DEF SInv, StagesInOrder, StartFetch, Continue, timevars, ctlvars
<1>8. DownloadTimes'
  BY <1>1, <1>2, <1>3 DEF SInv, DownloadTimes, StartFetch, Continue, timevars, ctlvars
<1> QED
  BY <1>4, <1>5, <1>6, <1>7, <1>8 DEF SInv

\* What is left to show of a step of the download.
LEMMA DownloadStepSuffices ==
    ASSUME SInv, job = "cover", phase \in {"check", "get", "body"}, UNCHANGED <<ctlvars, job>>,
           clock' \in Nat, stop_at' = stop_at, phase' # "off",
           FetchTypeOK', HopChecked', DownloadTimes'
    PROVE  SInv'
<1>1. call = "idle"
  BY DownloadAlone
<1>2. CommandTypeOK' /\ CallInStep' /\ CallContained' /\ RevertReachesCtl'
  BY <1>1, DownloadKeepsCall
<1>3. StagesTypeOK'
  BY <1>2 DEF SInv, StagesTypeOK
<1>4. StagesInOrder'
  BY <1>1 DEF SInv, StagesInOrder, ctlvars
<1> QED
  BY <1>2, <1>3, <1>4 DEF SInv

LEMMA CheckStep ==
    ASSUME SInv, job = "cover", CheckDestination, UNCHANGED <<ctlvars, job>>
    PROVE  SInv'
<1> USE Limits
<1>1. phase = "check" /\ call = "idle" /\ url \in FetchUrls /\ clock \in Nat
  BY DownloadAlone DEF CheckDestination, SInv, HopChecked, StagesTypeOK
<1>2. UNCHANGED <<url, hop, deadline, expires, received, head_at, across, call>>
  BY DEF CheckDestination, ctlvars
<1>3. CASE ~UrlPermitted(url) /\ End("Rejected") /\ UNCHANGED <<timevars, addrs>>
  <2>1. UNCHANGED <<clock, stop_at, addrs>> /\ phase' = "over" /\ fetched' = "Rejected"
    BY <1>3 DEF End, timevars
  <2>2. FetchTypeOK'
    BY <1>1, <1>2, <2>1, NoResultAssumption
       DEF SInv, StagesTypeOK, FetchTypeOK, Phases, FetchErrors
  <2>3. HopChecked' /\ DownloadTimes'
    BY <1>1, <1>2, <2>1 DEF SInv, HopChecked, DownloadTimes
  <2> QED
    BY <1>1, <2>1, <2>2, <2>3, DownloadStepSuffices
<1>4. CASE UrlPermitted(url) /\ Blocks(DOWNLOAD_TIMEOUT)
  <2>1. /\ clock' \in Nat /\ clock <= clock' /\ stop_at' = stop_at
        /\ clock' <= DOWNLOAD_DEADLINE + 4 * DOWNLOAD_TIMEOUT
    BY <1>1, <1>4, BlocksWithin DEF SInv, DownloadTimes
  <2>2. CASE \E result \in {"Io", "Timeout", "Rejected"} : End(result)
    <3>1. phase' = "over" /\ fetched' \in FetchErrors
      BY <2>2 DEF End, FetchErrors
    <3>2. FetchTypeOK'
      BY <1>1, <1>2, <3>1, NoResultAssumption DEF SInv, StagesTypeOK, FetchTypeOK, Phases
    <3>3. HopChecked'
      BY <3>1 DEF HopChecked
    <3>4. DownloadTimes'
      BY <1>1, <1>2, <2>1, <3>1 DEF SInv, DownloadTimes
    <3> QED
      BY <1>1, <2>1, <3>1, <3>2, <3>3, <3>4, DownloadStepSuffices
  <2>3. CASE /\ addrs' \in AnswersOf[url.host] /\ AddressesPermitted(addrs')
             /\ clock' <= deadline /\ Continue("get")
    <3>1. phase' = "get" /\ fetched' = fetched
      BY <2>3 DEF Continue
    <3>2. FetchTypeOK'
      BY <1>1, <1>2, <3>1 DEF SInv, StagesTypeOK, FetchTypeOK, Phases
    <3>3. HopChecked'
      BY <1>1, <1>2, <1>4, <2>3, <3>1 DEF HopChecked, UrlPermitted
    <3>4. DownloadTimes'
      BY <1>1, <1>2, <2>1, <2>3, <3>1 DEF SInv, DownloadTimes
    <3> QED
      BY <1>1, <2>1, <3>1, <3>2, <3>3, <3>4, DownloadStepSuffices
  <2>4. deadline \in Nat
    BY DEF SInv, StagesTypeOK, FetchTypeOK
  <2>5. \/ \E result \in {"Io", "Timeout", "Rejected"} : End(result)
        \/ /\ addrs' \in AnswersOf[url.host] /\ AddressesPermitted(addrs')
           /\ clock' <= deadline /\ Continue("get")
    BY <1>4, <2>1, <2>4 DEF CheckDestination
  <2> QED
    BY <2>2, <2>3, <2>5
<1> QED
  BY <1>3, <1>4 DEF CheckDestination

\* A request that ends the download, or leads to the next hop or to the body.
LEMMA GetStep ==
    ASSUME SInv, job = "cover", GetFails \/ Follow \/ ResponseUseless \/ ResponseOk,
           UNCHANGED <<ctlvars, job>>
    PROVE  SInv'
<1> USE Limits
<1>1. /\ phase = "get" /\ call = "idle" /\ clock \in Nat /\ Blocks(3 * DOWNLOAD_TIMEOUT)
      /\ clock <= DOWNLOAD_DEADLINE
  BY DownloadAlone
     DEF GetFails, Follow, ResponseUseless, ResponseOk, SInv, StagesTypeOK, DownloadTimes
<1>2. /\ clock' \in Nat /\ clock <= clock' /\ stop_at' = stop_at
      /\ clock' <= clock + 3 * DOWNLOAD_TIMEOUT
  BY <1>1, BlocksWithin
<1>3. UNCHANGED <<deadline, received, across, call>> /\ addrs' = {}
  BY DEF GetFails, Follow, ResponseUseless, ResponseOk, ctlvars
<1>4. CASE /\ \E result \in FetchErrors : End(result)
           /\ UNCHANGED <<url, hop, expires, head_at>>
  <2>1. phase' = "over" /\ fetched' \in FetchErrors
    BY <1>4 DEF End
  <2>2. FetchTypeOK'
    BY <1>1, <1>3, <1>4, <2>1, NoResultAssumption DEF SInv, StagesTypeOK, FetchTypeOK, Phases
  <2>3. HopChecked'
    BY <2>1 DEF HopChecked
  <2>4. DownloadTimes'
    BY <1>1, <1>2, <1>3, <1>4, <2>1 DEF SInv, DownloadTimes
  <2> QED
    BY <1>1, <1>2, <2>1, <2>2, <2>3, <2>4, DownloadStepSuffices
<1>5. CASE Follow
  <2>1. /\ phase' = "check" /\ fetched' = fetched /\ url' \in FetchUrls
        /\ hop < MAX_REDIRECTS /\ hop' = hop + 1
        /\ UNCHANGED <<expires, head_at>>
    BY <1>5 DEF Follow, Continue
  <2>2. FetchTypeOK'
    BY <1>1, <1>3, <2>1 DEF SInv, StagesTypeOK, FetchTypeOK, Phases
  <2>3. HopChecked'
    BY <2>1 DEF HopChecked
  <2>4. DownloadTimes'
    BY <1>1, <1>2, <1>3, <2>1 DEF SInv, DownloadTimes
  <2> QED
    BY <1>1, <1>2, <2>1, <2>2, <2>3, <2>4, DownloadStepSuffices
<1>6. CASE ResponseOk
  <2>1. /\ head_at' = clock' /\ UNCHANGED <<url, hop>>
        /\ expires' = Min({clock' + DOWNLOAD_DEADLINE,
                           clock + DOWNLOAD_DEADLINE + DOWNLOAD_TIMEOUT})
        /\ \/ phase' = "over" /\ fetched' = "TooLarge"
           \/ phase' = "body" /\ fetched' = fetched
    BY <1>6 DEF ResponseOk, End, Continue
  <2>2. /\ expires' \in Nat /\ expires' <= clock' + DOWNLOAD_DEADLINE
        /\ clock' <= expires'
    <3>1. ASSUME NEW x \in Nat, NEW y \in Nat, clock' <= x, clock' <= y, expires' = Min({x, y})
          PROVE  expires' \in Nat /\ expires' <= x /\ clock' <= expires'
      <4>1. expires' \in {x, y} /\ expires' <= x
        BY <3>1, MinOfTwo
      <4> QED
        BY <3>1, <4>1
    <3>2. clock' <= clock + DOWNLOAD_DEADLINE
      BY <1>1, <1>2
    <3>3. clock' + DOWNLOAD_DEADLINE \in Nat /\ clock' <= clock' + DOWNLOAD_DEADLINE
      <4>1. clock' \in Nat /\ DOWNLOAD_DEADLINE \in Nat
        BY <1>2
      <4>2. ASSUME NEW c \in Nat, NEW d \in Nat PROVE c + d \in Nat /\ c <= c + d
        OBVIOUS
      <4> QED
        BY ONLY <4>1, <4>2
    <3>4. /\ clock + DOWNLOAD_DEADLINE + DOWNLOAD_TIMEOUT \in Nat
          /\ clock' <= clock + DOWNLOAD_DEADLINE + DOWNLOAD_TIMEOUT
      BY <1>1, <1>2, <3>2
    <3> QED
      BY <2>1, <3>1, <3>3, <3>4
  <2>3. FetchTypeOK'
    BY <1>1, <1>3, <2>1, <2>2, NoResultAssumption
       DEF SInv, StagesTypeOK, FetchTypeOK, Phases, FetchErrors
  <2>4. HopChecked'
    BY <2>1 DEF HopChecked
  <2>5. DownloadTimes'
    BY <1>1, <1>2, <1>3, <2>1, <2>2 DEF SInv, DownloadTimes
  <2> QED
    BY <1>1, <1>2, <2>1, <2>3, <2>4, <2>5, DownloadStepSuffices
<1> QED
  BY <1>4, <1>5, <1>6 DEF GetFails, ResponseUseless, FetchErrors

LEMMA BodyStep ==
    ASSUME SInv, job = "cover", ReadBody, UNCHANGED <<ctlvars, job>>
    PROVE  SInv'
<1> USE Limits
<1>1. phase = "body" /\ call = "idle" /\ clock \in Nat /\ expires \in Nat /\ deadline \in Nat
  BY DownloadAlone DEF ReadBody, SInv, StagesTypeOK, FetchTypeOK
<1>2. UNCHANGED <<url, hop, addrs, deadline, expires, head_at, call>>
  BY DEF ReadBody, Read, ctlvars
<1>3. CASE /\ End(IF should_stop THEN "Aborted" ELSE "Timeout")
           /\ UNCHANGED <<timevars, received, across>>
  <2>1. phase' = "over" /\ fetched' \in FetchErrors /\ UNCHANGED <<clock, stop_at, received, across>>
    BY <1>3 DEF End, FetchErrors, timevars
  <2>2. FetchTypeOK'
    BY <1>1, <1>2, <2>1, NoResultAssumption DEF SInv, StagesTypeOK, FetchTypeOK, Phases
  <2>3. HopChecked' /\ DownloadTimes'
    BY <1>1, <1>2, <2>1 DEF SInv, HopChecked, DownloadTimes
  <2> QED
    BY <1>1, <2>1, <2>2, <2>3, DownloadStepSuffices
<1>4. CASE ~should_stop /\ clock <= deadline /\ Read
  <2>1. expires - clock \in Nat /\ expires <= 2 * DOWNLOAD_DEADLINE
    BY <1>1, <1>4 DEF SInv, DownloadTimes
  <2>2. /\ clock' \in Nat /\ clock <= clock' /\ clock' <= expires /\ stop_at' = stop_at
        /\ across' = clock'
    BY <1>1, <1>4, <2>1, BlocksWithin DEF Read
  <2>3. /\ \/ phase' = "over" /\ fetched' \in FetchErrors \cup {"ok"}
           \/ phase' = "body" /\ fetched' = fetched
        /\ received' \in 0 .. MAX_COVER_BYTES
    BY <1>4 DEF Read, ReadReturns, End, Continue, FetchErrors, SInv, StagesTypeOK, FetchTypeOK
  <2>4. FetchTypeOK'
    BY <1>1, <1>2, <2>3, NoResultAssumption DEF SInv, StagesTypeOK, FetchTypeOK, Phases
  <2>5. HopChecked'
    BY <2>3 DEF HopChecked
  <2>6. DownloadTimes'
    BY <1>1, <1>2, <2>1, <2>2, <2>3 DEF SInv, DownloadTimes
  <2> QED
    BY <1>1, <2>2, <2>3, <2>4, <2>5, <2>6, DownloadStepSuffices
<1> QED
  BY <1>3, <1>4 DEF ReadBody

LEMMA DownloadsStep ==
    ASSUME SInv, Downloads
    PROVE  SInv'
BY CheckStep, GetStep, BodyStep DEF Downloads, Download

-----------------------------------------------------------------------------
\* The call.

\* What is left to show of a step of the call.
LEMMA CallStepSuffices ==
    ASSUME SInv, phase \in {"off", "over"}, job = "cover" => phase = "over",
           UNCHANGED <<dvars, job, stop_at>>, clock' \in Nat, call' # "idle",
           phase = "off" => began' = 0,
           CommandTypeOK', CallInStep', CallContained', RevertReachesCtl'
    PROVE  SInv'
<1>1. /\ UNCHANGED <<phase, url, hop, addrs, deadline, expires, received, fetched, head_at, across>>
      /\ UNCHANGED <<job, stop_at>>
  BY DEF dvars
<1>2. StagesTypeOK'
  BY <1>1 DEF SInv, StagesTypeOK, FetchTypeOK
<1>3. HopChecked'
  BY <1>1 DEF SInv, HopChecked
<1>4. StagesInOrder'
  BY <1>1 DEF SInv, StagesInOrder
<1>5. DownloadTimes'
  BY <1>1 DEF SInv, DownloadTimes
<1> QED
  BY <1>2, <1>3, <1>4, <1>5 DEF SInv

\* The call begins: its arguments are the fallback or well-formed colours.
LEMMA SpawnStep ==
    ASSUME SInv, call = "idle", phase \in {"off", "over"}, job = "cover" => phase = "over",
           NEW args, args = Fallback \/ WellFormed(Tail(args)), Spawn(args),
           UNCHANGED <<dvars, job>>
    PROVE  SInv'
<1> USE Limits
<1>1. /\ clock \in Nat /\ UNCHANGED <<clock, stop_at, code, grandchild, pipe, kept, sent>>
      /\ began' = clock /\ argv' = args
  BY DEF SInv, StagesTypeOK, Spawn, procvars, readvars, timevars
<1>2. \/ call' = "done" /\ answer' = "failed" /\ UNCHANGED <<child, to_write, reader>>
      \/ /\ call' = "wait" /\ child' = "running" /\ to_write' \in 0 .. MaxOutput
         /\ reader' = "keeping" /\ UNCHANGED answer
  BY DEF Spawn, Answer, procvars, readvars
<1>3. phase = "off" => began' = 0
  BY <1>1 DEF SInv, StagesInOrder
<1>4. clock <= head_at \/ clock <= across
  BY DEF SInv, DownloadTimes
<1>5. CommandTypeOK'
  BY <1>1, <1>2, CommandAssumption DEF SInv, StagesTypeOK, CommandTypeOK, Processes
<1>6. CallInStep'
  BY <1>1, <1>2, <1>4 DEF SInv, CallInStep, ctl_deadline, dvars
<1>7. CallContained'
  BY <1>1, <1>2, CommandAssumption
     DEF SInv, CallInStep, CallContained, ctl_deadline, StagesTypeOK, CommandTypeOK
<1>8. RevertReachesCtl'
  BY <1>1, <1>2 DEF SInv, RevertReachesCtl
<1> QED
  BY <1>1, <1>2, <1>3, <1>5, <1>6, <1>7, <1>8, CallStepSuffices

\* The arguments made of well-formed colours are well-formed.
LEMMA SetColorsWellFormed ==
    ASSUME NEW colours \in Seq(Colours), WellFormed(colours)
    PROVE  WellFormed(Tail(SetColors(colours)))
<1>1. Tail(<<"set-colors">> \o colours) = colours
  <2>1. colours \in Seq(Colours \cup {"set-colors"})
    OBVIOUS
  <2> QED
    BY <2>1
<1> QED
  BY <1>1 DEF SetColors

LEMMA ApplyStep ==
    ASSUME SInv, ApplyPalette
    PROVE  SInv'
<1>1. call = "idle" /\ job = "cover" /\ fetched = "ok" /\ UNCHANGED <<dvars, job>>
  BY DEF ApplyPalette, Apply
<1>2. phase = "over"
  BY <1>1, NoResultAssumption DEF SInv, StagesTypeOK, FetchTypeOK
<1>3. Spawn(SetColors(Rendered)) /\ WellFormed(Tail(SetColors(Rendered)))
  BY StagesAssumption, SetColorsWellFormed DEF ApplyPalette, Apply
<1> QED
  BY <1>1, <1>2, <1>3, SpawnStep

LEMMA RevertStep ==
    ASSUME SInv, RevertPalette
    PROVE  SInv'
<1>1. job = "revert" /\ call = "idle" /\ UNCHANGED <<dvars, job>>
  BY DEF RevertPalette, Revert
<1>2. phase = "off"
  BY <1>1 DEF SInv, StagesInOrder
<1>3. PICK config \in Configs :
          IF ConfigPalette(config) # None THEN Apply(ConfigPalette(config))
          ELSE Spawn(Fallback)
  BY DEF RevertPalette, Revert
<1>4. CASE ConfigPalette(config) # None
  <2>1. ConfigPalette(config) \in Seq(Colours) /\ WellFormed(ConfigPalette(config))
    BY <1>4, CommandAssumption DEF ConfigPalette
  <2>2. Spawn(SetColors(ConfigPalette(config)))
    BY <1>3, <1>4, <2>1 DEF Apply
  <2>3. WellFormed(Tail(SetColors(ConfigPalette(config))))
    BY <2>1, SetColorsWellFormed
  <2> QED
    BY <1>1, <1>2, <2>2, <2>3, SpawnStep
<1>5. CASE ConfigPalette(config) = None
  BY <1>1, <1>2, <1>3, <1>5, SpawnStep
<1> QED
  BY <1>4, <1>5

\* Nothing of a call moves before it has begun.
LEMMA CallIsUnderWay ==
    ASSUME SInv, Call
    PROVE  call # "idle"
BY DEF SInv, CallInStep, Call, ChildWrites, ChildExits, ChildSticks, GrandchildExits, Reader,
       ReaderKeeps, ReaderSends, ReaderDrains, Runs, WaitReturns, WaitFails, WaitTimesOut,
       StderrAwaited, Tick, Idle, Waits

\* A child that can move leaves no time to pass: it may write, or the pipe is full
\* and its reader takes from it.
LEMMA RunningChildMoves ==
    ASSUME SInv, child = "running"
    PROVE  ~Idle
<1>1. /\ to_write \in 0 .. MaxOutput /\ pipe \in 0 .. PIPE_CAPACITY
      /\ kept \in 0 .. MAX_STDERR_READ /\ reader \in {"keeping", "draining"}
  BY DEF SInv, StagesTypeOK, CommandTypeOK, CallInStep
<1>2. CASE to_write = 0 \/ pipe < PIPE_CAPACITY
  BY <1>2 DEF Idle
<1>3. CASE ~(to_write = 0 \/ pipe < PIPE_CAPACITY)
  <2>1. pipe > 0
    BY <1>1, <1>3, Limits
  <2>2. ReaderReady
    BY <1>1, <2>1, Limits DEF ReaderReady, Readable, KeptEnough
  <2> QED
    BY <2>2 DEF Idle
<1> QED
  BY <1>2, <1>3

LEMMA CallGoesOnStep ==
    ASSUME SInv, CallGoesOn
    PROVE  SInv'
<1> USE Limits
<1>1. Call /\ call # "idle" /\ UNCHANGED <<dvars, job>>
  BY CallIsUnderWay DEF CallGoesOn
<1>2. phase \in {"off", "over"} /\ (job = "cover" => phase = "over")
  BY <1>1 DEF SInv, StagesInOrder
<1>3. phase = "off" => began = 0
  BY DEF SInv, StagesInOrder
<1>4. CommandTypeOK /\ clock \in Nat /\ began \in Nat
  BY DEF SInv, StagesTypeOK, CallInStep
<1>5. CallInStep /\ CallContained /\ RevertReachesCtl
  BY DEF SInv
<1>6. UNCHANGED <<head_at, across>>
  BY <1>1 DEF dvars
<1>7. ASSUME CommandTypeOK', CallInStep', CallContained', RevertReachesCtl',
             call' # "idle", clock' \in Nat, UNCHANGED <<began, stop_at>>
      PROVE  SInv'
  BY <1>1, <1>2, <1>3, <1>7, CallStepSuffices
<1>8. CASE ChildWrites
  <2>1. /\ UNCHANGED <<clock, stop_at, call, argv, answer, began, child, code, grandchild>>
        /\ UNCHANGED <<reader, kept, sent>>
        /\ child = "running" /\ to_write > 0 /\ to_write' = to_write - 1
        /\ pipe < PIPE_CAPACITY /\ pipe' = pipe + 1
    BY <1>8 DEF ChildWrites, timevars
  <2>2. CommandTypeOK'
    BY <1>4, <2>1 DEF CommandTypeOK
  <2>3. CallInStep' /\ CallContained' /\ RevertReachesCtl'
    BY <1>5, <1>6, <2>1 DEF CallInStep, CallContained, RevertReachesCtl, ctl_deadline
  <2> QED
    BY <1>1, <1>4, <1>7, <2>1, <2>2, <2>3
<1>9. CASE ChildExits
  <2>1. /\ UNCHANGED <<clock, stop_at, call, argv, answer, began, to_write>>
        /\ UNCHANGED <<pipe, reader, kept, sent>>
        /\ child = "running" /\ child' = "exited"
        /\ code' \in {0, 1, None} /\ grandchild' \in BOOLEAN
    BY <1>9 DEF ChildExits, timevars, readvars
  <2>2. call = "wait" \/ (call = "done" /\ answer = "unwaited")
    BY <1>4, <1>5, <2>1, CommandAssumption DEF CallInStep, CommandTypeOK
  <2>3. CommandTypeOK'
    BY <1>4, <2>1 DEF CommandTypeOK, Processes
  <2>4. CallInStep'
    BY <1>5, <1>6, <2>1, <2>2 DEF CallInStep, ctl_deadline
  <2>5. CallContained'
    BY <1>4, <1>5, <2>1, <2>2, CommandAssumption DEF CallContained, CommandTypeOK, ctl_deadline
  <2>6. RevertReachesCtl'
    BY <1>5, <2>1 DEF RevertReachesCtl
  <2> QED
    BY <1>1, <1>4, <1>7, <2>1, <2>3, <2>4, <2>5, <2>6
<1>10. CASE ChildSticks
  <2>1. /\ UNCHANGED <<clock, stop_at, call, argv, answer, began, code, to_write, grandchild>>
        /\ UNCHANGED <<pipe, reader, kept, sent>>
        /\ child = "running" /\ child' = "stuck"
    BY <1>10 DEF ChildSticks, timevars, readvars
  <2>2. call = "wait" \/ (call = "done" /\ answer = "unwaited")
    BY <1>4, <1>5, <2>1, CommandAssumption DEF CallInStep, CommandTypeOK
  <2>3. CommandTypeOK'
    BY <1>4, <2>1 DEF CommandTypeOK, Processes
  <2>4. CallInStep'
    BY <1>5, <1>6, <2>1, <2>2 DEF CallInStep, ctl_deadline
  <2>5. CallContained'
    BY <1>4, <1>5, <2>1, <2>2, CommandAssumption DEF CallContained, CommandTypeOK, ctl_deadline
  <2>6. RevertReachesCtl'
    BY <1>5, <2>1 DEF RevertReachesCtl
  <2> QED
    BY <1>1, <1>4, <1>7, <2>1, <2>3, <2>4, <2>5, <2>6
<1>11. CASE GrandchildExits
  <2>1. /\ UNCHANGED <<clock, stop_at, call, argv, answer, began, child, code, to_write>>
        /\ UNCHANGED <<pipe, reader, kept, sent>>
        /\ grandchild' = FALSE
    BY <1>11 DEF GrandchildExits, timevars, readvars
  <2>2. CommandTypeOK'
    BY <1>4, <2>1 DEF CommandTypeOK
  <2>3. CallInStep' /\ CallContained' /\ RevertReachesCtl'
    BY <1>5, <1>6, <2>1 DEF CallInStep, CallContained, RevertReachesCtl, ctl_deadline
  <2> QED
    BY <1>1, <1>4, <1>7, <2>1, <2>2, <2>3
<1>12. CASE Reader
  <2>1. /\ UNCHANGED <<clock, stop_at, call, argv, answer, began>>
        /\ UNCHANGED <<child, code, to_write, grandchild>>
    BY <1>12 DEF Reader, ReaderKeeps, ReaderSends, ReaderDrains, timevars, procvars
  <2>2. /\ reader' \in {"keeping", "draining", "gone"}
        /\ child = "running" /\ reader # "gone" => reader' \in {"keeping", "draining"}
    BY <1>12 DEF Reader, ReaderKeeps, ReaderSends, ReaderDrains, EndOfFile
  <2>3. pipe' \in 0 .. PIPE_CAPACITY /\ kept' \in 0 .. MAX_STDERR_READ /\ sent' \in BOOLEAN
    <3>1. pipe \in 0 .. PIPE_CAPACITY /\ kept \in 0 .. MAX_STDERR_READ /\ sent \in BOOLEAN
      BY <1>4 DEF CommandTypeOK
    <3>2. CASE ReaderKeeps
      BY <3>1, <3>2 DEF ReaderKeeps, Readable
    <3>3. CASE ReaderSends
      BY <3>1, <3>3 DEF ReaderSends
    <3>4. CASE ReaderDrains
      BY <3>1, <3>4 DEF ReaderDrains
    <3> QED
      BY <1>12, <3>2, <3>3, <3>4 DEF Reader
  <2>4. CommandTypeOK'
    BY <1>4, <2>1, <2>2, <2>3 DEF CommandTypeOK
  <2>5. CallInStep' /\ CallContained' /\ RevertReachesCtl'
    BY <1>1, <1>5, <1>6, <2>1, <2>2
       DEF CallInStep, CallContained, RevertReachesCtl, ctl_deadline
  <2> QED
    BY <1>1, <1>4, <1>7, <2>1, <2>4, <2>5
<1>13. CASE WaitReturns
  <2>1. /\ UNCHANGED <<clock, stop_at, argv, answer, began, code, to_write, grandchild>>
        /\ UNCHANGED <<pipe, reader, kept, sent>>
        /\ call = "wait" /\ call' = "stderr" /\ child' = "reaped"
    BY <1>13 DEF WaitReturns, timevars, readvars
  <2>2. CommandTypeOK'
    BY <1>4, <2>1 DEF CommandTypeOK, Processes
  <2>3. CallInStep'
    BY <1>5, <1>6, <2>1 DEF CallInStep, ctl_deadline
  <2>4. CallContained'
    BY <1>4, <1>5, <2>1, CommandAssumption DEF CallContained, CommandTypeOK, ctl_deadline
  <2>5. RevertReachesCtl'
    BY <1>5, <2>1 DEF RevertReachesCtl
  <2> QED
    BY <1>1, <1>4, <1>7, <2>1, <2>2, <2>3, <2>4, <2>5
<1>14. CASE WaitFails
  <2>1. /\ UNCHANGED <<clock, stop_at, argv, began, child, code, to_write, grandchild>>
        /\ UNCHANGED <<pipe, reader, kept, sent>>
        /\ call = "wait" /\ call' = "done" /\ answer' = "unwaited"
    BY <1>14 DEF WaitFails, Answer, timevars, procvars, readvars
  <2>2. CommandTypeOK'
    BY <1>4, <2>1, CommandAssumption DEF CommandTypeOK
  <2>3. CallInStep' /\ CallContained' /\ RevertReachesCtl'
    BY <1>5, <1>6, <2>1 DEF CallInStep, CallContained, RevertReachesCtl, ctl_deadline
  <2> QED
    BY <1>1, <1>4, <1>7, <2>1, <2>2, <2>3
<1>15. CASE WaitTimesOut
  <2>1. /\ UNCHANGED <<clock, stop_at, argv, began, code, to_write, grandchild>>
        /\ UNCHANGED <<pipe, reader, kept, sent>>
        /\ call = "wait" /\ call' = "done" /\ answer' = "failed"
        /\ child # "exited" /\ clock >= ctl_deadline
    BY <1>15 DEF WaitTimesOut, Answer, timevars, readvars
  <2>2. child = "stuck"
    BY <1>4, <1>5, <2>1 DEF CallInStep, ctl_deadline
  <2>3. child' = "killed_stuck"
    BY <1>15, <2>2 DEF WaitTimesOut
  <2>4. CommandTypeOK'
    BY <1>4, <2>1, <2>3, CommandAssumption DEF CommandTypeOK, Processes
  <2>5. CallInStep' /\ CallContained' /\ RevertReachesCtl'
    BY <1>5, <1>6, <2>1, <2>3 DEF CallInStep, CallContained, RevertReachesCtl, ctl_deadline
  <2> QED
    BY <1>1, <1>4, <1>7, <2>1, <2>4, <2>5
<1>16. CASE StderrAwaited
  <2>1. /\ UNCHANGED <<clock, stop_at, argv, began, child, code, to_write, grandchild>>
        /\ UNCHANGED <<pipe, reader, kept, sent>>
        /\ call = "stderr" /\ call' = "done"
        /\ answer' = IF code = 0 THEN "ok" ELSE "failed"
    BY <1>16 DEF StderrAwaited, Answer, timevars, procvars, readvars
  <2>2. child = "reaped"
    BY <1>5, <2>1 DEF CallInStep
  <2>3. CommandTypeOK'
    BY <1>4, <2>1, CommandAssumption DEF CommandTypeOK
  <2>4. CallInStep' /\ CallContained' /\ RevertReachesCtl'
    BY <1>5, <1>6, <2>1, <2>2 DEF CallInStep, CallContained, RevertReachesCtl, ctl_deadline
  <2> QED
    BY <1>1, <1>4, <1>7, <2>1, <2>3, <2>4
<1>17. CASE Tick
  <2>1. /\ clock' = clock + 1 /\ Waits /\ child # "running"
        /\ UNCHANGED <<stop_at, call, argv, answer, began, child, code, to_write, grandchild>>
        /\ UNCHANGED <<pipe, reader, kept, sent>>
    BY <1>17, RunningChildMoves DEF Tick, Idle, ctlvars, procvars, readvars
  <2>2. clock' \in Nat /\ clock' <= ctl_deadline /\ call \in {"wait", "stderr"}
    BY <1>4, <2>1 DEF Waits, ctl_deadline
  <2>3. CommandTypeOK'
    BY <1>4, <2>1 DEF CommandTypeOK
  <2>4. CallInStep' /\ CallContained' /\ RevertReachesCtl'
    BY <1>5, <1>6, <2>1, <2>2 DEF CallInStep, CallContained, RevertReachesCtl, ctl_deadline
  <2> QED
    BY <1>1, <1>7, <2>1, <2>2, <2>3, <2>4
<1> QED
  BY <1>1, <1>8, <1>9, <1>10, <1>11, <1>12, <1>13, <1>14, <1>15, <1>16, <1>17 DEF Call, Runs

-----------------------------------------------------------------------------
\* The job as a whole.

\* A step that only says how the job ended, or none.
LEMMA JobEndStep ==
    ASSUME SInv, DownloadFailed \/ CallEnds \/ JobOver \/ UNCHANGED svars
    PROVE  SInv'
<1>1. /\ UNCHANGED <<clock, stop_at, phase, url, hop, addrs, deadline, expires>>
      /\ UNCHANGED <<received, fetched, head_at, across>>
      /\ UNCHANGED <<call, argv, answer, began, child, code, to_write, grandchild>>
      /\ UNCHANGED <<pipe, reader, kept, sent>>
  BY DEF DownloadFailed, CallEnds, JobOver, svars, timevars, dvars, ctlvars, procvars, readvars
<1>2. job' = job \/ job' \in Outcomes
  BY DEF DownloadFailed, CallEnds, JobOver, svars, Classify, Outcomes
<1>3. StagesTypeOK'
  BY <1>1, <1>2 DEF SInv, StagesTypeOK, FetchTypeOK, CommandTypeOK
<1>4. StagesInOrder'
  BY <1>1, <1>2 DEF SInv, StagesInOrder, Outcomes
<1>5. HopChecked'
  BY <1>1 DEF SInv, HopChecked
<1>6. DownloadTimes'
  BY <1>1 DEF SInv, DownloadTimes
<1>7. CallInStep' /\ CallContained' /\ RevertReachesCtl'
  BY <1>1 DEF SInv, CallInStep, CallContained, RevertReachesCtl, ctl_deadline
<1> QED
  BY <1>3, <1>4, <1>5, <1>6, <1>7 DEF SInv

LEMMA StagesInitInv ==
    ASSUME StagesInit
    PROVE  SInv
<1> USE Limits
<1>1. /\ clock = 0 /\ stop_at \in 0 .. Never /\ job \in {"cover", "revert"}
      /\ phase = "off" /\ url = None /\ hop = 0 /\ deadline = 0 /\ expires = 0 /\ received = 0
      /\ fetched = None /\ head_at = Never /\ across = 0
  BY DEF StagesInit, ClockInit, FetchInit
<1>2. /\ call = "idle" /\ argv = None /\ answer = None /\ began = 0 /\ child = "none"
      /\ code = None /\ to_write = 0 /\ grandchild = FALSE /\ pipe = 0 /\ reader = "none"
      /\ kept = 0 /\ sent = FALSE
  BY DEF StagesInit, CommandInit
<1>3. FetchTypeOK
  BY <1>1, NoResultAssumption DEF FetchTypeOK, Phases
<1>4. CommandTypeOK
  <2>1. /\ to_write \in 0 .. MaxOutput /\ pipe \in 0 .. PIPE_CAPACITY
        /\ kept \in 0 .. MAX_STDERR_READ
    BY <1>2
  <2>2. answer # None <=> call = "done"
    BY <1>2
  <2> QED
    BY <1>2, <2>1, <2>2 DEF CommandTypeOK, Processes
<1>5. StagesTypeOK
  BY <1>1, <1>3, <1>4 DEF StagesTypeOK
<1>6. HopChecked /\ StagesInOrder
  BY <1>1, <1>2 DEF HopChecked, StagesInOrder
<1>7. DownloadTimes
  BY <1>1, <1>2 DEF DownloadTimes
<1>8. CallInStep /\ CallContained /\ RevertReachesCtl
  BY <1>2, CommandAssumption DEF CallInStep, CallContained, RevertReachesCtl
<1> QED
  BY <1>5, <1>6, <1>7, <1>8 DEF SInv

\* The invariant holds in every behaviour of the stages.
THEOREM StagesInvariant == StagesSpec => []SInv
<1>1. ASSUME SInv, [StagesNext]_svars
      PROVE  SInv'
  BY <1>1, ResolveStep, DownloadsStep, ApplyStep, RevertStep, CallGoesOnStep, JobEndStep
     DEF StagesNext
<1> QED
  BY StagesInitInv, <1>1, PTL DEF StagesSpec

\* The type invariant of the run.
THEOREM StagesTypesHold == StagesSpec => []StagesTypeOK
<1>1. SInv => StagesTypeOK
  BY DEF SInv
<1> QED
  BY <1>1, StagesInvariant, PTL

\* A request is only ever sent to a provider's host, over https, at routable addresses
\* its own lookup gave, whatever a server redirects to (check_destination and the
\* loop of download in cover/fetch.rs).
THEOREM OnlyCheckedConnected == StagesSpec => []ConnectsOnlyChecked
<1>1. SInv => ConnectsOnlyChecked
  <2> SUFFICES ASSUME SInv, phase = "get"
               PROVE  /\ url.scheme = "https" /\ ~url.userinfo /\ url.port = "default"
                      /\ ProviderHost(url.host)
                      /\ addrs \in AnswersOf[url.host]
                      /\ addrs # {}
                      /\ \A a \in addrs : Routable(a)
    BY DEF ConnectsOnlyChecked
  <2>1. /\ url \in FetchUrls /\ UrlPermitted(url) /\ AddressesPermitted(addrs)
        /\ addrs \in AnswersOf[url.host]
    BY DEF SInv, HopChecked
  <2>2. url.host \in Hosts /\ addrs \subseteq Addresses
    BY <2>1, FetchAssumption
  <2>3. ProviderHost(url.host)
    BY <2>1, <2>2, AllowedIsProvider DEF UrlPermitted
  <2>4. \A a \in addrs : Routable(a)
    BY <2>1, <2>2, GlobalIsRoutable DEF AddressesPermitted
  <2> QED
    BY <2>1, <2>3, <2>4 DEF UrlPermitted, AddressesPermitted
<1> QED
  BY <1>1, StagesInvariant, PTL

\* A drip-feeding server or a stuck wlchroma-ctl keeps the worker for a bounded time,
\* and a stop for one read and one call (read_body, ProcessRunner::run).
THEOREM JobsTakeBoundedTime == StagesSpec => []JobTimeBounded
<1>1. SInv => JobTimeBounded
  <2> USE Limits
  <2> SUFFICES ASSUME SInv
               PROVE  JobTimeBounded
    OBVIOUS
  <2>1. DownloadBounded
    BY DEF SInv, DownloadTimes, DownloadBounded
  <2>2. StopCostsOneReadAndOneCall
    <3> SUFFICES ASSUME job = "revert" \/ head_at <= stop_at
                 PROVE  clock <= Max({stop_at, across}) + CTL_TIMEOUT
      BY DEF StopCostsOneReadAndOneCall
    <3>1. /\ clock \in Nat /\ stop_at \in Nat /\ across \in Nat /\ head_at \in Nat /\ began \in Nat
      BY DEF SInv, StagesTypeOK, DownloadTimes, CallInStep
    <3>2. /\ Max({stop_at, across}) \in Nat
          /\ stop_at <= Max({stop_at, across}) /\ across <= Max({stop_at, across})
      BY <3>1, MaxOfTwo
    <3>3. CASE call = "idle"
      <4>1. job = "revert" => clock = 0
        BY <3>3 DEF SInv, StagesInOrder
      <4>2. clock <= head_at \/ clock <= across
        BY <3>3 DEF SInv, DownloadTimes
      <4> QED
        BY <3>1, <3>2, <4>1, <4>2
    <3>4. CASE call # "idle"
      <4>1. job = "revert" => began = 0
        BY DEF SInv, StagesInOrder
      <4>2. clock <= began + CTL_TIMEOUT /\ (began <= head_at \/ began <= across)
        BY <3>4 DEF SInv, CallInStep, ctl_deadline
      <4> QED
        BY <3>1, <3>2, <4>1, <4>2
    <3> QED
      BY <3>3, <3>4
  <2> QED
    BY <2>1, <2>2 DEF JobTimeBounded
<1> QED
  BY <1>1, StagesInvariant, PTL

\* The child is reaped or killed for being stuck, by the timeout, and a child that was
\* getting on is never killed (ProcessRunner::run).
THEOREM CallsAreContained == StagesSpec => []CallContained
<1>1. SInv => CallContained
  BY DEF SInv
<1> QED
  BY <1>1, StagesInvariant, PTL

\* The boundary that guards apply never refuses what a job hands it (Ctl::revert).
THEOREM RevertsReachCtl == StagesSpec => []RevertReachesCtl
<1>1. SInv => RevertReachesCtl
  BY DEF SInv
<1> QED
  BY <1>1, StagesInvariant, PTL
=============================================================================
