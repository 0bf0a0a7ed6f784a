------------------------------- MODULE Policy --------------------------------
(***************************************************************************)
(* The destination policy for remote artwork: src/src/cover/policy.rs.     *)
(*                                                                         *)
(* A host is a sequence of tokens in which "." is one; the empty sequence  *)
(* is a host that is not a domain name (an IP literal, or none).  An       *)
(* address is its sequence of groups: four of 8 bits, or eight of 16.      *)
(***************************************************************************)
EXTENDS Integers, Sequences, SequencesExt

CONSTANTS
    DEFAULT_ART_DOMAINS,  \* the built-in provider domains
    Labels,               \* of host names
    ExtraDomains          \* those of MPRIS_CHROMA_ART_DOMAINS, trimmed

Hosts == Seq(Labels \cup {"."})
Addresses4 == [1 .. 4 -> 0 .. 255]
MaxWord == 65535
Addresses6 == [1 .. 8 -> 0 .. MaxWord]
Addresses == Addresses4 \cup Addresses6

ASSUME PolicyAssumption == DEFAULT_ART_DOMAINS \cup ExtraDomains \subseteq Hosts

art_domains == DEFAULT_ART_DOMAINS \cup (ExtraDomains \ {<<>>})

\* host equals an allowlisted domain, or ends with one after a dot.
HostAllowed(host) ==
    \E d \in art_domains :
        \/ host = d
        \/ /\ IsSuffix(d, host)
           /\ Len(host) > Len(d)
           /\ host[Len(host) - Len(d)] = "."

-----------------------------------------------------------------------------
PowersOf2 == <<2, 4, 8, 16, 32, 64, 128, 256, 512, 1024, 2048, 4096, 8192, 16384, 32768, 65536>>

\* v4_in and v6_in: the first prefix bits of addr are those of net, whose
\* missing groups are zero.
InBlock(addr, net, prefix) ==
    LET width == IF Len(addr) = 4 THEN 8 ELSE 16
        full == prefix \div width
        unit == PowersOf2[width - (prefix % width)]
        Group(i) == IF i <= Len(net) THEN net[i] ELSE 0
    IN  /\ \A i \in 1 .. full : addr[i] = Group(i)
        /\ prefix % width # 0 => addr[full + 1] \div unit = Group(full + 1) \div unit

NonGlobal4 == {
    <<<<0>>, 8>>, <<<<10>>, 8>>, <<<<100, 64>>, 10>>, <<<<127>>, 8>>,
    <<<<169, 254>>, 16>>, <<<<172, 16>>, 12>>, <<<<192, 0, 0>>, 24>>,
    <<<<192, 0, 2>>, 24>>, <<<<192, 88, 99>>, 24>>, <<<<192, 168>>, 16>>,
    <<<<198, 18>>, 15>>, <<<<198, 51, 100>>, 24>>, <<<<203, 0, 113>>, 24>>,
    <<<<224>>, 4>>, <<<<240>>, 4>>}

GlobalUnicast6 == <<<<8192>>, 3>>  \* 2000::/3

\* 2001::/23, 2001:db8::/32, 2002::/16, 3fff::/20
NonGlobal6 == {<<<<8193>>, 23>>, <<<<8193, 3512>>, 32>>, <<<<8194>>, 16>>, <<<<16383>>, 20>>}

IsGlobal(addr) ==
    IF Len(addr) = 4
    THEN \A block \in NonGlobal4 : ~InBlock(addr, block[1], block[2])
    ELSE /\ InBlock(addr, GlobalUnicast6[1], GlobalUnicast6[2])
         /\ \A block \in NonGlobal6 : ~InBlock(addr, block[1], block[2])

-----------------------------------------------------------------------------
\* What check_destination asks of the URL itself; the parser dropped a default
\* port.
UrlPermitted(url) ==
    /\ url.scheme = "https"
    /\ ~url.userinfo
    /\ url.port = "default"
    /\ url.host # <<>> /\ HostAllowed(url.host)

\* And of the addresses its host resolves to.
AddressesPermitted(addrs) == addrs # {} /\ \A a \in addrs : IsGlobal(a)

-----------------------------------------------------------------------------
\* The same, by definition: as the registries list the blocks, from the first
\* address to the last, and label by label.

Before(a, b) ==
    \E i \in DOMAIN a : a[i] < b[i] /\ \A j \in 1 .. i - 1 : a[j] = b[j]

Within(a, range) == ~Before(a, range[1]) /\ ~Before(range[2], a)

ReservedRanges4 == {
    <<<<0, 0, 0, 0>>, <<0, 255, 255, 255>>>>,
    <<<<10, 0, 0, 0>>, <<10, 255, 255, 255>>>>,
    <<<<100, 64, 0, 0>>, <<100, 127, 255, 255>>>>,
    <<<<127, 0, 0, 0>>, <<127, 255, 255, 255>>>>,
    <<<<169, 254, 0, 0>>, <<169, 254, 255, 255>>>>,
    <<<<172, 16, 0, 0>>, <<172, 31, 255, 255>>>>,
    <<<<192, 0, 0, 0>>, <<192, 0, 0, 255>>>>,
    <<<<192, 0, 2, 0>>, <<192, 0, 2, 255>>>>,
    <<<<192, 88, 99, 0>>, <<192, 88, 99, 255>>>>,
    <<<<192, 168, 0, 0>>, <<192, 168, 255, 255>>>>,
    <<<<198, 18, 0, 0>>, <<198, 19, 255, 255>>>>,
    <<<<198, 51, 100, 0>>, <<198, 51, 100, 255>>>>,
    <<<<203, 0, 113, 0>>, <<203, 0, 113, 255>>>>,
    <<<<224, 0, 0, 0>>, <<255, 255, 255, 255>>>>}

From6(a, b) == <<a, b, 0, 0, 0, 0, 0, 0>>
To6(a, b) == <<a, b, 65535, 65535, 65535, 65535, 65535, 65535>>

\* 2000:: to 3fff:ffff:..., without those registered for something else.
UnicastRange6 == <<From6(8192, 0), To6(16383, 65535)>>
ReservedRanges6 == {
    <<From6(8193, 0), To6(8193, 511)>>,
    <<From6(8193, 3512), To6(8193, 3512)>>,
    <<From6(8194, 0), To6(8194, 65535)>>,
    <<From6(16383, 0), To6(16383, 4095)>>}

Routable(addr) ==
    IF Len(addr) = 4
    THEN \A range \in ReservedRanges4 : ~Within(addr, range)
    ELSE Within(addr, UnicastRange6) /\ \A range \in ReservedRanges6 : ~Within(addr, range)

\* Where the labels of a host begin.
LabelStarts(host) == {1} \cup {i + 1 : i \in {j \in DOMAIN host : host[j] = "."}}

ProviderHost(host) ==
    \E d \in art_domains, i \in LabelStarts(host) : SubSeq(host, i, Len(host)) = d
=============================================================================
