------------------------------ MODULE MCStages -------------------------------
(***************************************************************************)
(* The stages of a job on a small instance.  A tick is 5 s, so the limits  *)
(* are the code's own; a body has a few bytes, a redirect chain two hops.  *)
(* A lookup answers with the addresses on either side of every boundary of *)
(* the tables of reserved blocks.                                          *)
(***************************************************************************)
EXTENDS Stages

Provider == <<"scdn", ".", "co">>
Image == <<"i", ".", "scdn", ".", "co">>
Lookalike == <<"evil", "scdn", ".", "co">>
Own == <<"covers">>

MCLabels == {"scdn", "co", "i", "evil", "covers"}
MCDomains == {Provider}
MCExtra == {<<>>, Own}

Https(host) == [scheme |-> "https", userinfo |-> FALSE, port |-> "default", host |-> host]

Refused == {
    [Https(Image) EXCEPT !.scheme = "http"],
    [Https(Image) EXCEPT !.userinfo = TRUE],
    [Https(Image) EXCEPT !.port = "8443"],
    Https(Lookalike),
    Https(<<>>)}
MCUrls == Refused \cup {Https(Image), Https(Own)}
MCFirstUrls == {Https(Image), [Https(Image) EXCEPT !.scheme = "http"]}

\* The neighbours of an address, when they exist.
After(a, limit) ==
    LET i == Max({j \in DOMAIN a : a[j] < limit})
    IN  [j \in DOMAIN a |-> IF j < i THEN a[j] ELSE IF j = i THEN a[j] + 1 ELSE 0]
Preceding(a, limit) ==
    LET i == Max({j \in DOMAIN a : a[j] > 0})
    IN  [j \in DOMAIN a |-> IF j < i THEN a[j] ELSE IF j = i THEN a[j] - 1 ELSE limit]

Edges(range, limit) ==
    {range[1], range[2]}
        \cup {After(a, limit) : a \in {range[2]} \ {<<limit, limit, limit, limit>>}}
        \cup {Preceding(a, limit) : a \in {range[1]} \ {<<0, 0, 0, 0>>}}

Probes ==
    UNION {Edges(range, 255) : range \in ReservedRanges4}
        \cup UNION {Edges(range, 65535) : range \in ReservedRanges6 \cup {UnicastRange6}}

Public == <<151, 101, 1, 1>>
MCAnswersOf == [h \in {u.host : u \in MCUrls} |->
    IF h = Image THEN {{a} : a \in Probes} \cup {{}}
    ELSE {{Public}, {Public, <<127, 0, 0, 1>>}}]

\* Unreadable, well-formed, one entry too few or too many, one entry malformed.
MCConfigs == {None, <<"hex", "hex", "hex">>, <<"hex", "hex">>,
              <<"hex", "hex", "hex", "hex">>, <<"hex", "hex", "malformed">>}
MCRendered == <<"hex", "hex", "hex">>
=============================================================================
