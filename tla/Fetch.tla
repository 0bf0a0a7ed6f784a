-------------------------------- MODULE Fetch --------------------------------
(***************************************************************************)
(* One download of a cover: src/src/cover/fetch.rs with the destination    *)
(* policy of policy.rs.                                                    *)
(*                                                                         *)
(* A call that blocks is one step: it takes any number of ticks up to its  *)
(* own limit, and what the code does until its next blocking call none.    *)
(***************************************************************************)
EXTENDS Clock, Policy, FiniteSetsExt

CONSTANTS
    FetchUrls,          \* URLs players and servers may name
    AnswersOf,          \* host -> the sets of addresses a lookup may answer with
    DOWNLOAD_TIMEOUT,   \* of the lookup, connect, request and response head, each
    DOWNLOAD_DEADLINE,  \* of the whole transfer
    MAX_REDIRECTS,
    MAX_COVER_BYTES,
    CHUNK               \* what one read may return

ASSUME FetchAssumption ==
    /\ {DOWNLOAD_TIMEOUT, DOWNLOAD_DEADLINE, MAX_COVER_BYTES, CHUNK} \subseteq Nat \ {0}
    /\ MAX_REDIRECTS \in Nat
    /\ \A u \in FetchUrls : u.host \in Hosts
    /\ AnswersOf \in [{u.host : u \in FetchUrls} -> SUBSET SUBSET Addresses]

VARIABLES
    phase,      \* where the download is
    url,        \* the URL of this hop
    hop,
    addrs,      \* the addresses checked for this hop
    deadline,   \* of the transfer
    expires,    \* when the transport gives up on this response's body
    received,   \* bytes of the body so far
    fetched,    \* how the download ended
    head_at,    \* when the head of the final response came
    across      \* when the read ended that was under way at the stop

dvars == <<phase, url, hop, addrs, deadline, expires, received, fetched, head_at, across>>

Phases == {"off", "check", "get", "body", "over"}
FetchErrors == {"Rejected", "TooLarge", "Timeout", "Aborted", "Io"}

ASSUME NoResultAssumption == None \notin FetchErrors \cup {"ok"}

\* CoverError::classify.
Classify(error) ==
    IF error \in {"Rejected", "TooLarge"} THEN "Rejected" ELSE "FailedRetryable"

FetchInit ==
    /\ phase = "off"
    /\ url = None
    /\ hop = 0
    /\ addrs = {}
    /\ deadline = 0
    /\ expires = 0
    /\ received = 0
    /\ fetched = None
    /\ head_at = Never
    /\ across = 0

End(result) == phase' = "over" /\ fetched' = result
Continue(next) == phase' = next /\ UNCHANGED fetched

-----------------------------------------------------------------------------
StartFetch(first) ==
    /\ phase = "off"
    /\ Continue("check")
    /\ url' = first
    /\ deadline' = clock + DOWNLOAD_DEADLINE
    /\ UNCHANGED <<timevars, hop, addrs, expires, received, head_at, across>>

\* check_destination: the URL, then the lookup on a helper thread that is
\* abandoned when it overruns, then its addresses; and the deadline.
CheckDestination ==
    /\ phase = "check"
    /\ \/ /\ ~UrlPermitted(url)
          /\ End("Rejected")
          /\ UNCHANGED <<timevars, addrs>>
       \/ /\ UrlPermitted(url)
          /\ Blocks(DOWNLOAD_TIMEOUT)
          /\ End("Io") \/ (clock' = clock + DOWNLOAD_TIMEOUT /\ End("Timeout"))
          /\ UNCHANGED addrs
       \/ /\ UrlPermitted(url)
          /\ Blocks(DOWNLOAD_TIMEOUT)
          /\ \E answer \in AnswersOf[url.host] :
                \/ /\ ~AddressesPermitted(answer)
                   /\ End("Rejected")
                   /\ UNCHANGED addrs
                \/ /\ AddressesPermitted(answer)
                   /\ addrs' = answer
                   /\ IF clock' > deadline THEN End("Timeout") ELSE Continue("get")
    /\ UNCHANGED <<url, hop, deadline, expires, received, head_at, across>>

\* Transport::get gives up on the request, pinned to addrs.
GetFails ==
    /\ phase = "get"
    /\ Blocks(3 * DOWNLOAD_TIMEOUT)
    /\ \E error \in {"Timeout", "Io"} : End(error)
    /\ addrs' = {}
    /\ UNCHANGED <<url, hop, deadline, expires, received, head_at, across>>

\* Mutant: only the first URL is checked.
FollowUnchecked ==
    /\ phase = "get"
    /\ Blocks(3 * DOWNLOAD_TIMEOUT)
    /\ hop < MAX_REDIRECTS
    /\ hop' = hop + 1
    /\ url' \in FetchUrls
    /\ Continue("get")
    /\ UNCHANGED <<addrs, deadline, expires, received, head_at, across>>

\* Mutant: each hop has a deadline of its own.
FollowAnew ==
    /\ phase = "get"
    /\ Blocks(3 * DOWNLOAD_TIMEOUT)
    /\ hop < MAX_REDIRECTS
    /\ hop' = hop + 1
    /\ url' \in FetchUrls
    /\ Continue("check")
    /\ addrs' = {}
    /\ deadline' = clock' + DOWNLOAD_DEADLINE
    /\ UNCHANGED <<expires, received, head_at, across>>

\* A redirect: the next hop is checked like the first one.
Follow ==
    /\ phase = "get"
    /\ Blocks(3 * DOWNLOAD_TIMEOUT)
    /\ hop < MAX_REDIRECTS
    /\ hop' = hop + 1
    /\ url' \in FetchUrls
    /\ Continue("check")
    /\ addrs' = {}
    /\ UNCHANGED <<deadline, expires, received, head_at, across>>

\* No Location, another status, or a redirect too many; a Location that does not
\* parse.
ResponseUseless ==
    /\ phase = "get"
    /\ Blocks(3 * DOWNLOAD_TIMEOUT)
    /\ End("Io") \/ End("Rejected")
    /\ addrs' = {}
    /\ UNCHANGED <<url, hop, deadline, expires, received, head_at, across>>

\* 2xx: a declared oversize is refused before any of the body is read.
ResponseOk ==
    /\ phase = "get"
    /\ Blocks(3 * DOWNLOAD_TIMEOUT)
    /\ End("TooLarge") \/ Continue("body")
    /\ addrs' = {}
    /\ expires' = Min({clock' + DOWNLOAD_DEADLINE,
                       clock + DOWNLOAD_DEADLINE + DOWNLOAD_TIMEOUT})
    /\ head_at' = clock'
    /\ UNCHANGED <<url, hop, deadline, received, across>>

-----------------------------------------------------------------------------
\* Mutant: only a declared length is held against the cap.
ReadReturnsAnything ==
    \/ End("ok") /\ UNCHANGED received
    \/ \E n \in 1 .. CHUNK : received' = received + n /\ Continue("body")
    \/ clock' = expires /\ End("Timeout") /\ UNCHANGED received

\* What a read of the body comes to: its end, bytes within or beyond the cap, or
\* an error.  (Interrupted: the loop goes round.)
ReadReturns ==
    \/ End("ok") /\ UNCHANGED received
    \/ \E n \in 1 .. CHUNK :
          /\ received + n <= MAX_COVER_BYTES
          /\ received' = received + n
          /\ Continue("body")
    \/ received + CHUNK > MAX_COVER_BYTES /\ End("TooLarge") /\ UNCHANGED received
    \/ End("Io") /\ UNCHANGED received
    \/ clock' = expires /\ End("Timeout") /\ UNCHANGED received
    \/ Continue("body") /\ UNCHANGED received

Read ==
    /\ Blocks(expires - clock)
    /\ ReadReturns
    /\ across' = IF should_stop THEN across ELSE clock'
    /\ UNCHANGED <<url, hop, addrs, deadline, expires, head_at>>

\* Mutant: the flag is read once, before the loop.
ReadBodyPollsOnce ==
    /\ phase = "body"
    /\ \/ /\ clock > deadline \/ (should_stop /\ received = 0)
          /\ End(IF clock > deadline THEN "Timeout" ELSE "Aborted")
          /\ UNCHANGED <<timevars, url, hop, addrs, deadline, expires, received, head_at, across>>
       \/ clock <= deadline /\ ~(should_stop /\ received = 0) /\ Read

\* One round of read_body's loop.
ReadBody ==
    /\ phase = "body"
    /\ \/ /\ should_stop \/ clock > deadline
          /\ End(IF should_stop THEN "Aborted" ELSE "Timeout")
          /\ UNCHANGED <<timevars, url, hop, addrs, deadline, expires, received, head_at, across>>
       \/ ~should_stop /\ clock <= deadline /\ Read

Download ==
    \/ CheckDestination
    \/ GetFails
    \/ Follow
    \/ ResponseUseless
    \/ ResponseOk
    \/ ReadBody

-----------------------------------------------------------------------------
\* Properties.

\* The download's state has the types the Rust declares.
FetchTypeOK ==
    /\ phase \in Phases
    /\ url \in FetchUrls \cup {None}
    /\ hop \in 0 .. MAX_REDIRECTS
    /\ deadline \in Nat
    /\ expires \in Nat
    /\ received \in 0 .. MAX_COVER_BYTES
    /\ fetched \in FetchErrors \cup {"ok", None}
    /\ fetched # None <=> phase = "over"

\* "The addresses checked here are the addresses connected to", on every hop: a
\* request goes out only over https, to a provider's host, and only to addresses
\* that the lookup of this hop's host gave and that are all routable.
ConnectsOnlyChecked ==
    phase = "get" =>
        /\ url.scheme = "https" /\ ~url.userinfo /\ url.port = "default"
        /\ ProviderHost(url.host)
        /\ addrs \in AnswersOf[url.host]
        /\ addrs # {}
        /\ \A a \in addrs : Routable(a)

=============================================================================
