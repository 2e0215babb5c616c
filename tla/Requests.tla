----------------------------- MODULE Requests -----------------------------
(***************************************************************************)
(* What a request is allowed and where its answer may be cached: the keys  *)
(* of a feed, downloads of versions in every state, forwarding headers     *)
(* from proxies, the client a limit is charged to, byte ranges.            *)
(*                                                                         *)
(* Keys, hosts and addresses are strings; "" is an absent header or an     *)
(* unset option.                                                           *)
(***************************************************************************)
EXTENDS Integers, Sequences, FiniteSets, SequencesExt

---------------------------------------------------------------------------
\* Keys.  A feed is [api, read, preview, admin, immutable]; headers are
\* [apiKey, basic]: X-NuGet-ApiKey and the password of Basic credentials.

ApiKeyIs(feed, key) == feed.api # {} /\ key \in feed.api
AdminKeyIs(feed, key) == feed.admin # "" /\ key = feed.admin

ReadAuthCheck(expected, h) == expected = "" \/ expected \in {h.apiKey, h.basic}
ReadAuthPresented(expected, h) == expected # "" /\ ReadAuthCheck(expected, h)

OfferedKeys(h) == {h.apiKey, h.basic} \ {""}

\* A version in the feed: [held, enabled, pending].
IsServable(row) == row.held /\ row.enabled /\ ~row.pending

\* download_access: "unauthorized", "preview", "public", or "none" for a miss
DownloadAccess(feed, h, row) ==
    IF ReadAuthPresented(feed.preview, h)
    THEN IF row.held /\ row.enabled THEN "preview" ELSE "none"
    ELSE IF ~ReadAuthCheck(feed.read, h) THEN "unauthorized"
    ELSE IF IsServable(row) THEN "public" ELSE "none"

\* Mutant: a miss is not found, whatever key was offered.
DownloadMissPlain(feed, h) == 404

\* download_miss
DownloadMiss(feed, h) ==
    IF /\ feed.preview # "" /\ ~ReadAuthPresented(feed.preview, h)
       /\ ~ReadAuthPresented(feed.read, h)
       /\ \E k \in OfferedKeys(h) : ~ApiKeyIs(feed, k) /\ ~AdminKeyIs(feed, k)
    THEN 401 ELSE 404

\* Access::cache, content_cache
CachePolicy(feed, access) ==
    IF access = "preview" THEN [private |-> TRUE, immutable |-> FALSE]
    ELSE [private |-> feed.read # "", immutable |-> feed.immutable]

\* download_package with the layers around it: the status, how it may be
\* cached, and whether it varies by the keys (Access::mark, gated_feed_headers).
DownloadAnswer(feed, h, row) ==
    LET access == DownloadAccess(feed, h, row)
        gated == feed.read # ""
    IN  IF access \in {"public", "preview"}
        THEN [status |-> 200, cache |-> CachePolicy(feed, access),
              vary |-> gated \/ access = "preview"]
        ELSE [status |-> IF access = "unauthorized" THEN 401 ELSE DownloadMiss(feed, h),
              cache |-> [private |-> gated, immutable |-> FALSE], vary |-> gated]

---------------------------------------------------------------------------
\* Forwarding headers.  A request is [peer, host, fhost, fproto, chain, realIp,
\* safe, crossSite, exempt]: the peer's address, Host, X-Forwarded-Host and
\* -Proto, X-Forwarded-For, X-Real-IP, whether the method is safe, Sec-Fetch-Site
\* says cross-site, and the path is a health or metrics one.

\* filter_forwarded_headers
Filtered(req, trusted) ==
    IF req.peer \in trusted THEN req
    ELSE [req EXCEPT !.fhost = "", !.fproto = "", !.chain = <<>>, !.realIp = ""]

ForwardedHost(req) == IF req.fhost # "" THEN req.fhost ELSE req.host

\* request_guard; allowed = {} is no allowlist
RequestGuard(req, allowed) ==
    IF allowed # {} /\ ~req.exempt /\ ForwardedHost(req) \notin allowed THEN 421
    ELSE IF ~req.safe /\ req.crossSite THEN 403
    ELSE 200

\* AppState::url_builder: the root of every URL an answer holds
UrlRoot(req, base, scheme) ==
    IF base # "" THEN base
    ELSE <<IF req.fproto \in {"http", "https"} THEN req.fproto ELSE scheme,
           IF ForwardedHost(req) # "" THEN ForwardedHost(req) ELSE "localhost">>

\* client_ip: X-Forwarded-For from the right, past trusted proxies.  "bad" is
\* an entry that is not an address.
RECURSIVE Walk(_, _, _)
Walk(chain, client, trusted) ==
    IF chain = <<>> \/ Last(chain) = "bad" THEN client
    ELSE IF Last(chain) \notin trusted THEN Last(chain)
    ELSE Walk(Front(chain), Last(chain), trusted)

ClientIp(req, trusted) ==
    IF req.peer \notin trusted THEN req.peer
    ELSE IF req.chain # <<>> THEN Walk(req.chain, req.peer, trusted)
    ELSE IF req.realIp \notin {"", "bad"} THEN req.realIp
    ELSE req.peer

\* prefix_eq, on octets; x & mask is x with its low bits cleared
PrefixEq(a, b, bits) ==
    LET full == bits \div 8
        rem == bits % 8
        High(x) == x - (x % (2 ^ (8 - rem)))
    IN  /\ SubSeq(a, 1, full) = SubSeq(b, 1, full)
        /\ rem = 0 \/ High(a[full + 1]) = High(b[full + 1])

---------------------------------------------------------------------------
\* Addresses a fetch must not reach.  An IPv4 address is its octets, an IPv6
\* address its eight segments.

Net(octets, bits) == [net |-> octets, bits |-> bits]

\* Ipv4Addr::is_loopback, is_private, is_link_local
LocalV4 == {Net(<<127, 0, 0, 0>>, 8), Net(<<10, 0, 0, 0>>, 8), Net(<<172, 16, 0, 0>>, 12),
            Net(<<192, 168, 0, 0>>, 16), Net(<<169, 254, 0, 0>>, 16)}

\* PRIVATE_V4, with the unspecified and the broadcast address in the first and last
ReservedV4 == {Net(<<0, 0, 0, 0>>, 8), Net(<<100, 64, 0, 0>>, 10), Net(<<192, 0, 0, 0>>, 24),
               Net(<<198, 18, 0, 0>>, 15), Net(<<224, 0, 0, 0>>, 4), Net(<<240, 0, 0, 0>>, 4)}

\* PRIVATE_V6
PrivateV6 == {Net(<<64512, 0, 0>>, 7), Net(<<65152, 0, 0>>, 10), Net(<<65216, 0, 0>>, 10),
              Net(<<65280, 0, 0>>, 8), Net(<<100, 65435, 1>>, 48)}

Octets(segments) ==
    [i \in 1 .. 2 * Len(segments) |->
        IF i % 2 = 1 THEN segments[(i + 1) \div 2] \div 256 ELSE segments[i \div 2] % 256]

IsPrivateV4(ip) == \E n \in LocalV4 \cup ReservedV4 : PrefixEq(n.net, ip, n.bits)

\* embedded_v4: {address}, or {} for an address that carries none
EmbeddedV4(s) ==
    LET tail == Octets(SubSeq(s, 7, 8))
        zeros == <<0, 0, 0, 0, 0>>
    IN  IF SubSeq(s, 1, 6) = zeros \o <<65535>> THEN {tail}
        ELSE IF SubSeq(s, 1, 6) = zeros \o <<0>> /\ (s[7] # 0 \/ s[8] > 1) THEN {tail}
        ELSE IF SubSeq(s, 1, 6) = <<100, 65435, 0, 0, 0, 0>> THEN {tail}
        ELSE IF s[1] = 8194 THEN {Octets(SubSeq(s, 2, 3))}
        ELSE {}

\* is_private_ip of an IPv6 address; :: and ::1 are the two it names itself
IsPrivateV6(s) ==
    IF EmbeddedV4(s) # {} THEN \A ip \in EmbeddedV4(s) : IsPrivateV4(ip)
    ELSE \/ SubSeq(s, 1, 7) = <<0, 0, 0, 0, 0, 0, 0>> /\ s[8] <= 1
         \/ \E n \in PrivateV6 : PrefixEq(Octets(n.net), Octets(s), n.bits)

---------------------------------------------------------------------------
\* Byte ranges.  A Range header is the pair of positions it names: -1 is an empty
\* one, -2 one that is not a number.  A result is [kind, from, to]: "none" is the
\* whole file.

WholeFile == [kind |-> "none", from |-> 0, to |-> 0]
Unsatisfiable == [kind |-> "unsatisfiable", from |-> 0, to |-> 0]
Slice(from, to) == [kind |-> "range", from |-> from, to |-> to]

\* parse_range
ParseRange(range, total) ==
    LET first == range[1]  last == range[2]
        end == total - 1
    IN  IF total = 0 THEN Unsatisfiable
        ELSE IF first = -1
        THEN IF last < 0 THEN WholeFile
             ELSE IF last = 0 THEN Unsatisfiable
             ELSE Slice(IF last > total THEN 0 ELSE total - last, end)
        ELSE IF first = -2 \/ last = -2 THEN WholeFile
        ELSE IF last = -1
        THEN IF first <= end THEN Slice(first, end) ELSE Unsatisfiable
        ELSE IF first > last THEN WholeFile
        ELSE IF first <= end THEN Slice(first, IF last < end THEN last ELSE end)
        ELSE Unsatisfiable

---------------------------------------------------------------------------
\* What the definitions promise together.

\* Without the preview key, a version that waits for approval or was disabled
\* answers exactly as one that is not there.
PendingIsHidden(feed, h) ==
    ~ReadAuthPresented(feed.preview, h) =>
        \A row \in [held : {TRUE}, enabled : BOOLEAN, pending : BOOLEAN] :
            row.pending \/ ~row.enabled =>
                DownloadAnswer(feed, h, row) =
                    DownloadAnswer(feed, h, [held |-> FALSE, enabled |-> FALSE, pending |-> FALSE])

\* Bytes that some other headers would not get never go where a shared cache
\* may hand them on: the answer is private and varies by the keys.
KeyedAnswersArePrivate(feed, h1, h2, row) ==
    LET a == DownloadAnswer(feed, h1, row)
        b == DownloadAnswer(feed, h2, row)
    IN  a.status = 200 /\ b.status # 200 => a.cache.private /\ a.vary

\* Whoever offers only keys the feed does not know is either served what
\* everyone is, or counted as a failed authentication; a client that sends the
\* feed's own push or admin key with each request is not, on an open feed.
GuessesAreCounted(feed, h, row) ==
    LET known == feed.api \cup {feed.read, feed.preview, feed.admin}
        status == DownloadAnswer(feed, h, row).status
    IN  /\ feed.preview # "" /\ OfferedKeys(h) # {} /\ OfferedKeys(h) \cap known = {} =>
              status = 401 \/ (status = 200 /\ feed.read = "" /\ IsServable(row))
        /\ feed.read = "" /\ OfferedKeys(h) \subseteq feed.api \cup ({feed.admin} \ {""}) =>
              status # 401

\* A peer that is no trusted proxy cannot steer where answers point, which hosts
\* are served, or whom a limit is charged to.
UntrustedCannotSteer(req, trusted, allowed) ==
    LET bare == [req EXCEPT !.fhost = "", !.fproto = "", !.chain = <<>>, !.realIp = ""]
        seen == Filtered(req, trusted)
    IN  req.peer \notin trusted =>
            /\ RequestGuard(seen, allowed) = RequestGuard(bare, allowed)
            /\ UrlRoot(seen, "", "http") = UrlRoot(bare, "", "http")
            /\ ClientIp(req, trusted) = req.peer

\* With an allowlist of hosts, no answer but a health check's names another.
RootIsAllowed(req, trusted, allowed) ==
    LET seen == Filtered(req, trusted)
    IN  allowed # {} /\ ~req.exempt /\ RequestGuard(seen, allowed) = 200 =>
            UrlRoot(seen, "", "http")[2] \in allowed

\* Past the first address nobody vouched for, X-Forwarded-For says nothing: what
\* a client put in front of it cannot move the client to another bucket.
SpoofedPrefixIsIgnored(req, trusted, prefix) ==
    (\E i \in DOMAIN req.chain : req.chain[i] \notin trusted) =>
        ClientIp(req, trusted) = ClientIp([req EXCEPT !.chain = prefix \o @], trusted)

\* prefix_eq compares the leading bits and nothing else, also at the borders of
\* an octet.
PrefixIsLeadingBits(a, b, bits) ==
    LET Value(x) == x[1] * 256 + x[2]
    IN  PrefixEq(a, b, bits) <=>
            Value(a) \div (2 ^ (16 - bits)) = Value(b) \div (2 ^ (16 - bits))

\* No address of the ranges the local network, the host or nobody uses is
\* fetched from, however an IPv6 address wraps it, and no other is refused.
ReservedIsNeverReached(ip) ==
    LET a == ip[1]  b == ip[2]  c == ip[3]
        hi == a * 256 + b  lo == c * 256 + ip[4]
        reserved == \/ a \in {0, 10, 127} \/ a >= 224
                    \/ a = 100 /\ b \in 64 .. 127
                    \/ a = 169 /\ b = 254
                    \/ a = 172 /\ b \in 16 .. 31
                    \/ a = 192 /\ (b = 168 \/ (b = 0 /\ c = 0))
                    \/ a = 198 /\ b \in 18 .. 19
    IN  /\ IsPrivateV4(ip) <=> reserved
        /\ \A wrapped \in {<<0, 0, 0, 0, 0, 65535, hi, lo>>, <<0, 0, 0, 0, 0, 0, hi, lo>>,
                            <<100, 65435, 0, 0, 0, 0, hi, lo>>, <<8194, hi, lo, 0, 0, 0, 0, 1>>} :
               IsPrivateV6(wrapped) <=> reserved
        /\ IsPrivateV6(<<hi, 0, 0, 0, 0, 0, 0, 9>>) <=>
               (a \in 252 .. 253 \/ a = 255 \/ (a = 254 /\ b >= 128)) \/ (hi = 0)

\* The bytes RFC 9110 names for a range, of those there are.
RangeReference(range, total) ==
    {i \in 0 .. total - 1 :
        IF range[1] = -1 THEN i >= total - range[2]
        ELSE i >= range[1] /\ (range[2] = -1 \/ i <= range[2])}

\* A range that is answered with 206 is the bytes asked for that exist, at least
\* one; 416 is answered only when there are none; a header that names no range
\* is ignored.
RangeIsExact(range, total) ==
    LET r == ParseRange(range, total)
        malformed == \/ -2 \in {range[1], range[2]}
                     \/ range[1] = -1 /\ range[2] = -1
                     \/ range[1] >= 0 /\ range[2] >= 0 /\ range[1] > range[2]
    IN  CASE r.kind = "none" -> malformed
          [] r.kind = "unsatisfiable" ->
                 (malformed /\ total = 0) \/ RangeReference(range, total) = {}
          [] r.kind = "range" ->
                 ~malformed /\ r.from <= r.to /\ r.from .. r.to = RangeReference(range, total)
=============================================================================
