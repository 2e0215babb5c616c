----------------------------- MODULE FeedReader -----------------------------
(***************************************************************************)
(* The client yanuget-internalize reads an upstream feed with: requests    *)
(* with their redirects and retries, documents under a size cap, the       *)
(* version lists of a v2 and of a v3 feed, the choice of a version and the *)
(* package cache.                                                          *)
(***************************************************************************)
EXTENDS Integers, Sequences, FiniteSets, SequencesExt, FiniteSetsExt, Results

CONSTANTS
    MaxRedirects,  \* MAX_REDIRECTS
    MaxPages,      \* MAX_PAGES
    MaxDocument    \* MAX_DOCUMENT_BYTES

---------------------------------------------------------------------------
(* Requests.  A client is [origin (an option), allowPrivate, allowList,    *)
(* proxied, watch]; a URL is [scheme, host, address], where address says   *)
(* what the host is: a "private" or "public" literal, or a name that leads *)
(* "toPrivate", "toPublic" or "nowhere".  A host stands for its spelling   *)
(* without case and brackets, and for its port.                            *)

UrlOrigin(u) == <<u.scheme, u.host>>

OnAllowList(c, u) == u.host \in c.allowList

\* check
MayFetch(c, u) ==
    /\ u.scheme \in {"http", "https"}
    /\ c.allowPrivate \/ u.address # "private" \/ OnAllowList(c, u)

\* vet: behind a proxy the name is resolved here as well.
Vetted(c, u) ==
    /\ MayFetch(c, u)
    /\ \/ ~c.proxied \/ c.allowPrivate \/ OnAllowList(c, u)
       \/ u.address \in {"private", "public", "toPublic"}

\* The resolver a direct connection goes through.
AllowListed(c, u) ==
    \/ c.proxied
    \/ /\ u.address # "nowhere"
       /\ c.allowPrivate \/ OnAllowList(c, u) \/ u.address # "toPrivate"

CarriesKeys(c, u) == \E o \in c.origin : UrlOrigin(u) = UrlOrigin(o)

\* send from URL u, net being what each URL answers: [status, to, asked],
\* status 0 where nothing comes back, to the Location, asked the Retry-After.
RECURSIVE HopFrom(_, _, _, _, _)
HopFrom(c, net, u, hops, trail) ==
    LET seen == Append(trail, [url |-> u, keys |-> CarriesKeys(c, u)])
        ended(kind) == [kind |-> kind, status |-> net[u].status, asked |-> net[u].asked, trail |-> seen]
    IN CASE ~AllowListed(c, u) -> [ended("http") EXCEPT !.trail = trail]
         [] AllowListed(c, u) /\ net[u].status = 0 -> ended("http")
         [] AllowListed(c, u) /\ net[u].status \notin {0} \cup (300 .. 399) -> ended("ok")
         [] AllowListed(c, u) /\ net[u].status \in 300 .. 399 ->
              IF net[u].to = {} THEN ended("invalid")
              ELSE LET next == The(net[u].to)
                   IN IF (u.scheme = "https" /\ next.scheme = "http") \/ ~Vetted(c, next) THEN ended("refused")
                      ELSE IF hops = MaxRedirects THEN ended("invalid")
                      ELSE HopFrom(c, net, next, hops + 1, seen)

SendFrom(c, net, u) ==
    IF Vetted(c, u) THEN HopFrom(c, net, u, 0, <<>>)
    ELSE [kind |-> "refused", status |-> 0, asked |-> {}, trail |-> <<>>]

\* RetryPolicy's wait before the try after this one.
RetryWait(retry, attempt, asked) ==
    Min({IF asked = {} THEN retry.base * 2 ^ Min({attempt - 1, 16}) ELSE The(asked), retry.maxWait})

\* get_with: nets is what the net answers at each try.
RECURSIVE TryFrom(_, _, _, _, _, _)
TryFrom(c, retry, u, nets, down, so) ==
    LET n == Len(so.sent) + 1
        s == SendFrom(c, nets[n], u)
        last == n >= retry.attempts
        now == [so EXCEPT !.sent = Append(@, s)]
        again(asked) == TryFrom(c, retry, u, nets, down,
                                [now EXCEPT !.waits = Append(@, RetryWait(retry, n, asked))])
    IN CASE ~last /\ s.kind = "ok" /\ s.status \in {429, 503} -> again(s.asked)
         [] ~last /\ s.kind = "http" -> again({})
         [] OTHER -> [now EXCEPT !.down =
                          IF ~c.watch \/ s.kind \in {"refused", "invalid"} THEN down
                          ELSE s.kind = "http" \/ s.status >= 500 \/ s.status = 429]

GetWith(c, retry, u, nets, down) ==
    TryFrom(c, retry, u, nets, down, [sent |-> <<>>, waits |-> <<>>, down |-> down])

---------------------------------------------------------------------------
(* Documents: [status, declared (an option), chunks (their sizes), broken, *)
(* slow, gzip, plain (the decoded size, -1 for what is no gzip), body].    *)

Missing == [kind |-> "missing", body |-> <<>>]
Failed == [kind |-> "error", body |-> <<>>]
Got(body) == [kind |-> "ok", body |-> body]

SizeOfChunks(chunks) == FoldLeft(+, 0, chunks)

\* raw_document, ok_status, decode_capped
ReadDocument(d) ==
    CASE d.status = 404 -> Missing
      [] /\ d.status \in 200 .. 299
         /\ \A n \in d.declared : n <= MaxDocument
         /\ SizeOfChunks(d.chunks) <= MaxDocument /\ ~d.broken /\ ~d.slow
         /\ d.gzip => d.plain \in 0 .. MaxDocument -> Got(d.body)
      [] OTHER -> Failed

---------------------------------------------------------------------------
(* What a feed says of a version: PackageInfo.  Ids are [name, upper],     *)
(* versions [n, pre] with n = 0 for a text that is no version.             *)

SameId(a, b) == a.name = b.name
ParsesAsVersion(v) == v.n > 0
OlderThan(a, b) == a.n < b.n \/ (a.n = b.n /\ a.pre /\ ~b.pre)

\* HashAlgorithm::parse and PackageHash::from_base64: [alg, len, of], alg ""
\* where the feed names none and "md5" where it names one not known here.
DigestLength(alg) == IF alg = "sha256" THEN 32 ELSE 64
StatedHash(h, default) ==
    {[alg |-> a, of |-> x.of] : a \in {IF x.alg = "" THEN default ELSE x.alg : x \in h} \cap {"sha256", "sha512"},
                                x \in {x \in h : x.len = DigestLength(IF x.alg = "" THEN default ELSE x.alg)}}

Info(id, v, listed, hash, size, deps, from) ==
    [id |-> id, v |-> v, listed |-> listed, hash |-> hash, size |-> size, deps |-> deps, from |-> from]

\* A list without what it holds already, in order.
Deduplicated(s) == FoldLeft(LAMBDA out, x : IF x \in ToSet(out) THEN out ELSE Append(out, x), <<>>, s)

\* parse_dependencies: [id, range, framework], parts possibly "".
V2Dependencies(items) ==
    Deduplicated([i \in 1 .. Len(SelectSeq(items, LAMBDA d : d.id # "")) |->
                     LET d == SelectSeq(items, LAMBDA x : x.id # "")[i]
                     IN [id |-> d.id, range |-> {d.range} \ {""}]])

\* Entry::prop, the fields being options; Entry::into_info
V2Entry(e, want) ==
    LET id == IF e.id # {} THEN e.id ELSE e.title
        v == IF e.normalized # {} THEN e.normalized ELSE e.version
    IN IF id = {} \/ v = {} THEN <<>>
       ELSE IF ~SameId(The(id), want) \/ ~ParsesAsVersion(The(v)) THEN <<>>
       ELSE <<Info(The(id), The(v), IF e.listed # {} THEN The(e.listed) ELSE 1900 \notin e.year,
                   StatedHash(e.hash, "sha512"), e.size, V2Dependencies(e.deps),
                   IF e.content # {} THEN <<"content", The(e.content)>> ELSE <<"package", The(id), The(v)>>)>>

\* parse_page: [entries, next]; a page that is no feed is Failed already.
ParsePage(page, want) ==
    [entries |-> FlattenSeq([i \in 1 .. Len(page.entries) |-> V2Entry(page.entries[i], want)]),
     next |-> page.next]

\* v2_versions, at the page a URL leads to: site is what each page answers.
RECURSIVE V2From(_, _, _, _, _)
V2From(site, want, url, pages, out) ==
    IF pages = MaxPages THEN Failed
    ELSE LET doc == ReadDocument(site[url])
             page == ParsePage(doc.body, want)
         IN CASE doc.kind = "missing" -> Got(out)
              [] doc.kind = "error" -> Failed
              [] OTHER -> IF page.next = {} THEN Got(out \o page.entries)
                          ELSE V2From(site, want, The(page.next), pages + 1, out \o page.entries)
V2Versions(site, want) == V2From(site, want, 1, 0, <<>>)

---------------------------------------------------------------------------
(* A v3 feed: the service index, the registration and the flat container.  *)

RegistrationTypes == <<"3.6.0", "Versioned", "3.4.0", "">>

\* ServiceIndex::resolve: the first resource of each type, in order of
\* preference; a type whose @id is no URL gives way to the next.
ResolveType(resources, types) ==
    LET of(t) == {i \in 1 .. Len(resources) : t \in resources[i].types /\ resources[i].id # {}}
        usable == {k \in 1 .. Len(types) : of(types[k]) # {} /\ The(resources[Min(of(types[k]))].id).ok}
    IN IF usable = {} THEN {} ELSE resources[Min(of(types[Min(usable)]))].id

\* resources
ReadIndex(resources) ==
    LET found == [registration |-> ResolveType(resources, RegistrationTypes),
                  flat |-> ResolveType(resources, <<"flat">>)]
    IN IF found.registration = {} /\ found.flat = {} THEN Refused ELSE Ok(found)

\* RegistrationLeaf::entry, CatalogEntry::is_listed, leaf
V3Leaf(l, want, flat) ==
    LET e == IF l.entry # {} THEN The(l.entry) ELSE l.inline
        content == IF l.content # {} THEN l.content ELSE e.content
    IN IF e.id = {} \/ e.version = {} THEN <<>>
       ELSE IF \/ ~SameId(The(e.id), want) \/ ~ParsesAsVersion(The(e.version))
               \/ (content = {} /\ flat = {}) THEN <<>>
       ELSE <<Info(The(e.id), The(e.version), FALSE \notin e.listed /\ 1900 \notin e.year,
                   StatedHash(e.hash, ""), e.size,
                   Deduplicated(SelectSeq(e.deps, LAMBDA d : d.id # "")),
                   IF content # {} THEN <<"content", The(content)>> ELSE <<"flat", The(e.id), The(e.version)>>)>>

\* pages, page_leaves: a page is [items (an option), at (an option)].
PageLeaves(site, page) ==
    CASE page.items # {} -> Got(The(page.items))
      [] page.items = {} /\ page.at = {} -> Failed
      [] page.items = {} /\ page.at # {} ->
           LET doc == ReadDocument(site[The(page.at)])
           IN IF doc.kind # "ok" THEN Failed
              ELSE IF doc.body.items = {} THEN Failed ELSE Got(The(doc.body.items))

\* v3_versions with a registration
V3Registration(site, want, flat) ==
    LET index == ReadDocument(site[1])
        pages == The(index.body.items)
        read == [i \in 1 .. Len(pages) |-> PageLeaves(site, pages[i])]
        leaves == FlattenSeq([i \in 1 .. Len(pages) |-> read[i].body])
    IN CASE index.kind = "missing" -> Got(<<>>)
         [] index.kind = "error" -> Failed
         [] OTHER -> IF index.body.items = {} THEN Failed
                     ELSE IF Len(pages) > MaxPages \/ \E i \in DOMAIN read : read[i].kind # "ok" THEN Failed
                     ELSE Got(FlattenSeq([i \in 1 .. Len(leaves) |-> V3Leaf(leaves[i], want, flat)]))

\* flat_versions: every version counts as listed, and nothing more is known.
V3Flat(site, want) ==
    LET doc == ReadDocument(site[1])
    IN IF doc.kind # "ok" THEN [doc EXCEPT !.kind = IF @ = "missing" THEN "ok" ELSE @]
       ELSE Got([i \in 1 .. Len(SelectSeq(doc.body, ParsesAsVersion)) |->
                    LET v == SelectSeq(doc.body, ParsesAsVersion)[i]
                    IN Info(want, v, TRUE, {}, {}, <<>>, <<"flat", want, v>>)])

\* v3_versions: sites holds what each resource's URLs answer.
V3Versions(resources, sites, want) ==
    LET index == The(ReadIndex(resources))
    IN IF ReadIndex(resources) = {} THEN Failed
       ELSE IF index.registration # {} THEN V3Registration(sites[The(index.registration).at], want, index.flat)
       ELSE V3Flat(sites[The(index.flat).at], want)

\* versions: sorted with a stable sort, of equal versions the first is kept.
RECURSIVE Sorted(_)
Sorted(all) ==
    IF all = <<>> THEN <<>>
    ELSE LET i == CHOOSE i \in 1 .. Len(all) :
                      /\ \A j \in 1 .. Len(all) : ~OlderThan(all[j].v, all[i].v)
                      /\ \A j \in 1 .. i - 1 : all[j].v # all[i].v
         IN <<all[i]>> \o Sorted(SelectSeq(all, LAMBDA x : x.v # all[i].v))
FeedVersions(read) == IF read.kind = "ok" THEN Got(Sorted(read.body)) ELSE read

\* dependencies, for a version of a feed that has only a flat container
NuspecDependencies(groups) ==
    LET all == FlattenSeq(groups)
    IN Deduplicated([i \in 1 .. Len(all) |-> [id |-> all[i].id, range |-> {all[i].range} \ {""}]])

\* resolve
Choose(versions, v) ==
    LET fits == IF v # {} THEN SelectSeq(versions, LAMBDA x : x.v = The(v))
                ELSE SelectSeq(versions, LAMBDA x : x.listed /\ ~x.v.pre)
    IN IF fits = <<>> THEN Refused ELSE IF v # {} THEN Ok(fits[1]) ELSE Ok(Last(fits))

---------------------------------------------------------------------------
(* The package cache: what each name holds.  A file is [sum, size, id, v,  *)
(* whole]; its id and version are what its manifest says.                  *)

PackageName(source, info) ==
    IF info.hash # {} THEN <<The(info.hash).alg, The(info.hash).of>>
    ELSE <<"unverified", source, info.id.name, info.v>>

DigestFits(info, file) == \A h \in info.hash : h.of = file.sum

Cached(cache, name, info) ==
    [result |-> Ok([file |-> cache[name], verified |-> info.hash # {}]), cache |-> cache, asked |-> FALSE]

\* download
Downloads(info, limit, answer) ==
    /\ answer.status \in 200 .. 299
    /\ \A n \in answer.declared : n <= limit
    /\ answer.file.size <= limit /\ ~answer.broken
    /\ \A n \in info.size : n = answer.file.size
    /\ DigestFits(info, answer.file)

\* check_identity
IsAskedFor(info, file) == file.whole /\ SameId(file.id, info.id) /\ file.v = info.v

\* fetch: cache maps the names it holds to their files.
FetchPackage(source, info, limit, cache, answer) ==
    LET name == PackageName(source, info)
        kept == [n \in DOMAIN cache \ {name} |-> cache[n]]
    IN CASE name \in DOMAIN cache /\ DigestFits(info, cache[name]) -> Cached(cache, name, info)
         [] OTHER ->
              IF Downloads(info, limit, answer) /\ IsAskedFor(info, answer.file)
              THEN [result |-> Ok([file |-> answer.file, verified |-> info.hash # {}]),
                    cache |-> [n \in DOMAIN kept \cup {name} |-> IF n = name THEN answer.file ELSE kept[n]],
                    asked |-> TRUE]
              ELSE [result |-> Refused, cache |-> kept, asked |-> TRUE]

---------------------------------------------------------------------------
\* Whatever the far side redirects to, a request contacts only http and https
\* URLs whose address the operator allows, never leaves https, shows the
\* credentials to the upstream's origin alone, and ends: after as many hops and
\* tries as the limits say, each wait within the longest, and no try after one
\* that was answered (get_with, send, vet).
RequestsAreBounded(c, retry, u, nets, down) ==
    LET got == GetWith(c, retry, u, nets, down)
        unanswered(s) == s.kind = "http" \/ (s.kind = "ok" /\ s.status \in {429, 503})
    IN /\ Len(got.sent) <= Max({1, retry.attempts})
       /\ \A i \in 1 .. Len(got.sent) - 1 : unanswered(got.sent[i])
       /\ unanswered(Last(got.sent)) => Len(got.sent) >= retry.attempts
       /\ \A i \in DOMAIN got.waits : got.waits[i] <= retry.maxWait
       /\ \A k \in DOMAIN got.sent : LET trail == got.sent[k].trail IN
            /\ Len(trail) <= MaxRedirects + 1
            /\ \A i \in DOMAIN trail :
                 /\ trail[i].url.scheme \in {"http", "https"}
                 /\ \/ c.allowPrivate \/ trail[i].url.host \in c.allowList
                    \/ trail[i].url.address \in {"public", "toPublic"}
                 /\ trail[i].keys => c.origin # {} /\ UrlOrigin(trail[i].url) = UrlOrigin(The(c.origin))
                 /\ \A j \in 1 .. i - 1 : trail[j].url.scheme = "https" => trail[i].url.scheme = "https"

\* A document is read whole and within the cap, before decoding and after, or
\* not at all; one that is not there is told apart from one that failed
\* (raw_document, decode_capped).
DocumentIsWhole(d) ==
    LET read == ReadDocument(d)
    IN /\ read.kind = "ok" => /\ read.body = d.body /\ ~d.broken
                              /\ SizeOfChunks(d.chunks) <= MaxDocument
                              /\ d.gzip => d.plain <= MaxDocument
       /\ read.kind = "missing" <=> d.status = 404

\* Read over v2 or v3, however the server writes it, a feed lists the same
\* versions: all that have a name and parse, each once, oldest first, listed or
\* not as the feed has them.  Otherwise reading it fails; the exception is a v2
\* page that is announced and then missing, which ends the list (versions,
\* parse_page, leaf).  rows are the feed's versions of the id, in any order.
ListIsTheFeed(rows, read, missing) ==
    read.kind = "ok" /\ ~missing =>
        LET vs == FeedVersions(read).body IN
        /\ {<<vs[i].v, vs[i].listed>> : i \in DOMAIN vs} = {<<r.v, r.listed>> : r \in rows}
        /\ Len(vs) = Cardinality(rows)
        /\ \A i \in 1 .. Len(vs) - 1 : OlderThan(vs[i].v, vs[i + 1].v)

\* Without a version, the newest listed stable one is taken, and a version
\* that was asked for is taken whether listed or not (resolve).
ChoiceIsNewest(rows, read) ==
    LET vs == FeedVersions(read).body
        newest == {r \in rows : r.listed /\ ~r.v.pre
                                /\ ~\E s \in rows : s.listed /\ ~s.v.pre /\ OlderThan(r.v, s.v)}
    IN read.kind = "ok" => /\ {x.v : x \in Choose(vs, {})} = {r.v : r \in newest}
                           /\ \A r \in rows : {x.v : x \in Choose(vs, {r.v})} = {r.v}

\* A package has the same dependencies, each once, whether a v2 entry, a registration leaf
\* or its manifest says them (parse_dependencies, leaf, dependencies).
DependenciesAgree(groups) ==
    LET all == FlattenSeq(groups)
        optional == [i \in 1 .. Len(all) |-> [id |-> all[i].id, range |-> {all[i].range} \ {""}]]
        entry == [id |-> {[name |-> "p", upper |-> FALSE]}, version |-> {[n |-> 1, pre |-> FALSE]},
                  listed |-> {}, year |-> {}, hash |-> {}, size |-> {}, deps |-> optional, content |-> {0}]
        leaf == V3Leaf([entry |-> {entry}, inline |-> entry, content |-> {}], The(entry.id), {})
    IN /\ IsInjective(leaf[1].deps) /\ ToSet(leaf[1].deps) = ToSet(optional)
       /\ V2Dependencies(Append(all, [id |-> "", range |-> ""])) = NuspecDependencies(groups)
       /\ leaf[1].deps = NuspecDependencies(groups)

\* What a fetch hands out is the package that was asked for and has the hash
\* the feed states, though the cache be shared by two feeds, hold an earlier
\* package of the name or a damaged file; and what was fetched once is not
\* asked for again.  The exception is a feed that states one hash for two
\* packages: the cache then holds the first for both (fetch, check_identity).
FetchIsAskedFor(first, second, limit, damage) ==
    LET one == FetchPackage(first.source, first.info, limit, <<>>, first.answer)
        kept == [n \in DOMAIN one.cache |-> IF damage /\ n[1] # "unverified" THEN [one.cache[n] EXCEPT !.sum = 0]
                                            ELSE one.cache[n]]
        two == FetchPackage(second.source, second.info, limit, kept, second.answer)
        three == FetchPackage(second.source, second.info, limit, two.cache, first.answer)
        sameHash == first.info.hash # {} /\ first.info.hash = second.info.hash
        samePackage == SameId(first.info.id, second.info.id) /\ first.info.v = second.info.v
    IN /\ \A r \in two.result :
            /\ (sameHash => samePackage) =>
                   r.file.whole /\ SameId(r.file.id, second.info.id) /\ r.file.v = second.info.v
            /\ r.verified => \A h \in second.info.hash : h.of = r.file.sum
            /\ second.source # first.source /\ second.info.hash = {} => two.asked
       /\ two.result # {} => ~three.asked /\ three.result = two.result
=============================================================================
