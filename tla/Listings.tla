------------------------------ MODULE Listings ------------------------------
(***************************************************************************)
(* What a feed says about its packages: the flat container, the two        *)
(* registration hives, search, autocomplete, tags and the package page;    *)
(* how a mirror or a migration reads such a feed, and how long a mirror    *)
(* leaves one alone that failed.                                           *)
(*                                                                         *)
(* A feed is a set of rows [id, v, pre, sv2, listed, enabled, pending,     *)
(* downloads, tags]; ids and versions are numbers, versions in the order   *)
(* NuGet gives them.                                                       *)
(***************************************************************************)
EXTENDS Integers, Sequences, FiniteSets, SequencesExt, FiniteSetsExt, Results

CONSTANTS
    InlineMax, PageSize,         \* REGISTRATION_INLINE_MAX, REGISTRATION_PAGE_SIZE
    FirstBackoff, MaxBackoff,    \* FIRST_BACKOFF, MAX_BACKOFF, in seconds
    MaxFailures                  \* u32::MAX, where the count of failures saturates

\* find_versions: what a feed serves of an id, ascending
FindVersions(rows, id, unlisted) ==
    SetToSortSeq({r \in rows : r.id = id /\ r.enabled /\ ~r.pending /\ (unlisted \/ r.listed)},
                 LAMBDA a, b : a.v < b.v)

\* package_versions
FlatContainer(rows, id) == FindVersions(rows, id, TRUE)

FilterHive(packages, semver2) == SelectSeq(packages, LAMBDA p : semver2 \/ ~p.sv2)

Chunk(s, size) ==
    [i \in 1 .. (Len(s) + size - 1) \div size |-> SubSeq(s, (i - 1) * size + 1, Min({i * size, Len(s)}))]

\* registration_index: pages [lower, upper, items], items {} where the client
\* has to fetch them.
RegistrationIndex(rows, id, semver2) ==
    LET packages == FilterHive(FindVersions(rows, id, TRUE), semver2)
        Page(s, items) == [lower |-> Head(s).v, upper |-> Last(s).v, items |-> items]
        chunks == Chunk(packages, PageSize)
    IN  IF packages = <<>> THEN Refused
        ELSE IF Len(packages) < InlineMax THEN Ok(<<Page(packages, Ok(packages))>>)
        ELSE Ok([i \in DOMAIN chunks |-> Page(chunks[i], {})])

\* Mutant: the upper end of a page is not included.
RegistrationPageOpen(rows, id, lower, upper, semver2) ==
    LET packages == SelectSeq(FilterHive(FindVersions(rows, id, TRUE), semver2),
                              LAMBDA p : lower <= p.v /\ p.v < upper)
    IN  IF packages = <<>> THEN Refused ELSE Ok(packages)

\* registration_page_for
RegistrationPage(rows, id, lower, upper, semver2) ==
    LET packages == SelectSeq(FilterHive(FindVersions(rows, id, TRUE), semver2),
                              LAMBDA p : lower <= p.v /\ p.v <= upper)
    IN  IF packages = <<>> THEN Refused ELSE Ok(packages)

\* registration_leaf_for
HasLeaf(rows, id, v, semver2) ==
    \E r \in rows : r.id = id /\ r.v = v /\ r.enabled /\ ~r.pending /\ (semver2 \/ ~r.sv2)

\* published: what a catalog entry says of a version; is_listed reads it
CatalogEntry(p) == [listed |-> p.listed, year |-> IF p.listed THEN 2024 ELSE 1900]
IsListed(entry) == entry.listed /\ entry.year # 1900

---------------------------------------------------------------------------
\* Search.  A request is [pre, sv2, tag, skip, take]; tag 0 is none.

Admitted(rows, req) ==
    {r \in rows : /\ r.listed /\ r.enabled /\ ~r.pending
                  /\ (req.pre \/ ~r.pre) /\ (req.sv2 \/ ~r.sv2)
                  /\ (req.tag = 0 \/ req.tag \in r.tags)}
SumOf(rows) == FoldSet(LAMBDA r, total : r.downloads + total, 0, rows)
IdsOf(rows) == {r.id : r \in rows}
RowsOf(rows, id) == {r \in rows : r.id = id}

Window(s, skip, take) == SubSeq(s, skip + 1, Min({skip + take, Len(s)}))

\* page_of_ids, by downloads and then by id
PageOfIds(rows, req) ==
    LET found == Admitted(rows, req)
        Total(id) == SumOf(RowsOf(found, id))
    IN  Window(SetToSortSeq(IdsOf(found),
                            LAMBDA a, b : Total(a) > Total(b) \/ (Total(a) = Total(b) /\ a < b)),
               req.skip, req.take)

\* The count beside it
TotalHits(rows, req) == Cardinality(IdsOf(Admitted(rows, req)))

\* headline_beats
HeadlineBeats(candidate, current) ==
    IF candidate.pre # current.pre THEN current.pre ELSE candidate.v > current.v

Headline(packages) ==
    FoldSeq(LAMBDA p, head : IF HeadlineBeats(p, head) THEN p ELSE head, Head(packages), packages)

\* download_totals: every version the feed serves of the id
DownloadTotal(rows, id) == SumOf({r \in RowsOf(rows, id) : r.enabled /\ ~r.pending})

\* load_groups, in the order of ids; the tag and the text are not asked again
LoadGroups(rows, req, ids) ==
    LET shown == Admitted(rows, [req EXCEPT !.tag = 0])
    IN  [i \in DOMAIN ids |->
            [id |-> ids[i], downloads |-> DownloadTotal(rows, ids[i]),
             packages |-> SetToSortSeq(RowsOf(shown, ids[i]), LAMBDA a, b : a.v < b.v)]]

\* load_headlines: the rows of an id in whatever order the database sends them
LoadHeadlines(rows, req, ids, Order(_)) ==
    LET shown == Admitted(rows, [req EXCEPT !.tag = 0])
    IN  [i \in DOMAIN ids |->
            LET sent == Order(RowsOf(shown, ids[i]))
            IN  [id |-> ids[i], downloads |-> DownloadTotal(rows, ids[i]),
                 headline |-> Headline(sent), count |-> Len(sent)]]

\* tag_counts: the packages behind a tag of the cloud
TagCount(rows, tag) ==
    Cardinality(IdsOf({r \in rows : r.listed /\ r.enabled /\ ~r.pending /\ tag \in r.tags}))

\* render_detail without a version: the newest listed stable one, or listed one, or any
Selected(packages) ==
    LET newest(s) == Last(s)
        listed == SelectSeq(packages, LAMBDA p : p.listed)
        stable == SelectSeq(listed, LAMBDA p : ~p.pre)
    IN  newest(IF stable # <<>> THEN stable ELSE IF listed # <<>> THEN listed ELSE packages)

\* page_window: an absent value is {}
PageWindow(skip, take, page, default, maxTake) ==
    LET size == Max({1, Min({IF take = {} THEN default ELSE The(take), maxTake})})
        from == IF page # {} THEN (Max({The(page), 1}) - 1) * size
                ELSE IF skip = {} THEN 0 ELSE Max({The(skip), 0})
    IN  <<from - (from % size), size>>

---------------------------------------------------------------------------
\* Reading a feed.

\* upstream_listing against a feed that moves from `before` to `after` while it
\* is read: the version of each leaf with its flag, or refused at a missing page.
UpstreamListing(before, after, id, semver2) ==
    LET index == RegistrationIndex(before, id, semver2)
        Leaves(page) ==
            IF page.items # {} THEN page.items
            ELSE RegistrationPage(after, id, page.lower, page.upper, semver2)
    IN  IF index = Refused THEN Ok(<<>>)
        ELSE IF \E i \in DOMAIN The(index) : Leaves(The(index)[i]) = Refused THEN Refused
        ELSE Ok(FlattenSeq([i \in DOMAIN The(index) |->
                   LET leaves == The(Leaves(The(index)[i]))
                   IN  [k \in DOMAIN leaves |-> [v |-> leaves[k].v,
                                                 listed |-> IsListed(CatalogEntry(leaves[k]))]]]))

\* A search service of another kind of server: [ids, cap, honest].  It answers at
\* most `cap` results a page; one that is not honest ignores skip.
SearchAnswer(server, skip, take) ==
    Window(server.ids, IF server.honest THEN skip ELSE 0, Min({server.cap, take}))

\* enumerate_via_search
RECURSIVE Enumerate(_, _, _, _)
Enumerate(server, found, skip, take) ==
    LET page == SearchAnswer(server, skip, take)
        known == found \cup Range(page)
    IN  IF page = <<>> \/ known = found THEN found
        ELSE Enumerate(server, known, skip + Len(page), take)

\* enumerate_package_ids.  The search is {} where the upstream has none, else
\* {[ok, server]}; the catalog {} or {[ok, pages]}, where the index opens or not
\* and a page is [ok, ids].  The result is [ids, failures].
EnumeratePackageIds(search, catalog, take) ==
    LET bySearch == UNION {IF s.ok THEN Enumerate(s.server, {}, 0, take) ELSE {} : s \in search}
        pages == UNION {IF c.ok THEN c.pages ELSE {} : c \in catalog}
    IN  IF \/ search = {} /\ catalog = {}
           \/ catalog = {} /\ \E s \in search : ~s.ok
           \/ search = {} /\ \E c \in catalog : ~c.ok
        THEN Refused
        ELSE Ok([ids |-> bySearch \cup UNION {p.ids : p \in {q \in pages : q.ok}},
                 failures |-> {p \in pages : ~p.ok} \cup {c \in catalog : ~c.ok}])

---------------------------------------------------------------------------
\* What the definitions promise together.

\* A client that walks a registration while the feed changes sees every version
\* that stayed exactly once, and a hive never shows a version of the other.
WalkSeesEachVersionOnce(before, after, id, semver2) ==
    LET index == RegistrationIndex(before, id, semver2)
        seen == UpstreamListing(before, after, id, semver2)
        stays == {a.v : a \in {r \in before : r.id = id /\ r.enabled /\ ~r.pending /\ (semver2 \/ ~r.sv2)}}
                     \cap {b.v : b \in {r \in after : r.id = id /\ r.enabled /\ ~r.pending}}
    IN  seen # Refused =>
            /\ \A v \in stays : Cardinality({i \in DOMAIN The(seen) : The(seen)[i].v = v}) = 1
            /\ \A i \in DOMAIN The(seen) : \E r \in before \cup after :
                   r.id = id /\ r.v = The(seen)[i].v /\ r.enabled /\ ~r.pending /\ (semver2 \/ ~r.sv2)

\* A feed that mirrors such a feed reads each version's listing as it is, or as
\* it was when the walk began.
ListingIsReadBack(before, after, id) ==
    LET seen == UpstreamListing(before, after, id, TRUE)
    IN  seen # Refused =>
            \A i \in DOMAIN The(seen) : \E r \in before \cup after :
                r.id = id /\ r.v = The(seen)[i].v /\ r.listed = The(seen)[i].listed

\* Paging through a search shows every matching id once, and the total is how
\* many there are, whatever the size of a page.
SearchPagesCover(rows, req) ==
    LET total == TotalHits(rows, req)
        pages == [i \in 1 .. total + 1 |-> PageOfIds(rows, [req EXCEPT !.skip = (i - 1) * req.take])]
        shown == FlattenSeq(pages)
    IN  Len(shown) = total /\ Range(shown) = IdsOf(Admitted(rows, req)) /\ IsInjective(shown)

\* What a search offers can be restored: each version has a leaf in the hive the
\* result links to, stands in that hive's registration and in the flat container.
SearchLeadsSomewhere(rows, req) ==
    \A g \in Range(LoadGroups(rows, req, PageOfIds(rows, req))) :
        /\ g.packages # <<>>
        /\ \A p \in Range(g.packages) :
               /\ HasLeaf(rows, g.id, p.v, req.sv2)
               /\ p \in Range(FlatContainer(rows, g.id))
               /\ LET listing == UpstreamListing(rows, rows, g.id, req.sv2)
                  IN  listing # Refused /\ \E e \in Range(The(listing)) : e.v = p.v /\ e.listed

\* The gallery, the package page and search headline the same version, and the
\* gallery's row counts what search would list, whatever order the rows come in.
HeadlinesAgree(rows, req, Order(_)) ==
    LET ids == PageOfIds(rows, req)
        groups == LoadGroups(rows, req, ids)
        heads == LoadHeadlines(rows, req, ids, Order)
    IN  \A i \in DOMAIN ids :
            /\ heads[i].headline = Headline(groups[i].packages)
            /\ heads[i].count = Len(groups[i].packages)
            /\ heads[i].downloads = groups[i].downloads
            /\ req.pre /\ req.sv2 => heads[i].headline = Selected(FindVersions(rows, ids[i], TRUE))

\* Every tag of the cloud leads to as many packages as it says.
TagsLeadSomewhere(rows, tag) ==
    TagCount(rows, tag) = TotalHits(rows, [pre |-> TRUE, sv2 |-> TRUE, tag |-> tag, skip |-> 0, take |-> 1])

\* A page of the gallery starts at a multiple of its size, "page N" is the Nth,
\* and changing the size keeps the first package on the page.
PagesLineUp(skip, take, page, default, maxTake) ==
    LET w == PageWindow(skip, take, page, default, maxTake)
    IN  /\ w[2] \in 1 .. maxTake /\ w[1] >= 0 /\ w[1] % w[2] = 0
        /\ page # {} /\ The(page) >= 1 => w[1] = (The(page) - 1) * w[2]
        /\ page = {} /\ skip # {} /\ The(skip) >= 0 => The(skip) \in w[1] .. w[1] + w[2] - 1

\* Enumerating another server finds every id its search pages through, however
\* short its pages are, and every id of the catalog but those of pages it names
\* as failed.
EnumerationIsComplete(search, catalog, take) ==
    LET result == EnumeratePackageIds(search, catalog, take)
    IN  result # Refused =>
            /\ \A s \in search : s.ok /\ s.server.honest => Range(s.server.ids) \subseteq The(result).ids
            /\ \A c \in catalog : c.ok =>
                   \A p \in c.pages : p \in The(result).failures \/ p.ids \subseteq The(result).ids
            /\ \A c \in catalog : ~c.ok => The(result).failures # {}
---------------------------------------------------------------------------
\* u32's <<: the count is taken modulo the width.
ShiftLeft(count) == 2 ^ (count % 32)

\* Backoff::fail: the failures counted so far and one more, and the wait it sets
Fail(failures) ==
    LET counted == Min({failures + 1, MaxFailures})
    IN [failures |-> counted, wait |-> Min({FirstBackoff * ShiftLeft(Min({counted - 1, 10})), MaxBackoff})]

\* However often an upstream failed, the next failure has it left alone for at
\* least as long, twice as long up to the maximum, and never for longer.
BackoffGrows(failures) ==
    LET now == Fail(failures)
        next == Fail(now.failures)
    IN /\ now.wait \in FirstBackoff .. MaxBackoff
       /\ next.failures >= now.failures
       /\ next.wait = Min({2 * now.wait, MaxBackoff})
=============================================================================
