------------------------------- MODULE MCLaws -------------------------------
(***************************************************************************)
(* The pure definitions of the project checked over bounded inputs: a step *)
(* picks a topic's next case, and the law of each topic holds of it.       *)
(***************************************************************************)
EXTENDS Requests, Versions, RetentionRules, PackageFormat, Listings, LicensePolicy, InternalizeCases, Configuration,
        DebugInfo

NoCase == [none |-> TRUE]

\* One setting of each kind the environment can set.
PlainKinds == (<<"TLS">> :> "bool") @@ (<<"PORT">> :> "int") @@ (<<"PAGE">> :> "size") @@ (<<"MAX">> :> "optint")
                  @@ (<<"URL">> :> "text") @@ (<<"PROXIES">> :> "list")

---------------------------------------------------------------------------
\* Versions: one core with every written form of it, labels with numbers, leading
\* zeros, a number too large for u64, capitals, and illegal identifiers.

Id(num, text, upper, zeros, legal) ==
    [num |-> num, text |-> text, upper |-> upper, zeros |-> zeros, legal |-> legal]
Labels == {<<>>, <<Id(1, 2, FALSE, FALSE, TRUE)>>, <<Id(1, 1, FALSE, TRUE, TRUE)>>,
           <<Id(10, 3, FALSE, FALSE, TRUE)>>, <<Id(-1, 4, FALSE, FALSE, TRUE)>>,
           <<Id(2, 5, FALSE, FALSE, TRUE)>>, <<Id(-1, 6, FALSE, FALSE, TRUE)>>,
           <<Id(-1, 6, TRUE, FALSE, TRUE)>>,
           <<Id(-1, 6, TRUE, FALSE, TRUE), Id(1, 2, FALSE, FALSE, TRUE)>>,
           <<Id(-1, 0, FALSE, FALSE, FALSE)>>}
Component(n) == [num |-> n, plus |-> FALSE, zeros |-> 0]
Plus(n) == [num |-> n, plus |-> TRUE, zeros |-> 0]
Cores == {<<Component(1)>>, <<Component(1), Component(0), Component(0), Component(0)>>,
          <<Component(1), Component(0), Component(0), Component(1)>>, <<Component(0)>>,
          <<Component(2)>>, <<Plus(1)>>, <<Component(-1)>>,
          <<Component(1), Component(0), Component(0), Component(0), Component(0)>>}
Texts == [v : BOOLEAN, core : Cores, pre : Labels,
          meta : {<<>>, <<Id(1, 1, FALSE, TRUE, TRUE)>>, <<Id(-1, 0, FALSE, FALSE, FALSE)>>},
          long : BOOLEAN]
PlainTexts == {t \in Texts : ~t.v /\ ~t.long /\ t.meta = <<>>}
OrderTexts == {t \in PlainTexts : Len(t.core) # 5 /\ ~(\E c \in Range(t.core) : c.plus \/ c.num \in {-1, 0})}
RangeVersions == {t \in PlainTexts : t.core = <<Component(1)>> /\ Len(t.pre) <= 1}
                     \cup {t \in PlainTexts : t.core = <<Component(0)>> /\ t.pre = <<>>}
RangeTexts == [open : {"", "[", "("}, lo : {{}} \cup {{t} : t \in RangeVersions}, comma : BOOLEAN,
               hi : {{}} \cup {{t} : t \in RangeVersions}, close : {"", "]", ")"}, stray : {FALSE}]

VersionCases ==
    \/ \E a, b \in PlainTexts : topic' = "names" /\ case' = [a |-> a, b |-> b]
    \/ \E a, b, c \in OrderTexts : topic' = "order" /\ case' = [a |-> a, b |-> b, c |-> c]
    \/ \E a \in Texts : topic' = "stored" /\ case' = [a |-> a]
    \/ \E t \in RangeTexts : /\ t.open = "" => t.close = "" /\ ~t.comma /\ t.hi = {}
                             /\ t.comma \/ t.hi = {}
                             /\ topic' = "range" /\ case' = [t |-> t]

\* Cleanups: three versions of both channels, pinned, withheld and old ones
\* among them, under every combination of limits, one of them past MaxDays.
Kept(v, pre, pinned, servable, added) ==
    [v |-> v, pre |-> pre, pinned |-> pinned, servable |-> servable, added |-> added]
Limits(values) == {{}} \cup {{n} : n \in values}

CleanupCases ==
    \E pre, pinned, servable, old \in SUBSET (1 .. 3), policy \in [stable : Limits(0 .. 2), prerelease : Limits({1}),
                                                                 days : Limits({1, MaxDays + 1})] :
        /\ topic' = "cleanup"
        /\ case' = [versions |-> {Kept(v, v \in pre, v \in pinned, v \in servable, IF v \in old THEN 0 ELSE 2) : v \in 1 .. 3},
                    policy |-> policy]

\* One version has one normalized name (NuGetVersion's Ord and normalized).
VersionHasOneName == topic = "names" => OneNamePerVersion(case.a, case.b)
\* Versions are totally ordered, those of older releases too (Ord::cmp).
VersionsAreOrdered == topic = "order" => VersionOrderIsTotal(case.a, case.b, case.c)
\* A stored version is found under its key again (parse_stored, normalized).
StoredVersionIsFound == topic = "stored" => StoredKeyIsStable(case.a)
\* A range means the same once it was written (VersionRange's parse, normalized).
RangeMeansTheSame ==
    topic = "range" => RangeSurvivesWriting(case.t, {ParseVersion(t) : t \in RangeVersions} \ {NoVersion})

\* A cleanup keeps the newest version there is to serve, removes nothing without
\* a reason, and nothing more when it is run again (prune_plan).
CleanupPromises ==
    topic = "cleanup" => /\ PlanKeepsPromises(case.versions, case.policy, 3)
                         /\ CleanupIsStable(case.versions, case.policy, 3)

---------------------------------------------------------------------------
\* Archives: two directories, up to two end records of which the first is a decoy,
\* narrow and ZIP64 fields that may disagree.

Name(t, v) == [text |-> t, variant |-> v]
Rec(name, data, len) == [name |-> name, data |-> data, len |-> len]
Records == {Rec(Name("x", 1), "d1", 1), Rec(Name("x", 1), "d2", 1), Rec(Name("x", 2), "d2", 1),
            Rec(Name("y", 1), "d3", 2)}
Wide == [disk : {0}, onDisk : {1, 2}, total : {1, 2}, size : {2, 3}, offset : {0, 5}]
Ends(wides) == [disk : {0}, onDisk : {1, 2, Saturated}, total : {1, 2}, size : {2, 3},
                offset : {0, 5, Saturated}, limit : {8}, wide : wides]
Decoys == {[disk |-> 0, onDisk |-> n, total |-> n, size |-> n, offset |-> o, limit |-> 8, wide |-> {}] :
               n \in {1, 2}, o \in {0, 5}}
Directories == {(0 :> d) @@ (5 :> <<Rec(Name("x", 1), "d4", 2)>>) :
                    d \in {<<r>> : r \in Records} \cup {<<q, r>> : q, r \in Records}}

ArchiveCases ==
    \/ \E first \in Decoys, end \in Ends({{}} \cup {{w} : w \in Wide}), pick \in {1, 2},
         dirs \in Directories :
          topic' = "archive" /\ case' = [a |-> [ends |-> <<first, end>>, dirs |-> dirs], pick |-> pick]
    \/ \E entries \in [1 .. 3 -> [name : {"p", "q"}, declared : 0 .. 2, actual : 1 .. 2]],
         wanted \in {{"p"}, {"p", "q"}} :
          topic' = "extract" /\ case' = [entries |-> entries, wanted |-> wanted]

\* Manifests: an id and a version, and up to three more children of the metadata.

El(name, ns, attr, runs, kids) ==
    [name |-> name, ns |-> ns, attr |-> attr, runs |-> runs, bad |-> FALSE, kids |-> kids]
Dep(id) == El("dependency", TRUE, id, <<>>, <<>>)
Children == {
    El("id", TRUE, "", <<"a">>, <<>>), El("id", TRUE, "", <<"b", "&">>, <<>>),
    El("id", FALSE, "", <<"b">>, <<>>), El("id", TRUE, "", <<"a">>, <<El("b", TRUE, "", <<"b">>, <<>>)>>),
    El("license", TRUE, "expression", <<"MIT">>, <<>>), El("license", TRUE, "file", <<"x">>, <<>>),
    El("license", TRUE, "other", <<"y">>, <<>>),
    El("dependencies", TRUE, "", <<>>, <<Dep("d"), Dep("e")>>),
    El("dependencies", TRUE, "", <<>>, <<El("group", TRUE, "", <<>>, <<Dep("d")>>), Dep("e")>>),
    El("dependencies", TRUE, "", <<>>, <<El("group", TRUE, "", <<>>, <<Dep("d")>>),
                                         El("group", TRUE, "", <<>>, <<Dep("e"), Dep("")>>)>>),
    El("dependencies", TRUE, "", <<>>, <<El("group", FALSE, "", <<>>, <<Dep("d")>>), Dep("e")>>)}
Metadata(kids) ==
    El("metadata", TRUE, "", <<>>, <<El("version", TRUE, "", <<"1">>, <<>>)>> \o kids)

ManifestCases ==
    \/ \E a, b, c \in Children, doctype \in BOOLEAN :
          /\ topic' = "manifest"
          /\ case' = [doc |-> [doctype |-> doctype, kids |-> <<Metadata(<<a, b, c>>)>>]]
    \/ \E a, b, c \in Children :
          /\ topic' = "manifest"
          /\ case' = [doc |-> [doctype |-> FALSE, kids |-> <<Metadata(<<a, b>>), Metadata(<<c>>)>>]]

\* Rewrites: packages with and without a signature and content types.

Entry(kind, file, ext) == [kind |-> kind, file |-> file, ext |-> ext]
Structural == <<[name |-> Entry("nuspec", "p", "nuspec"), data |-> 1],
                [name |-> Entry("core", "c", "psmdcp"), data |-> 1]>>
Optional == {[name |-> Entry("types", "[content_types]", "xml"), data |-> 2],
             [name |-> Entry("signature", ".signature", "p7s"), data |-> 3],
             [name |-> Entry("plain", "tools/a", "exe"), data |-> 4],
             [name |-> Entry("plain", "LICENSE", ""), data |-> 5]}
Puts == {[name |-> Entry("plain", "tools/a", "exe"), data |-> 6],
         [name |-> Entry("plain", "tools/b", "ps1"), data |-> 7],
         [name |-> Entry("plain", "NOTICE", ""), data |-> 8],
         [name |-> Entry("signature", ".signature", "p7s"), data |-> 9],
         [name |-> Entry("nuspec", "q", "nuspec"), data |-> 9]}

RewriteCases ==
    \E rest \in SUBSET Optional, puts \in SUBSET Puts, new \in {0, 10},
       remove \in SUBSET {Entry("plain", "tools/a", "exe"), Entry("plain", "LICENSE", ""),
                          Entry("core", "c", "psmdcp")} :
        /\ topic' = "rewrite"
        /\ case' = [pkg |-> [entries |-> Structural \o SetToSeq(rest), types |-> {<<"ext", "nuspec">>}],
                    plan |-> [nuspec |-> new, put |-> SetToSeq(puts), remove |-> remove]]

\* What is opened reads alike here and in NuGet (open_archive).
ArchiveReadAlike == topic = "archive" => ReadersAgree(case.a, case.pick, {"x", "y"})
\* Extraction is whole and bounded or fails (extract_entries_to_files).
ExtractedWhole == topic = "extract" => NothingIsCutShort(case.entries, case.wanted, 2, 3)
\* An accepted manifest reads alike here and in NuGet (parse_nuspec).
ManifestReadAlike == topic = "manifest" => ManifestReadAsNuGetDoes(case.doc)
\* A rewritten package is whole (rewrite_into, complete_content_types).
RewrittenIsWhole == topic = "rewrite" => RewriteKeepsPackageWhole(case.pkg, case.plan)

---------------------------------------------------------------------------
\* Assemblies: the data of two directory entries before, after, inside and across
\* one another and the directory, in a file as long as it says or cut short;
\* and headers with a part missing, a section table that does not hold the
\* directory, and tables over the limits.

DirectoryEntries == [kind : {"codeview", "checksum", "other"}, at : {0, 4, 6, 8, 9, 10}, size : {1, 2, 3, 4},
                     sound : BOOLEAN, says : {"a"}]
Image == [len |-> 12, real |-> 12, mz |-> TRUE, pe |-> TRUE, peAt |-> 2, optional |-> 1, magic |-> TRUE,
          count |-> {7}, debug |-> {[rva |-> 21, size |-> 2]},
          sections |-> <<[va |-> 10, size |-> 2, at |-> 1], [va |-> 20, size |-> 4, at |-> 5]>>, entries |-> <<>>]
TwoEntries == {<<e, [f EXCEPT !.says = "b"]>> : e \in DirectoryEntries, f \in {g \in DirectoryEntries : g.size \in {2, 3}}}
SomeEntries == {es \in TwoEntries : es[1] = [kind |-> "codeview", at |-> 9, size |-> 2, sound |-> TRUE, says |-> "a"]
                                      /\ es[2].kind = "checksum" /\ es[2].size = 2}
ImageHeaders == [mz : BOOLEAN, pe : BOOLEAN, peAt : {1, 2, 3}, optional : {1, 2}, count : {{}, {6}, {7}},
             debug : {{}, {[rva |-> 0, size |-> 2]}, {[rva |-> 24, size |-> 2]}, {[rva |-> 20, size |-> 3]},
                      {[rva |-> 21, size |-> 1]}}]

ImageCases ==
    \/ \E entries \in TwoEntries, real \in {8, 10, 12} :
          topic' = "image" /\ case' = [image |-> [Image EXCEPT !.entries = entries, !.real = real]]
    \/ \E entries \in SomeEntries, h \in ImageHeaders :
          /\ topic' = "image"
          /\ case' = [image |-> [field \in DOMAIN Image |->
                                    CASE field = "entries" -> entries
                                      [] field \in DOMAIN h -> h[field]
                                      [] OTHER -> Image[field]]]

\* PDBs: files of up to four bytes, read in every way; pushes of two of them in
\* one folder or two, with the assemblies they or others were built with.

PdbFiles == UNION {[1 .. n -> 0 .. 2] : n \in 1 .. 4}
Chunkings == {c \in UNION {[1 .. n -> 1 .. 4] : n \in 1 .. 4} : FoldLeft(LAMBDA a, b : a + b, 0, c) = 4}
BuiltWith(pdb) ==
    {[codeview |-> {id.bytes : id \in PdbId(pdb)},
      checksums |-> {[known |-> known, sum |-> HashedBytes(pdb, id, <<Len(pdb)>>)] : id \in PdbId(pdb)}] :
         known \in BOOLEAN}
PushedFiles == {p \in [1 .. 4 -> 0 .. 1] : p[1] = 1} \cup {<<1, 1, 1>>}

PdbCases ==
    \/ \E p, q \in [1 .. 4 -> 0 .. 2], chunks \in Chunkings :
          topic' = "hash" /\ case' = [p |-> p, q |-> q, chunks |-> chunks]
    \/ \E p, q, built \in PushedFiles, g \in {"one", "two"}, d \in {{}} \cup {{b} : b \in UNION {BuiltWith(f) : f \in PushedFiles}} :
          \E e \in BuiltWith(built) :
              /\ topic' = "push"
              /\ case' = [pdbs |-> <<[folder |-> "one", name |-> "x", bytes |-> p],
                                     [folder |-> g, name |-> "x", bytes |-> q]>>,
                          assemblies |-> (<<"one", "x">> :> Ok(e)) @@ (<<"two", "x">> :> d)]

\* The debug directory is read as it is (DebugDirectoryScan).
ImagesScanned == topic = "image" => ScanIsExact(case.image)
\* The checksum tells PDBs apart however they are read (hash_without_id).
PdbsTold == topic = "hash" => HashTellsApart(case.p, case.q, case.chunks)
\* Only a PDB its assembly vouches for is stored (verify).
PushesVouched == topic = "push" => StoredIsVouchedFor(case.pdbs, case.assemblies, PdbFiles)

---------------------------------------------------------------------------
\* Requests: feeds with and without each key, headers with right, wrong and
\* absent keys, peers and hosts on either side of each list.

Feeds == [api : {{}, {"push"}}, read : {"", "read"}, preview : {"", "preview"}, admin : {"", "admin"},
          immutable : BOOLEAN]
Headers == [apiKey : {"", "push", "read", "preview", "guess"},
            basic : {"", "read", "preview", "admin", "guess"}]
Rows == [held : BOOLEAN, enabled : BOOLEAN, pending : BOOLEAN]
Chains == UNION {[1 .. n -> {"proxy", "a", "bad"}] : n \in 0 .. 2}
Peers == [peer : {"proxy", "a"}, host : {"", "feed"}, fhost : {"", "feed", "other"},
          fproto : {"", "https"}, chain : Chains, realIp : {"", "b", "bad"}, safe : {TRUE},
          crossSite : BOOLEAN, exempt : BOOLEAN]

RequestCases ==
    \/ \E feed \in Feeds, h \in Headers, h2 \in {[apiKey |-> "", basic |-> ""], [apiKey |-> "guess", basic |-> ""]},
         row \in Rows :
          topic' = "keys" /\ case' = [feed |-> feed, h |-> h, h2 |-> h2, row |-> row]
    \/ \E req \in Peers, allowed \in {{}, {"feed"}}, prefix \in Chains \ {<<>>} :
          topic' = "proxy" /\ case' = [req |-> req, allowed |-> allowed, prefix |-> prefix]
    \/ \E a, b \in {0, 1, 127, 128, 255} \X {0, 127, 128, 255}, bits \in 0 .. 16 :
          topic' = "prefix" /\ case' = [a |-> a, b |-> b, bits |-> bits]
    \/ \E a \in {0, 1, 9, 10, 11, 99, 100, 101, 126, 127, 128, 169, 172, 192, 198, 223, 224, 239, 240,
                  251, 252, 253, 254, 255},
         b \in {0, 1, 15, 16, 17, 18, 19, 20, 31, 32, 63, 64, 127, 128, 167, 168, 191, 192, 253, 254, 255},
         c \in {0, 1} :
          topic' = "address" /\ case' = [ip |-> <<a, b, c, 5>>]
    \/ \E first, last \in -2 .. 4, total \in 0 .. 3 :
          topic' = "range206" /\ case' = [range |-> <<first, last>>, total |-> total]

\* Nobody learns of a version that waits (download_access, download_miss).
WaitingIsHidden == topic = "keys" => PendingIsHidden(case.feed, case.h)
\* What a key opened is not cached for others (CachePolicy, gated_feed_headers).
KeyedIsPrivate == topic = "keys" => KeyedAnswersArePrivate(case.feed, case.h, case.h2, case.row)
\* Guessing keys is counted, using the right one is not (download_miss).
GuessesCount == topic = "keys" => GuessesAreCounted(case.feed, case.h, case.row)
\* Forwarding headers count only from trusted peers (filter_forwarded_headers).
StrangersCannotSteer == topic = "proxy" => UntrustedCannotSteer(case.req, {"proxy"}, case.allowed)
\* Answers name allowed hosts only (request_guard, url_builder).
RootsAreAllowed == topic = "proxy" => RootIsAllowed(case.req, {"proxy"}, case.allowed)
\* A client cannot choose the bucket it is limited in (client_ip).
BucketIsNotChosen == topic = "proxy" => SpoofedPrefixIsIgnored(case.req, {"proxy"}, case.prefix)
\* Networks are compared by their leading bits (prefix_eq).
NetworksByPrefix == topic = "prefix" => PrefixIsLeadingBits(case.a, case.b, case.bits)
\* Reserved addresses are refused in every form (is_private_ip).
ReservedRefused == topic = "address" => ReservedIsNeverReached(case.ip)
\* A range is answered with exactly its bytes (parse_range).
RangesAreExact == topic = "range206" => RangeIsExact(case.range, case.total)

---------------------------------------------------------------------------
\* Listings: one package with up to five versions, of which one may be added,
\* removed or relisted between the requests of a client; a small feed of two ids.

Row(id, v, pre, sv2, listed, served) ==
    [id |-> id, v |-> v, pre |-> pre, sv2 |-> sv2, listed |-> listed, enabled |-> served,
     pending |-> FALSE, downloads |-> v % 2, tags |-> {1 + (v % 2)}]
Steady == {Row(1, v, FALSE, FALSE, v # 3, TRUE) : v \in 1 .. 5}
Odd == {Row(1, 3, TRUE, TRUE, listed, served) : listed, served \in BOOLEAN}
WithThird(rows) == {{r \in rows : r.v # 3} \cup third : third \in {{}} \cup {{r} : r \in Odd}}
SmallFeeds ==
    {{Row(1, 1, FALSE, FALSE, a, TRUE), Row(1, 2, TRUE, FALSE, b, TRUE), Row(1, 3, TRUE, TRUE, c, d),
      Row(2, 4, p, FALSE, TRUE, e), Row(2, 5, FALSE, TRUE, f, TRUE)} : a, b, c, d, e, f, p \in BOOLEAN}
SearchRequests == [pre : BOOLEAN, sv2 : BOOLEAN, tag : 0 .. 2, skip : {0}, take : 1 .. 2]
Option(values) == {{}} \cup {{v} : v \in values}
Servers == [ids : {<<>>, <<1>>, <<1, 2, 3>>, <<3, 2, 1, 2>>}, cap : 1 .. 3, honest : BOOLEAN]
CatalogPages == [ok : BOOLEAN, ids : {{1}, {2, 4}}]

ListingCases ==
    \/ \E kept, left \in SUBSET Steady, semver2 \in BOOLEAN :
         \E before \in WithThird(kept), after \in WithThird(left) :
          /\ Cardinality(kept \ left) <= 1
          /\ topic' = "walk" /\ case' = [before |-> before, after |-> after, semver2 |-> semver2]
    \/ \E rows \in SmallFeeds, req \in SearchRequests :
          topic' = "search" /\ case' = [rows |-> rows, req |-> req]
    \/ \E skip \in Option(-1 .. 7), take \in Option(0 .. 4), page \in Option(-1 .. 3) :
          topic' = "window" /\ case' = [skip |-> skip, take |-> take, page |-> page]
    \/ \E search \in Option([ok : BOOLEAN, server : Servers]), pages \in SUBSET CatalogPages,
         catalog \in {"none", "closed", "open"} :
          /\ topic' = "enumerate"
          /\ case' = [search |-> search,
                      catalog |-> IF catalog = "none" THEN {} ELSE {[ok |-> catalog = "open", pages |-> pages]}]

BackoffCases == \E failures \in 0 .. MaxFailures : topic' = "backoff" /\ case' = [failures |-> failures]

\* A walk of a registration sees each version once (registration_index, registration_page_for).
WalkIsWhole == topic = "walk" => WalkSeesEachVersionOnce(case.before, case.after, 1, case.semver2)
\* A mirror reads a feed's listing flags (upstream_listing, published).
ListingReadBack == topic = "walk" => ListingIsReadBack(case.before, case.after, 1)
\* Search pages show every id once (search).
PagesCover == topic = "search" => SearchPagesCover(case.rows, case.req)
\* What search offers can be restored (search_response, registration_leaf_for).
SearchLeads == topic = "search" => SearchLeadsSomewhere(case.rows, case.req)
\* The gallery and the package page headline one version (load_headlines, render_detail).
HeadlinesAlike ==
    topic = "search" =>
        /\ HeadlinesAgree(case.rows, case.req, LAMBDA S : SetToSortSeq(S, LAMBDA a, b : a.v < b.v))
        /\ HeadlinesAgree(case.rows, case.req, LAMBDA S : SetToSortSeq(S, LAMBDA a, b : a.v > b.v))
\* A tag leads to the packages it counts (tag_counts).
TagsLead == topic = "search" => \A tag \in 1 .. 2 : TagsLeadSomewhere(case.rows, tag)
\* Pages of the gallery line up (page_window).
WindowsLineUp == topic = "window" => PagesLineUp(case.skip, case.take, case.page, 2, 3)
\* A migration misses no id in silence (enumerate_package_ids).
EnumeratesAll == topic = "enumerate" => EnumerationIsComplete(case.search, case.catalog, 2)

\* An upstream that keeps failing is left alone ever longer (Backoff).
BackoffKept == topic = "backoff" => BackoffGrows(case.failures)

---------------------------------------------------------------------------
\* Licenses: a family with deprecated ids and one without, in every spelling.

Term(base, form, exc) == [base |-> base, form |-> form, exc |-> exc]
Terms == {Term(b, f, "") : b \in {"gpl", "mit"}, f \in {"bare", "only", "later", "plus"}}
             \cup {Term("gpl", "folded", ""), Term("gpl", "only", "classpath"), Term("gpl", "later", "other"),
                   Term("mit", "bare", "invented"), Term("gpl", "bare", "broken")}
Single(t) == [parens |-> FALSE, alts |-> <<<<t>>>>]
Expressions == {[parens |-> p, alts |-> a] : p \in BOOLEAN, a \in
                   {<<<<t>>>> : t \in Terms} \cup {<<<<t, u>>>> : t, u \in Terms}
                       \cup {<<<<t>>, <<u>>>> : t, u \in Terms}}
RuleTerms == {t \in Terms : t.exc = "" \/ t.form = "only"}
Policies == {[enabled |-> TRUE, unlicensed |-> FALSE, block |-> b, blocked |-> d, allowed |-> a] :
                 b \in BOOLEAN,
                 d \in {{}} \cup {{Single(t)} : t \in RuleTerms},
                 a \in {{}, {Single(Term("mit", "bare", ""))}} \cup {{Single(t)} : t \in RuleTerms}}

LicenseCases ==
    \/ \E policy \in Policies, t, u, w \in Terms : policy.block /\ topic' = "spelling" /\
          case' = [policy |-> policy, e |-> [parens |-> FALSE, alts |-> <<<<t>>, <<w>>>>],
                   f |-> [parens |-> FALSE, alts |-> <<<<u>>, <<w>>>>]]
    \/ \E policy \in Policies, e \in Expressions :
          /\ Cardinality(policy.blocked) + Cardinality(policy.allowed) = 1
          /\ topic' = "license" /\ case' = [policy |-> policy, e |-> e]

\* One license has one verdict, however it is spelled (Term, normalize_id).
OneVerdict == topic = "spelling" => SpellingDoesNotMatter(case.policy, case.e, case.f)
\* Joining terms cannot launder a license (expression_is_allowed).
TermsNeverHelp ==
    topic = "license" => \A t \in {Term("mit", "bare", ""), Term("gpl", "plus", "")} :
                             MoreTermsNeverHelp(case.policy, case.e, t)
\* What is denied stays out (matches_license).
DeniedIsOut == topic = "license" => DeniedStaysOut(case.policy, case.e)

---------------------------------------------------------------------------
\* Settings of every kind, two files that say different things of each.
Settings == DOMAIN Plain
Says(text) == [s \in Settings |-> text]
VarTexts == {"", "bad", "zero", "good"}
Var(text) == [utf8 |-> TRUE, text |-> text]
Garbled == [utf8 |-> FALSE, text |-> ""]

\* Feeds whose names make one variable, or a variable of one another.
FeedName(words, joint) == [words |-> words, joint |-> joint, letters |-> "lower", kind |-> "plain"]
FeedNames == {FeedName(<<"X">>, ""), FeedName(<<"X", "READ">>, "-"), FeedName(<<"X", "READ">>, ".")}
PlainFeed == DefaultFeed(FeedName(<<"X">>, ""))
PlainConfig == DefaultConfig(Says("other"))
FileKeys == {NoKeys, [NoKeys EXCEPT !.read = {"k"}], [NoKeys EXCEPT !.api = {""}, !.admin = {""}],
             [NoKeys EXCEPT !.apis = {"k", ""}, !.preview = {"k"}, !.admin = {"k"}]}
KeyedFeeds == {[PlainFeed EXCEPT !.name = n, !.keys = k] : n \in FeedNames, k \in FileKeys}
KeyVars == {GlobalRoles[r] : r \in DOMAIN GlobalRoles}
               \cup {FeedVar(FeedName(<<"X">>, ""), r) : r \in {"api", "apis", "read", "preview", "admin"}}
               \cup {FeedVar(FeedName(<<"X", "READ">>, "-"), "read")}
Misspelled == {<<"ADMIN", "APIKEY">>, <<"FEED", "Y", "API", "KEY">>}
KeyEnvs == {(n :> v) @@ e : n \in KeyVars, v \in {Garbled, Var(""), Var("k")},
                            e \in {<<>>} \cup {(File(m) :> w) : m \in KeyVars, w \in {Var("?"), Var(""), Var("f")}}
                                      \cup {(m :> Var("m")) : m \in KeyVars \cup Misspelled}}

KeyConfigs == {[PlainConfig EXCEPT !.feeds = fs, !.keys.admin = a] :
                   a \in {{}, {"k"}}, fs \in {<<>>} \cup {<<f>> : f \in KeyedFeeds}}
                  \cup {[PlainConfig EXCEPT !.feeds = <<[PlainFeed EXCEPT !.name = m], [PlainFeed EXCEPT !.name = n]>>] :
                             m, n \in FeedNames}

\* Reservations and ids over a letter in two cases and a dot.
Chars == {"a", "A", "."}
Words(n) == UNION {[1 .. k -> Chars] : k \in 1 .. n}
IdPrefixes == {w \in Words(3) : w[1] # "."}
Reservations == {<<{p}, {q}, r>> : p, q \in IdPrefixes, r \in {{}, {<<"a", ".">>}}}

\* Configurations with one thing or two that can be wrong.
CheckedFeeds ==
    {[PlainFeed EXCEPT !.mirror = m, !.upstream = u, !.proxy = p, !.headersOk = h, !.ca = c, !.username = n, !.keys = k] :
        m, h, n \in BOOLEAN, u \in {"good", "relative"}, p \in {"none", "good", "bad"},
        c \in {"none", "good", "bad"}, k \in {NoKeys, [NoKeys EXCEPT !.token = {"k"}], [NoKeys EXCEPT !.password = {"k"}]}}
OtherFeeds ==
    {[PlainFeed EXCEPT !.name = n, !.promotes = p, !.reserved = r, !.prefixesOk = ok] :
        n \in {FeedName(<<"Y">>, ""), [FeedName(<<"X">>, "") EXCEPT !.letters = "upper"],
               [FeedName(<<"ADMIN">>, "") EXCEPT !.kind = "route"]},
        p \in {{}, {FeedName(<<"X">>, "")}, {FeedName(<<"Z">>, "")}}, r \in {{}, {<<"a">>}}, ok \in BOOLEAN}
ServerConfigs ==
    {[PlainConfig EXCEPT !.limiter = l, !.window = w, !.tls = t, !.cert = c, !.certKey = k, !.dataDir = d, !.storage = s,
                         !.keys.monitoring = m] :
        l, t \in BOOLEAN, w \in 0 .. 1, c, k \in {{}, {"good"}, {"bad"}}, d, s \in {"dir", "file"}, m \in {{}, {""}, {"k"}}}

ConfigurationCases ==
    \/ \E set \in SUBSET Settings : \E env \in [set -> {Garbled} \cup {Var(t) : t \in VarTexts}] :
          topic' = "settings" /\ case' = env
    \/ \E config \in KeyConfigs, env \in KeyEnvs :
          topic' = "env" /\ case' = [config |-> config, env |-> env]
    \/ \E reserved \in Reservations, id \in Words(3) :
          topic' = "reserved" /\ case' = [reserved |-> reserved, id |-> id]
    \/ \E server \in ServerConfigs, feeds \in {<<>>, <<PlainFeed>>} :
          topic' = "checked" /\ case' = [server EXCEPT !.feeds = feeds]
    \/ \E f \in CheckedFeeds, o \in OtherFeeds :
          topic' = "checked" /\ case' = [PlainConfig EXCEPT !.feeds = <<[f EXCEPT !.reserved = {<<"a", ".">>}], o>>]

\* The environment decides what it sets (apply_env_from, parse_env_*).
EnvironmentIsObeyed == topic = "settings" => EnvironmentDecides(Says("good"), Says("other"), case)
\* A key somebody set guards (secret_var, env_key, apply_feed_env, resolved_feeds).
SetKeysGuard == topic = "env" => SetKeyGuards(case.config, case.env)
\* What is ignored is reported (unknown_env_names).
IgnoredReported == topic = "env" => IgnoredIsReported(case.config, case.env)
\* A reserved id has one feed (id_has_prefix, resolved_feeds).
ReservedHasOneFeed == topic = "reserved" => ReservedForOne(case.reserved, case.id)
\* What the check passes starts, but for the two gaps it names (config_check::check, run_server).
CheckedDoesStart == topic = "checked" => CheckedStarts(case, <<>>)

---------------------------------------------------------------------------
Init == topic = "start" /\ case = NoCase
Next == /\ topic = "start"
        /\ VersionCases \/ CleanupCases \/ ArchiveCases \/ ManifestCases \/ RewriteCases \/ RequestCases
           \/ ListingCases \/ LicenseCases
           \/ CaptureCases \/ OverrideCases \/ NameCases \/ ScriptCases \/ TextCases \/ ClosureCases
           \/ ConfigurationCases \/ FetchCases \/ FeedCases \/ PackageCases
           \/ BackoffCases \/ ImageCases \/ PdbCases

\* A version has one name, one place in the order and one row, a range keeps
\* its meaning when it is written out, and a cleanup keeps its promises (version.rs,
\* range.rs, nuget/mod.rs, retention.rs).
VersionLaws ==
    /\ VersionHasOneName
    /\ VersionsAreOrdered
    /\ StoredVersionIsFound
    /\ RangeMeansTheSame
    /\ CleanupPromises

\* A package is read alike by every reader, extracted whole or refused, and
\* rewritten without a loss; its symbols are the files its assemblies were
\* built with (nupkg.rs, nuspec.rs, rewrite.rs, pe.rs, pdb.rs, symbols.rs).
PackageLaws ==
    /\ ArchiveReadAlike
    /\ ExtractedWhole
    /\ ManifestReadAlike
    /\ RewrittenIsWhole
    /\ ImagesScanned
    /\ PdbsTold
    /\ PushesVouched

\* A request sees, guesses, steers and is counted as its keys and its network
\* allow, and not otherwise (auth.rs, proxy.rs, protocol.rs, address.rs).
RequestLaws ==
    /\ WaitingIsHidden
    /\ KeyedIsPrivate
    /\ GuessesCount
    /\ StrangersCannotSteer
    /\ RootsAreAllowed
    /\ BucketIsNotChosen
    /\ NetworksByPrefix
    /\ ReservedRefused
    /\ RangesAreExact

\* Pages, hives, search results and enumerations put together are the feed,
\* once and in order, and a feed that fails is left alone in measure (search.rs,
\* protocol.rs, listing.rs, client.rs, tracker.rs, and the feed reader of
\* yanuget-internalize).
ListingLaws ==
    /\ WalkIsWhole
    /\ ListingReadBack
    /\ PagesCover
    /\ SearchLeads
    /\ HeadlinesAlike
    /\ TagsLead
    /\ WindowsLineUp
    /\ EnumeratesAll
    /\ FeedReadWhole
    /\ DependsAlike
    /\ BackoffKept

\* An internalized package loads what the original downloaded, tells what was
\* overridden, its closure is the best one there is, and the packages it is made
\* of are those asked for, fetched within bounds (crate yanuget-internalize).
InternalizeLaws ==
    /\ FilesToldApart
    /\ CleanRedirects
    /\ OverrideTold
    /\ ScriptsLoad
    /\ UrlsFound
    /\ ClosureIsBest
    /\ RequestsKept
    /\ DocumentsWhole
    /\ FetchedAsAsked

\* What the operator set is obeyed, reported or refused, a configuration that was
\* checked does start, and under its policy a license has one verdict however it is
\* written, which a term that is not admitted never helps (config, config_check.rs,
\* policy.rs).
ConfigurationLaws ==
    /\ EnvironmentIsObeyed
    /\ SetKeysGuard
    /\ IgnoredReported
    /\ ReservedHasOneFeed
    /\ CheckedDoesStart
    /\ OneVerdict
    /\ TermsNeverHelp
    /\ DeniedIsOut
=============================================================================
