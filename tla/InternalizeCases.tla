------------------------- MODULE InternalizeCases -------------------------
(***************************************************************************)
(* Bounded cases for what yanuget-internalize computes and for the feeds   *)
(* it reads, and their laws.                                               *)
(***************************************************************************)
EXTENDS Internalizer, Closure, FeedReader

\* The topic a step picked and the case it picked for it.
VARIABLES topic, case

laws == <<topic, case>>

---------------------------------------------------------------------------
\* Captures: two packages, two hosts whose files may be the same, names that
\* differ in case only, checksums that are absent, right, wrong or too short.

Url(at, upper) == [at |-> at, secure |-> at = 1, odd |-> at = 3,
                   name |-> {[stem |-> 1, ext |-> "exe", clean |-> TRUE, upper |-> upper]}]
First == Url(1, FALSE)
Second == Url(2, TRUE)
NoAsk == [url |-> {}, value |-> {}, kind |-> {}]
AskFor(url, digits, sha, kind) == [url |-> {url}, value |-> {[digits |-> digits, of |-> sha]}, kind |-> kind]
MainAsks == {[url |-> {First}, value |-> {}, kind |-> {"sha256"}], AskFor(First, "sha256", "s1", {"sha256"}),
             AskFor(First, "md5", "s2", {}), AskFor(First, "sha256", "s1", {}), NoAsk,
             [url |-> {Url(3, FALSE)}, value |-> {}, kind |-> {}]}
WideAsks == {NoAsk, [url |-> {First}, value |-> {}, kind |-> {}], AskFor(Second, "sha512", "s2", {"sha512"})}
Line(form, pkg, main, wide, caller) ==
    [form |-> form, pkg |-> pkg, urls |-> <<main, wide>>, type |-> {"exe"}, caller |-> caller]
Callers == {<<"lib", "p", "tools">>, <<"extensions", "lib">>, <<"lib", "x">>}
Lines == {Line("good", pkg, main, wide, caller) :
              pkg \in {"p", "x"}, main \in MainAsks, wide \in WideAsks, caller \in Callers}
Spoiled == {Line(form, pkg, NoAsk, NoAsk, <<"lib", "p">>) :
                form \in {"empty", "bad", "good"}, pkg \in {"alien", "p"}}
Raw(failed, late, exit, lines) == [failed |-> failed, timedOut |-> late, exit |-> exit, lines |-> lines]
Captures == {Raw(f, t, e, <<l>>) : f, t \in BOOLEAN, e \in {"success", "other"}, l \in Lines}
                \cup {Raw(FALSE, FALSE, "success", <<l, m>>) : l, m \in Lines \cup Spoiled}
                \cup {Raw(FALSE, FALSE, "success", <<l, l, m>>) :
                          l, m \in {x \in Lines : x.caller = <<"lib", "p", "tools">>}}
Told(rewrites, downloads) ==
    [params |-> {"silent"}, script |-> {}, rewrites |-> rewrites, downloads |-> downloads]
Overrides == {{}, {Told(<<[from |-> First, to |-> Second]>>, <<>>)},
              {Told(<<>>, <<[url |-> Second, sum |-> {}, type |-> {}]>>)}}
Content(sha) == [sha |-> sha, kind |-> "exe", disposition |-> {}, final |-> {}, plain |-> FALSE]
Hosts == {<<{Content("s1")}, second, {}>> : second \in {{}, {Content("s1")}, {Content("s2")}}}

CaptureCases ==
    \E raw \in Captures, o \in Overrides, host \in Hosts :
        /\ Len(raw.lines) = 3 => o = {} /\ host[2] # {}
        /\ topic' = "capture" /\ case' = [raw |-> raw, o |-> o, host |-> host]

Drafts == {[NewDraft EXCEPT !.wanted = w] :
               w \in {<<>>, <<Wanted(First, {}, {})>>, <<Wanted(Second, {}, {}), Wanted(First, {}, {})>>}}
Rewrites == [from : {First, Second}, to : {First, Second}]
OverrideCases ==
    \E d \in Drafts, r \in UNION {[1 .. n -> Rewrites] : n \in 0 .. 2}, e \in SUBSET {First, Second},
       root \in BOOLEAN :
        /\ topic' = "override"
        /\ case' = [d |-> d, root |-> root,
                    o |-> Told(r, SetToSeq({[url |-> u, sum |-> {}, type |-> {}] : u \in e}))]

Sources == {{}, {[stem |-> 0, ext |-> "", clean |-> FALSE, upper |-> FALSE]}}
               \cup {{[stem |-> 1, ext |-> e, clean |-> e = "exe", upper |-> u]} :
                        e \in {"exe", "zip", "txt", ""}, u \in BOOLEAN}
NamedFiles == [own : Sources, disposition : {{}, {[stem |-> 1, ext |-> "zip", clean |-> TRUE, upper |-> FALSE]}},
               final : {{}}, type : {{}, {"exe"}}, kind : {"exe", "other"}, sha : {"s1", "s2"}]
NameCases == \E f, g \in NamedFiles :
                 /\ f.sha = g.sha => f.kind = g.kind
                 /\ topic' = "filenames" /\ case' = [files |-> <<f, g>>]

Own == [up |-> 0, then |-> "own"]
Entries == [dir : {<<>>, <<"tools">>, <<"tools", "x86">>},
            file : {"install", "uninstall", "readme", "upstream-install"}, data : {Own}]
               \cup {[dir |-> <<"internalizer">>, file |-> "readme", data |-> Own]}
ScriptCases == \E entries \in SUBSET Entries :
                   Cardinality(entries) <= 4 /\ topic' = "scripts" /\ case' = [entries |-> entries]

Tokens == {"url", "code", "#", "<#", "#>"}
TextLines(n) == UNION {[1 .. k -> Tokens] : k \in 0 .. n}
TextCases == \E a \in TextLines(3), b \in TextLines(3) :
                 topic' = "text" /\ case' = [text |-> <<a, b>>]

\* Every file is under its own name, whatever its case (Names::name).
FilesToldApart == topic = "filenames" => NamesTellApart(case.files, {"exe", "txt"})
\* What ends well installs from the feed (assess, fetch, prelude::render).
CleanRedirects ==
    topic = "capture" =>
        CleanIsRedirected(case.raw, <<"p", "x">>, {"p", "x"}, [p |-> case.o, x |-> {}], case.host,
                          {"exe"})
\* No part of an override is dropped in silence (Override::apply).
OverrideTold == topic = "override" => OverrideIsTold(case.d, case.o, case.root)
\* Every script of a package loads the prelude (prelude::build).
ScriptsLoad == topic = "scripts" => EveryScriptLoads(case.entries)
\* Every URL outside comments is compared (crosscheck::urls_in).
UrlsFound == topic = "text" => UrlsAreFound(case.text)

---------------------------------------------------------------------------
\* Closures: a root with two dependencies that may depend on each other.

Deps == {<<>>, <<[id |-> "B", range |-> {1}, pin |-> TRUE]>>, <<[id |-> "B", range |-> {1, 2}, pin |-> FALSE]>>,
         <<[id |-> "B", range |-> {2}, pin |-> TRUE]>>}
BackDeps == {<<>>, <<[id |-> "A", range |-> {1}, pin |-> TRUE]>>,
             <<[id |-> "chocolatey", range |-> {}, pin |-> FALSE]>>}
Offers == {{[v |-> 1, pre |-> FALSE, listed |-> l], [v |-> 2, pre |-> p, listed |-> m]} :
               l, m, p \in BOOLEAN} \cup {{[v |-> 1, pre |-> FALSE, listed |-> TRUE]}}
Roots == {<<[id |-> "A", range |-> {1, 2}, pin |-> FALSE], [id |-> "B", range |-> {1, 2}, pin |-> FALSE]>>,
          <<[id |-> "B", range |-> {1, 2}, pin |-> FALSE], [id |-> "A", range |-> {1, 2}, pin |-> FALSE]>>,
          <<[id |-> "A", range |-> {1, 2}, pin |-> FALSE]>>, <<[id |-> "A", range |-> {2}, pin |-> TRUE]>>}
ClosureCases ==
    \E root \in Roots, a, b \in Offers, a1, a2 \in Deps, b1, b2 \in BackDeps, pre \in BOOLEAN :
        /\ topic' = "closure"
        /\ case' = [world |-> [versions |-> [R |-> {[v |-> 1, pre |-> FALSE, listed |-> TRUE]}, A |-> a, B |-> b],
                               deps |-> [R |-> <<root>>, A |-> <<a1, a2>>, B |-> <<b1, b2>>]], pre |-> pre]

\* The closure is a solution, the best one, and found when there is one (Solver).
ClosureIsBest == topic = "closure" => ResolvesBest([id |-> "R", v |-> 1], case.world, case.pre)

---------------------------------------------------------------------------
Some(values) == {{}} \cup {{v} : v \in values}

\* Requests: a feed, its CDN, the feed without TLS, an address and a name inside
\* the network, a name that does not resolve and another scheme, each of which
\* may redirect to the next of a path; and one URL whose answers vary by try.

Home == [scheme |-> "https", host |-> "feed", address |-> "toPublic"]
FarUrls == {Home, [Home EXCEPT !.host = "cdn"], [Home EXCEPT !.scheme = "http"],
            [scheme |-> "https", host |-> "inner", address |-> "toPrivate"],
            [scheme |-> "http", host |-> "box", address |-> "private"],
            [scheme |-> "https", host |-> "lost", address |-> "nowhere"],
            [scheme |-> "ftp", host |-> "files", address |-> "public"]}
Paths == {<<Home>> \o p : p \in [1 .. MaxRedirects + 1 -> FarUrls]}
NetOf(path) ==
    [u \in FarUrls |->
        LET at == {i \in 1 .. Len(path) - 1 : path[i] = u}
        IN IF at = {} THEN [status |-> 200, to |-> {}, asked |-> {}]
           ELSE [status |-> 302, to |-> {path[Min(at) + 1]}, asked |-> {}]]
HttpClients == [origin : {{}, {Home}}, allowPrivate : BOOLEAN, allowList : {{}, {"inner", "box"}}, proxied : BOOLEAN,
            watch : {TRUE}]
Answers == {[status |-> s, to |-> {}, asked |-> {}] : s \in {0, 200, 302, 404, 429, 500, 503}}
               \cup {[status |-> 429, to |-> {}, asked |-> {n}] : n \in {2, 9}}
FetchCases ==
    \/ \E c \in HttpClients, path \in Paths :
          /\ topic' = "request"
          /\ case' = [c |-> c, u |-> Home, retry |-> [attempts |-> 1, base |-> 1, maxWait |-> 4],
                      nets |-> <<NetOf(path)>>, down |-> FALSE]
    \/ \E answers \in [1 .. 3 -> Answers], attempts \in 0 .. 3, base \in {1, 3}, watch, down \in BOOLEAN :
          /\ topic' = "request"
          /\ case' = [c |-> [origin |-> {Home}, allowPrivate |-> FALSE, allowList |-> {}, proxied |-> FALSE,
                             watch |-> watch],
                      u |-> Home, retry |-> [attempts |-> attempts, base |-> base, maxWait |-> 4],
                      nets |-> [i \in 1 .. 3 |-> [u \in {Home} |-> answers[i]]], down |-> down]
    \/ \E d \in [status : {200, 404, 500}, declared : Some({MaxDocument, MaxDocument + 1}),
                 chunks : UNION {[1 .. n -> 1 .. 2] : n \in 0 .. 2}, broken : BOOLEAN, slow : BOOLEAN,
                 gzip : BOOLEAN, plain : {-1, MaxDocument, MaxDocument + 1}, body : {<<"body">>}] :
          topic' = "document" /\ case' = [d |-> d]

\* Feeds: up to three versions of an id, in either order, written in every way a
\* server has, over one or more pages of which one may fail, beside entries of
\* another id and a version that does not parse.

Ver(n, pre) == [n |-> n, pre |-> pre]
FeedRows == {f \in SUBSET [v : {Ver(1, FALSE), Ver(2, TRUE), Ver(2, FALSE)}, listed : BOOLEAN] :
                 \A r, s \in f : r.v = s.v => r = s}
InOrder(rows, down) ==
    SetToSortSeq(rows, LAMBDA r, s : IF down THEN OlderThan(s.v, r.v) ELSE OlderThan(r.v, s.v))
IdP(upper) == [name |-> "p", upper |-> upper]
Styles == {[named |-> n, flagged |-> f, content |-> f] : n, f \in BOOLEAN}

AsEntry(r, style) ==
    [id |-> IF style.named THEN {IdP(TRUE)} ELSE {}, title |-> {IdP(FALSE)},
     normalized |-> IF style.named THEN {r.v} ELSE {}, version |-> {IF style.named THEN Ver(0, FALSE) ELSE r.v},
     listed |-> IF style.flagged THEN {r.listed} ELSE {}, year |-> {IF r.listed THEN 2024 ELSE 1900},
     hash |-> {}, size |-> {}, deps |-> <<>>, content |-> IF style.content THEN {0} ELSE {}]
StrayEntry(style) == [AsEntry([v |-> Ver(9, FALSE), listed |-> TRUE], style)
                         EXCEPT !.id = {[name |-> "q", upper |-> FALSE]}]
BrokenEntry == AsEntry([v |-> Ver(0, FALSE), listed |-> TRUE], [named |-> FALSE, flagged |-> FALSE, content |-> TRUE])

AsLeaf(r, style) ==
    LET e == [id |-> {IdP(style.named)}, version |-> {r.v},
              listed |-> IF style.flagged THEN {r.listed} ELSE {}, year |-> {IF r.listed THEN 2024 ELSE 1900},
              hash |-> {}, size |-> {}, deps |-> <<>>, content |-> IF style.content THEN {0} ELSE {}]
    IN [entry |-> IF style.named THEN {e} ELSE {}, content |-> {},
        inline |-> IF style.named THEN [e EXCEPT !.id = {}] ELSE e]

PagesOf(items, size) ==
    [i \in 1 .. Max({1, (Len(items) + size - 1) \div size}) |->
        SubSeq(items, (i - 1) * size + 1, Min({i * size, Len(items)}))]
Document(body, status) ==
    [status |-> status, declared |-> {}, chunks |-> <<1>>, broken |-> FALSE, slow |-> FALSE, gzip |-> FALSE,
     plain |-> 0, body |-> body]
StatusOf(at, failing) == IF at = failing.at THEN failing.status ELSE 200

\* The v2 site: page i links to page i + 1.
V2Site(rows, w) ==
    LET entries == [i \in 1 .. Cardinality(rows) |-> AsEntry(InOrder(rows, w.down)[i], w.style)]
        pages == PagesOf(entries, w.size)
    IN [i \in 1 .. Len(pages) |->
           Document([entries |-> <<StrayEntry(w.style), BrokenEntry>> \o pages[i],
                     next |-> IF i < Len(pages) THEN {i + 1} ELSE {}], StatusOf(i, w.failing))]

\* The v3 site: the index at 1, the pages it does not hold itself after it.
V3Site(rows, w) ==
    LET leaves == [i \in 1 .. Cardinality(rows) |-> AsLeaf(InOrder(rows, w.down)[i], w.style)]
        pages == PagesOf(leaves, w.size)
        index == [i \in 1 .. Len(pages) |-> IF w.inline THEN [items |-> {pages[i]}, at |-> {}]
                                            ELSE [items |-> {}, at |-> {i + 1}]]
    IN [i \in 1 .. Len(pages) + 1 |->
           IF i = 1 THEN Document([items |-> {index}], StatusOf(1, w.failing))
           ELSE Document([items |-> {pages[i - 1]}, at |-> {}], StatusOf(i, w.failing))]

Resource(types, at, ok) == [types |-> types, id |-> {[at |-> at, ok |-> ok]}]
Indexes == [both |-> <<Resource({"", "3.4.0"}, "old", TRUE), Resource({"3.6.0"}, "full", TRUE),
                       Resource({"flat"}, "flat", TRUE)>>,
            next |-> <<Resource({"3.6.0"}, "full", FALSE), Resource({"flat"}, "flat", TRUE),
                       Resource({"Versioned"}, "full", TRUE)>>,
            flat |-> <<Resource({"flat"}, "flat", TRUE)>>,
            none |-> <<Resource({"search"}, "full", TRUE)>>]
V3Sites(rows, w) ==
    [old |-> V3Site({r \in rows : ~r.v.pre}, w), full |-> V3Site(rows, w),
     flat |-> <<Document([i \in 1 .. Cardinality(rows) + 1 |->
                             IF i = 1 THEN Ver(0, FALSE) ELSE InOrder(rows, w.down)[i - 1].v],
                         StatusOf(1, w.failing))>>]

FeedCases ==
    \/ \E rows \in FeedRows, down, inline \in BOOLEAN, style \in Styles, size \in {1, 2}, index \in DOMAIN Indexes,
         failing \in {[at |-> 0, status |-> 200]} \cup [at : 1 .. 2, status : {404, 500}] :
          /\ index = "none" => inline /\ failing.at = 0
          /\ topic' = "feed"
          /\ case' = [rows |-> rows, index |-> index,
                      w |-> [down |-> down, inline |-> inline, style |-> style, size |-> size, failing |-> failing]]
    \/ \E groups \in UNION {[1 .. n -> UNION {[1 .. m -> [id : {"a", "b"}, range : {"", "r"}]] : m \in 0 .. 2}] :
                                n \in 0 .. 2} :
          topic' = "depends" /\ case' = [groups |-> groups]

\* Packages: two fetches over one cache, of which the second may be of another
\* feed, id, version or hash, and a file that was damaged in between.

Files == [sum : 1 .. 2, size : {1}, id : [name : {"p", "q"}, upper : {TRUE}],
          v : {Ver(1, FALSE), Ver(2, FALSE)}, whole : {TRUE}]
             \cup [sum : {1}, size : {3}, id : {IdP(FALSE)}, v : {Ver(1, FALSE)}, whole : BOOLEAN]
Replies == [status : {200}, declared : {{}}, broken : {FALSE}, file : Files]
Stated == Some([alg : {"sha256", "sha512", "md5", ""}, len : {32, 64}, of : 1 .. 2])
Asks == {[source |-> s, info |-> Info(id, v, TRUE, StatedHash(h, d), size, <<>>, <<>>), answer |-> a] :
             s \in 1 .. 2, id \in [name : {"p", "q"}, upper : {FALSE}], v \in {Ver(1, FALSE), Ver(2, FALSE)},
             h \in Stated, d \in {"", "sha512"}, size \in Some({1}), a \in Replies}
SecondAsks == {a \in Asks : a.info.hash = {} \/ a.info.size = {}}
FirstAsks == {a \in Asks : a.source = 1 /\ a.info.id.name = "p" /\ a.info.v = Ver(1, FALSE) /\ a.info.size = {}
                             /\ \A h \in a.info.hash : h.of = 1}
PackageCases ==
    \E first \in FirstAsks, second \in SecondAsks, damage \in BOOLEAN :
        topic' = "package" /\ case' = [first |-> first, second |-> second, damage |-> damage]

\* A request stays where it may be and ends (get_with, send).
RequestsKept == topic = "request" => RequestsAreBounded(case.c, case.retry, case.u, case.nets, case.down)
\* A document is whole or refused (raw_document).
DocumentsWhole == topic = "document" => DocumentIsWhole(case.d)
\* A feed is read whole over either protocol, and the newest version taken
\* (versions, resolve).
FeedReadWhole ==
    topic = "feed" =>
        LET v2 == V2Versions(V2Site(case.rows, case.w), IdP(FALSE))
            v3 == V3Versions(Indexes[case.index], V3Sites(case.rows, case.w), IdP(FALSE))
            told == IF case.index = "flat" THEN {[r EXCEPT !.listed = TRUE] : r \in case.rows} ELSE case.rows
            missing2 == case.w.failing.status = 404 /\ case.w.failing.at <= Len(V2Site(case.rows, case.w))
            missing3 == case.w.failing = [at |-> 1, status |-> 404]
        IN /\ ListIsTheFeed(case.rows, v2, missing2) /\ ListIsTheFeed(told, v3, missing3)
           /\ ~missing2 => ChoiceIsNewest(case.rows, v2)
           /\ ~missing3 => ChoiceIsNewest(told, v3)
\* Dependencies read alike everywhere (parse_dependencies, leaf, dependencies).
DependsAlike == topic = "depends" => DependenciesAgree(case.groups)
\* A fetch hands out what was asked for (fetch).
FetchedAsAsked == topic = "package" => FetchIsAskedFor(case.first, case.second, 2, case.damage)
=============================================================================
