--------------------------- MODULE Internalizer ---------------------------
(***************************************************************************)
(* What yanuget-internalize makes of one capture: the calls the recording  *)
(* helpers wrote, the downloads they ask for, the names the files get, the *)
(* map the prelude redirects by, and the status each package ends with.    *)
(* What the package wrote is hostile until it was parsed.                  *)
(***************************************************************************)
EXTENDS Integers, Sequences, FiniteSets, SequencesExt, FiniteSetsExt, Functions, Results

CONSTANTS MaxCalls,      \* MAX_CALLS
          MaxReasons     \* MAX_REASONS of a capture

---------------------------------------------------------------------------
\* The capture.  A line is [form, pkg, urls, type, caller]: form is "empty", "bad" (too
\* long, not UTF-8, another schema or field, a control character) or "good"; urls
\* are url and url64 with their checksums as written.  A URL is [at, name, secure,
\* odd]: where it leads, its last segment, and odd for another scheme or no host.

\* checksum_of: a type without a value declares nothing, a value without a type is
\* an MD5.  digits: the algorithm whose length it has.
ChecksumOf(value, kind) ==
    IF value = {} THEN Ok({})
    ELSE LET algorithm == IF kind = {} THEN "md5" ELSE The(kind)
         IN  IF algorithm = "unknown" \/ The(value).digits # algorithm THEN Refused
             ELSE Ok({[kind |-> algorithm, of |-> The(value).of]})

\* origin_of: the package's own folder first, wherever it is on the path.
OriginOf(caller, package) ==
    LET pair(first) == {i \in 1 .. Len(caller) - 1 : caller[i] = first}
    IN  IF \E i \in pair("lib") : caller[i + 1] = package THEN "package"
        ELSE IF pair("extensions") # {} THEN "extension" ELSE "other"

ParseLine(line, closure) ==
    LET sums == [i \in 1 .. 2 |-> ChecksumOf(line.urls[i].value, line.urls[i].kind)]
    IN  IF \/ line.form # "good" \/ line.pkg \notin ToSet(closure)
           \/ \E i \in 1 .. 2 : sums[i] = Refused \/ \E u \in line.urls[i].url : u.odd
        THEN Refused
        ELSE Ok([pkg |-> line.pkg, origin |-> OriginOf(line.caller, line.pkg), type |-> line.type,
                 asks |-> [i \in 1 .. 2 |-> [url |-> line.urls[i].url, sum |-> The(sums[i])]]])

\* capture::parse: any reason rejects the whole capture.
ParseCapture(lines, closure) ==
    LET step(line, s) ==
            IF s.stopped \/ line.form = "empty" THEN s
            ELSE IF s.reasons >= MaxReasons THEN [s EXCEPT !.stopped = TRUE]
            ELSE IF Len(s.calls) >= MaxCalls THEN [s EXCEPT !.stopped = TRUE, !.reasons = @ + 1]
            ELSE IF ParseLine(line, closure) = Refused THEN [s EXCEPT !.reasons = @ + 1]
            ELSE [s EXCEPT !.calls = Append(@, The(ParseLine(line, closure)))]
        end == FoldLeft(LAMBDA s, line : step(line, s),
                        [calls |-> <<>>, reasons |-> 0, stopped |-> FALSE], lines)
    IN  IF end.reasons = 0 THEN Ok(end.calls) ELSE Refused

---------------------------------------------------------------------------
\* Drafts.  failed and needs: whether there are reasons of each sort; used and
\* warned: what the report lists.

NewDraft == [failed |-> FALSE, needs |-> FALSE, used |-> {}, warned |-> {}, wanted |-> <<>>,
             downloads |-> <<>>, attached |-> {}]

DraftStatus(d) ==
    IF d.failed THEN "failed" ELSE IF d.needs THEN "needs-override"
    ELSE IF d.downloads = <<>> THEN "unchanged" ELSE "internalized"

Wanted(url, sum, type) == [url |-> url, sum |-> sum, type |-> type, from |-> url]

\* add_call: url64 is often url again; one download serves both.
AddCall(d, call) ==
    LET asked == {i \in 1 .. 2 : call.asks[i].url # {}}
        add(wanted, i) ==
            LET w == Wanted(The(call.asks[i].url), call.asks[i].sum, call.type)
            IN  IF \E x \in ToSet(wanted) : x.url = w.url /\ x.sum = w.sum
                THEN wanted ELSE Append(wanted, w)
        first == IF 1 \in asked THEN add(d.wanted, 1) ELSE d.wanted
    IN  IF asked = {} THEN d
        ELSE [d EXCEPT !.needs = @ \/ call.origin # "package",
                       !.wanted = IF 2 \in asked THEN add(first, 2) ELSE first]

\* Override::apply: rewrites first, then the downloads the capture missed; what
\* matches nothing any more is a warning.
ApplyOverride(d, o, root) ==
    LET rewrite(x, r) ==
            IF \E w \in ToSet(x.wanted) : w.url = r.from
            THEN [x EXCEPT !.used = @ \cup {<<"rewrite", r>>},
                           !.wanted = [i \in DOMAIN @ |-> IF @[i].url = r.from
                                                          THEN [@[i] EXCEPT !.from = r.to] ELSE @[i]]]
            ELSE [x EXCEPT !.warned = @ \cup {<<"rewrite", r>>}]
        extra(x, e) ==
            IF \E w \in ToSet(x.wanted) : w.url = e.url THEN [x EXCEPT !.warned = @ \cup {<<"download", e>>}]
            ELSE [x EXCEPT !.used = @ \cup {<<"download", e>>},
                           !.wanted = Append(@, Wanted(e.url, e.sum, e.type))]
        params == {<<"params", v>> : v \in o.params}
        told == [d EXCEPT !.used = @ \cup {<<"script", v>> : v \in o.script}
                                     \cup (IF root THEN params ELSE {}),
                          !.warned = @ \cup (IF root THEN {} ELSE params)]
    IN  FoldLeft(extra, FoldLeft(rewrite, told, o.rewrites), o.downloads)

\* assess: a capture that cannot be trusted as a whole marks every package; a
\* single call marks its own.  overrides[p]: {} or the override of package p.
Assess(raw, closure, drafted, overrides) ==
    LET incomplete == raw.timedOut \/ raw.exit # "success"
        began == [p \in drafted |-> [NewDraft EXCEPT !.needs = incomplete]]
        parsed == ParseCapture(raw.lines, closure)
        called == FoldLeft(LAMBDA ds, c : IF c.pkg \in drafted
                                          THEN [ds EXCEPT ![c.pkg] = AddCall(@, c)] ELSE ds,
                           began, The(parsed))
    IN  IF raw.failed THEN [p \in drafted |-> [NewDraft EXCEPT !.failed = TRUE]]
        ELSE IF parsed = Refused THEN [p \in drafted |-> [NewDraft EXCEPT !.needs = TRUE]]
        ELSE [p \in drafted |-> IF overrides[p] = {} THEN called[p]
                                ELSE ApplyOverride(called[p], The(overrides[p]), closure[1] = p)]

---------------------------------------------------------------------------
\* Names.  A source of one is [stem, ext, clean, upper]; ext "" is none, stem 0 is
\* nothing left once it was sanitized.  A name is [prefix, stem, ext, upper].

KnownKinds == {"exe", "zip"}
KindFits(kind, ext) == IF kind = "other" THEN ext \notin KnownKinds ELSE ext = kind
FallbackStem == 99
FoldCase(name) == [name EXCEPT !.upper = FALSE]

PickName(file) ==
    LET plain(n) == [prefix |-> {}, stem |-> n.stem, ext |-> n.ext, upper |-> n.upper]
        named == SelectSeq(<<file.disposition, file.final, file.own>>,
                           LAMBDA n : n # {} /\ The(n).stem # 0)
        best == IF named = <<>> THEN [stem |-> FallbackStem, ext |-> "", upper |-> FALSE]
                ELSE The(Head(named))
        ext == IF best.ext # "" /\ KindFits(file.kind, best.ext) THEN best.ext
               ELSE IF file.type # {} /\ KindFits(file.kind, The(file.type)) THEN The(file.type)
               ELSE IF file.kind \in KnownKinds THEN file.kind ELSE ""
    IN  IF \E n \in file.own : n.clean /\ n.ext # "" /\ KindFits(file.kind, n.ext)
        THEN plain(The(file.own)) ELSE plain([best EXCEPT !.ext = ext])

\* Names::name: by lower-case name, with the SHA-256 each names.  The content that
\* has a name keeps it, in lower case.
NameFile(taken, file, allowed) ==
    LET had == {n \in DOMAIN taken : taken[n] = file.sha}
        picked == PickName(file)
        name == IF FoldCase(picked) \in DOMAIN taken
                THEN [picked EXCEPT !.prefix = {file.sha}] ELSE picked
        key == FoldCase(name)
    IN  IF had # {} THEN [taken |-> taken, name |-> Ok(The(had))]
        ELSE IF picked.ext \notin allowed THEN [taken |-> taken, name |-> Refused]
        ELSE [taken |-> [n \in DOMAIN taken \cup {key} |-> IF n = key THEN file.sha ELSE taken[n]],
              name |-> Ok(name)]

\* Each file of one version named in turn.
NameAll(files, allowed) ==
    FoldLeft(LAMBDA s, f : LET r == NameFile(s.taken, f, allowed)
                           IN  [taken |-> r.taken, names |-> Append(s.names, r.name)],
             [taken |-> <<>>, names |-> <<>>], files)

\* Every name of one version names one content, whatever its case, and one content
\* has one name; its extension is one the feed takes and fits what the file is.
NamesTellApart(files, allowed) ==
    LET names == NameAll(files, allowed).names
        ok == {i \in DOMAIN files : names[i] # Refused}
    IN  \A i, j \in ok :
            /\ (FoldCase(The(names[i])) = FoldCase(The(names[j]))) <=> (files[i].sha = files[j].sha)
            /\ The(names[i]).ext \in allowed
            /\ files[i].kind \in KnownKinds => The(names[i]).ext = files[i].kind

---------------------------------------------------------------------------
\* Fetching what was wanted.  host[at]: {} or the file a URL leads to.

\* Downloader::fetch as its caller sees it: a declared checksum has to match.
FetchFile(w, host) ==
    IF host[w.from.at] = {} \/ \E s \in w.sum : s.of # The(host[w.from.at]).sha THEN Refused
    ELSE host[w.from.at]

Verified(w) == \E s \in w.sum : s.kind \in {"sha256", "sha512"}

\* fetch: one package's downloads in order.
FetchAll(d, host, allowed) ==
    LET step(s, w) ==
            LET got == FetchFile(w, host)
                file == The(got)
                named == NameFile(s.taken, [own |-> w.url.name, disposition |-> file.disposition,
                                            final |-> file.final, type |-> w.type,
                                            kind |-> file.kind, sha |-> file.sha], allowed)
                warned == IF (~w.from.secure \/ file.plain) /\ ~Verified(w) THEN {<<"plain", w.from>>} ELSE {}
            IN  IF got = Refused THEN [s EXCEPT !.d.failed = TRUE]
                ELSE [s EXCEPT !.taken = named.taken,
                        !.d.warned = @ \cup warned,
                        !.d.needs = @ \/ named.name = Refused,
                        !.d.attached = @ \cup {[name |-> n, sha |-> file.sha] : n \in named.name},
                        !.d.downloads = Append(@, [url |-> w.url, file |-> named.name, sha |-> file.sha])]
    IN  FoldLeft(step, [taken |-> <<>>, d |-> d], d.wanted).d

\* prelude::render: keyed by the URL the package asks for; the last of one URL wins.
PreludeMap(d) ==
    FoldLeft(LAMBDA m, x : IF x.file = {} THEN m
                           ELSE [u \in DOMAIN m \cup {x.url} |->
                                     IF u = x.url THEN [file |-> The(x.file), sha |-> x.sha] ELSE m[u]],
             <<>>, d.downloads)

\* A package that ends well installs from the feed alone: its capture was whole, its
\* own scripts made every call, and each URL they asked for leads to an attached file
\* with the bytes the host (or the override's) gave and the script declared.
CleanIsRedirected(raw, closure, drafted, overrides, host, allowed) ==
    LET drafts == Assess(raw, closure, drafted, overrides)
        asked(p) == {l \in ToSet(raw.lines) : l.form # "empty" /\ l.pkg = p}
    IN  \A p \in drafted :
            LET d == FetchAll(drafts[p], host, allowed)
                map == PreludeMap(d)
                from(u) == LET o == {r \in UNION {ToSet(x.rewrites) : x \in overrides[p]} : r.from = u}
                           IN  IF o = {} THEN {u} ELSE {r.to : r \in o}
            IN  DraftStatus(d) \in {"internalized", "unchanged"} =>
                    /\ ~raw.failed /\ ~raw.timedOut /\ raw.exit = "success"
                    /\ \A l \in asked(p), i \in 1 .. 2 : \A u \in l.urls[i].url :
                          /\ OriginOf(l.caller, p) = "package"
                          /\ u \in DOMAIN map
                          /\ [name |-> map[u].file, sha |-> map[u].sha] \in d.attached
                          /\ \E x \in from(u) : \E f \in host[x.at] : f.sha = map[u].sha
                          /\ \A s \in The(ChecksumOf(l.urls[i].value, l.urls[i].kind)) : s.of = map[u].sha

\* Every part of an override is used or reported as stale, never dropped.
OverrideIsTold(d, o, root) ==
    LET after == ApplyOverride(d, o, root)
        parts == {<<"params", v>> : v \in o.params} \cup {<<"script", v>> : v \in o.script}
                     \cup {<<"rewrite", r>> : r \in ToSet(o.rewrites)}
                     \cup {<<"download", e>> : e \in ToSet(o.downloads)}
    IN  parts \subseteq after.used \cup after.warned

---------------------------------------------------------------------------
\* The prelude's entries.  A package entry is [dir, file, data]: dir its folders, data its content
\* ([up, then] of a loader), file which script it is; "upstream-X" is the name the package's own X gets.

ScriptNames == {"install", "modify", "uninstall"}
UpstreamName(s) == "upstream-" \o s
ReservedEntry(e) == \/ e.dir # <<>> /\ e.dir[1] = "internalizer"
                    \/ e.file \in {UpstreamName(s) : s \in ScriptNames}

PackageScripts(entries) ==
    LET scripts == {e \in entries : e.file \in ScriptNames}
    IN  IF (\E e \in entries : ReservedEntry(e)) \/ (\A e \in scripts : e.file # "install")
        THEN Refused ELSE Ok(scripts)

Loader(depth, upstream) == [up |-> depth, then |-> upstream]

\* build: the entries to add or replace; {} of scripts refuses the package.
BuildPrelude(entries) ==
    IF PackageScripts(entries) = Refused THEN Refused
    ELSE Ok({[dir |-> <<"internalizer">>, file |-> "prelude", data |-> [up |-> 0, then |-> "prelude"]]}
            \cup {[dir |-> e.dir, file |-> UpstreamName(e.file), data |-> e.data] :
                    e \in The(PackageScripts(entries))}
            \cup {[dir |-> e.dir, file |-> e.file, data |-> Loader(Len(e.dir), UpstreamName(e.file))] :
                    e \in The(PackageScripts(entries))})

\* Every script of the package, in whatever folder, becomes a loader that finds the
\* prelude at the root and the package's own script beside it; nothing else changes.
EveryScriptLoads(entries) ==
    \A put \in BuildPrelude(entries) :
        LET at(dir, file) == {e \in put : e.dir = dir /\ e.file = file}
        IN  /\ \A e \in entries : e.file \in ScriptNames =>
                  \E l \in at(e.dir, e.file) :
                      /\ at(SubSeq(e.dir, 1, Len(e.dir) - l.data.up) \o <<"internalizer">>, "prelude") # {}
                      /\ \E u \in at(e.dir, l.data.then) : u.data = e.data
            /\ \A e \in entries : e.file \notin ScriptNames => at(e.dir, e.file) = {}

---------------------------------------------------------------------------
\* The cross-check.  A script's text is a sequence of lines of the tokens "url",
\* "code", "#", "<#" and "#>".

\* urls_in: blocks are cut out, a line whose rest begins with # is left out.
UrlsIn(text) ==
    LET cut(s, tok) == IF s.block THEN [s EXCEPT !.block = (tok.t # "#>")]
                       ELSE IF tok.t = "<#" THEN [s EXCEPT !.block = TRUE]
                       ELSE [s EXCEPT !.code = Append(@, tok)]
        line(s, l) ==
            LET toks == [i \in DOMAIN text[l] |-> [t |-> text[l][i], at |-> <<l, i>>]]
                after == FoldLeft(cut, [block |-> s.block, code |-> <<>>], toks)
                comment == after.code # <<>> /\ Head(after.code).t \in {"#", "#>"}
            IN  [block |-> after.block,
                 found |-> s.found \cup (IF comment THEN {}
                                         ELSE {x.at : x \in {y \in ToSet(after.code) : y.t = "url"}})]
    IN  FoldLeft(line, [block |-> FALSE, found |-> {}], [l \in DOMAIN text |-> l]).found

\* Every URL outside comments is found and none inside one: a token is in a block
\* when some <# before it has no #> in between.
UrlsAreFound(text) ==
    LET places == {<<l, i>> \in (DOMAIN text) \X (1 .. 4) : i \in DOMAIN text[l]}
        before(p, q) == p[1] < q[1] \/ (p[1] = q[1] /\ p[2] < q[2])
        tok(p) == text[p[1]][p[2]]
        inside(q) == \E j \in places : /\ before(j, q) /\ tok(j) = "<#"
                                       /\ \A k \in places : before(j, k) /\ before(k, q) => tok(k) # "#>"
        bare(q) == ~inside(q) /\ tok(q) # "<#"
        commented(q) == \E k \in places :
            /\ k[1] = q[1] /\ before(k, q) /\ bare(k) /\ tok(k) \in {"#", "#>"}
            /\ \A j \in places : j[1] = q[1] /\ before(j, k) => ~bare(j)
    IN  UrlsIn(text) = {q \in places : tok(q) = "url" /\ ~inside(q) /\ ~commented(q)}
=============================================================================
