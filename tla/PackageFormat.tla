-------------------------- MODULE PackageFormat --------------------------
(***************************************************************************)
(* A .nupkg: the ZIP directory, the manifest inside it, and rewriting one. *)
(* The point of all three is that the server reads from an archive what    *)
(* the NuGet client reads from the same bytes.                             *)
(***************************************************************************)
EXTENDS Integers, Sequences, FiniteSets, SequencesExt, FiniteSetsExt, Results

CONSTANTS MaxDepth,          \* MAX_ELEMENT_DEPTH
          MaxDependencies,   \* MAX_DEPENDENCIES
          MaxEntries         \* MAX_ARCHIVE_ENTRIES

---------------------------------------------------------------------------
\* The central directory.  An archive is [ends, dirs]: its end-of-central-
\* directory records in file order, and the directory records found at each
\* offset until the signatures stop.  A directory record is [name, data, len]; a
\* name is [text, variant], text being what normalize_entry makes of it and
\* variant its case and separators.  An end record is [disk, onDisk, total, size,
\* offset, limit, wide]: limit is where the directory must end, wide the ZIP64
\* values ({} for none), and a narrow field of Saturated refers to them.

Saturated == 99
NarrowFields == {"disk", "onDisk", "total", "size", "offset"}

Bytes(records) == FoldSeq(LAMBDA r, n : r.len + n, 0, records)

\* Mutant: the ZIP64 values are taken without comparing the narrow ones.
CheckCentralDirectoryWide(a) ==
    LET end == Last(a.ends)
        v == IF end.wide = {} THEN end ELSE The(end.wide)
        records == a.dirs[v.offset]
    IN  IF \/ end.wide = {} /\ (\E f \in NarrowFields : end[f] = Saturated)
           \/ v.disk # 0 \/ v.onDisk # v.total
           \/ Len(records) # v.total \/ Bytes(records) # v.size
        THEN Refused
        ELSE Ok([offset |-> v.offset, records |-> Len(records)])

\* check_central_directory: [offset, records] of the last end record, or Refused
CheckCentralDirectory(a) ==
    LET end == Last(a.ends)
        saturated == \E f \in NarrowFields : end[f] = Saturated
        v == IF end.wide = {} THEN end ELSE The(end.wide)
        disagree == \E w \in end.wide, f \in NarrowFields : end[f] \notin {Saturated, w[f]}
        records == a.dirs[v.offset]
    IN  IF \/ a.ends = <<>>
           \/ disagree
           \/ end.wide = {} /\ saturated
           \/ v.disk # 0 \/ v.onDisk # v.total \/ v.total > MaxEntries
           \/ v.offset + v.size > end.limit
           \/ Len(records) # v.total \/ Bytes(records) # v.size
        THEN Refused
        ELSE Ok([offset |-> v.offset, records |-> Len(records)])

\* zip::ZipArchive::new on the end record it settles on, the pick-th: the ZIP64
\* values where there are any, as many records as they declare, the last record
\* of a name kept.
CrateRecords(a, pick) ==
    LET end == a.ends[pick]
        v == IF end.wide = {} THEN end ELSE The(end.wide)
    IN  IF v.offset \notin DOMAIN a.dirs \/ v.onDisk > Len(a.dirs[v.offset]) THEN Refused
        ELSE Ok([offset |-> v.offset, records |-> SubSeq(a.dirs[v.offset], 1, v.onDisk)])

Names(records) == {records[i].name : i \in DOMAIN records}

\* open_archive, with reject_duplicate_entries and reject_colliding_entries
OpenArchive(a, pick) ==
    {crate.records : crate \in {c \in CrateRecords(a, pick) :
        \E directory \in CheckCentralDirectory(a) :
            /\ c.offset = directory.offset
            /\ Cardinality(Names(c.records)) = directory.records
            /\ \A m, n \in Names(c.records) : m.text = n.text => m = n}}

\* entry_index, by_index: the data under a normalized name
CrateLookup(records, text) ==
    {records[i].data : i \in {j \in DOMAIN records :
        /\ records[j].name.text = text
        /\ \A k \in DOMAIN records : records[k].name = records[j].name => k <= j}}

\* .NET's ZipArchive: the last end record, the ZIP64 values only where a narrow
\* field is saturated, every record until the signatures stop, the first of a
\* name on a file system without case.
NetLookup(a, text) ==
    LET end == Last(a.ends)
        v == IF end.wide # {} /\ (\E f \in NarrowFields : end[f] = Saturated)
             THEN The(end.wide) ELSE end
        records == a.dirs[v.offset]
        hits == {i \in DOMAIN records : records[i].name.text = text}
    IN  IF hits = {} THEN {} ELSE {records[Min(hits)].data}

\* extract_entries_to_files over the entries [name, declared, actual] of an
\* archive: the sizes written, in order.
ExtractEntries(entries, wanted, maxEach, maxTotal) ==
    LET Step(done, e) ==
            IF done = Refused \/ e.name \notin wanted THEN done
            ELSE LET total == FoldSeq(+, 0, The(done))
                     limit == IF maxEach < maxTotal - total THEN maxEach ELSE maxTotal - total
                     written == IF e.actual < limit + 1 THEN e.actual ELSE limit + 1
                 IN  IF \/ e.declared > maxEach \/ total + e.declared > maxTotal
                        \/ written > limit
                     THEN Refused
                     ELSE Ok(Append(The(done), written))
    IN  FoldLeft(Step, Ok(<<>>), entries)

---------------------------------------------------------------------------
\* The manifest.  A document is [doctype, kids], the children of its root
\* element; an element is [name, ns, attr, runs, bad, kids]: whether it is in the
\* namespace of the metadata, the attribute that matters of it (a license's type,
\* a dependency's id, "" if absent), its text as the runs between entities, and
\* whether an attribute or entity of it is malformed.

Fields == {"id", "version", "license"}
OnceNames == Fields \cup {"dependencies"}

\* parse_nuspec's frames: what e is under an open element of this frame
FrameOf(parent, e) ==
    CASE parent = "field" -> "refused"
      [] parent = "root" /\ e.name = "metadata" -> "metadata"
      [] parent = "metadata" /\ e.ns /\ e.name \in Fields -> "field"
      [] parent = "metadata" /\ e.ns /\ e.name = "dependencies" -> "dependencies"
      [] parent = "dependencies" /\ e.ns /\ e.name = "group" -> "group"
      [] parent \in {"dependencies", "group"} /\ e.ns /\ e.name = "dependency" ->
             IF e.attr = "" THEN "refused" ELSE "ignored"
      [] OTHER -> "ignored"

\* The walk over the events of one element: nothing malformed at any depth.
RECURSIVE WalksThrough(_, _, _)
WalksThrough(parent, e, depth) ==
    LET frame == FrameOf(parent, e)
    IN  /\ depth < MaxDepth /\ ~e.bad /\ frame # "refused"
        /\ \A i \in DOMAIN e.kids : WalksThrough(frame, e.kids[i], depth + 1)

Named(kids, name) == SelectSeq(kids, LAMBDA e : e.ns /\ e.name = name)
DependencyIds(kids) ==
    LET deps == Named(kids, "dependency") IN [i \in DOMAIN deps |-> deps[i].attr]

\* The value of a field: its runs joined when it closes (Event::End, assign)
FieldText(kids, name) ==
    LET fields == Named(kids, name)
    IN  IF fields = <<>> THEN <<>> ELSE Last(fields).runs

\* metadata_child: expression and file licenses are kept, others are not
LicenseKind(kids) ==
    LET l == Named(kids, "license")
    IN  IF l = <<>> \/ l[1].attr \notin {"expression", "file"} THEN "" ELSE l[1].attr

\* metadata_child's once
DeclaredOnce(kids) == \A name \in OnceNames : Len(Named(kids, name)) <= 1

\* The groups, from <group>s or from <dependency>s without one
Groups(kids) ==
    LET deps == Named(kids, "dependencies")
        inside == IF deps = <<>> THEN <<>> ELSE deps[1].kids
        groups == Named(inside, "group")
        ungrouped == DependencyIds(inside)
    IN  [grouped |-> [i \in DOMAIN groups |-> DependencyIds(groups[i].kids)],
         ungrouped |-> ungrouped]

\* parse_nuspec: [id, version, license, kind, groups]
ParseNuspec(doc) ==
    LET metas == SelectSeq(doc.kids, LAMBDA e : e.name = "metadata")
        kids == metas[1].kids
        g == Groups(kids)
        count == Len(g.ungrouped) + FoldSeq(LAMBDA d, n : Len(d) + n, 0, g.grouped)
    IN  IF \/ doc.doctype
           \/ \E i \in DOMAIN doc.kids : ~WalksThrough("root", doc.kids[i], 1)
           \/ Len(metas) # 1
           \/ ~DeclaredOnce(kids)
           \/ count > MaxDependencies
           \/ g.ungrouped # <<>> /\ g.grouped # <<>>
           \/ FieldText(kids, "id") = <<>> \/ FieldText(kids, "version") = <<>>
        THEN Refused
        ELSE Ok([id |-> FieldText(kids, "id"), version |-> FieldText(kids, "version"),
                 kind |-> LicenseKind(kids),
                 license |-> IF LicenseKind(kids) = "" THEN <<>> ELSE FieldText(kids, "license"),
                 groups |-> IF g.ungrouped = <<>> THEN g.grouped ELSE <<g.ungrouped>>])

\* What NuGet's NuspecReader takes from a document: the first metadata, the first
\* of each field with the text of everything in it, ungrouped dependencies only
\* where there are no groups.
RECURSIVE AllText(_)
AllText(e) == e.runs \o FlattenSeq([i \in DOMAIN e.kids |-> AllText(e.kids[i])])

NuGetManifest(doc) ==
    LET kids == SelectSeq(doc.kids, LAMBDA e : e.name = "metadata")[1].kids
        First(name) == LET f == Named(kids, name)
                       IN  IF f = <<>> THEN <<>> ELSE AllText(f[1])
        g == Groups(kids)
    IN  [id |-> First("id"), version |-> First("version"), kind |-> LicenseKind(kids),
         license |-> IF LicenseKind(kids) = "" THEN <<>> ELSE First("license"),
         groups |-> IF g.grouped # <<>> THEN g.grouped
                    ELSE IF g.ungrouped = <<>> THEN <<>> ELSE <<g.ungrouped>>]

---------------------------------------------------------------------------
\* Rewriting.  A package is [entries, types]: [name, data] in order, and the
\* extensions and parts its [Content_Types].xml gives a type.  A name is
\* [kind, file, ext]: what role it has, its path without extension, and its
\* extension ("" for none).  A plan is [nuspec, put, remove]: a new manifest (0
\* for none), names and their new data, and names to take out.

Structure == {"nuspec", "core", "types", "rels"}
ReservedToAdd == Structure \cup {"signature", "package"}
TypeOf(name) == IF name.ext # "" THEN <<"ext", name.ext>> ELSE <<"part", name.file>>

IsEmptyPlan(plan) == plan.nuspec = 0 /\ plan.put = <<>> /\ plan.remove = {}
PutNames(plan) == {plan.put[i].name : i \in DOMAIN plan.put}
PutData(plan, name) == (CHOOSE i \in DOMAIN plan.put : plan.put[i].name = name)

\* The Action each entry of the input gets
RewriteAction(plan, name) ==
    CASE name.kind = "signature" /\ ~IsEmptyPlan(plan) -> "drop"
      [] name \in plan.remove -> "drop"
      [] name \in PutNames(plan) -> "put"
      [] name.kind = "nuspec" /\ plan.nuspec # 0 -> "nuspec"
      [] name.kind = "types" /\ ~IsEmptyPlan(plan) -> "types"
      [] name.kind = "core" /\ plan.nuspec # 0 -> "core"
      [] OTHER -> "copy"

\* complete_content_types
CompleteContentTypes(types, names) ==
    types \cup {TypeOf(n) : n \in {m \in names : m.kind # "types"}}

\* rewrite_into: the new package.  The core properties are written
\* from the manifest, so their data is its data.
RewriteInto(pkg, plan) ==
    LET seen == {pkg.entries[i].name : i \in DOMAIN pkg.entries}
        named == PutNames(plan) \cup plan.remove
        Data(e) == CASE RewriteAction(plan, e.name) = "put" ->
                            plan.put[PutData(plan, e.name)].data
                     [] RewriteAction(plan, e.name) \in {"nuspec", "core"} -> plan.nuspec
                     [] OTHER -> e.data
        kept == SelectSeq(pkg.entries, LAMBDA e : RewriteAction(plan, e.name) # "drop")
        added == SelectSeq(plan.put, LAMBDA e : e.name \notin seen)
        entries == [i \in DOMAIN kept |-> [name |-> kept[i].name, data |-> Data(kept[i])]] \o added
    IN  IF \/ \E n \in seen : n.kind \in Structure /\ n \in named
           \/ \A n \in seen : n.kind # "nuspec"
           \/ ~(plan.remove \subseteq seen)
           \/ PutNames(plan) \cap plan.remove # {}
           \/ \E n \in PutNames(plan) \ seen : n.kind \in ReservedToAdd
           \/ ~IsEmptyPlan(plan) /\ \A n \in seen : n.kind # "types"
        THEN Refused
        ELSE Ok([entries |-> entries,
                 types |-> IF IsEmptyPlan(plan) THEN pkg.types
                           ELSE CompleteContentTypes(pkg.types, {entries[i].name : i \in DOMAIN entries})])

---------------------------------------------------------------------------
\* What the definitions promise together.

\* An archive that is opened shows the server and the NuGet client the same data
\* under every name, whichever end record the ZIP library settles on.
ReadersAgree(a, pick, texts) ==
    \A records \in OpenArchive(a, pick), t \in texts : CrateLookup(records, t) = NetLookup(a, t)

\* Every entry that was asked for and is there is extracted whole and within the
\* limits, also when its declared size lies; otherwise nothing is.
NothingIsCutShort(entries, wanted, maxEach, maxTotal) ==
    LET asked == SelectSeq(entries, LAMBDA e : e.name \in wanted)
    IN  \A sizes \in ExtractEntries(entries, wanted, maxEach, maxTotal) :
            /\ sizes = [i \in DOMAIN asked |-> asked[i].actual]
            /\ FoldSeq(+, 0, sizes) <= maxTotal
            /\ \A i \in DOMAIN sizes : sizes[i] <= maxEach

\* A manifest that is accepted means to the server what it means to NuGet.
ManifestReadAsNuGetDoes(doc) ==
    \A manifest \in ParseNuspec(doc) : manifest = NuGetManifest(doc)

\* A rewritten package has one manifest and one entry per name, gives every part
\* a content type, describes the manifest it carries, has no signature left that
\* the change broke, and carries what the plan does not name as it was.
RewriteKeepsPackageWhole(pkg, plan) ==
    LET DataOf(p, kind) == {p.entries[i].data : i \in {j \in DOMAIN p.entries :
                                                        p.entries[j].name.kind = kind}}
        wasWhole == DataOf(pkg, "core") \subseteq DataOf(pkg, "nuspec")
        NamesOf(p) == {p.entries[i].name : i \in DOMAIN p.entries}
    IN  ~IsEmptyPlan(plan) => \A out \in RewriteInto(pkg, plan) : LET names == NamesOf(out) IN
            /\ Cardinality(names) = Len(out.entries)
            /\ Cardinality({n \in names : n.kind = "nuspec"}) = 1
            /\ \A n \in names : n.kind = "types" \/ TypeOf(n) \in out.types
            /\ wasWhole => DataOf(out, "core") \subseteq DataOf(out, "nuspec")
            /\ \A n \in names : n.kind # "signature"
            /\ \A i \in DOMAIN pkg.entries :
                   LET e == pkg.entries[i]
                   IN  \/ e.name \in PutNames(plan) \cup plan.remove
                       \/ e.name.kind \in {"signature", "nuspec", "core", "types"}
                       \/ \E j \in DOMAIN out.entries : out.entries[j] = e
=============================================================================
