------------------------------- MODULE Schema -------------------------------
(***************************************************************************)
(* The numbered migrations of the database, run by two processes that open *)
(* one file, one of which may serve while the other is still at its steps. *)
(*                                                                         *)
(* A database is a record: number is PRAGMA user_version, shape its        *)
(* optional columns and the foreign keys, the rest are the rows of its     *)
(* tables for one package id.  A key is [v, mixed]: a version and whether  *)
(* it is spelled with capitals, as builds before 0.5.0 stored it.          *)
(***************************************************************************)
EXTENDS Integers, FiniteSets, FiniteSetsExt

CONSTANTS
    OldDatabases,         \* what builds of any age left, and the empty file
    Openers,              \* processes that open it
    MaxWrites, MaxDeaths   \* bounds: writes of a server, processes that die

VARIABLES
    was, db,              \* what was there at first, and what is there now
    opener,               \* per process: [pc, step]
    writes, stopped

schemaVars == <<was, db, opener, writes, stopped>>

LATEST == 10
DeadColumns == {"packages.listed", "packages.enabled", "packages.downloads"}
LegacyColumns == DeadColumns \cup {"pinned", "license_acceptance"}
FreshShape == {"pinned", "license_acceptance", "foreign_keys", "listing_set", "held_since"}

KeyOf(r) == [v |-> r.v, mixed |-> r.mixed]
LowerKey(r) == [r EXCEPT !.mixed = FALSE]

---------------------------------------------------------------------------
\* The rows a build may have left

PackageRows ==
    [v : Nat, mixed : BOOLEAN, at : Nat, dep2 : BOOLEAN, semver2 : BOOLEAN, listed : BOOLEAN,
     enabled : BOOLEAN, downloads : Nat]
MembersWith(counts) ==
    [feed : {"default", "other"}, v : Nat, mixed : BOOLEAN, listed : BOOLEAN, enabled : BOOLEAN,
     pending : BOOLEAN, pinned : BOOLEAN, downloads : counts, hand : BOOLEAN]

\* The versions there are.
Keys(d) == {KeyOf(p) : p \in d.packages}

\* What the steps up to the number a database has leave in it, and every build that
\* writes at that number keeps.
Staged(d) ==
    /\ d.number < 5 => d.shape \subseteq LegacyColumns
    /\ d.number = 5 => d.shape = LegacyColumns
    /\ d.number > 5 => d.shape = {"pinned", "license_acceptance"}
                                    \cup (IF d.number >= 7 THEN {"foreign_keys"} ELSE {})
                                    \cup (IF d.number >= 9 THEN {"listing_set"} ELSE {})
                                    \cup (IF d.number >= 10 THEN {"held_since"} ELSE {})
    /\ d.number >= 3 => \A r \in d.packages \cup d.members : ~r.mixed
    /\ d.number >= 4 => d.search = Keys(d)
    /\ d.number >= 7 => \A r \in d.members \cup d.tags \cup d.files \cup d.symbols : KeyOf(r) \in Keys(d)
    /\ d.number >= 8 => \A p \in d.packages : p.dep2 => p.semver2

\* A record of these tables.
IsDatabase(d) ==
    d = [number |-> d.number, shape |-> d.shape, packages |-> d.packages, members |-> d.members, tags |-> d.tags,
         files |-> d.files, symbols |-> d.symbols, search |-> d.search]

\* A database some build left, whose number nobody turned back by hand: rows under the
\* primary keys, in the shape of its number, unless a later build wrote it.  at is the
\* order of publication, rowids last, so the two spellings of a version never share one.
ASSUME SchemaAssumption ==
    \A d \in OldDatabases :
        /\ IsDatabase(d) /\ d.number \in Nat
        /\ d.number <= LATEST =>
              /\ d.packages \subseteq PackageRows /\ IsFiniteSet(d.packages) /\ d.members \subseteq MembersWith(Nat)
              /\ \A p, q \in d.packages : p.v = q.v /\ (p.mixed = q.mixed \/ p.at = q.at) => p = q
              /\ \A m, n \in d.members : m.feed = n.feed /\ KeyOf(m) = KeyOf(n) => m = n
              /\ Staged(d)

---------------------------------------------------------------------------
\* The steps
\* What every unnumbered start did.
LegacyShape(d) == [d EXCEPT !.shape = @ \cup LegacyColumns]

MemberOf(p) == [feed |-> "default", v |-> p.v, mixed |-> p.mixed, listed |-> p.listed,
                enabled |-> p.enabled, pending |-> FALSE, pinned |-> FALSE, downloads |-> p.downloads,
                hand |-> FALSE]

\* INSERT OR IGNORE of a membership in the default feed for each package.
SeedDefaultFeed(d) ==
    LET missing == {p \in d.packages : ~\E m \in d.members : m.feed = "default" /\ KeyOf(m) = KeyOf(p)}
    IN  [LegacyShape(d) EXCEPT !.members = @ \cup {MemberOf(p) : p \in missing}]

IndexTags(d) ==
    [LegacyShape(d) EXCEPT !.tags = @ \cup {[v |-> p.v, mixed |-> p.mixed, tag |-> t] :
                                               p \in d.packages, t \in {"t"}}]

\* SUM(downloads)
TotalDownloads(ms) == FoldSet(LAMBDA m, n : n + m.downloads, 0, ms)

\* The two memberships a feed has of one version, merged the cautious way.
Merge(ms) ==
    LET one == CHOOSE m \in ms : TRUE
    IN  [one EXCEPT !.mixed = FALSE,
           !.listed = \E m \in ms : m.listed, !.enabled = \A m \in ms : m.enabled,
           !.pending = \E m \in ms : m.pending, !.pinned = \E m \in ms : m.pinned,
           !.downloads = TotalDownloads(ms)]

\* Where both spellings exist the most recently published row survives: its push
\* wrote the file they share.
LowerCasePrereleaseKeys(d) ==
    LET twins(p) == {q \in d.packages : q.v = p.v}
        lost == {p \in d.packages : \E q \in twins(p) : q.at > p.at}
        kept == d.packages \ lost
        lostKeys == {KeyOf(p) : p \in lost}
        ofVersion(m) == {n \in d.members : n.feed = m.feed /\ n.v = m.v}
        names(v) == {f.name : f \in {g \in d.files : g.v = v /\ ~g.mixed}}
    IN  [LegacyShape(d) EXCEPT
           !.tags = {LowerKey(t) : t \in {u \in @ : KeyOf(u) \notin lostKeys}},
           !.files = {f \in @ : ~f.mixed} \cup {LowerKey(f) : f \in {g \in @ : g.mixed /\ g.name \notin names(g.v)}},
           !.packages = {LowerKey(p) : p \in kept},
           !.members = {Merge(ofVersion(m)) : m \in @},
           !.symbols = {LowerKey(s) : s \in @},
           !.search = {k \in @ : k \notin lostKeys /\ ~k.mixed}
                          \cup {LowerKey(KeyOf(p)) : p \in {q \in kept : q.mixed}}]

FillSearchIndex(d) == [LegacyShape(d) EXCEPT !.search = Keys(d)]

\* packages rebuilt without the columns nothing reads.
DropDeadColumns(d) == [d EXCEPT !.shape = @ \ DeadColumns]

\* The children rebuilt with a foreign key, those of no version left behind.
AddForeignKeys(d) ==
    LET owned(rows) == {r \in rows : KeyOf(r) \in Keys(d)}
    IN  [d EXCEPT !.shape = @ \cup {"foreign_keys"}, !.members = owned(@), !.tags = owned(@),
                  !.files = owned(@), !.symbols = owned(@)]

SemVer2Dependencies(d) ==
    [d EXCEPT !.packages = {[p EXCEPT !.semver2 = @ \/ p.dep2] : p \in @}]

\* Nothing tells an unlist by hand from a copied one.
ListingSet(d) ==
    IF "listing_set" \in d.shape THEN d
    ELSE [d EXCEPT !.shape = @ \cup {"listing_set"},
                   !.members = {[m EXCEPT !.hand = ~m.listed] : m \in @}]

UploadHeld(d) == [d EXCEPT !.shape = @ \cup {"held_since"}]

\* MIGRATIONS and apply
Apply(step, d) ==
    CASE step = 1 -> SeedDefaultFeed(d) [] step = 2 -> IndexTags(d)
      [] step = 3 -> LowerCasePrereleaseKeys(d) [] step = 4 -> FillSearchIndex(d)
      [] step = 5 -> LegacyShape(d) [] step = 6 -> DropDeadColumns(d)
      [] step = 7 -> AddForeignKeys(d) [] step = 8 -> SemVer2Dependencies(d)
      [] step = 9 -> ListingSet(d) [] step = 10 -> UploadHeld(d)

---------------------------------------------------------------------------
SchemaInit ==
    /\ was \in OldDatabases /\ db = was
    /\ opener = [o \in Openers |-> [pc |-> "off", step |-> 1]]
    /\ writes = 0 /\ stopped = 0

\* migrate_to looks at the number before it queues for the write lock, and refuses
\* one it does not know.
OpenDatabase(o) ==
    /\ opener[o].pc = "off"
    /\ opener' = [opener EXCEPT ![o] = [pc |-> IF db.number > LATEST THEN "refused"
                                               ELSE IF db.number = LATEST THEN "open" ELSE "steps",
                                        step |-> 1]]
    /\ UNCHANGED <<was, db, writes, stopped>>

Stepped(o) == opener' = [opener EXCEPT ![o] = [pc |-> IF @.step = LATEST THEN "open" ELSE "steps",
                                               step |-> @.step + 1]]

\* Mutant: the number is not read again under the write lock.
MigrateStepBlind(o) ==
    /\ opener[o].pc = "steps"
    /\ db' = [Apply(opener[o].step, db) EXCEPT !.number = opener[o].step]
    /\ Stepped(o)
    /\ UNCHANGED <<was, writes, stopped>>

\* One step in its BEGIN IMMEDIATE transaction, which has the write lock from the
\* start: the number read again, the change, the new number, all or nothing.
MigrateStep(o) ==
    /\ opener[o].pc = "steps"
    /\ IF db.number > LATEST
       THEN opener' = [opener EXCEPT ![o].pc = "refused"] /\ UNCHANGED db
       ELSE /\ db' = IF db.number >= opener[o].step THEN db
                     ELSE [Apply(opener[o].step, db) EXCEPT !.number = opener[o].step]
            /\ Stepped(o)
    /\ UNCHANGED <<was, writes, stopped>>

\* A process that dies, before or inside a transaction, leaves what was committed.
StopOpener(o) ==
    /\ opener[o].pc # "off" /\ stopped < MaxDeaths
    /\ opener' = [opener EXCEPT ![o] = [pc |-> "off", step |-> 1]]
    /\ stopped' = stopped + 1
    /\ UNCHANGED <<was, db, writes>>

\* A server that has the database open moves a version out of the default feed, or
\* deletes it with what the foreign keys tie to it.
Serving(o) == opener[o].pc = "open" /\ writes < MaxWrites /\ writes' = writes + 1

MoveVersion(o, m) ==
    /\ Serving(o) /\ m \in db.members /\ m.feed = "default"
    /\ db' = [db EXCEPT !.members = {n \in @ \ {m} : n.feed # "other" \/ n.v # m.v}
                                        \cup {[m EXCEPT !.feed = "other"]}]
    /\ UNCHANGED <<was, opener, stopped>>

DeleteVersion(o, p) ==
    /\ Serving(o) /\ p \in db.packages
    /\ LET kept(rows) == {r \in rows : KeyOf(r) # KeyOf(p)}
       IN  db' = [db EXCEPT !.packages = @ \ {p}, !.members = kept(@), !.tags = kept(@),
                            !.files = kept(@), !.symbols = kept(@), !.search = @ \ {KeyOf(p)}]
    /\ UNCHANGED <<was, opener, stopped>>

SchemaNext ==
    \E o \in Openers :
        \/ OpenDatabase(o) \/ MigrateStep(o) \/ StopOpener(o)
        \/ (\E m \in db.members : MoveVersion(o, m)) \/ (\E p \in db.packages : DeleteVersion(o, p))

SchemaSpec == SchemaInit /\ [][SchemaNext]_schemaVars
---------------------------------------------------------------------------
\* Whoever has the database open finds it in the shape of a new one: one row per
\* version under the key lookups use, no row without its version, every version in
\* the search index and marked by its dependencies, however old it was, whoever
\* migrated it and wherever somebody died (migrate_to).
OpenIsCurrent ==
    (\E o \in Openers : opener[o].pc = "open") =>
        LET keys == Keys(db)
        IN  /\ db.shape = FreshShape
            /\ \A k \in keys : ~k.mixed
            /\ Cardinality(keys) = Cardinality(db.packages)
            /\ \A r \in db.members \cup db.tags \cup db.files \cup db.symbols : KeyOf(r) \in keys
            /\ db.search = keys
            /\ \A p \in db.packages : p.dep2 => p.semver2

\* The upgrade loses no version a feed had and shows none somebody withheld: before a
\* server writes, each feed has the versions it had (the default feed those of a
\* database without feeds), withheld or pinned if either spelling was, with all their
\* downloads, and the row that survives describes the bytes pushed last.
UpgradeKeepsFeeds ==
    db.number = LATEST /\ writes = 0 =>
        LET before == IF was.number = 0 THEN SeedDefaultFeed(was) ELSE was
            rows(feed, v) == {m \in before.members : m.feed = feed /\ m.v = v
                                                     /\ \E p \in was.packages : p.v = v}
        IN  /\ \A feed \in {"default", "other"}, v \in {p.v : p \in was.packages} :
                  LET now == {m \in db.members : m.feed = feed /\ m.v = v}
                  IN  /\ (now = {}) <=> (rows(feed, v) = {})
                      /\ \A m \in now :
                            /\ (\E r \in rows(feed, v) : ~r.enabled) => ~m.enabled
                            /\ (\E r \in rows(feed, v) : r.pending) => m.pending
                            /\ m.pinned <=> \E r \in rows(feed, v) : r.pinned
                            /\ m.downloads = TotalDownloads(rows(feed, v))
                            /\ (was.number < 9 /\ ~m.listed) => m.hand
            /\ \A p \in db.packages : p.at = Max({q.at : q \in {r \in was.packages : r.v = p.v}})

\* What a server took out of a feed does not come back with another process's
\* migration (BEGIN IMMEDIATE, user_version read again).
NothingComesBack ==
    [][\A o \in Openers : writes > 0 /\ MigrateStep(o) => db'.members = db.members]_schemaVars

\* Two processes that open one database, either of which may die, leave it
\* upgraded once, with what every feed held and nothing it had not (migrate).
UpgradesKeepFeeds == [](OpenIsCurrent /\ UpgradeKeepsFeeds) /\ NothingComesBack
=============================================================================
