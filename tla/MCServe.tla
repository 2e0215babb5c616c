------------------------------ MODULE MCServe ------------------------------
(***************************************************************************)
(* The machines behind serving requests, one of them per behaviour: the    *)
(* lock registry, the throttle, downloads beside overwrites, the client of *)
(* an upstream, backup and restore beside the server, two processes that   *)
(* upgrade the database they open, and the cache of the internalizer.      *)
(***************************************************************************)
EXTENDS LockRegistry, RateLimit, Downloads, UpstreamClient, Backup, Schema, DownloadCache, TLC

VARIABLE machine

serveVars == <<machine, lockVars, rateVars, downloadVars, uvars, backupVars, schemaVars, cacheVars>>

\* An upstream with a host on http, a redirect target, a private address, and a
\* name that resolves to one.
Url(host, scheme, literal, resolves) ==
    [host |-> host, scheme |-> scheme, literal |-> literal, resolves |-> resolves]
MCUpstream == Url("up", "https", FALSE, FALSE)
MCUrls == {MCUpstream, Url("up", "http", FALSE, FALSE), Url("cdn", "https", FALSE, FALSE),
           Url("lan", "https", TRUE, TRUE), Url("name", "https", FALSE, TRUE)}
\* Two addresses of one network and one of another
MCClients == {<<1, 1>>, <<1, 2>>, <<2, 1>>}
MCSizes == <<10, 20, 30>>
MCBuildSize == <<1, 1, 2>>
MCSeconds == <<1, 2, 3>>
\* Two files with a validator each, then one without
MCValidators == <<{1}, {2}, {}>>

\* Databases: none, one of a later build, one without feeds, one whose versions are in
\* two feeds, with a version spelled in two ways, either pushed last, and one left at
\* each later number.
SPkg(v, mixed, at) == [v |-> v, mixed |-> mixed, at |-> at, dep2 |-> v = 2, semver2 |-> FALSE, listed |-> v = 1,
                       enabled |-> ~mixed, downloads |-> at]
SPkgs == {{SPkg(2, TRUE, 1)}, {SPkg(1, TRUE, 1), SPkg(1, FALSE, 2)}, {SPkg(1, TRUE, 2), SPkg(1, FALSE, 1)}}
SMember(feed, v, mixed, on, pend, pin) ==
    [feed |-> feed, v |-> v, mixed |-> mixed, listed |-> on, enabled |-> on, pending |-> pend, pinned |-> pin,
     downloads |-> 1, hand |-> FALSE]
SDb(number, shape, pkgs, members, rows) ==
    [number |-> number, shape |-> shape, packages |-> pkgs, members |-> members,
     tags |-> {[v |-> r.v, mixed |-> r.mixed, tag |-> "t"] : r \in rows},
     files |-> {[v |-> r.v, mixed |-> r.mixed, name |-> r.at] : r \in rows},
     symbols |-> {[v |-> r.v, mixed |-> r.mixed, pdb |-> r.at] : r \in rows},
     search |-> {}]
SLate(n) ==
    LET pkgs == {SPkg(1, FALSE, 4), SPkg(3, FALSE, 1)}
        shape == {"pinned", "license_acceptance"} \cup {c \in DeadColumns : n < 6}
                    \cup {c \in {"foreign_keys"} : n >= 7} \cup {c \in {"listing_set"} : n >= 9}
                    \cup {c \in {"held_since"} : n >= 10}
        members == {SMember("default", 1, FALSE, FALSE, TRUE, TRUE), SMember("other", 1, FALSE, TRUE, TRUE, FALSE)}
                      \cup {m \in {SMember("default", 7, FALSE, TRUE, FALSE, FALSE)} : n < 7}
    IN  [SDb(n, shape, pkgs, members, {SPkg(v, FALSE, 1) : v \in {1} \cup {w \in {8} : n < 7}})
            EXCEPT !.search = Keys([packages |-> {p \in pkgs : n > 3}])]
MCOldDatabases ==
    {SLate(n) : n \in 3 .. LATEST} \cup {SDb(0, {}, {}, {}, {}), SDb(LATEST + 1, FreshShape, {}, {}, {})}
        \cup {SDb(0, DeadColumns, pkgs, {}, {}) : pkgs \in SPkgs}
        \cup {SDb(2, LegacyColumns, pkgs,
                  {SMember("default", p.v, p.mixed, p.mixed, pend, ~p.mixed) : p \in pkgs}
                     \cup {SMember("other", p.v, p.mixed, on, p.mixed, FALSE) : p \in {q \in pkgs : q.mixed}}
                     \cup {SMember("default", 7, FALSE, TRUE, FALSE, FALSE)},
                  pkgs \cup {SPkg(8, FALSE, 3)}) : pkgs \in SPkgs, pend, on \in BOOLEAN}

Init ==
    /\ machine \in {"locks", "rate", "downloads", "client", "backup", "schema", "cache"}
    /\ LockInit /\ RateInit /\ DownloadInit /\ UInit /\ BackupInit /\ SchemaInit /\ CacheInit
    /\ machine # "client" => settings = [allowPrivate |-> FALSE, proxied |-> FALSE]
    /\ machine # "schema" => was.number = 0 /\ was.packages = {}

Next ==
    /\ UNCHANGED machine
    /\ \/ machine = "locks" /\ LockNext /\ UNCHANGED <<rateVars, downloadVars, uvars, backupVars, schemaVars, cacheVars>>
       \/ machine = "rate" /\ RateNext /\ UNCHANGED <<lockVars, downloadVars, uvars, backupVars, schemaVars, cacheVars>>
       \/ machine = "downloads" /\ DownloadNext /\ UNCHANGED <<lockVars, rateVars, uvars, backupVars, schemaVars, cacheVars>>
       \/ machine = "client" /\ UNext /\ UNCHANGED <<lockVars, rateVars, downloadVars, backupVars, schemaVars, cacheVars>>
       \/ machine = "backup" /\ BackupNext /\ UNCHANGED <<lockVars, rateVars, downloadVars, uvars, schemaVars, cacheVars>>
       \/ machine = "schema" /\ SchemaNext /\ UNCHANGED <<lockVars, rateVars, downloadVars, uvars, backupVars, cacheVars>>
       \/ machine = "cache" /\ CacheNext /\ UNCHANGED <<lockVars, rateVars, downloadVars, uvars, backupVars, schemaVars>>

Spec == Init /\ [][Next]_serveVars

\* Tasks of one kind are all alike.
TaskSymmetry == Permutations(Tasks)
=============================================================================
