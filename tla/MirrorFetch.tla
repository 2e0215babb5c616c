---------------------------- MODULE MirrorFetch ----------------------------
(***************************************************************************)
(* Reading through to an upstream: requests that miss a package take turns *)
(* fetching it, the others wait; what was fetched, what failed and what is *)
(* not to be asked again for a while is remembered per package, in a table *)
(* of bounded size.                                                        *)
(*                                                                         *)
(* Clocks are left out: what a deadline or an age decides is a step that   *)
(* may happen at any time (Expire, GiveUp, the budget in Budget).  How     *)
(* index_package itself stores a version is VersionStore's; here it is one *)
(* step with its outcomes.                                                 *)
(***************************************************************************)
EXTENDS Integers, FiniteSets

CONSTANTS
    Readers,      \* tasks that read, each one request at a time
    Keys,         \* (feed, lower-case id)
    Offered,      \* the versions the upstream offers of each key; larger is newer
    Versions,     \* the versions there are
    Named,        \* the versions of each key clients may name
    MaxVersions,  \* mirror.max_versions_per_package
    MaxTracked,   \* MAX_TRACKED
    MaxEvents     \* bound: faults of the upstream, the database and tasks, and
                  \* edits: pushes, deletes and relistings by others

ASSUME FetchAssumption ==
    /\ IsFiniteSet(Readers) /\ IsFiniteSet(Keys) /\ IsFiniteSet(Versions)
    /\ Versions \subseteq Nat \ {0} /\ Offered \in [Keys -> SUBSET Versions]

VARIABLES
    ids,       \* Tracker::ids
    older,     \* pairs of its keys, the one touched longer ago first (IdState::touched)
    upstream,  \* Tracker::upstream: every package backs off
    feedRows,      \* the feed's database, as far as a mirror reads it
    unlisted,  \* what the upstream's registration says
    where, read,   \* where each reader is, and its locals
    events

table == <<ids, older>>
fetchVars == <<table, upstream, feedRows, unlisted, where, read, events>>

NoFetch == 0
Listing == 0       \* want = None: the package's list, not a version
Unread == {-1}     \* no listing read (lately)
Unreadable == {-2} \* the registration could not be read

\* IdState.  listed: listed_at is recent.  backoff: backoff.active.  bad: the
\* versions whose bad_versions entry has not run out.  inflight: the number of
\* the fetch in progress.  cache: listing, when recent: the versions unlisted.
NoState == [listed |-> FALSE, backoff |-> FALSE, bad |-> {},
            inflight |-> NoFetch, cache |-> Unread]

\* is_tombstoned, the listed flag, and whether it was set by hand
NoFeedRow == [held |-> FALSE, tomb |-> FALSE, listed |-> FALSE, hand |-> FALSE]

NoRead == [key |-> NoFetch, want |-> Listing, fetch |-> NoFetch, todo |-> {},
          version |-> NoFetch, listing |-> Unread, complete |-> TRUE,
          held |-> {}, failed |-> {}]

Entry(k) == IF k \in DOMAIN ids THEN ids[k] ELSE NoState

IsIdle(s) == s.inflight = NoFetch /\ ~s.backoff /\ s.bad = {} /\ ~s.listed

\* Mutant: room is made at the cost of packages being fetched.
EvictableInflight(live) == live

\* The entries left when `with` makes room for k: idle ones go first, and if
\* that is not enough the oldest without a fetch, down to three quarters.
Evictable(live) == {j \in live : ids[j].inflight = NoFetch}

Kept(k) ==
    LET live == {j \in DOMAIN ids : ~IsIdle(ids[j])}
        excess == Cardinality(live) + 1 - (MaxTracked * 3) \div 4
        oldest == {j \in Evictable(live) :
                      Cardinality({i \in Evictable(live) : <<i, j>> \in older}) < excess}
    IN  IF k \in DOMAIN ids \/ Cardinality(DOMAIN ids) < MaxTracked THEN DOMAIN ids
        ELSE IF Cardinality(live) < MaxTracked THEN live ELSE live \ oldest

\* Tracker::with(k, |state| ...), the closure leaving `state`
With(k, state) ==
    /\ ids' = [j \in Kept(k) \cup {k} |-> IF j = k THEN state ELSE ids[j]]
    /\ LET others == Kept(k) \ {k}
       IN  older' = (older \cap (others \X others)) \cup (others \X {k})

Look(k) == With(k, Entry(k))

Stale(k) == ~Entry(k).backoff /\ ~Entry(k).listed

ReaderGoto(r, p) == where' = [where EXCEPT ![r] = p]
Set(r, f, x) == read' = [read EXCEPT ![r][f] = x]
Event == events < MaxEvents /\ events' = events + 1
Fine == events' = events

\* FetchGuard::drop: the entry's fetch ends if it is still this one.
EndFetch(r) ==
    LET k == read[r].key
        mine == k \in DOMAIN ids /\ ids[k].inflight = read[r].fetch
    IN  ids' = IF mine THEN [ids EXCEPT ![k].inflight = NoFetch] ELSE ids

ReaderReturn(r) ==
    /\ EndFetch(r) /\ ReaderGoto(r, "idle")
    /\ read' = [read EXCEPT ![r] = NoRead]

Leads(r) == where[r] \notin {"idle", "turn", "wait", "woken"}

FetchInit ==
    /\ ids = <<>> /\ older = {} /\ upstream = FALSE
    /\ \E deleted \in SUBSET Versions :
          feedRows = [k \in Keys |-> [v \in Versions |-> [NoFeedRow EXCEPT !.tomb = v \in deleted]]]
    /\ unlisted = [k \in Keys |-> {}]
    /\ where = [r \in Readers |-> "idle"]
    /\ read = [r \in Readers |-> NoRead]
    /\ events = 0

---------------------------------------------------------------------------
\* Reads that miss, and the refresh a hit starts in the background.

Ensure(r, k, want) ==
    /\ where[r] = "idle"
    /\ ReaderGoto(r, "turn")
    /\ read' = [read EXCEPT ![r] = [NoRead EXCEPT !.key = k, !.want = want]]
    /\ UNCHANGED <<upstream, feedRows, unlisted, events>>

MirrorIfNeeded(r, k) == Ensure(r, k, Listing) /\ UNCHANGED table

MirrorVersion(r, k, v) == v \in Named[k] /\ ~feedRows[k][v].held /\ Ensure(r, k, v) /\ UNCHANGED table

\* wants_refresh looks at the tracker and only then starts a fetch.
MirrorRefresh(r, k) ==
    /\ ~upstream /\ Stale(k) /\ Entry(k).inflight = NoFetch
    /\ Look(k) /\ Ensure(r, k, Listing)

\* next_fetch: a number no entry, fetch or waiter has any more
Fresh ==
    CHOOSE n \in 1 .. Cardinality(Readers) + Cardinality(Keys) + 1 :
        /\ \A r \in Readers : read[r].fetch # n
        /\ \A k \in DOMAIN ids : ids[k].inflight # n

\* Tracker::turn: lead, or wait for the fetch in progress.
Turn(r) ==
    LET k == read[r].key
        lead == Entry(k).inflight = NoFetch
        n == IF lead THEN Fresh ELSE Entry(k).inflight
    IN  /\ where[r] = "turn"
        /\ With(k, [Entry(k) EXCEPT !.inflight = n])
        /\ ReaderGoto(r, IF lead THEN "lead" ELSE "wait")
        /\ Set(r, "fetch", n)
        /\ UNCHANGED <<upstream, feedRows, unlisted, events>>

\* The sender is gone once no request leads with the number waited for.
Ended(n) == \A r \in Readers : Leads(r) => read[r].fetch # n

Wake(r) ==
    /\ where[r] = "wait" /\ Ended(read[r].fetch)
    /\ ReaderGoto(r, "woken") /\ Set(r, "fetch", NoFetch)
    /\ UNCHANGED <<table, upstream, feedRows, unlisted, events>>

\* WAIT_FOR_FETCH has passed: answer with what the feed has.
GiveUp(r) ==
    /\ \/ where[r] \in {"wait", "woken"}
       \/ where[r] = "turn" /\ Entry(read[r].key).inflight # NoFetch
    /\ ReaderGoto(r, "idle") /\ read' = [read EXCEPT ![r] = NoRead]
    /\ UNCHANGED <<table, upstream, feedRows, unlisted, events>>

\* A listing waiter is served unless the list is still stale, a version waiter
\* when the version is there; a database that fails says it is not.
Satisfied(r) ==
    LET k == read[r].key  v == read[r].want
        listing == v = Listing
        served == IF listing THEN upstream \/ ~Stale(k) ELSE feedRows[k][v].held
    IN  /\ where[r] = "woken"
        /\ IF listing /\ ~upstream THEN Look(k) ELSE UNCHANGED table
        /\ \/ /\ served /\ Fine
              /\ ReaderGoto(r, "idle") /\ read' = [read EXCEPT ![r] = NoRead]
           \/ /\ \/ ~served /\ Fine
                 \/ ~listing /\ Event
              /\ ReaderGoto(r, "turn") /\ UNCHANGED read
        /\ UNCHANGED <<upstream, feedRows, unlisted>>

---------------------------------------------------------------------------
\* The fetch itself, by the request that leads.

\* backing_off, and for a listing list_is_stale
Lead(r) ==
    LET k == read[r].key
        due == /\ ~upstream /\ ~Entry(k).backoff
               /\ read[r].want = Listing => Stale(k)
    IN  /\ where[r] = "lead"
        /\ IF due
           THEN /\ Look(k)
                /\ ReaderGoto(r, IF read[r].want = Listing THEN "resources" ELSE "exists")
                /\ Set(r, "version", read[r].want)
           ELSE ReaderReturn(r) /\ UNCHANGED older
        /\ UNCHANGED <<upstream, feedRows, unlisted, events>>

\* The loop over the versions listed, newest first: the next one, or the end.
NextOf(todo) == CHOOSE v \in todo : \A u \in todo : u <= v

Advance(r, todo, failed) ==
    /\ ReaderGoto(r, IF todo = {} THEN "reconcile" ELSE "exists")
    /\ read' = [read EXCEPT ![r].version = IF todo = {} THEN NoFetch ELSE NextOf(todo),
                          ![r].todo = IF todo = {} THEN {} ELSE todo \ {NextOf(todo)},
                          ![r].failed = failed]

\* This version is done with: a listing goes on, a version fetch is over.
Done(r, failed) ==
    IF read[r].want = Listing
    THEN Advance(r, read[r].todo, read[r].failed \cup failed) /\ UNCHANGED ids
    ELSE ReaderReturn(r)

\* wanted: exists, then is_tombstoned and bad_versions.  A database that fails
\* counts as "no".

Exists(r) ==
    LET held == feedRows[read[r].key][read[r].version].held
    IN  /\ where[r] = "exists"
        /\ \/ held /\ Fine /\ Done(r, {})
           \/ Event /\ Done(r, {read[r].version})
           \/ ~held /\ Fine /\ ReaderGoto(r, "tombstoned") /\ UNCHANGED <<read, ids>>
        /\ UNCHANGED <<older, upstream, feedRows, unlisted>>

Tombstoned(r) ==
    LET k == read[r].key  v == read[r].version
        tomb == feedRows[k][v].tomb
    IN  /\ where[r] = "tombstoned"
        /\ \/ tomb /\ Fine /\ Done(r, {}) /\ UNCHANGED older
           \/ v \in Entry(k).bad /\ Fine /\ Done(r, {v}) /\ UNCHANGED older
           \/ Event /\ Done(r, {read[r].version}) /\ UNCHANGED older
           \/ /\ ~tomb /\ v \notin Entry(k).bad /\ Fine
              /\ ReaderGoto(r, IF read[r].want = Listing THEN "budget" ELSE "resources")
              /\ Look(k) /\ UNCHANGED read
        /\ UNCHANGED <<upstream, feedRows, unlisted>>

\* resources_ready: a failure backs off every package.
Resources(r) ==
    /\ where[r] = "resources"
    /\ \/ /\ Fine /\ upstream' = FALSE
          /\ ReaderGoto(r, IF read[r].want = Listing THEN "versions" ELSE "listing")
          /\ UNCHANGED <<read, table>>
       \/ Event /\ upstream' = TRUE /\ ReaderReturn(r) /\ UNCHANGED older
    /\ UNCHANGED <<feedRows, unlisted>>

\* upstream_versions and record_upstream: the newest ones, at most MaxVersions.
NewestOffered(k) == {v \in Offered[k] : Cardinality({u \in Offered[k] : u > v}) < MaxVersions}

ListVersions(r) ==
    LET k == read[r].key
    IN  /\ where[r] = "versions"
        /\ \/ /\ Fine /\ With(k, [Entry(k) EXCEPT !.backoff = FALSE])
              /\ Advance(r, NewestOffered(k), {})
           \/ /\ Event /\ With(k, [Entry(k) EXCEPT !.backoff = TRUE, !.inflight = NoFetch])
              /\ ReaderGoto(r, "idle") /\ read' = [read EXCEPT ![r] = NoRead]
        /\ UNCHANGED <<upstream, feedRows, unlisted>>

\* MIRROR_BUDGET: the rest is left to a later read, so the list stays stale.
Budget(r) ==
    /\ where[r] = "budget"
    /\ \/ /\ Fine /\ UNCHANGED read
          /\ ReaderGoto(r, IF read[r].listing = Unread THEN "listing" ELSE "download")
       \/ Event /\ ReaderGoto(r, "reconcile") /\ Set(r, "complete", FALSE)
    /\ UNCHANGED <<table, upstream, feedRows, unlisted>>

\* upstream_listing: read anew by a refresh, else the recent one serves.  One
\* that cannot be read is no listing.
UpstreamListing(r) ==
    LET k == read[r].key
        cached == read[r].want # Listing /\ Entry(k).cache # Unread
        then == IF where[r] = "listing" THEN "download" ELSE "reconcileRead"
    IN  /\ where[r] \in {"listing", "reconcileListing"}
        /\ ReaderGoto(r, then)
        /\ \/ cached /\ Fine /\ Look(k) /\ Set(r, "listing", Entry(k).cache)
           \/ /\ ~cached /\ Fine
              /\ With(k, [Entry(k) EXCEPT !.cache = unlisted[k]])
              /\ Set(r, "listing", unlisted[k])
           \/ ~cached /\ Event /\ Set(r, "listing", Unreadable) /\ UNCHANGED table
        /\ UNCHANGED <<upstream, feedRows, unlisted>>

\* fetch_one.  What failed for good is remembered; a failed download ends a
\* version fetch and backs the package off, but a listing goes on.
DownloadFailed(r, good) ==
    LET k == read[r].key
        bad == IF good THEN Entry(k).bad ELSE Entry(k).bad \cup {read[r].version}
        after == [Entry(k) EXCEPT !.bad = bad]
    IN  /\ IF read[r].want = Listing
           THEN With(k, after) /\ Advance(r, read[r].todo, read[r].failed \cup {read[r].version})
           ELSE /\ With(k, [after EXCEPT !.backoff = TRUE, !.inflight = NoFetch])
                /\ ReaderGoto(r, "idle") /\ read' = [read EXCEPT ![r] = NoRead]

Download(r) ==
    LET k == read[r].key
    IN  /\ where[r] = "download"
        /\ \/ /\ read[r].version \in Offered[k] /\ Fine
              /\ ReaderGoto(r, "staged") /\ UNCHANGED <<read, table>>
           \/ read[r].version \in Offered[k] /\ Event /\ \E good \in BOOLEAN : DownloadFailed(r, good)
           \/ read[r].version \notin Offered[k] /\ Fine /\ DownloadFailed(r, FALSE)
        /\ UNCHANGED <<upstream, feedRows, unlisted>>

\* A delete may have landed while the download ran.
Staged(r) ==
    LET row == feedRows[read[r].key][read[r].version]
    IN  /\ where[r] = "staged"
        /\ \/ row.tomb /\ Fine /\ Done(r, {})
           \/ Event /\ Done(r, {read[r].version})
           \/ ~row.tomb /\ Fine /\ ReaderGoto(r, "index") /\ UNCHANGED <<read, ids>>
        /\ UNCHANGED <<older, upstream, feedRows, unlisted>>

Mirrored(r) ==
    [NoFeedRow EXCEPT !.held = TRUE,
                  !.listed = read[r].listing \in {Unread, Unreadable} \/ read[r].version \notin read[r].listing]

\* index_package: stored, already there, or refused (and remembered).
Index(r) ==
    LET k == read[r].key  v == read[r].version
    IN  /\ where[r] = "index"
        /\ \/ /\ ~feedRows[k][v].held /\ Fine
              /\ feedRows' = [feedRows EXCEPT ![k][v] = Mirrored(r)]
              /\ Done(r, {}) /\ UNCHANGED older
           \/ feedRows[k][v].held /\ Fine /\ Done(r, {}) /\ UNCHANGED <<feedRows, older>>
           \/ /\ Event
              /\ With(k, [Entry(k) EXCEPT !.bad = @ \cup {v},
                            !.inflight = IF read[r].want = Listing THEN @ ELSE NoFetch])
              /\ IF read[r].want = Listing
                 THEN Advance(r, read[r].todo, read[r].failed \cup {v})
                 ELSE ReaderGoto(r, "idle") /\ read' = [read EXCEPT ![r] = NoRead]
              /\ UNCHANGED feedRows
        /\ UNCHANGED <<upstream, unlisted>>

\* reconcile_listing: the versions held follow the upstream's listing, unless
\* it was set by hand; then the list counts as worked through.
Reconcile(r) ==
    LET k == read[r].key
        held == {v \in Versions : feedRows[k][v].held /\ ~feedRows[k][v].hand}
    IN  /\ where[r] = "reconcile"
        /\ \/ /\ held # {} /\ Fine /\ Set(r, "held", held)
              /\ ReaderGoto(r, IF read[r].listing = Unread THEN "reconcileListing" ELSE "reconcileRead")
           \/ held = {} /\ Fine /\ ReaderGoto(r, "listed") /\ UNCHANGED read
           \/ Event /\ ReaderGoto(r, "listed") /\ UNCHANGED read
        /\ UNCHANGED <<table, upstream, feedRows, unlisted>>

Follows(row, listed) ==
    IF row.held /\ ~row.hand THEN [row EXCEPT !.listed = listed] ELSE row

ReconcileRead(r) ==
    LET k == read[r].key
    IN  /\ where[r] = "reconcileRead"
        /\ feedRows' = IF read[r].listing = Unreadable THEN feedRows
                   ELSE [feedRows EXCEPT ![k] = [v \in Versions |->
                            IF v \in Offered[k] \cap read[r].held THEN Follows(feedRows[k][v], v \notin read[r].listing)
                            ELSE feedRows[k][v]]]
        /\ ReaderGoto(r, "listed")
        /\ UNCHANGED <<table, upstream, unlisted, read, events>>

Listed(r) ==
    LET k == read[r].key
        after == [Entry(k) EXCEPT !.inflight = NoFetch, !.listed = @ \/ read[r].complete]
    IN  /\ where[r] = "listed"
        /\ IF read[r].complete
           THEN With(k, after)
           ELSE ids' = [ids EXCEPT ![k].inflight = NoFetch] /\ UNCHANGED older
        /\ ReaderGoto(r, "idle") /\ read' = [read EXCEPT ![r] = NoRead]
        /\ UNCHANGED <<upstream, feedRows, unlisted, events>>

\* The task is dropped or panics: its guard ends the fetch.
CancelRead(r) ==
    /\ Leads(r) /\ Event /\ ReaderReturn(r)
    /\ UNCHANGED <<older, upstream, feedRows, unlisted>>

ReaderStep(r) ==
    \/ Turn(r) \/ Wake(r) \/ Satisfied(r) \/ Lead(r) \/ Exists(r) \/ Tombstoned(r)
    \/ Resources(r) \/ ListVersions(r) \/ Budget(r) \/ UpstreamListing(r)
    \/ Download(r) \/ Staged(r) \/ Index(r) \/ Reconcile(r) \/ ReconcileRead(r) \/ Listed(r)

---------------------------------------------------------------------------
\* Time passing, and what others do to the feed and the upstream.

Expire(k) ==
    /\ k \in DOMAIN ids
    /\ \E s \in {[ids[k] EXCEPT !.listed = FALSE], [ids[k] EXCEPT !.backoff = FALSE],
                 [ids[k] EXCEPT !.cache = Unread]}
               \cup {[ids[k] EXCEPT !.bad = @ \ {v}] : v \in ids[k].bad} :
          s # ids[k] /\ ids' = [ids EXCEPT ![k] = s]
    /\ UNCHANGED <<older, upstream, feedRows, unlisted, where, read, events>>

UpstreamExpires ==
    /\ upstream /\ upstream' = FALSE
    /\ UNCHANGED <<table, feedRows, unlisted, where, read, events>>

Push(k, v) ==
    /\ Event /\ ~feedRows[k][v].held
    /\ feedRows' = [feedRows EXCEPT ![k][v] = [NoFeedRow EXCEPT !.held = TRUE, !.listed = TRUE]]
    /\ UNCHANGED <<table, upstream, unlisted, where, read>>

Delete(k, v) ==
    /\ Event /\ feedRows[k][v].held
    /\ feedRows' = [feedRows EXCEPT ![k][v] = [NoFeedRow EXCEPT !.tomb = TRUE]]
    /\ UNCHANGED <<table, upstream, unlisted, where, read>>

\* set_listed, by an admin or a client's unlist
SetListedRow(k, v) ==
    /\ Event /\ feedRows[k][v].held
    /\ feedRows' = [feedRows EXCEPT ![k][v].listed = ~@, ![k][v].hand = TRUE]
    /\ UNCHANGED <<table, upstream, unlisted, where, read>>

Relist(k, v) ==
    /\ Event /\ v \in Offered[k]
    /\ unlisted' = [unlisted EXCEPT ![k] = IF v \in @ THEN @ \ {v} ELSE @ \cup {v}]
    /\ UNCHANGED <<table, upstream, feedRows, where, read>>

FetchNext ==
    \/ \E r \in Readers : ReaderStep(r) \/ GiveUp(r) \/ CancelRead(r)
    \/ \E r \in Readers, k \in Keys : MirrorIfNeeded(r, k) \/ MirrorRefresh(r, k)
    \/ \E r \in Readers, k \in Keys, v \in Versions : MirrorVersion(r, k, v)
    \/ \E k \in Keys : Expire(k)
    \/ UpstreamExpires
    \/ \E k \in Keys, v \in Versions : 
          Push(k, v) \/ Delete(k, v) \/ SetListedRow(k, v) \/ Relist(k, v)

FetchSpec == FetchInit /\ [][FetchNext]_fetchVars

FetchTypeOK ==
    /\ DOMAIN ids \subseteq Keys /\ older \subseteq (DOMAIN ids) \X (DOMAIN ids)
    /\ \A j, k \in DOMAIN ids : j # k => ((<<j, k>> \in older) <=> (<<k, j>> \notin older))
    /\ \A k \in DOMAIN ids : ids[k].bad \subseteq Versions
    /\ \A r \in Readers : Leads(r) => read[r].key \in Keys

\* One fetch per package at a time, however entries are forgotten meanwhile:
\* without it every reader would download every version (target.rs, ensure).
OneFetch ==
    \A r, s \in Readers : r # s /\ Leads(r) /\ Leads(s) => read[r].key # read[s].key

\* An entry never names a fetch nobody runs, also when the one that ran it was
\* dropped: readers would wait out WAIT_FOR_FETCH for ever after (FetchGuard).
InflightIsLed ==
    \A k \in DOMAIN ids : ids[k].inflight # NoFetch =>
        \E r \in Readers : Leads(r) /\ read[r].key = k /\ read[r].fetch = ids[k].inflight

\* A request goes out for a version only while the package does not back off
\* and the version is not remembered as bad, although both were looked at
\* several awaits earlier (fetch_requested, fetch_listing).
AskedOnlyWhenDue ==
    [][\A r \in Readers : where[r] # "download" /\ where'[r] = "download" =>
          LET s == Entry(read[r].key) IN ~s.backoff /\ read[r].version \notin s.bad]_fetchVars

\* A list counts as fetched only when every version it considered is in the
\* feed, was deleted from it, or failed lately: what a budget cut
\* short is carried on by the next read (fetch_listing).
ListedIsWorkedThrough ==
    [][\A r \in Readers, k \in Keys : where[r] = "listed" /\ read[r].key = k /\ Entry(k)'.listed =>
          \A v \in NewestOffered(k) :
              feedRows[k][v].held \/ feedRows[k][v].tomb \/ v \in read[r].failed]_fetchVars

\* Reads of a package share what one of them asks of the upstream: a single
\* fetch that always has a leader and ends, no question before its time, and no
\* version of a listing left out (FetchTracker, ensure_listing, fetch_missing).
ReadsShareAFetch ==
    /\ [](FetchTypeOK /\ OneFetch /\ InflightIsLed)
    /\ AskedOnlyWhenDue
    /\ ListedIsWorkedThrough
=============================================================================
