--------------------------- MODULE VersionStore ---------------------------
(***************************************************************************)
(* The life of ONE package version (one id and version) on a YANuget       *)
(* server: the shared payload on disk, the shared `packages` row, each     *)
(* feed's membership row and tombstone, and the tasks that change them.    *)
(*                                                                         *)
(* Storage and SQLite are two stores with no enclosing transaction.        *)
(* Pushes, mirror fetches, purges, the orphan sweep, approvals and         *)
(* transfers are sequences of awaits that serialize on the version lock    *)
(* of locks.rs; unlisting, enabling, pinning and clearing a tombstone are  *)
(* single statements that do not take it.  Every await is a step here,     *)
(* every storage or database call may fail, and the process may crash      *)
(* between any two steps.                                                  *)
(*                                                                         *)
(* Attached files, symbols and sidecars belong to the same sequences; here *)
(* they only matter as calls that can fail.                                *)
(***************************************************************************)
EXTENDS Naturals, FiniteSets

CONSTANTS
    Feeds,        \* configured feeds
    Builds,       \* contents a push can carry, told apart by SHA-512
    Tasks,        \* request and background tasks of the process
    Sweeper,      \* the background task that runs sweep_orphans
    None,         \* absent row, payload, membership, lock holder
    Overwrite,    \* allow_overwrite of each feed
    Gated,        \* feeds with requires_approval
    Blocked,      \* the builds each feed's license policy blocks
    Upstream,     \* the build a mirror's upstream serves
    Prerelease,   \* whether this version is a pre-release
    HardLinks,    \* whether the filesystem has hard links
    Ops,          \* the kinds of operation the instance exercises
    MaxFaults,    \* storage and database errors in one behaviour
    MaxCrashes,   \* crashes in one behaviour
    MaxLosses     \* payloads lost from disk by other hands

OverwriteModes == {"disabled", "enabled", "prerelease-only", "pending-only"}
TaskOps == {"push", "mirror", "purge", "planned", "approve", "copy", "move"}
FlagOps == {"list", "enable", "pin", "follow"}

\* A row of feed_packages, without its license flag and counters.
Memberships == [listed : BOOLEAN, listing_set : BOOLEAN, enabled : BOOLEAN,
                pending : BOOLEAN, pinned : BOOLEAN]

ASSUME ConstantsAssumption ==
    /\ Feeds # {} /\ Builds # {}
    /\ Sweeper \in Tasks
    /\ None \notin Builds /\ None \notin Tasks /\ None \notin Memberships
    /\ Overwrite \in [Feeds -> OverwriteModes]
    /\ Gated \subseteq Feeds
    /\ Blocked \in [Feeds -> SUBSET Builds]
    /\ Upstream \in Builds
    /\ Prerelease \in BOOLEAN /\ HardLinks \in BOOLEAN
    /\ Ops \subseteq TaskOps \cup FlagOps
    /\ MaxFaults \in Nat /\ MaxCrashes \in Nat /\ MaxLosses \in Nat

VARIABLES
    row,      \* packages row: the hash it records, or None
    payload,  \* the .nupkg on disk: its actual content, or None
    member,   \* feed_packages rows by feed, or None
    tombs,    \* feeds with a tombstone for this version
    lock,     \* the task holding the version lock, or None
    pc,       \* where each task is
    job,      \* each task's arguments and locals
    vetted,   \* history: the builds each feed's admins approved on sight
    logged,   \* history: an overwrite logged that it could not restore
    faults, crashes, losses

store == <<row, payload, member, tombs>>
bounds == <<faults, crashes, losses>>
vars == <<store, lock, pc, job, vetted, logged, bounds>>

---------------------------------------------------------------------------
(* State functions                                                         *)

\* feed_count counts these.
Held == {f \in Feeds : member[f] # None}

\* approved_in lists these.
Approved == {f \in Held : ~member[f].pending}

Servable(f) == member[f] # None /\ member[f].enabled /\ ~member[f].pending

\* orphaned_versions: global data that no feed holds.
Orphan == row # None /\ Held = {}

\* Mutant: the insert forgets a column.
NewMemberUnpinnable(f, listed) ==
    [listed |-> listed, listing_set |-> FALSE, enabled |-> TRUE,
     pending |-> f \in Gated]

\* Membership::active, pending where the feed gates what enters it.
NewMember(f, listed) ==
    [listed |-> listed, listing_set |-> FALSE, enabled |-> TRUE,
     pending |-> f \in Gated, pinned |-> FALSE]

AnyFeed == CHOOSE f \in Feeds : TRUE
AnyBuild == CHOOSE b \in Builds : TRUE

NoJob == [op |-> "none", feed |-> AnyFeed, target |-> AnyFeed,
          build |-> AnyBuild, listed |-> TRUE, shown |-> None,
          prev |-> NewMember(AnyFeed, TRUE), backup |-> None]

Jobs == [op : TaskOps \cup {"none", "sweep"}, feed : Feeds, target : Feeds,
         build : Builds, listed : BOOLEAN, shown : Builds \cup {None},
         prev : Memberships, backup : Builds \cup {None}]

\* Under the version lock.
LockedPCs == {"index", "storeNew", "add", "undo", "storeMissing", "join",
              "keepAside", "store", "swap", "swapSame", "restore", "dropOld",
              "check", "remove", "sweepCheck", "gcFiles", "gcRow",
              "checkShown", "approve", "transfer", "arrive", "leave"}
PCs == LockedPCs \cup {"idle", "download", "wait", "clear"}

\* Mutant: a mirror fetch works under the feed's own mode.
ModeOfFeed(t) == Overwrite[job[t].feed]

\* The mode index_inner works under; a mirror never overwrites.
Mode(t) == IF job[t].op = "mirror" THEN "disabled" ELSE Overwrite[job[t].feed]

PendingOnly(t) == Mode(t) = "pending-only"

\* OverwriteMode::allows
Allows(mode) ==
    \/ mode = "enabled"
    \/ mode = "prerelease-only" /\ Prerelease

TypeOK ==
    /\ row \in Builds \cup {None}
    /\ payload \in Builds \cup {None}
    /\ member \in [Feeds -> Memberships \cup {None}]
    /\ tombs \in SUBSET Feeds
    /\ lock \in Tasks \cup {None}
    /\ pc \in [Tasks -> PCs]
    /\ job \in [Tasks -> Jobs]
    /\ vetted \in [Feeds -> SUBSET Builds]
    /\ logged \in BOOLEAN
    /\ faults \in Nat /\ crashes \in Nat /\ losses \in Nat

Init ==
    /\ row = None /\ payload = None
    /\ member = [f \in Feeds |-> None]
    /\ tombs = {}
    /\ lock = None
    /\ pc = [t \in Tasks |-> "idle"]
    /\ job = [t \in Tasks |-> NoJob]
    /\ vetted = [f \in Feeds |-> {}]
    /\ logged = FALSE
    /\ faults = 0 /\ crashes = 0 /\ losses = 0

---------------------------------------------------------------------------
(* Moving between steps                                                    *)

At(t, p) == pc[t] = p

Goto(t, p) == pc' = [pc EXCEPT ![t] = p] /\ UNCHANGED lock

\* The task's sequence is over and its guard, if it has one, is dropped.
Finish(t) ==
    /\ pc' = [pc EXCEPT ![t] = "idle"]
    /\ job' = [job EXCEPT ![t] = NoJob]
    /\ lock' = IF lock = t THEN None ELSE lock

\* index_package returned: a push goes on to clear its tombstone.
Indexed(t) ==
    IF job[t].op = "push"
    THEN /\ pc' = [pc EXCEPT ![t] = "clear"]
         /\ job' = [job EXCEPT ![t].prev = NoJob.prev, ![t].backup = None]
         /\ lock' = None
    ELSE Finish(t)

\* One storage or database call returns an error, or, in a handler that is
\* not detached, the client disconnects while it runs.
Fault == faults < MaxFaults /\ faults' = faults + 1 /\ UNCHANGED <<crashes, losses>>

NoFault == UNCHANGED bounds

Begin(t, j, p) ==
    /\ At(t, "idle")
    /\ job' = [job EXCEPT ![t] = j]
    /\ Goto(t, p)
    /\ UNCHANGED <<store, vetted, logged, bounds>>

---------------------------------------------------------------------------
(* Taking the version lock                                                 *)

FirstStep(op) ==
    CASE op \in {"push", "mirror"} -> "index"
      [] op = "purge"             -> "remove"
      [] op = "planned"           -> "check"
      [] op = "sweep"             -> "sweepCheck"
      [] op = "approve"           -> "checkShown"
      [] OTHER                    -> "transfer"

\* Mutant: the lock does not exclude.
LockVersionShared(t) ==
    /\ At(t, "wait")
    /\ lock' = t
    /\ pc' = [pc EXCEPT ![t] = FirstStep(job[t].op)]
    /\ UNCHANGED <<store, job, vetted, logged, bounds>>

\* lock_version(id, version).await
LockVersion(t) ==
    /\ At(t, "wait") /\ lock = None
    /\ lock' = t
    /\ pc' = [pc EXCEPT ![t] = FirstStep(job[t].op)]
    /\ UNCHANGED <<store, job, vetted, logged, bounds>>

---------------------------------------------------------------------------
(* index_package: a push, or a mirror fetch                                *)

\* push_package, up to the lock: a build the license policy blocks is refused.
StartPush(t, f, b) ==
    /\ "push" \in Ops /\ b \notin Blocked[f]
    /\ Begin(t, [NoJob EXCEPT !.op = "push", !.feed = f, !.build = b], "wait")

\* MirrorTarget::wanted, and Tracker::turn: one fetch per feed at a time.
StartMirror(t, f, listed) ==
    /\ "mirror" \in Ops
    /\ member[f] = None /\ f \notin tombs
    /\ \A u \in Tasks : job[u].op = "mirror" => job[u].feed # f
    /\ Begin(t, [NoJob EXCEPT !.op = "mirror", !.feed = f, !.build = Upstream,
                             !.listed = listed], "download")

\* fetch_one once the bytes are here: the tombstone is checked again, and
\* index_package evaluates the license policy.
MirrorFetched(t) ==
    LET f == job[t].feed IN
    /\ At(t, "download")
    /\ IF f \in tombs \/ Upstream \in Blocked[f]
       THEN Finish(t)
       ELSE Goto(t, "wait") /\ UNCHANGED job
    /\ UNCHANGED <<store, vetted, logged, bounds>>

Same(t) == row = job[t].build

\* Step 4: the remains of an unfinished purge are finished off first.
IndexOrphan(t) ==
    /\ At(t, "index") /\ Orphan
    /\ Goto(t, "gcFiles")
    /\ UNCHANGED <<store, job, vetted, logged, bounds>>

\* 5a: a version new to the server.
IndexNew(t) ==
    /\ At(t, "index") /\ row = None
    /\ Goto(t, "storeNew")
    /\ UNCHANGED <<store, job, vetted, logged, bounds>>

\* Mutant: any content may join.
IndexJoinAny(t) ==
    /\ At(t, "index") /\ Held # {} /\ member[job[t].feed] = None
    /\ Goto(t, IF payload = None THEN "storeMissing" ELSE "join")
    /\ UNCHANGED <<store, job, vetted, logged, bounds>>

\* 5b: another feed holds the same content.
IndexJoin(t) ==
    /\ At(t, "index") /\ Held # {} /\ member[job[t].feed] = None /\ Same(t)
    /\ Goto(t, IF payload = None THEN "storeMissing" ELSE "join")
    /\ UNCHANGED <<store, job, vetted, logged, bounds>>

\* Mutant: the other feeds that hold the version are not asked.
MayReplaceAlone(t) ==
    IF PendingOnly(t) THEN Approved = {} ELSE Allows(Mode(t))

\* 5c: what the overwrite policy asks before it lets a push through.
MayReplace(t) ==
    IF PendingOnly(t)
    THEN Approved = {}
    ELSE Allows(Mode(t)) /\ (Same(t) \/ Held = {job[t].feed})

\* 5c: the version is already in this feed; its membership is read here.
IndexReplace(t) ==
    LET f == job[t].feed IN
    /\ At(t, "index") /\ member[f] # None /\ MayReplace(t)
    /\ job' = [job EXCEPT ![t].prev = member[f]]
    /\ Goto(t, IF Same(t) /\ payload # None THEN "swapSame" ELSE "keepAside")
    /\ UNCHANGED <<store, vetted, logged, bounds>>

\* VersionExists, or "an id and version name one package across every feed".
IndexRefuse(t) ==
    LET f == job[t].feed IN
    /\ At(t, "index") /\ Held # {}
    /\ \/ member[f] = None /\ ~Same(t)
       \/ member[f] # None /\ ~MayReplace(t)
    /\ Finish(t)
    /\ UNCHANGED <<store, vetted, logged, bounds>>

\* store_payload for a new version, or for one whose bytes were missing.
StorePayload(t) ==
    /\ pc[t] \in {"storeNew", "storeMissing"}
    /\ payload' = job[t].build
    /\ Goto(t, IF At(t, "storeNew") THEN "add" ELSE "join")
    /\ UNCHANGED <<row, member, tombs, job, vetted, logged, bounds>>

\* store_payload fails on a sidecar: the payload was already moved in.
StoreSidecarFails(t) ==
    /\ pc[t] \in {"storeNew", "storeMissing"}
    /\ Fault
    /\ payload' = job[t].build
    /\ Finish(t)
    /\ UNCHANGED <<row, member, tombs, vetted, logged>>

\* add_version: the packages row (unless it is there) and the membership.
AddVersion(t) ==
    LET f == job[t].feed IN
    /\ pc[t] \in {"add", "join"}
    /\ row' = IF row = None THEN job[t].build ELSE row
    /\ member' = [member EXCEPT ![f] = NewMember(f, job[t].listed)]
    /\ Indexed(t)
    /\ UNCHANGED <<payload, tombs, vetted, logged, bounds>>

\* add_version of a new version fails: nothing was written.
AddVersionFails(t) ==
    /\ At(t, "add") /\ Fault
    /\ Goto(t, "undo")
    /\ UNCHANGED <<store, job, vetted, logged>>

\* ... and the payload is removed again, best-effort.
UndoStore(t) ==
    /\ At(t, "undo")
    /\ \/ payload' = (IF Held = {} THEN None ELSE payload) /\ NoFault
       \/ UNCHANGED payload /\ Fault
    /\ Finish(t)
    /\ UNCHANGED <<row, member, tombs, vetted, logged>>

---------------------------------------------------------------------------
(* overwrite                                                               *)

\* keep_aside: hard-link the previous payload next to the upload.
KeepAside(t) ==
    /\ At(t, "keepAside")
    /\ job' = [job EXCEPT ![t].backup = IF HardLinks THEN payload ELSE None]
    /\ Goto(t, "store")
    /\ UNCHANGED <<store, vetted, logged, bounds>>

\* store_package renames the new payload over the previous one.
StoreOver(t) ==
    /\ At(t, "store")
    /\ payload' = job[t].build
    /\ Goto(t, "swap")
    /\ UNCHANGED <<row, member, tombs, job, vetted, logged, bounds>>

\* The membership an overwrite writes: the previous one's decisions, as
\* index_inner read them, and pending again for new bytes where f gates.
Refreshed(t) ==
    [job[t].prev EXCEPT
        !.pending = @ \/ (job[t].feed \in Gated /\ ~Same(t))]

\* What replace_pending_version checks in its own transaction.
SwapAllowed(t) ==
    PendingOnly(t) =>
        /\ Approved = {}
        /\ Same(t) \/ \A g \in Held \ {job[t].feed} : job[t].build \notin Blocked[g]

\* Swap::replace: the packages row and the membership in one transaction.
SwapRows(t) ==
    /\ At(t, "swap") /\ SwapAllowed(t)
    /\ row' = job[t].build
    /\ member' = [member EXCEPT ![job[t].feed] = Refreshed(t)]
    /\ IF Same(t) THEN Indexed(t) ELSE Goto(t, "dropOld") /\ UNCHANGED job
    /\ UNCHANGED <<payload, tombs, vetted, logged, bounds>>

\* The swap is refused, or it or a sidecar before it fails.
SwapFails(t) ==
    /\ At(t, "swap")
    /\ \/ ~SwapAllowed(t) /\ NoFault
       \/ Fault
    /\ Goto(t, "restore")
    /\ UNCHANGED <<store, job, vetted, logged>>

\* Mutant: a failed overwrite returns without putting anything back.
RestoreNothing(t) ==
    /\ At(t, "restore")
    /\ Finish(t)
    /\ UNCHANGED <<store, vetted, logged, bounds>>

\* The previous build is put back, or an error is logged that it could not.
Restore(t) ==
    /\ At(t, "restore")
    /\ \/ /\ job[t].backup # None /\ NoFault
          /\ payload' = job[t].backup
          /\ UNCHANGED logged
       \/ /\ job[t].backup = None /\ NoFault
          /\ logged' = TRUE
          /\ UNCHANGED payload
       \/ /\ job[t].backup # None /\ Fault
          /\ logged' = TRUE
          /\ UNCHANGED payload
    /\ Finish(t)
    /\ UNCHANGED <<row, member, tombs, vetted>>

\* The same bytes again: only the membership is written.
SwapSame(t) ==
    /\ At(t, "swapSame")
    /\ IF SwapAllowed(t)
       THEN /\ member' = [member EXCEPT ![job[t].feed] = Refreshed(t)]
            /\ Indexed(t)
       ELSE UNCHANGED member /\ Finish(t)
    /\ UNCHANGED <<row, payload, tombs, vetted, logged, bounds>>

\* delete_unreferenced_blobs and purge_symbols after a swap of new bytes.
DropOld(t) ==
    /\ At(t, "dropOld")
    /\ Indexed(t)
    /\ UNCHANGED <<store, vetted, logged, bounds>>

\* push_package, after the lock is gone: un-delete for the mirror.
ClearTombstone(t) ==
    /\ At(t, "clear")
    /\ tombs' = tombs \ {job[t].feed}
    /\ Finish(t)
    /\ UNCHANGED <<row, payload, member, vetted, logged, bounds>>

---------------------------------------------------------------------------
(* Purges: a hard delete, retention, the orphan sweep                      *)

\* purge_version: DELETE with hard_delete_enabled, or /admin.
StartPurge(t, f) ==
    /\ "purge" \in Ops
    /\ Begin(t, [NoJob EXCEPT !.op = "purge", !.feed = f], "wait")

\* Retention's plan chose this version: servable, and not pinned.
StartPlanned(t, f) ==
    /\ "planned" \in Ops
    /\ Servable(f) /\ ~member[f].pinned
    /\ Begin(t, [NoJob EXCEPT !.op = "planned", !.feed = f], "wait")

\* Mutant: orphans are looked for among the payloads on disk.
StartSweepOnDisk ==
    /\ Orphan /\ payload # None
    /\ Begin(Sweeper, [NoJob EXCEPT !.op = "sweep"], "wait")

\* sweep_orphans, at startup and daily: orphaned_versions lists this one.
StartSweep ==
    /\ Orphan
    /\ Begin(Sweeper, [NoJob EXCEPT !.op = "sweep"], "wait")

\* purge_planned looks again under the lock.
CheckPlanned(t) ==
    LET f == job[t].feed IN
    /\ At(t, "check")
    /\ IF Servable(f) /\ ~member[f].pinned
       THEN Goto(t, "remove") /\ UNCHANGED job
       ELSE Finish(t)
    /\ UNCHANGED <<store, vetted, logged, bounds>>

\* Mutant: remove_membership, which leaves no tombstone.
RemoveWithoutTombstone(t) ==
    LET f == job[t].feed IN
    /\ At(t, "remove")
    /\ member' = [member EXCEPT ![f] = None]
    /\ IF Held \subseteq {f}
       THEN Goto(t, "gcFiles") /\ UNCHANGED job
       ELSE Finish(t)
    /\ UNCHANGED <<row, payload, tombs, vetted, logged, bounds>>

\* purge_locked: remove_membership_for_good, then feed_count.
Remove(t) ==
    LET f == job[t].feed IN
    /\ At(t, "remove")
    /\ member' = [member EXCEPT ![f] = None]
    /\ tombs' = IF member[f] # None THEN tombs \cup {f} ELSE tombs
    /\ IF Held \subseteq {f}
       THEN Goto(t, "gcFiles") /\ UNCHANGED job
       ELSE Finish(t)
    /\ UNCHANGED <<row, payload, vetted, logged, bounds>>

\* Mutant: the sweep trusts the list it made before it had the lock.
SweepUnchecked(t) ==
    /\ At(t, "sweepCheck")
    /\ Goto(t, "gcFiles")
    /\ UNCHANGED <<store, job, vetted, logged, bounds>>

\* sweep_orphans counts the feeds again under the lock.
SweepCheck(t) ==
    /\ At(t, "sweepCheck")
    /\ IF Orphan THEN Goto(t, "gcFiles") /\ UNCHANGED job ELSE Finish(t)
    /\ UNCHANGED <<store, vetted, logged, bounds>>

\* purge_global_data, files first: symbols, file blobs, the version's directory.
GcFiles(t) ==
    /\ At(t, "gcFiles")
    /\ payload' = None
    /\ Goto(t, "gcRow")
    /\ UNCHANGED <<row, member, tombs, job, vetted, logged, bounds>>

\* remove_dir_all fails after it unlinked the payload.
GcFilesFails(t) ==
    /\ At(t, "gcFiles") /\ Fault
    /\ payload' = None
    /\ Finish(t)
    /\ UNCHANGED <<row, member, tombs, vetted, logged>>

\* ... and rows last: delete_package_data, whose foreign keys cascade to the
\* memberships.  A push that found an orphan goes on to store its own build.
GcRow(t) ==
    /\ At(t, "gcRow")
    /\ row' = None
    /\ member' = [f \in Feeds |-> None]
    /\ IF job[t].op \in {"push", "mirror"}
       THEN Goto(t, "storeNew") /\ UNCHANGED job
       ELSE Finish(t)
    /\ UNCHANGED <<payload, tombs, vetted, logged, bounds>>

---------------------------------------------------------------------------
(* What admins decide: approvals and transfers, under the lock             *)

\* The reviewer's page showed a pending build, and its form says which one
\* (shown), or a script approves whatever is there (None).
StartApprove(t, f, shown) ==
    /\ "approve" \in Ops
    /\ member[f] # None /\ member[f].pending
    /\ shown \in {None, row}
    /\ Begin(t, [NoJob EXCEPT !.op = "approve", !.feed = f, !.shown = shown],
             "wait")

\* Mutant: whatever build is there now is approved.
CheckShownNothing(t) ==
    /\ At(t, "checkShown")
    /\ Goto(t, "approve")
    /\ UNCHANGED <<store, job, vetted, logged, bounds>>

\* check_shown_builds
CheckShown(t) ==
    /\ At(t, "checkShown")
    /\ IF job[t].shown \in {None, row}
       THEN Goto(t, "approve") /\ UNCHANGED job
       ELSE Finish(t)
    /\ UNCHANGED <<store, vetted, logged, bounds>>

\* approve_membership.  vetted records the build the reviewer saw, not the
\* one the row names by now.
ApproveMembership(t) ==
    LET f == job[t].feed
        seen == IF job[t].shown = None THEN row ELSE job[t].shown
    IN
    /\ At(t, "approve")
    /\ IF member[f] # None
       THEN /\ member' = [member EXCEPT ![f] = [@ EXCEPT !.pending = FALSE]]
            /\ vetted' = [vetted EXCEPT ![f] = @ \cup {seen}]
       ELSE UNCHANGED <<member, vetted>>
    /\ Finish(t)
    /\ UNCHANGED <<row, payload, tombs, logged, bounds>>

\* admin_bulk or admin_promote: the version is in f, and goes to g too.
StartTransfer(t, op, f, g) ==
    /\ op \in Ops /\ f # g /\ member[f] # None
    /\ Begin(t, [NoJob EXCEPT !.op = op, !.feed = f, !.target = g], "wait")

\* transfer_version up to the membership it will write.
TransferRead(t) ==
    LET f == job[t].feed
        refused == row = None \/ row \in Blocked[job[t].target] \/ member[f] = None
    IN
    /\ At(t, "transfer")
    /\ IF refused
       THEN Finish(t)
       ELSE /\ job' = [job EXCEPT ![t].prev = member[f]]
            /\ Goto(t, "arrive")
    /\ UNCHANGED <<store, vetted, logged, bounds>>

\* The membership the target gets: withheld there if it is withheld here.
Transferred(t) ==
    [job[t].prev EXCEPT
        !.pending = @ \/ job[t].target \in Gated,
        !.pinned  = @ /\ job[t].op = "move"]

\* add_membership; a version the target already holds keeps its state there.
Arrive(t) ==
    LET g == job[t].target IN
    /\ At(t, "arrive")
    /\ member' = [member EXCEPT ![g] = IF @ = None THEN Transferred(t) ELSE @]
    /\ IF job[t].op = "move"
       THEN Goto(t, "leave") /\ UNCHANGED job
       ELSE Finish(t)
    /\ UNCHANGED <<row, payload, tombs, vetted, logged, bounds>>

\* A move's remove_membership_for_good.
Leave(t) ==
    LET f == job[t].feed IN
    /\ At(t, "leave")
    /\ member' = [member EXCEPT ![f] = None]
    /\ tombs' = IF member[f] # None THEN tombs \cup {f} ELSE tombs
    /\ Finish(t)
    /\ UNCHANGED <<row, payload, vetted, logged, bounds>>

---------------------------------------------------------------------------
(* Single statements that do not take the version lock                     *)

SetFlags(f, m) ==
    /\ member[f] # None
    /\ member' = [member EXCEPT ![f] = m]
    /\ UNCHANGED <<row, payload, tombs, lock, pc, job, vetted, logged, bounds>>

\* set_listed: unlist (a DELETE without hard_delete_enabled) or relist.
SetListed(f, v) ==
    /\ "list" \in Ops
    /\ SetFlags(f, [member[f] EXCEPT !.listed = v, !.listing_set = TRUE])

SetEnabled(f, v) ==
    /\ "enable" \in Ops
    /\ SetFlags(f, [member[f] EXCEPT !.enabled = v])

SetPinned(f, v) ==
    /\ "pin" \in Ops
    /\ SetFlags(f, [member[f] EXCEPT !.pinned = v])

\* follow_upstream_listing: only where the listing was not set by hand.
FollowUpstream(f, v) ==
    /\ "follow" \in Ops
    /\ member[f] # None /\ ~member[f].listing_set /\ member[f].listed # v
    /\ SetFlags(f, [member[f] EXCEPT !.listed = v])

---------------------------------------------------------------------------
(* What the environment does                                               *)

\* Steps whose call can fail with nothing written and the error returned.
AbortPCs == (LockedPCs \ {"add", "undo", "swap", "restore"}) \cup {"download", "clear"}

Abort(t) ==
    /\ pc[t] \in AbortPCs /\ Fault
    /\ Finish(t)
    /\ UNCHANGED <<store, vetted, logged>>

\* The process dies: tasks, locks and kept-aside payloads are gone (the temp
\* directory is swept at startup); both stores are as the last call left them.
Crash ==
    /\ crashes < MaxCrashes /\ crashes' = crashes + 1
    /\ \E t \in Tasks : ~At(t, "idle")
    /\ lock' = None
    /\ pc' = [t \in Tasks |-> "idle"]
    /\ job' = [t \in Tasks |-> NoJob]
    /\ UNCHANGED <<store, vetted, logged, faults, losses>>

\* The payload disappears by other hands: the case the restoring pushes of
\* index_inner are for.
LosePayload ==
    /\ losses < MaxLosses /\ losses' = losses + 1
    /\ payload # None
    /\ payload' = None
    /\ UNCHANGED <<row, member, tombs, lock, pc, job, vetted, logged, faults, crashes>>

---------------------------------------------------------------------------

Start(t) ==
    \E f \in Feeds :
        \/ \E b \in Builds : StartPush(t, f, b)
        \/ \E listed \in BOOLEAN : StartMirror(t, f, listed)
        \/ StartPurge(t, f)
        \/ StartPlanned(t, f)
        \/ \E shown \in Builds \cup {None} : StartApprove(t, f, shown)
        \/ \E op \in {"copy", "move"}, g \in Feeds : StartTransfer(t, op, f, g)

\* A task goes on with what it is doing, without taking the lock.
Step(t) ==
    \/ MirrorFetched(t)
    \/ IndexOrphan(t) \/ IndexNew(t) \/ IndexJoin(t) \/ IndexReplace(t) \/ IndexRefuse(t)
    \/ StorePayload(t) \/ StoreSidecarFails(t)
    \/ AddVersion(t) \/ AddVersionFails(t) \/ UndoStore(t)
    \/ KeepAside(t) \/ StoreOver(t)
    \/ SwapRows(t) \/ SwapFails(t) \/ SwapSame(t) \/ Restore(t) \/ DropOld(t)
    \/ ClearTombstone(t)
    \/ CheckPlanned(t) \/ Remove(t) \/ SweepCheck(t)
    \/ GcFiles(t) \/ GcFilesFails(t) \/ GcRow(t)
    \/ CheckShown(t) \/ ApproveMembership(t)
    \/ TransferRead(t) \/ Arrive(t) \/ Leave(t)
    \/ Abort(t)

Flag ==
    \E f \in Feeds, v \in BOOLEAN :
        SetListed(f, v) \/ SetEnabled(f, v) \/ SetPinned(f, v) \/ FollowUpstream(f, v)

Next ==
    \/ \E t \in Tasks \ {Sweeper} : Start(t)
    \/ StartSweep
    \/ \E t \in Tasks : LockVersion(t) \/ Step(t)
    \/ Flag
    \/ Crash
    \/ LosePayload

Spec == Init /\ [][Next]_vars

\* A task that was started runs on (tokio polls it), the version lock is a
\* FIFO tokio mutex, and the orphan sweep comes round every day.  Requests
\* owe nothing: nobody has to push, approve or delete.
Fairness ==
    /\ \A t \in Tasks : WF_vars(Step(t)) /\ SF_vars(LockVersion(t))
    /\ WF_vars(StartSweep)

FairSpec == Spec /\ Fairness

---------------------------------------------------------------------------
(* What the server promises                                                *)

\* Whatever fails or crashes where, a version some feed holds has its row and
\* its payload: purge_global_data only ever runs for a version no feed holds,
\* and a membership is only ever written after the bytes it serves.
HeldIsServable == (Held # {} /\ losses = 0) => (row # None /\ payload # None)

\* No crash, no restore that failed.
Calm == crashes = 0 /\ ~logged

\* Whenever no task is at work on the version, the bytes on disk are the build
\* the row describes, or were lost by other hands; the exceptions are a crash
\* and an overwrite that logged that it could not put the previous payload
\* back.
MismatchIsLogged ==
    (Held # {} /\ lock = None /\ Calm) =>
        payload = row \/ (payload = None /\ losses > 0)

\* A push that is answered 201 is in the feed, with the row and the bytes of
\* the build that was pushed, whichever of the ways through index_inner it took
\* and whatever unfinished purge or missing payload it found.
PushedIsServed ==
    [][\A t \in Tasks : (pc[t] # "clear" /\ pc'[t] = "clear" /\ Calm) =>
          /\ row' = job[t].build /\ member'[job[t].feed] # None
          /\ payload' = job[t].build \/ (payload' = None /\ losses > 0)]_vars

\* A feed that requires approval serves a build only if one of its admins
\* approved that very build on sight: neither an overwrite, nor a transfer,
\* nor a build swapped in while the reviewer reads gets round the gate.
GateHolds == \A f \in Gated \cap Approved : row \in vetted[f]

\* A feed's membership ends only together with its tombstone; in particular
\* the cascade of delete_package_data never takes one along.
LeavesWithTombstone ==
    [][\A f \in Feeds : (member[f] # None /\ member'[f] = None) => f \in tombs']_vars

Immutable(mode) == mode \in {"disabled", "pending-only"}

\* A mirror fetch that loses the race to a push, or to a copy from another
\* feed, takes what it finds: it never replaces a build some feed holds.
MirrorNeverReplaces ==
    [][\A t \in Tasks : (job[t].op = "mirror" /\ pc'[t] # pc[t] /\ Held # {}) => row' = row]_vars

\* OverwriteMode::served_versions_are_immutable, which lets downloads be
\* cached as immutable: while a feed under such a mode serves the version, no
\* push into any feed changes the build the row describes.
ServedIsImmutable ==
    [][\A f \in Approved : Immutable(Overwrite[f]) => row' = row]_vars

\* A build is replaced only in its sole feed, or while every feed that holds
\* it still withholds it: nobody replaces what another feed serves.
SharedIsPinned ==
    [][(Held # {} /\ row' # row) => (Approved = {} \/ \E f \in Feeds : Held = {f})]_vars

\* Data no feed holds does not stay: a later push or the sweep removes it.
OrphansGo == Orphan ~> ~Orphan

\* A version is never left locked: every sequence comes to its end.
LockIsReleased == [](lock # None => <>(lock = None))

\* The version as clients can know it: data no feed holds is no build.
Contract == INSTANCE FeedContract WITH build <- IF Held = {} THEN None ELSE row

\* Locks, tasks, faults and crashes are invisible: whatever happens, the
\* version changes as if every push, delete, transfer and approval were
\* atomic and kept to the contract.
KeepsContract == Contract!Spec

---------------------------------------------------------------------------
(* Why it holds: the inductive invariant                                   *)

\* The version lock is held exactly through the locked part of a sequence.
LockInv == \A t \in Tasks : pc[t] \in LockedPCs <=> lock = t

\* The foreign key of feed_packages.
RowInv == Held # {} => row # None

PayloadInv == (Held # {} /\ losses = 0) => payload # None

\* What the lock keeps true from the check that found it to the write that
\* relies on it, step by step.
Phase(t) ==
    LET f == job[t].feed IN
    /\ pc[t] \in {"gcFiles", "gcRow"} => Held = {}
    /\ pc[t] \in {"storeNew", "add", "undo"} => row = None
    /\ (At(t, "add") /\ losses = 0) => payload # None
    /\ pc[t] \in {"storeMissing", "join"} =>
          Held # {} /\ Same(t) /\ member[f] = None
    /\ (At(t, "join") /\ losses = 0) => payload # None
    /\ pc[t] \in {"keepAside", "store", "swap", "restore", "swapSame"} =>
          /\ member[f] # None
          /\ job[t].prev.pending = member[f].pending
          /\ MayReplace(t)
    /\ At(t, "swapSame") => Same(t)
    /\ At(t, "dropOld") => Same(t) /\ member[f] # None
    /\ At(t, "approve") => job[t].shown \in {None, row}
    /\ At(t, "arrive") => row # None /\ member[f] # None

PhaseInv == \A t \in Tasks : Phase(t)

\* The only steps at which the bytes and the row may differ, and the payload
\* kept aside through them, which is the build the row describes.
Between == {"swap", "restore"}

Match(t) ==
    /\ At(t, "add") => payload \in {None, job[t].build}
    /\ pc[t] \in Between => payload \in {None, job[t].build}
    /\ pc[t] \in Between \cup {"store"} => job[t].backup \in {None, row}

MatchInv ==
    Calm => /\ (Held # {} /\ \A t \in Tasks : pc[t] \notin Between) =>
                  payload \in {None, row}
            /\ \A t \in Tasks : Match(t)

IInv ==
    /\ TypeOK /\ LockInv /\ RowInv /\ PayloadInv
    /\ PhaseInv /\ MatchInv /\ GateHolds

---------------------------------------------------------------------------
(* What comments and docs say and the code does not keep                   *)

\* indexing.rs on a push of the content the row names: "Nothing to store: the
\* bytes on disk are these bytes."
SameBytesOnDisk ==
    [][\A t \in Tasks : (pc[t] # "swapSame" /\ pc'[t] = "swapSame") =>
          payload = job[t].build]_vars

\* indexing.rs on 5c: "a push key must not be able to undo an admin's disable
\* or unlist, and a pin outlives the replacement".
DecisionsSurvivePush ==
    [][\A t \in Tasks : (pc[t] \in {"swap", "swapSame"} /\ pc'[t] # pc[t]) =>
          \A f \in Held :
              /\ member'[f].enabled = member[f].enabled
              /\ member'[f].listed = member[f].listed
              /\ member'[f].pinned = member[f].pinned]_vars

\* configuration.md on mirrors: "A version removed from a mirror feed stays
\* removed"; only a push that brings the version back clears its tombstone.
TombstoneStays ==
    [][\A f \in tombs : f \notin tombs' => member[f] # None]_vars

\* Whatever failed, crashed or raced, the version lock comes back and nothing
\* is left of a version no feed holds (lock_version, sweep_orphans).
StoreSettles == OrphansGo /\ LockIsReleased
=============================================================================
