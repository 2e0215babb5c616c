---------------------------- MODULE Attachments ----------------------------
(***************************************************************************)
(* Files attached to package versions.  A row of package_files names a     *)
(* blob by its SHA-256; a blob is stored once and shared by every version  *)
(* that has the same bytes.                                                *)
(*                                                                         *)
(* Rows belong to a version and change under its version lock.  Blobs      *)
(* belong to nobody: they are stored, counted and deleted under a blob     *)
(* lock, always taken inside the version lock.  Who may change the files   *)
(* of a version depends on which feeds have approved it.                   *)
(*                                                                         *)
(* Attaches and detaches run detached from their request, so no client can *)
(* stop them half-way; calls may fail and the process may restart.         *)
(***************************************************************************)
EXTENDS Naturals, FiniteSets

CONSTANTS
    Feeds, Versions, Names,
    Blobs,        \* contents, told apart by SHA-256
    Tasks,        \* requests
    Sweeper,      \* the daily background pass
    Gated,        \* feeds with requires_approval
    PendingOnly,  \* feeds with allow_overwrite = "pending-only"
    KeySets,      \* the sets of feeds whose admin key a request may present
    None,
    MaxTroubles   \* failed calls and restarts in one behaviour

All == Tasks \cup {Sweeper}

ASSUME AttachmentsAssumption ==
    /\ IsFiniteSet(Feeds) /\ IsFiniteSet(Versions) /\ IsFiniteSet(Names)
    /\ IsFiniteSet(Blobs) /\ IsFiniteSet(Tasks) /\ Sweeper \notin Tasks
    /\ Gated \subseteq Feeds /\ PendingOnly \subseteq Feeds
    /\ KeySets \subseteq SUBSET Feeds
    /\ None \notin Feeds \cup Versions \cup Names \cup Blobs \cup All
    /\ None \notin {"pending", "approved"}
    /\ MaxTroubles \in Nat

VARIABLES
    data,      \* the versions with a packages row
    member,    \* feed_packages: None, "pending" or "approved", by version and feed
    files,     \* package_files: the SHA-256, by version and name
    stored,    \* the blobs in the blob store
    vlock,     \* lock_version
    block,     \* lock_blob
    pc, job,   \* where each task is, and its locals
    troubles

rows == <<data, member, files>>
vars == <<rows, stored, vlock, block, pc, job, troubles>>

Ops == {"none", "attach", "detach", "push", "purge", "approve", "pass", "sweep"}

NoJob == [op |-> "none", feed |-> None, version |-> None, name |-> None, sha |-> None,
          keys |-> {}, todo |-> {}, orphans |-> {}]

Jobs == [op : Ops, feed : Feeds \cup {None}, version : Versions \cup {None},
         name : Names \cup {None}, sha : Blobs \cup {None},
         keys : SUBSET Feeds, todo : SUBSET Blobs, orphans : SUBSET Versions]

PCs == {"idle", "lock", "check", "store", "add", "undo", "last", "next", "lockBlob",
        "count", "delete", "drop", "enter", "orphan"}

TypeOK ==
    /\ data \subseteq Versions
    /\ member \in [Versions -> [Feeds -> {None, "pending", "approved"}]]
    /\ files \in [Versions -> [Names -> Blobs \cup {None}]]
    /\ stored \subseteq Blobs
    /\ vlock \in [Versions -> All \cup {None}]
    /\ block \in [Blobs -> All \cup {None}]
    /\ pc \in [All -> PCs]
    /\ job \in [All -> Jobs]
    /\ troubles \in 0 .. MaxTroubles

Init ==
    /\ data = {}
    /\ member = [v \in Versions |-> [f \in Feeds |-> None]]
    /\ files = [v \in Versions |-> [n \in Names |-> None]]
    /\ stored = {}
    /\ vlock = [v \in Versions |-> None]
    /\ block = [s \in Blobs |-> None]
    /\ pc = [t \in All |-> "idle"]
    /\ job = [t \in All |-> NoJob]
    /\ troubles = 0

---------------------------------------------------------------------------

Holders(v) == {f \in Feeds : member[v][f] # None}

\* approved_in
Approved(v) == {f \in Feeds : member[v][f] = "approved"}

Orphan(v) == v \in data /\ Holders(v) = {}

\* blob_references
References(s) == Cardinality({x \in Versions \X Names : files[x[1]][x[2]] = s})

BlobsOf(v) == {files[v][n] : n \in Names} \ {None}

\* The feeds whose approval is a review.
Reviewing == Gated \cup PendingOnly

---------------------------------------------------------------------------
(* ApprovalGuard                                                           *)

\* An approval in g holds the files against a request on feed f: g reviews, or
\* f leaves whatever is approved anywhere as it is.
Holds(f, g) == f \in PendingOnly \/ g \in Reviewing

\* Only g's own admin key sets aside the review of g.
MayOverride(f, keys, g) == g \in keys \/ (g \notin Reviewing /\ f \in keys)

\* check_not_approved
MayChange(t) ==
    LET f == job[t].feed IN
    \A g \in Approved(job[t].version) : Holds(f, g) => MayOverride(f, job[t].keys, g)

---------------------------------------------------------------------------
(* Moving between steps                                                    *)

At(t, p) == pc[t] = p

Goto(t, p) == pc' = [pc EXCEPT ![t] = p]

Quiet == UNCHANGED troubles

Trouble == troubles < MaxTroubles /\ troubles' = troubles + 1

Stay == UNCHANGED <<vlock, block, job>>

Unlocked(lock, t) == [x \in DOMAIN lock |-> IF lock[x] = t THEN None ELSE lock[x]]

\* The task returns and drops its guards.
Finish(t) ==
    /\ Goto(t, "idle")
    /\ job' = [job EXCEPT ![t] = NoJob]
    /\ vlock' = Unlocked(vlock, t)
    /\ block' = Unlocked(block, t)

\* The daily pass is done with one orphan.
LeaveOrphan(t) ==
    /\ Goto(t, "orphan")
    /\ job' = [job EXCEPT ![t].version = None, ![t].sha = None, ![t].todo = {}]
    /\ vlock' = Unlocked(vlock, t)
    /\ block' = Unlocked(block, t)

\* An error ends a task; the daily pass logs it and takes the next orphan.
Fail(t) == IF job[t].op = "pass" THEN LeaveOrphan(t) ELSE Finish(t)

\* One blob of a list is done with; on to the next.
NextBlob(t) ==
    /\ Goto(t, "next")
    /\ block' = Unlocked(block, t)
    /\ job' = [job EXCEPT ![t].todo = @ \ {job[t].sha}, ![t].sha = None]
    /\ UNCHANGED vlock

\* purge_global_data, whoever calls it.
Purging(t) == job[t].op \in {"push", "purge", "pass"}

\* The blobs of the version's files, one after the other.
PurgeData(t) ==
    /\ job' = [job EXCEPT ![t].todo = BlobsOf(job[t].version)]
    /\ Goto(t, "next")
    /\ UNCHANGED <<vlock, block>>

---------------------------------------------------------------------------
(* Requests, and the locks they take                                       *)

\* A request reads nothing before it has the lock of its version, so it is
\* modelled from there on.
Begin(t, v, j) ==
    /\ At(t, "idle") /\ vlock[v] = None
    /\ vlock' = [vlock EXCEPT ![v] = t]
    /\ job' = [job EXCEPT ![t] = [j EXCEPT !.version = v]]
    /\ Goto(t, "check")
    /\ UNCHANGED <<rows, stored, block, troubles>>

StartAttach(t, f, v, n, s, keys) ==
    /\ member[v][f] # None
    /\ Begin(t, v, [NoJob EXCEPT !.op = "attach", !.feed = f, !.name = n, !.sha = s,
                                 !.keys = keys])

StartDetach(t, f, v, n, keys) ==
    /\ files[v][n] # None
    /\ Begin(t, v, [NoJob EXCEPT !.op = "detach", !.feed = f, !.name = n, !.keys = keys])

StartPush(t, f, v) == Begin(t, v, [NoJob EXCEPT !.op = "push", !.feed = f])

StartPurge(t, f, v) ==
    /\ member[v][f] # None
    /\ Begin(t, v, [NoJob EXCEPT !.op = "purge", !.feed = f])

\* Mutant: an approval does not wait for the version lock.
StartApproveUnlocked(t, f, v) ==
    /\ member[v][f] = "pending" /\ At(t, "idle")
    /\ job' = [job EXCEPT ![t] = [NoJob EXCEPT !.op = "approve", !.feed = f, !.version = v]]
    /\ Goto(t, "check")
    /\ UNCHANGED <<rows, stored, vlock, block, troubles>>

StartApprove(t, f, v) ==
    /\ member[v][f] = "pending"
    /\ Begin(t, v, [NoJob EXCEPT !.op = "approve", !.feed = f])

\* At startup and daily; sweep_orphans lists the versions no feed holds.
StartPass ==
    LET found == {v \in Versions : Orphan(v)} IN
    /\ found # {} \/ stored # {}
    /\ \E list \in {found, {}} :
          /\ IF list = found THEN Quiet ELSE Trouble
          /\ job' = [job EXCEPT ![Sweeper] = [NoJob EXCEPT !.op = "pass", !.orphans = list]]
    /\ At(Sweeper, "idle") /\ Goto(Sweeper, "orphan")
    /\ UNCHANGED <<rows, stored, vlock, block>>

LockVersion(t) ==
    LET v == job[t].version IN
    /\ At(t, "lock") /\ vlock[v] = None
    /\ vlock' = [vlock EXCEPT ![v] = t]
    /\ Goto(t, "check")
    /\ UNCHANGED <<rows, stored, block, job, troubles>>

\* Mutant: no lock on the blob.
LockBlobFree(t) ==
    /\ At(t, "lockBlob")
    /\ Goto(t, IF job[t].op = "attach" THEN "store" ELSE "count")
    /\ UNCHANGED <<rows, stored, vlock, block, job, troubles>>

LockBlob(t) ==
    LET s == job[t].sha IN
    /\ At(t, "lockBlob") /\ block[s] = None
    /\ block' = [block EXCEPT ![s] = t]
    /\ Goto(t, IF job[t].op = "attach" THEN "store" ELSE "count")
    /\ UNCHANGED <<rows, stored, vlock, job, troubles>>

---------------------------------------------------------------------------
(* attach_locked and detach                                                *)

\* The version must be in the feed; a file of that name stays, whether it is
\* the same or another; approvals may hold the files.
CheckAttach(t) ==
    LET v == job[t].version IN
    /\ At(t, "check") /\ job[t].op = "attach" /\ Quiet
    /\ IF /\ member[v][job[t].feed] # None /\ v \in data
          /\ files[v][job[t].name] = None
          /\ MayChange(t)
       THEN Goto(t, "lockBlob") /\ Stay
       ELSE Finish(t)
    /\ UNCHANGED <<rows, stored>>

\* Bytes already stored are kept, and this copy of them dropped.
StoreBlob(t) ==
    /\ At(t, "store") /\ Quiet
    /\ stored' = stored \cup {job[t].sha}
    /\ Goto(t, "add") /\ Stay
    /\ UNCHANGED rows

AddFile(t) ==
    /\ At(t, "add")
    /\ \/ /\ Quiet
          /\ files' = [files EXCEPT ![job[t].version][job[t].name] = job[t].sha]
          /\ Finish(t)
       \/ Trouble /\ Goto(t, "undo") /\ Stay /\ UNCHANGED files
    /\ UNCHANGED <<data, member, stored>>

\* The row was refused.  Nothing references the blob if this was its first use;
\* should the count or the delete fail, it stays.
UndoStore(t) ==
    /\ At(t, "undo")
    /\ \/ /\ Quiet
          /\ stored' = stored \ {s \in {job[t].sha} : References(s) = 0}
       \/ Trouble /\ UNCHANGED stored
    /\ Finish(t)
    /\ UNCHANGED rows

\* delete_file; what is left is to see whether the blob is still used.
DeleteFile(t) ==
    LET v == job[t].version
        sha == files[v][job[t].name]
    IN
    /\ At(t, "check") /\ job[t].op = "detach" /\ Quiet
    /\ IF member[v][job[t].feed] # None /\ MayChange(t) /\ sha # None
       THEN /\ files' = [files EXCEPT ![v][job[t].name] = None]
            /\ job' = [job EXCEPT ![t].todo = {sha}]
            /\ Goto(t, "next")
            /\ UNCHANGED <<vlock, block>>
       ELSE Finish(t) /\ UNCHANGED files
    /\ UNCHANGED <<data, member, stored>>

---------------------------------------------------------------------------
(* Pushes, purges, approvals                                               *)

Entered(f) == IF f \in Gated THEN "pending" ELSE "approved"

\* Steps 4 and 5 of index_inner.  A version no feed holds is purged first.
\* Under "pending-only" a new build drops the files of the one it replaces, in
\* the transaction that checks that no feed has approved it.  Elsewhere a new
\* build, which only a feed alone with the version gets, leaves the files and
\* waits for approval again.  A push may also be refused, or change nothing.
CheckPush(t) ==
    LET v == job[t].version
        f == job[t].feed
    IN
    /\ At(t, "check") /\ job[t].op = "push" /\ Quiet
    /\ \/ Orphan(v) /\ PurgeData(t) /\ UNCHANGED rows
       \/ ~Orphan(v) /\ member[v][f] = None /\ Goto(t, "enter") /\ Stay /\ UNCHANGED rows
       \/ /\ f \in PendingOnly /\ member[v][f] # None /\ Approved(v) = {}
          /\ files' = [files EXCEPT ![v] = [n \in Names |-> None]]
          /\ job' = [job EXCEPT ![t].op = "detach", ![t].todo = BlobsOf(v)]
          /\ Goto(t, "next")
          /\ UNCHANGED <<data, member, vlock, block>>
       \/ /\ f \in Gated \ PendingOnly /\ Holders(v) = {f}
          /\ member' = [member EXCEPT ![v][f] = "pending"]
          /\ Finish(t)
          /\ UNCHANGED <<data, files>>
       \/ Finish(t) /\ UNCHANGED rows
    /\ UNCHANGED stored

\* add_version
Enter(t) ==
    LET v == job[t].version IN
    /\ At(t, "enter") /\ Quiet
    /\ data' = data \cup {v}
    /\ member' = [member EXCEPT ![v][job[t].feed] = Entered(job[t].feed)]
    /\ Finish(t)
    /\ UNCHANGED <<files, stored>>

\* purge_locked: the membership goes ...
RemoveMembership(t) ==
    /\ At(t, "check") /\ job[t].op = "purge" /\ Quiet
    /\ member' = [member EXCEPT ![job[t].version][job[t].feed] = None]
    /\ Goto(t, "last") /\ Stay
    /\ UNCHANGED <<data, files, stored>>

\* ... and with the last one everything else.
CountFeeds(t) ==
    /\ At(t, "last") /\ Quiet
    /\ IF Holders(job[t].version) = {} THEN PurgeData(t) ELSE Finish(t)
    /\ UNCHANGED <<rows, stored>>

\* Under the lock an attach takes too; refused if the page it came from showed
\* another build or other files.
Approve(t) ==
    LET v == job[t].version IN
    /\ At(t, "check") /\ job[t].op = "approve" /\ Quiet
    /\ \/ UNCHANGED member
       \/ /\ member[v][job[t].feed] # None
          /\ member' = [member EXCEPT ![v][job[t].feed] = "approved"]
    /\ Finish(t)
    /\ UNCHANGED <<data, files, stored>>

---------------------------------------------------------------------------
(* The daily pass                                                          *)

\* Mutant: the pass is over with the last orphan.
NextOrphanOnly(t) ==
    /\ At(t, "orphan") /\ Quiet
    /\ \/ \E v \in job[t].orphans :
             /\ job' = [job EXCEPT ![t].version = v, ![t].orphans = @ \ {v}]
             /\ Goto(t, "lock")
             /\ UNCHANGED <<vlock, block>>
       \/ job[t].orphans = {} /\ Finish(t)
    /\ UNCHANGED <<rows, stored>>

\* The next orphan; after the last, sweep_unreferenced_blobs lists the blobs.
NextOrphan(t) ==
    /\ At(t, "orphan")
    /\ \/ \E v \in job[t].orphans :
             /\ job' = [job EXCEPT ![t].version = v, ![t].orphans = @ \ {v}]
             /\ Goto(t, "lock") /\ Quiet
             /\ UNCHANGED <<vlock, block>>
       \/ /\ job[t].orphans = {} /\ Quiet
          /\ job' = [job EXCEPT ![t].op = "sweep", ![t].todo = stored]
          /\ Goto(t, "next")
          /\ UNCHANGED <<vlock, block>>
       \/ job[t].orphans = {} /\ Trouble /\ Finish(t)
    /\ UNCHANGED <<rows, stored>>

\* A push may have adopted the version since the list was made.
CheckOrphan(t) ==
    /\ At(t, "check") /\ job[t].op = "pass" /\ Quiet
    /\ IF Orphan(job[t].version) THEN PurgeData(t) ELSE LeaveOrphan(t)
    /\ UNCHANGED <<rows, stored>>

---------------------------------------------------------------------------
(* Blobs that may have lost their last reference                           *)

TakeBlob(t) ==
    /\ At(t, "next") /\ Quiet
    /\ \/ \E s \in job[t].todo :
             /\ job' = [job EXCEPT ![t].sha = s]
             /\ Goto(t, "lockBlob")
             /\ UNCHANGED <<vlock, block>>
       \/ job[t].todo = {} /\ Purging(t) /\ Goto(t, "drop") /\ Stay
       \/ job[t].todo = {} /\ ~Purging(t) /\ Finish(t)
    /\ UNCHANGED <<rows, stored>>

\* purge_file_blobs runs while the rows of its version are still there, the
\* others when theirs are gone.
Unused(t) ==
    LET s == job[t].sha
        here == {n \in Names : files[job[t].version][n] = s}
    IN References(s) <= IF Purging(t) THEN Cardinality(here) ELSE 0

CountReferences(t) ==
    /\ At(t, "count") /\ Quiet
    /\ IF Unused(t) THEN Goto(t, "delete") /\ Stay ELSE NextBlob(t)
    /\ UNCHANGED <<rows, stored>>

DeleteBlob(t) ==
    /\ At(t, "delete") /\ Quiet
    /\ stored' = stored \ {job[t].sha}
    /\ NextBlob(t)
    /\ UNCHANGED rows

\* delete_package_data: the foreign keys take memberships and files along.
DropData(t) ==
    LET v == job[t].version IN
    /\ At(t, "drop") /\ Quiet
    /\ data' = data \ {v}
    /\ member' = [member EXCEPT ![v] = [f \in Feeds |-> None]]
    /\ files' = [files EXCEPT ![v] = [n \in Names |-> None]]
    /\ IF job[t].op = "push" THEN Goto(t, "enter") /\ Stay ELSE Fail(t)
    /\ UNCHANGED stored

---------------------------------------------------------------------------
(* What goes wrong                                                         *)

\* A call to the database or the storage fails.  A purge stops there; the
\* sweeps and what follows a detach only log it and go on.
CallFails(t) ==
    /\ Trouble
    /\ \/ pc[t] \in {"check", "store", "last", "drop", "enter"} /\ Fail(t)
       \/ At(t, "next") /\ Purging(t) /\ Fail(t)
       \/ pc[t] \in {"count", "delete"} /\ Purging(t) /\ Fail(t)
       \/ pc[t] \in {"count", "delete"} /\ ~Purging(t) /\ NextBlob(t)
    /\ UNCHANGED <<rows, stored>>

\* The process stops: rows and blobs stay, locks and tasks are gone.
Restart ==
    /\ Trouble
    /\ pc' = [t \in All |-> "idle"]
    /\ job' = [t \in All |-> NoJob]
    /\ vlock' = [v \in Versions |-> None]
    /\ block' = [s \in Blobs |-> None]
    /\ UNCHANGED <<rows, stored>>

Start(t) ==
    \/ \E f \in Feeds, v \in Versions :
          \/ StartPush(t, f, v) \/ StartPurge(t, f, v) \/ StartApprove(t, f, v)
          \/ \E n \in Names, keys \in KeySets :
                \/ StartDetach(t, f, v, n, keys)
                \/ \E s \in Blobs : StartAttach(t, f, v, n, s, keys)

Lock(t) == LockVersion(t) \/ LockBlob(t)

Step(t) ==
    \/ CheckAttach(t) \/ StoreBlob(t) \/ AddFile(t) \/ UndoStore(t) \/ DeleteFile(t)
    \/ CheckPush(t) \/ Enter(t) \/ RemoveMembership(t) \/ CountFeeds(t) \/ Approve(t)
    \/ NextOrphan(t) \/ CheckOrphan(t) \/ TakeBlob(t)
    \/ CountReferences(t) \/ DeleteBlob(t) \/ DropData(t) \/ CallFails(t)

Next ==
    \/ \E t \in Tasks : Start(t)
    \/ StartPass
    \/ \E t \in All : Lock(t) \/ Step(t)
    \/ Restart

Spec == Init /\ [][Next]_vars

\* A task that can take its next step does; the locks queue their waiters in
\* order, so one that comes free again and again is had in the end; the daily
\* pass comes round.
FairSpec ==
    /\ Spec
    /\ \A t \in All : WF_vars(Step(t)) /\ SF_vars(Lock(t))
    /\ WF_vars(StartPass)

---------------------------------------------------------------------------
(* Properties                                                              *)

\* The bytes of every file of every version a feed holds are stored: nothing
\* counts a blob unused between the moment an attach finds it stored and the
\* row that references it (locks.rs lock_blob, hosted.rs attach_locked), and a
\* purge that stops half-way leaves no held version behind.
HeldHasBytes ==
    \A v \in Versions : Holders(v) # {} => BlobsOf(v) \subseteq stored

\* A feed that reviews what it serves keeps the files it approved: while its
\* approval stands they change only by a task that has the version lock and
\* presents the admin key of that very feed (hosted.rs ApprovalGuard).
ApprovedFilesStay ==
    [][\A v \in Versions : files'[v] # files[v] =>
          \A g \in Approved(v) \cap Reviewing :
             vlock[v] # None /\ g \in job[vlock[v]].keys]_vars

\* What a purge, a detach or an attach leaves behind when it stops half-way
\* goes: data no feed holds and blobs no file references (retention.rs
\* sweep_orphans, sweep_unreferenced_blobs).
RemainsGo ==
    /\ \A v \in Versions : Orphan(v) ~> ~Orphan(v)
    /\ \A s \in Blobs :
          (s \in stored /\ References(s) = 0) ~> (s \notin stored \/ References(s) > 0)

\* Every task that takes a version lock and blob locks inside it comes to an
\* end: the two kinds of lock cannot deadlock (locks.rs lock_blob).
EveryTaskEnds == \A t \in All : ~At(t, "idle") ~> At(t, "idle")

\* Every request and pass ends and leaves no file, blob or row without a
\* version (attach, detach, purge_global_data, sweep_orphan_blobs).
AttachmentsSettle == []TypeOK /\ EveryTaskEnds /\ RemainsGo
=============================================================================
