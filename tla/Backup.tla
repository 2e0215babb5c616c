------------------------------- MODULE Backup -------------------------------
(***************************************************************************)
(* `yanuget backup` beside a running server, `yanuget restore` while none  *)
(* runs, and the data lock that keeps the two apart.                       *)
(*                                                                         *)
(* A file stands for a package's payload: its content and its modification *)
(* time are the number of the build it holds (0: there is none), its size  *)
(* is that build's.  The server stores and removes files before it writes  *)
(* the rows, as indexing and purges do.  Symbols are checked by name only  *)
(* and the TLS pair is copied the same way: both are left out.             *)
(***************************************************************************)
EXTENDS Naturals, FiniteSets

CONSTANTS
    Files,
    MaxBuilds, BuildSize,   \* builds that are ever pushed, and the size of each
    MaxPasses,              \* ATTEMPTS
    MaxRuns, MaxStops       \* bound: runs of backup, and interruptions

VARIABLES
    liveRows, liveFiles,    \* the database and the store: file -> build
    builds,                 \* builds pushed so far
    server,                 \* [up, op]: op the row a request has yet to write
    saved,                   \* the backup directory: [manifest, db, files]
    backup,                 \* a run's locals
    restore,                \* [pc, todo, alone]: alone, no backup began since
    runs, stops,
    disturbed               \* history: files that changed, or whose row was behind,
                            \* while some backup ran

backupVars == <<liveRows, liveFiles, builds, server, saved, backup, restore, runs, stops, disturbed>>
live == <<liveRows, liveFiles, builds>>

NoCopy == [build |-> 0, mtime |-> 0]
NoBackup == [pc |-> "idle", pass |-> 0, snap |-> [f \in Files |-> 0], todo |-> {}, seen |-> {},
             fresh |-> {}, missing |-> {}, reading |-> {}]
NoRestore == [pc |-> "idle", todo |-> {}, alone |-> TRUE]

BackupInit ==
    /\ liveRows = [f \in Files |-> 0] /\ liveFiles = [f \in Files |-> 0] /\ builds = 0
    /\ server = [up |-> FALSE, op |-> {}]
    /\ saved = [manifest |-> {}, db |-> {}, files |-> [f \in Files |-> NoCopy]]
    /\ backup = NoBackup /\ restore = NoRestore
    /\ runs = 0 /\ stops = 0 /\ disturbed = {}

Stop == stops < MaxStops /\ stops' = stops + 1
To(p) == backup' = [backup EXCEPT !.pc = p]

---------------------------------------------------------------------------
\* The server, as far as its store and database change

\* run_server takes the data lock before it opens anything.
StartServer ==
    /\ ~server.up /\ restore.pc = "idle"
    /\ server' = [up |-> TRUE, op |-> {}]
    /\ UNCHANGED <<live, saved, backup, restore, runs, stops>>

StopServer ==
    /\ server.up /\ restore.pc = "idle"
    /\ (server.op = {} /\ UNCHANGED stops) \/ (server.op # {} /\ Stop)
    /\ server' = [up |-> FALSE, op |-> {}]
    /\ UNCHANGED <<live, saved, backup, restore, runs>>

\* A push or an overwrite renames the new payload in, a purge removes it; ...
ChangeFile(f, b) ==
    /\ server.up /\ server.op = {}
    /\ b \in {0, builds + 1} /\ b <= MaxBuilds /\ (b = 0 => liveFiles[f] # 0)
    /\ liveFiles' = [liveFiles EXCEPT ![f] = b]
    /\ builds' = IF b = 0 THEN builds ELSE b
    /\ server' = [server EXCEPT !.op = {[file |-> f, build |-> b]}]
    /\ UNCHANGED <<liveRows, saved, backup, restore, runs, stops>>

\* ... the row follows.
ChangeRow ==
    \E op \in server.op :
        /\ liveRows' = [liveRows EXCEPT ![op.file] = op.build]
        /\ server' = [server EXCEPT !.op = {}]
        /\ UNCHANGED <<liveFiles, builds, saved, backup, restore, runs, stops>>

---------------------------------------------------------------------------
\* backup

\* The lock on the directory, and from here on it is not a backup.
StartBackup ==
    /\ backup.pc = "idle" /\ runs < MaxRuns
    /\ runs' = runs + 1
    /\ saved' = [saved EXCEPT !.manifest = {}]
    /\ To("snapshot")
    /\ restore' = [restore EXCEPT !.alone = (restore.pc = "idle")]
    /\ UNCHANGED <<live, server, stops>>

Snapshot ==
    /\ backup.pc = "snapshot"
    /\ backup' = [backup EXCEPT !.pc = "copy", !.pass = @ + 1, !.snap = liveRows,
                                !.todo = Files, !.seen = {}]
    /\ UNCHANGED <<live, server, saved, restore, runs, stops>>

\* same_file: size and modification time
SameFile(f) ==
    LET c == saved.files[f]
    IN  c.build # 0 /\ BuildSize[c.build] = BuildSize[liveFiles[f]] /\ c.mtime = liveFiles[f]

\* copy_tree looks at one file: gone, already there, or to be read
CopyTree(f) ==
    /\ backup.pc = "copy" /\ backup.reading = {} /\ f \in backup.todo
    /\ LET looked == [backup EXCEPT !.todo = @ \ {f}]
       IN  backup' = IF liveFiles[f] = 0 THEN looked
                     ELSE IF SameFile(f) THEN [looked EXCEPT !.seen = @ \cup {f}]
                     ELSE [looked EXCEPT !.reading = {[file |-> f, build |-> liveFiles[f]]}]
    /\ UNCHANGED <<live, server, saved, restore, runs, stops>>

\* copy_file's end: the modification time of what now has the name, and the rename.
\* A file removed meanwhile is skipped.
CopyFile ==
    \E r \in backup.reading :
        LET f == r.file
            gone == liveFiles[f] = 0
        IN  /\ backup' = [backup EXCEPT !.reading = {},
                                        !.seen = IF gone THEN @ ELSE @ \cup {f},
                                        !.fresh = IF gone THEN @ ELSE @ \cup {f}]
            /\ saved' = IF gone THEN saved
                       ELSE [saved EXCEPT !.files[f] = [build |-> r.build, mtime |-> liveFiles[f]]]
            /\ UNCHANGED <<live, server, restore, runs, stops>>

\* verify: what the snapshot references and the copy lacks; sizes always, hashes
\* of the files this run copied
Wrong(f) ==
    LET c == saved.files[f].build  want == backup.snap[f]
    IN  /\ want # 0
        /\ \/ c = 0
           \/ c # 0 /\ BuildSize[c] # BuildSize[want]
           \/ f \in backup.fresh /\ c # want

\* Mutant: what left the store is removed before the new snapshot is in place.
VerifyAndPrune ==
    /\ backup.pc = "copy" /\ backup.todo = {} /\ backup.reading = {}
    /\ To("rename")
    /\ saved' = [saved EXCEPT !.files = [f \in Files |-> IF f \in backup.seen THEN saved.files[f] ELSE NoCopy]]
    /\ UNCHANGED <<live, server, restore, runs, stops>>

Verify ==
    /\ backup.pc = "copy" /\ backup.todo = {} /\ backup.reading = {}
    /\ LET missing == {f \in Files : Wrong(f)}
       IN  IF missing = {} \/ backup.pass = MaxPasses
           THEN backup' = [backup EXCEPT !.pc = "rename", !.missing = missing]
           ELSE To("snapshot")
    /\ UNCHANGED <<live, server, saved, restore, runs, stops>>

\* finish_snapshot and the rename
PlaceSnapshot ==
    /\ backup.pc = "rename" /\ To("prune")
    /\ saved' = [saved EXCEPT !.db = {[rows |-> backup.snap, missing |-> backup.missing, run |-> runs]}]
    /\ UNCHANGED <<live, server, restore, runs, stops>>

\* prune, file by file
Unseen == {f \in Files : saved.files[f].build # 0 /\ f \notin backup.seen}

Prune ==
    /\ backup.pc = "prune"
    /\ \/ \E f \in Unseen : saved' = [saved EXCEPT !.files[f] = NoCopy] /\ UNCHANGED backup
       \/ Unseen = {} /\ To("manifest") /\ UNCHANGED saved
    /\ UNCHANGED <<live, server, restore, runs, stops>>

WriteManifest ==
    /\ backup.pc = "manifest" /\ backup' = NoBackup
    /\ saved' = [saved EXCEPT !.manifest = {backup.missing}]
    /\ UNCHANGED <<live, server, restore, runs, stops>>

BackupInterrupted ==
    /\ backup.pc # "idle" /\ Stop /\ backup' = NoBackup
    /\ UNCHANGED <<live, server, saved, restore, runs>>

---------------------------------------------------------------------------
\* restore --force

\* refuse_while_serving: the data lock, for as long as the command works
StartRestore ==
    /\ restore.pc = "idle" /\ ~server.up
    /\ saved.manifest # {} /\ saved.db # {}
    /\ restore' = [pc |-> "files", todo |-> Files, alone |-> TRUE]
    /\ UNCHANGED <<live, server, saved, backup, runs, stops>>

\* copy_tree with Existing::Replace, then prune: the store becomes the copy
RestoreFile(f) ==
    /\ restore.pc = "files" /\ f \in restore.todo
    /\ liveFiles' = [liveFiles EXCEPT ![f] = saved.files[f].build]
    /\ restore' = [restore EXCEPT !.todo = @ \ {f}]
    /\ UNCHANGED <<liveRows, builds, server, saved, backup, runs, stops>>

\* The database last
RestoreDatabase ==
    /\ restore.pc = "files" /\ restore.todo = {}
    /\ \E copied \in saved.db : liveRows' = copied.rows
    /\ restore' = NoRestore
    /\ UNCHANGED <<liveFiles, builds, server, saved, backup, runs, stops>>

RestoreInterrupted ==
    /\ restore.pc # "idle" /\ Stop /\ restore' = NoRestore
    /\ UNCHANGED <<live, server, saved, backup, runs>>

BackupStep ==
    \/ StartServer \/ StopServer \/ ChangeRow
    \/ \E f \in Files, b \in 0 .. MaxBuilds : ChangeFile(f, b)
    \/ StartBackup \/ Snapshot \/ CopyFile \/ Verify \/ PlaceSnapshot \/ Prune \/ WriteManifest
    \/ \E f \in Files : CopyTree(f) \/ RestoreFile(f)
    \/ BackupInterrupted \/ StartRestore \/ RestoreDatabase \/ RestoreInterrupted

BackupNext ==
    /\ BackupStep
    /\ disturbed' = disturbed \cup
          {f \in Files : /\ backup'.pc # "idle"
                         /\ liveFiles'[f] # liveFiles[f] \/ liveFiles'[f] # liveRows'[f]}

BackupSpec == BackupInit /\ [][BackupNext]_backupVars

---------------------------------------------------------------------------
\* copied.rows[f] is in the copy with the bytes the snapshot records.
Holds(copied, f) == saved.files[f].build = copied.rows[f]

\* The same of every backup that has a manifest: whatever was pushed, replaced or
\* deleted while it ran, each file the snapshot references is there with the
\* recorded bytes or reported: "A file still wrong after that is wrong in the
\* live store too, and is reported, not hidden" (backup.rs 22-23).
BackupIsWhole ==
    saved.manifest # {} =>
        \A copied \in saved.db, f \in Files :
            copied.rows[f] # 0 /\ f \notin copied.missing => Holds(copied, f)

\* A file the server left alone while backups ran is whole in every backup that
\* has a manifest, over runs that were interrupted, passes that were repeated and
\* files that earlier runs had copied (backup, verify, same_file).
UndisturbedIsWhole ==
    saved.manifest # {} =>
        \A copied \in saved.db : \A f \in Files \ disturbed : copied.rows[f] # 0 => Holds(copied, f)

\* The first backup into a directory never passes other bytes off as a file its
\* snapshot references: what any of its passes copied has been hashed (verify).
FirstBackupIsExact ==
    saved.manifest # {} =>
        \A copied \in saved.db, f \in Files :
            copied.run = 1 /\ f \notin copied.missing /\ copied.rows[f] # 0 /\ saved.files[f].build # 0
                => Holds(copied, f)

\* A file leaves a backup only under the snapshot of the run that removes it, so
\* an interrupted run leaves the previous snapshot its files (backup, prune).
OldSnapshotKeepsFiles ==
    [][(\E f \in Files : saved.files[f].build # 0 /\ saved'.files[f].build = 0)
          => \E copied \in saved.db : copied.run = runs]_backupVars

\* A restore that ran through leaves what the backup holds, over restores that
\* were interrupted before and over whatever the store held, unless a backup into
\* the directory it reads began meanwhile (restore).
RestoredIsBackup ==
    [][restore.pc = "files" /\ restore.alone /\ restore'.pc = "idle" /\ stops' = stops =>
          /\ \A f \in Files : liveFiles'[f] = saved.files[f].build
          /\ \E copied \in saved.db : liveRows' = copied.rows]_backupVars

\* No server works on data that is being restored (refuse_while_serving).
NoServerDuringRestore == restore.pc # "idle" => ~server.up

\* What a backup reports complete can be restored: it has every file of its
\* snapshot, an earlier snapshot keeps its own, and no server runs meanwhile
\* (run, verify, restore).
BackupsRestore ==
    /\ [](UndisturbedIsWhole /\ FirstBackupIsExact /\ NoServerDuringRestore)
    /\ OldSnapshotKeepsFiles
    /\ RestoredIsBackup
=============================================================================
