----------------------------- MODULE MCLiveness -----------------------------
(***************************************************************************)
(* What must happen in the end, one machine per behaviour: the store's     *)
(* tasks and its orphan sweep, the syncs of the internalizer, or a         *)
(* migration run again until it is complete.                               *)
(***************************************************************************)
EXTENDS MCVersionStore, SyncState, Migrate

VARIABLE machine

liveVars == <<machine, vars, syncVars, migrateVars>>

MCWatches == <<{1}, {1, 2}>>
\* Two ids, a version that is unlisted and one that does not parse
MCSource == [v \in 1 .. 4 |-> [id |-> IF v = 3 THEN 2 ELSE 1, parses |-> v # 4, unlisted |-> v = 2]]

LiveInit == machine \in {"store", "sync", "migrate"} /\ Init /\ SyncInit /\ MigrateInit

StoreAlone(A) == machine = "store" /\ A /\ UNCHANGED <<machine, syncVars, migrateVars>>
SyncAlone(A) == machine = "sync" /\ A /\ UNCHANGED <<machine, vars, migrateVars>>
MigrateAlone(A) == machine = "migrate" /\ A /\ UNCHANGED <<machine, vars, syncVars>>

LiveNext == StoreAlone(Next) \/ SyncAlone(SyncNext) \/ MigrateAlone(MigrateNext)

\* VersionStore's Fairness, and an operator's timer that starts a sync again
\* and again; a sync that was started runs on, and so does a migration, which
\* the operator starts again.
LiveSpec ==
    /\ LiveInit /\ [][LiveNext]_liveVars
    /\ \A t \in Tasks : WF_liveVars(StoreAlone(Step(t))) /\ SF_liveVars(StoreAlone(LockVersion(t)))
    /\ WF_liveVars(StoreAlone(StartSweep))
    /\ WF_liveVars(SyncAlone(SyncStep))
    /\ WF_liveVars(MigrateAlone(RunStep))

\* Whatever was interrupted, the version lock comes back and orphans go (lock_version,
\* sweep_orphans), syncs settle every watch entry (cli::sync), and an import that is run
\* again and again is complete (migrate's "re-run to retry them").
AllSettles == StoreSettles /\ NewestIsHandled /\ RunsComplete
=============================================================================
