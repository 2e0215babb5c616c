------------------------------- MODULE Migrate -------------------------------
(***************************************************************************)
(* `yanuget migrate`: copying every package of a source into one feed, run *)
(* again until it is complete, while the server may run beside it.  How    *)
(* the source's ids are found is in Listings (enumerate_package_ids), how  *)
(* a version is stored in VersionStore: here indexing is one step.         *)
(***************************************************************************)
EXTENDS Naturals, FiniteSets

CONSTANTS
    Source,          \* version -> [id, parses, unlisted]
    Concurrencies,   \* values --concurrency is given
    Overwriting,     \* --overwrite
    MaxSourceFaults, MaxServerSteps   \* bounds

VARIABLES
    copies,       \* version -> {} or {[listed, by]}: what the target has
    deleted,    \* the copies's tombstones
    run,        \* the run at work: its locals
    sourceFaults, serverSteps

migrateVars == <<copies, deleted, run, sourceFaults, serverSteps>>

Versions == DOMAIN Source
Ids == {Source[v].id : v \in Versions}
OfId(id) == {v \in Versions : Source[v].id = id}

\* todo: ids to list; work: items listed; flight: item -> where it is; failed: what the
\* summary lists; imported: versions this run stored.
NoRun == [pc |-> "none", todo |-> {}, work |-> {}, flight |-> {}, failed |-> {}, imported |-> {},
          skipped |-> {}, workers |-> 1]

MigrateInit ==
    /\ copies = [v \in Versions |-> {}] /\ deleted = {}
    /\ run = NoRun /\ sourceFaults = 0 /\ serverSteps = 0

Failing == sourceFaults < MaxSourceFaults /\ sourceFaults' = sourceFaults + 1
Target == <<copies, deleted>>

---------------------------------------------------------------------------
\* Discovery

\* At least one version at a time.
Workers(n) == IF n < 1 THEN 1 ELSE n

\* A failed search or service index ends the run; a page that cannot be read is a
\* failure, and the ids on it may be missing.
Discover ==
    /\ run.pc \in {"none", "ended"}
    /\ \E n \in Concurrencies, missing \in SUBSET Ids :
          /\ run' = [NoRun EXCEPT !.pc = "list", !.todo = Ids \ missing, !.workers = Workers(n),
                                  !.failed = IF missing = {} THEN {} ELSE {<<"page", 0>>}]
          /\ IF missing = {} THEN UNCHANGED sourceFaults ELSE Failing
    /\ UNCHANGED <<Target, serverSteps>>

\* Lister::list: versions that do not parse are passed over, those deleted here or
\* already here are counted, unless the database cannot tell: then they are copied.
\* Which are unlisted is read when something is to copy.
ListId(id) ==
    /\ run.pc = "list" /\ id \in run.todo
    /\ LET good == {v \in OfId(id) : Source[v].parses}
           present == {v \in good : v \in deleted \/ (~Overwriting /\ copies[v] # {})}
       IN  \/ \E seen \in SUBSET present :
                 /\ run' = [run EXCEPT !.todo = @ \ {id}, !.work = @ \cup (good \ seen),
                                       !.skipped = @ \cup seen]
                 /\ IF seen = present THEN UNCHANGED sourceFaults ELSE Failing
           \/ /\ Failing
              /\ run' = [run EXCEPT !.todo = @ \ {id}, !.failed = @ \cup {<<"id", id>>}]
    /\ UNCHANGED <<Target, serverSteps>>

StartCopying ==
    /\ run.pc = "list" /\ run.todo = {}
    /\ run' = [run EXCEPT !.pc = "transfer"]
    /\ UNCHANGED <<Target, sourceFaults, serverSteps>>

---------------------------------------------------------------------------
\* migrate_one, Concurrency of them at once

Download(v) ==
    /\ run.pc = "transfer" /\ v \in run.work /\ Cardinality(run.flight) < run.workers
    /\ \/ /\ run' = [run EXCEPT !.work = @ \ {v}, !.flight = @ \cup {[v |-> v, at |-> "index"]}]
          /\ UNCHANGED sourceFaults
       \/ /\ Failing
          /\ run' = [run EXCEPT !.work = @ \ {v}, !.failed = @ \cup {<<"version", v>>}]
    /\ UNCHANGED <<Target, serverSteps>>

Landed(v, next) == (run.flight \ {[v |-> v, at |-> "index"]}) \cup next

\* Mutant: a version refused as existing is taken as one the feed has.
IndexItemTrusting(v) ==
    /\ [v |-> v, at |-> "index"] \in run.flight
    /\ \/ /\ copies[v] = {} \/ Overwriting
          /\ copies' = [copies EXCEPT ![v] = {[listed |-> TRUE, by |-> "run"]}]
          /\ run' = [run EXCEPT !.imported = @ \cup {v},
                       !.flight = Landed(v, IF Source[v].unlisted THEN {[v |-> v, at |-> "unlist"]} ELSE {})]
          /\ UNCHANGED sourceFaults
       \/ /\ copies[v] # {} /\ ~Overwriting
          /\ run' = [run EXCEPT !.skipped = @ \cup {v}, !.flight = Landed(v, {})]
          /\ UNCHANGED <<copies, sourceFaults>>
       \/ /\ Failing
          /\ run' = [run EXCEPT !.skipped = @ \cup {v}, !.flight = Landed(v, {})]
          /\ UNCHANGED copies
    /\ UNCHANGED <<deleted, serverSteps>>

\* index_package: stored and listed, or refused because the feed has it by now, or
\* refused for good (another build elsewhere, the policy, a disk that is full).
IndexItem(v) ==
    /\ [v |-> v, at |-> "index"] \in run.flight
    /\ \/ /\ copies[v] = {} \/ Overwriting
          /\ copies' = [copies EXCEPT ![v] = {[listed |-> TRUE, by |-> "run"]}]
          /\ run' = [run EXCEPT !.imported = @ \cup {v},
                       !.flight = Landed(v, IF Source[v].unlisted THEN {[v |-> v, at |-> "unlist"]} ELSE {})]
          /\ UNCHANGED sourceFaults
       \/ /\ copies[v] # {} /\ ~Overwriting
          /\ run' = [run EXCEPT !.skipped = @ \cup {v}, !.flight = Landed(v, {})]
          /\ UNCHANGED <<copies, sourceFaults>>
       \/ /\ Failing
          /\ run' = [run EXCEPT !.failed = @ \cup {<<"version", v>>}, !.flight = Landed(v, {})]
          /\ UNCHANGED copies
    /\ UNCHANGED <<deleted, serverSteps>>

\* set_listed, which finds no row when the version was deleted since
UnlistItem(v) ==
    /\ [v |-> v, at |-> "unlist"] \in run.flight
    /\ \/ /\ copies' = [copies EXCEPT ![v] = {[m EXCEPT !.listed = FALSE] : m \in @}]
          /\ run' = [run EXCEPT !.flight = @ \ {[v |-> v, at |-> "unlist"]}]
          /\ UNCHANGED sourceFaults
       \/ /\ Failing
          /\ run' = [run EXCEPT !.flight = @ \ {[v |-> v, at |-> "unlist"]}, !.failed = @ \cup {<<"version", v>>}]
          /\ UNCHANGED copies
    /\ UNCHANGED <<deleted, serverSteps>>

\* is_complete decides the exit code.
EndRun ==
    /\ run.pc = "transfer" /\ run.work = {} /\ run.flight = {}
    /\ run' = [run EXCEPT !.pc = "ended"]
    /\ UNCHANGED <<Target, sourceFaults, serverSteps>>

InterruptRun ==
    /\ run.pc \notin {"none", "ended"}
    /\ Failing
    /\ run' = NoRun
    /\ UNCHANGED <<Target, serverSteps>>

---------------------------------------------------------------------------
\* The server beside it: a push, a delete for good.

PushBeside(v) ==
    /\ serverSteps < MaxServerSteps /\ copies[v] = {}
    /\ serverSteps' = serverSteps + 1
    /\ copies' = [copies EXCEPT ![v] = {[listed |-> TRUE, by |-> "push"]}]
    /\ deleted' = deleted \ {v}
    /\ UNCHANGED <<run, sourceFaults>>

DeleteBeside(v) ==
    /\ serverSteps < MaxServerSteps /\ copies[v] # {}
    /\ serverSteps' = serverSteps + 1
    /\ copies' = [copies EXCEPT ![v] = {}] /\ deleted' = deleted \cup {v}
    /\ UNCHANGED <<run, sourceFaults>>

RunStep ==
    \/ Discover \/ StartCopying \/ EndRun
    \/ \E id \in Ids : ListId(id)
    \/ \E v \in Versions : Download(v) \/ IndexItem(v) \/ UnlistItem(v)

MigrateNext ==
    RunStep \/ InterruptRun \/ \E v \in Versions : PushBeside(v) \/ DeleteBeside(v)

MigrateSpec == MigrateInit /\ [][MigrateNext]_migrateVars

---------------------------------------------------------------------------
Complete == run.pc = "ended" /\ run.failed = {}

\* A run that exits 0 copied everything that can be copied: each version of the source
\* is in the feed, or was deleted from it on purpose; scripts stop the old server on it
\* (MigrateSummary::is_complete, Lister::list, migrate_one).
CompleteIsWhole ==
    Complete => \A v \in Versions : Source[v].parses => copies[v] # {} \/ v \in deleted

\* A version a run stored and did not report is unlisted as at the source, unless a
\* push replaced it (migrate_one).
UnlistedOrReported ==
    run.pc = "ended" =>
        \A v \in run.imported : Source[v].unlisted /\ <<"version", v>> \notin run.failed =>
            \A m \in copies[v] : m.by = "run" => ~m.listed

\* What the source has unlisted is unlisted here once a run was complete: "Versions
\* the source has unlisted are unlisted in the target too" (migrate.rs).  A run that
\* was interrupted, or failed, between the two leaves a version the next one skips.
UnlistedWhenComplete ==
    Complete => \A v \in Versions : Source[v].unlisted => \A m \in copies[v] : m.by = "run" => ~m.listed

\* Running it again always reaches a run that exits 0, once the source has stopped
\* failing, whatever the server did meanwhile (run, main's "re-run to retry them").
RunsComplete == (run.pc # "none") ~> Complete

\* What a run tells is so, whatever was interrupted before and the server did
\* meanwhile (migrate.rs).
ImportsAreTrue == CompleteIsWhole /\ UnlistedOrReported
=============================================================================
