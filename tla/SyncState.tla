----------------------------- MODULE SyncState -----------------------------
(***************************************************************************)
(* `yanuget-internalize sync` and the publishing it leads to: a watch      *)
(* list over one package id (ids do not touch each other), the state file, *)
(* and the target feed with its admin.  What runs between the decision to  *)
(* internalize and the push is behind the Internalize trait: a choice of   *)
(* how it ends.  A dry run writes nothing and is left out.                 *)
(***************************************************************************)
EXTENDS Naturals, Sequences, FiniteSets, FiniteSetsExt

CONSTANTS
    SyncVersions,   \* versions: naturals, in their order
    Watches,        \* the watch list: the set of versions each entry follows
    MaxSyncEvents,      \* bound: what upstream, the admin and the overrides do
    MaxSyncFaults   \* bound: interruptions and failures

ASSUME SyncAssumption ==
    /\ SyncVersions \subseteq Nat /\ IsFiniteSet(SyncVersions)
    /\ Watches \in Seq(SUBSET SyncVersions)

VARIABLES
    listedUp,    \* the versions upstream lists
    overrides,   \* [skip, print]: the versions skipped, and the fingerprint
    feed,        \* [gated, readable]: approval required, readable by the tool
    target,      \* version -> "none", "pending" or "served"
    targetFiles, \* the versions whose files are attached
    stateFile,   \* version -> [status, print]; status "none": no entry
    syncer,      \* the running sync's locals
    everHeld, everServed,   \* history: what the target ever held, and served
    settled,     \* history: saved as pushed, and not excused by a prune since
    unsure,      \* history: versions published without knowing whether served
    syncEvents, syncFaults

upVars == <<listedUp, overrides, feed, syncEvents>>
targetVars == <<target, targetFiles, everHeld, everServed>>
syncVars == <<upVars, targetVars, stateFile, syncer, settled, unsure, syncFaults>>

NoEntry == [status |-> "none", print |-> 0]
NoSync == [pc |-> "idle", state |-> [v \in SyncVersions |-> NoEntry], listed |-> {},
           served |-> {}, over |-> [skip |-> {}, print |-> 0], next |-> 1,
           handled |-> {}, v |-> 0, pushed |-> "none", ended |-> "none"]

SyncInit ==
    /\ listedUp = {} /\ overrides = [skip |-> {}, print |-> 0]
    /\ feed = [gated |-> TRUE, readable |-> TRUE]
    /\ target = [v \in SyncVersions |-> "none"] /\ targetFiles = {}
    /\ stateFile = [v \in SyncVersions |-> NoEntry] /\ syncer = NoSync
    /\ everHeld = {} /\ everServed = {} /\ settled = {} /\ unsure = {}
    /\ syncEvents = 0 /\ syncFaults = 0

SyncFault == syncFaults < MaxSyncFaults /\ syncFaults' = syncFaults + 1
Serving == {v \in SyncVersions : target[v] = "served"}

\* Target::versions and Feed::served: {} when the feed cannot tell.
CanServe(s) == s = IF feed.readable THEN {Serving} ELSE {}

---------------------------------------------------------------------------
\* A sync

\* What the feed serves now is approved, whatever a sync made of it.
ServedApproved(state, served) ==
    [v \in SyncVersions |->
        IF state[v].status # "none" /\ v \in UNION served
        THEN [state[v] EXCEPT !.status = "approved"] ELSE state[v]]

\* cli::sync: lock, State::load, Overrides::load; then what upstream lists and
\* the feed serves.  Without an answer from upstream only the prune is left.
StartSync ==
    /\ syncer.pc = "idle"
    /\ \E served \in {{}, {Serving}}, asked \in BOOLEAN :
          /\ IF asked /\ CanServe(served) THEN UNCHANGED syncFaults
             ELSE SyncFault /\ served = {}
          /\ syncer' = [NoSync EXCEPT
                !.pc = IF asked THEN "entry" ELSE "finish",
                !.state = IF asked THEN ServedApproved(stateFile, served) ELSE stateFile,
                !.listed = listedUp, !.served = served, !.over = overrides]
    /\ UNCHANGED <<upVars, targetVars, stateFile, settled, unsure>>

\* Watch::newest: {} or the set of the newest listed version it follows.
NewestOf(followed, listed) ==
    IF followed \cap listed = {} THEN {} ELSE {Max(followed \cap listed)}

Retried(entry, print) ==
    \/ entry.status \in {"none", "failed"}
    \/ entry.status = "needs-override" /\ entry.print # print

\* One watch entry: nothing in range, handled for an earlier range, skipped,
\* served already, not to be tried, or internalized.
WatchEntry ==
    /\ syncer.pc = "entry" /\ syncer.next <= Len(Watches)
    /\ LET newest == NewestOf(Watches[syncer.next], syncer.listed)
           fresh == newest \ (syncer.handled \cup syncer.over.skip)
           served == fresh \cap UNION syncer.served
           tried == {v \in fresh \ served : Retried(syncer.state[v], syncer.over.print)}
       IN  syncer' = [syncer EXCEPT
               !.next = @ + 1,
               !.handled = @ \cup newest,
               !.state = [v \in SyncVersions |->
                   IF v \in served /\ @[v].status = "none"
                   THEN [status |-> "approved", print |-> 0] ELSE @[v]],
               !.pc = IF tried = {} THEN "entry" ELSE "pipeline",
               !.v = IF tried = {} THEN 0 ELSE CHOOSE v \in tried : TRUE,
               !.pushed = "none", !.ended = "none"]
    /\ UNCHANGED <<upVars, targetVars, stateFile, settled, unsure, syncFaults>>

\* Internalize::internalize up to the push: it fails, needs an override, or
\* has a package to publish.
Pipeline ==
    /\ syncer.pc = "pipeline"
    /\ \/ SyncFault /\ syncer' = [syncer EXCEPT !.pc = "record", !.ended = "failed"]
       \/ /\ UNCHANGED syncFaults
          /\ \/ syncer' = [syncer EXCEPT !.pc = "record", !.ended = "needs-override"]
             \/ syncer' = [syncer EXCEPT !.pc = "push"]
    /\ UNCHANGED <<upVars, targetVars, stateFile, settled, unsure>>

\* Publisher::push: 201 for a version the feed does not have, 409 otherwise.
\* A push whose answer is lost was taken all the same.
PushRelease ==
    /\ syncer.pc = "push"
    /\ LET v == syncer.v
           new == target[v] = "none"
           as == IF feed.gated THEN "pending" ELSE "served"
       IN  /\ target' = [target EXCEPT ![v] = IF new THEN as ELSE @]
           /\ everHeld' = everHeld \cup {v}
           /\ everServed' = everServed \cup {x \in {v} : target'[x] = "served"}
           /\ \/ syncer' = [syncer EXCEPT !.pc = "look", !.pushed = IF new THEN "new" ELSE "there"]
                 /\ UNCHANGED syncFaults
              \/ SyncFault /\ syncer' = [syncer EXCEPT !.pc = "record", !.ended = "failed"]
    /\ UNCHANGED <<upVars, targetFiles, stateFile, settled, unsure>>

\* Publisher::publish after the push: whether files may be attached.
MayAttach(pushed, visibility) == pushed = "new" \/ visibility = "withheld"

\* Publisher::visibility; a version left alone counts as internalized.
LookUp ==
    /\ syncer.pc = "look"
    /\ \E visibility \in {"withheld", "served", "unknown"} :
          /\ IF visibility = "unknown"
             THEN IF feed.readable THEN SyncFault ELSE UNCHANGED syncFaults
             ELSE /\ feed.readable /\ UNCHANGED syncFaults
                  /\ visibility = "served" <=> target[syncer.v] = "served"
          /\ unsure' = unsure \cup {v \in {syncer.v} : visibility = "unknown"}
          /\ syncer' = IF MayAttach(syncer.pushed, visibility)
                       THEN [syncer EXCEPT !.pc = "attach"]
                       ELSE [syncer EXCEPT !.pc = "record", !.ended = "pending"]
    /\ UNCHANGED <<upVars, targetVars, stateFile, settled>>

\* Publisher::attach: the feed refuses a version it does not have and, where
\* it gates, one that is approved.  A file refused or given up fails the package.
AttachFiles ==
    /\ syncer.pc = "attach"
    /\ LET taken == target[syncer.v] = "pending" \/ (~feed.gated /\ target[syncer.v] = "served")
       IN  \/ /\ taken
              /\ targetFiles' = targetFiles \cup {syncer.v}
              /\ syncer' = [syncer EXCEPT !.pc = "record", !.ended = "pending"]
              /\ UNCHANGED syncFaults
           \/ /\ IF taken THEN SyncFault ELSE UNCHANGED syncFaults
              /\ syncer' = [syncer EXCEPT !.pc = "record", !.ended = "failed"]
              /\ UNCHANGED targetFiles
    /\ UNCHANGED <<upVars, target, everHeld, everServed, stateFile, settled, unsure>>

\* A prune may let go of these: skipped, followed by no entry, or older than
\* an approved version that the same entry follows.
Excused(state, skip) ==
    {v \in SyncVersions :
        \/ v \in skip
        \/ \A w \in DOMAIN Watches : v \notin Watches[w]
        \/ \E w \in DOMAIN Watches : \E n \in Watches[w] :
              v \in Watches[w] /\ n > v /\ state[n].status = "approved"}

\* State::save: the whole file or, when it fails, the one before.
SaveState(state, excused) ==
    /\ stateFile' = state
    /\ settled' = (settled \cup {v \in SyncVersions : state[v].status \in {"pending", "approved"}})
                  \ excused

\* The entry of a version just tried, saved at once; a failed save ends the sync.
RecordEntry ==
    /\ syncer.pc = "record"
    /\ LET state == [syncer.state EXCEPT ![syncer.v] =
                        [status |-> syncer.ended, print |-> syncer.over.print]]
       IN  \/ /\ SaveState(state, {})
              /\ syncer' = [syncer EXCEPT !.pc = "entry", !.state = state]
              /\ UNCHANGED syncFaults
           \/ SyncFault /\ syncer' = NoSync /\ UNCHANGED <<stateFile, settled>>
    /\ UNCHANGED <<upVars, targetVars, unsure>>

\* Mutant: the newest approved version goes with the older ones.
PruneApproved(state, skip) ==
    LET kept == {v \in SyncVersions : v \notin skip /\ \E w \in DOMAIN Watches : v \in Watches[w]}
        held(w) == {v \in kept \cap Watches[w] : state[v].status # "none"}
        approved(w) == {v \in held(w) : state[v].status = "approved"}
        old == UNION {{v \in held(w) : approved(w) # {} /\ v <= Max(approved(w))} : w \in DOMAIN Watches}
    IN  [v \in SyncVersions |-> IF v \in kept \ old THEN state[v] ELSE NoEntry]

\* prune: versions skipped or not followed first, then, per entry, those older
\* than its newest approved version.
Prune(state, skip) ==
    LET kept == {v \in SyncVersions : v \notin skip /\ \E w \in DOMAIN Watches : v \in Watches[w]}
        held(w) == {v \in kept \cap Watches[w] : state[v].status # "none"}
        approved(w) == {v \in held(w) : state[v].status = "approved"}
        old == UNION {{v \in held(w) : approved(w) # {} /\ v < Max(approved(w))} : w \in DOMAIN Watches}
    IN  [v \in SyncVersions |-> IF v \in kept \ old THEN state[v] ELSE NoEntry]

FinishSync ==
    /\ syncer.pc = "finish" \/ (syncer.pc = "entry" /\ syncer.next > Len(Watches))
    /\ \/ /\ SaveState(Prune(syncer.state, syncer.over.skip), Excused(syncer.state, syncer.over.skip))
          /\ UNCHANGED syncFaults
       \/ SyncFault /\ UNCHANGED <<stateFile, settled>>
    /\ syncer' = NoSync
    /\ UNCHANGED <<upVars, targetVars, unsure>>

\* The process is stopped anywhere; the lock goes with it.
Interrupted ==
    /\ syncer.pc # "idle" /\ SyncFault /\ syncer' = NoSync
    /\ UNCHANGED <<upVars, targetVars, stateFile, settled, unsure>>

---------------------------------------------------------------------------
\* Upstream, the admin of the target, and who writes the overrides

SyncEvent == syncEvents < MaxSyncEvents /\ syncEvents' = syncEvents + 1
                            /\ UNCHANGED <<stateFile, syncer, settled, unsure, syncFaults>>

SetUpFeed ==
    /\ syncEvents = 0 /\ SyncEvent /\ syncer.pc = "idle" /\ syncFaults = 0
    /\ feed' \in [gated : BOOLEAN, readable : BOOLEAN]
    /\ UNCHANGED <<listedUp, overrides, targetVars>>

UpstreamEvent ==
    /\ SyncEvent
    /\ \E v \in SyncVersions : listedUp' = IF v \in listedUp THEN listedUp \ {v} ELSE listedUp \cup {v}
    /\ UNCHANGED <<overrides, feed, targetVars>>

Overridden ==
    /\ SyncEvent
    /\ \E skip \in {{}} \cup {{v} : v \in SyncVersions} :
          overrides' = [skip |-> skip, print |-> overrides.print + 1]
    /\ UNCHANGED <<listedUp, feed, targetVars>>

TargetAdmin ==
    /\ SyncEvent
    /\ \E v \in SyncVersions :
          /\ target[v] # "none"
          /\ \/ /\ target[v] = "pending"
                /\ target' = [target EXCEPT ![v] = "served"]
                /\ everServed' = everServed \cup {v} /\ UNCHANGED targetFiles
             \/ /\ target' = [target EXCEPT ![v] = "none"]
                /\ targetFiles' = targetFiles \ {v} /\ UNCHANGED everServed
    /\ UNCHANGED <<listedUp, overrides, feed, everHeld>>

SyncStep == StartSync \/ WatchEntry \/ Pipeline \/ PushRelease \/ LookUp \/ AttachFiles \/ RecordEntry \/ FinishSync
SyncNext == SyncStep \/ Interrupted \/ SetUpFeed \/ UpstreamEvent \/ Overridden \/ TargetAdmin

SyncSpec == SyncInit /\ [][SyncNext]_syncVars

---------------------------------------------------------------------------
\* Properties

\* sync.rs: one version an admin deleted or left pending is not pushed again:
\* a version saved as pushed is never pushed to a feed that lacks it, until a
\* prune had a reason to forget it.
NotPushedAgain ==
    [][\A v \in SyncVersions :
          target[v] = "none" /\ target'[v] # "none" => v \notin settled]_syncVars

\* The state file never claims more than happened: what it calls approved was
\* served at some time, and what it calls pending was in the feed.
StateIsTrue ==
    \A v \in SyncVersions :
        /\ stateFile[v].status = "approved" => v \in everServed
        /\ stateFile[v].status = "pending" => v \in everHeld

\* publish.rs: an attach is not reviewed, so files reach a version only while it
\* is pending or from the run that pushed it; never one found in the feed that
\* may be served.
AttachedUnserved ==
    [][\A v \in targetFiles' \ targetFiles :
          target[v] = "pending" \/ (syncer.pushed = "new" /\ ~feed.gated)]_syncVars

\* publish.rs: a run that stopped between the push and the last attach is
\* completed by the next one: a version the state file calls pending has its
\* files, unless the feed could not tell whether it serves it.
CompletedByNext ==
    \A v \in SyncVersions :
        stateFile[v].status = "pending" /\ target[v] = "pending" /\ v \notin unsure
            => v \in targetFiles

\* What every entry follows is settled in the end: its newest listed version is
\* skipped, pushed, waits for an override nobody has changed, or is older than
\* an approved one.
EntryDone(w) ==
    \A n \in NewestOf(Watches[w], listedUp) :
        \/ n \in Excused(stateFile, overrides.skip)
        \/ stateFile[n].status \in {"pending", "approved"}
        \/ stateFile[n].status = "needs-override" /\ stateFile[n].print = overrides.print
NewestIsHandled == <>[](\A w \in DOMAIN Watches : EntryDone(w))

\* Syncs that are interrupted anywhere keep a true account, push nothing twice
\* and attach nothing to what is served (sync.rs, publish.rs).
SyncsAreTrue == [](StateIsTrue /\ CompletedByNext) /\ NotPushedAgain /\ AttachedUnserved
=============================================================================
