------------------------ MODULE VersionStoreProofs ------------------------
(***************************************************************************)
(* The theorems about VersionStore, for any number of feeds, builds and    *)
(* tasks and any bound on faults, crashes and losses.                      *)
(***************************************************************************)
EXTENDS VersionStore, TLAPS

---------------------------------------------------------------------------
(* The data                                                                *)

\* A membership is never None, and stays a membership when a flag changes.
LEMMA MembershipFacts ==
    ASSUME NEW m \in Memberships
    PROVE  /\ m # None
           /\ m.pending \in BOOLEAN
           /\ \A v \in BOOLEAN :
                 /\ [m EXCEPT !.pending = v] \in Memberships
                 /\ [m EXCEPT !.enabled = v] \in Memberships
                 /\ [m EXCEPT !.pinned = v] \in Memberships
                 /\ [m EXCEPT !.listed = v] \in Memberships
                 /\ [m EXCEPT !.listed = v, !.listing_set = TRUE] \in Memberships
                 /\ [m EXCEPT !.pending = v].pending = v
                 /\ [m EXCEPT !.enabled = v].pending = m.pending
                 /\ [m EXCEPT !.pinned = v].pending = m.pending
                 /\ [m EXCEPT !.listed = v].pending = m.pending
                 /\ [m EXCEPT !.listed = v, !.listing_set = TRUE].pending = m.pending
BY ConstantsAssumption DEF Memberships

\* A new membership has the type of one.
LEMMA NewMemberType ==
    ASSUME NEW f \in Feeds, NEW v \in BOOLEAN
    PROVE  NewMember(f, v) \in Memberships /\ NewMember(f, v).pending = (f \in Gated)
BY DEF NewMember, Memberships

\* The locals of an idle task have their type.
LEMMA NoJobType == NoJob \in Jobs
<1>1. AnyFeed \in Feeds /\ AnyBuild \in Builds
  BY ConstantsAssumption DEF AnyFeed, AnyBuild
<1>2. NewMember(AnyFeed, TRUE) \in Memberships
  BY <1>1, NewMemberType
<1>. QED
  BY <1>1, <1>2 DEF NoJob, Jobs

\* The field types of a job, for the steps that read one.
LEMMA JobFacts ==
    ASSUME NEW j \in Jobs
    PROVE  /\ j.op \in TaskOps \cup {"none", "sweep"}
           /\ j.feed \in Feeds /\ j.target \in Feeds
           /\ j.build \in Builds /\ j.listed \in BOOLEAN
           /\ j.shown \in Builds \cup {None}
           /\ j.prev \in Memberships
           /\ j.backup \in Builds \cup {None}
BY DEF Jobs

\* The jobs the starting operations build.
LEMMA NewJobs ==
    ASSUME NEW f \in Feeds, NEW op \in TaskOps
    PROVE  /\ [NoJob EXCEPT !.op = op, !.feed = f] \in Jobs
           /\ \A b \in Builds :
                 [NoJob EXCEPT !.op = op, !.feed = f, !.build = b] \in Jobs
           /\ \A b \in Builds, v \in BOOLEAN :
                 [NoJob EXCEPT !.op = op, !.feed = f, !.build = b, !.listed = v] \in Jobs
           /\ \A s \in Builds \cup {None} :
                 [NoJob EXCEPT !.op = op, !.feed = f, !.shown = s] \in Jobs
           /\ \A g \in Feeds :
                 [NoJob EXCEPT !.op = op, !.feed = f, !.target = g] \in Jobs
BY NoJobType DEF Jobs

---------------------------------------------------------------------------
(* Moving between steps                                                    *)

\* Going to another step keeps the type of pc.
LEMMA GotoType ==
    ASSUME TypeOK, NEW t \in Tasks, NEW p \in PCs, Goto(t, p)
    PROVE  pc' \in [Tasks -> PCs] /\ lock' \in Tasks \cup {None}
BY DEF Goto, TypeOK

\* Finishing keeps the types of pc and job.
LEMMA FinishType ==
    ASSUME TypeOK, NEW t \in Tasks, Finish(t)
    PROVE  /\ pc' \in [Tasks -> PCs] /\ lock' \in Tasks \cup {None}
           /\ job' \in [Tasks -> Jobs]
BY NoJobType DEF Finish, TypeOK, PCs

\* Where indexing ends keeps the types of pc and job.
LEMMA IndexedType ==
    ASSUME TypeOK, NEW t \in Tasks, Indexed(t)
    PROVE  /\ pc' \in [Tasks -> PCs] /\ lock' \in Tasks \cup {None}
           /\ job' \in [Tasks -> Jobs]
<1>1. CASE job[t].op = "push"
  <2>1. [job[t] EXCEPT !.prev = NoJob.prev, !.backup = None] \in Jobs
    BY NoJobType DEF TypeOK, Jobs
  <2>2. job' = [job EXCEPT ![t] = [job[t] EXCEPT !.prev = NoJob.prev, !.backup = None]]
    BY <1>1, NoJobType DEF Indexed, TypeOK, Jobs
  <2>. QED
    BY <1>1, <2>1, <2>2 DEF Indexed, TypeOK, PCs
<1>2. CASE job[t].op # "push"
  BY <1>2, FinishType DEF Indexed
<1>. QED
  BY <1>1, <1>2

\* Beginning keeps the types of pc and job.
LEMMA BeginType ==
    ASSUME TypeOK, NEW t \in Tasks, NEW j \in Jobs, NEW p \in PCs, Begin(t, j, p)
    PROVE  TypeOK'
BY DEF Begin, Goto, TypeOK, store, bounds

\* A fault is counted up to its bound.
LEMMA FaultType ==
    ASSUME TypeOK, Fault \/ NoFault
    PROVE  faults' \in Nat /\ crashes' \in Nat /\ losses' \in Nat
BY DEF Fault, NoFault, TypeOK, bounds

---------------------------------------------------------------------------
(* Type correctness                                                        *)

\* What a step that only moves its task leaves to show.
LEMMA MoveType ==
    ASSUME TypeOK, UNCHANGED <<store, vetted, logged>>, Fault \/ NoFault,
           pc' \in [Tasks -> PCs], lock' \in Tasks \cup {None},
           job' \in [Tasks -> Jobs]
    PROVE  TypeOK'
BY FaultType DEF TypeOK, store

\* Starting any operation keeps the types.
LEMMA StartTypeOK ==
    ASSUME TypeOK, NEW t \in Tasks, Start(t) \/ StartSweep
    PROVE  TypeOK'
<1>. {"wait", "download"} \subseteq PCs
  BY DEF PCs
<1>. TaskOps = {"push", "mirror", "purge", "planned", "approve", "copy", "move"}
  BY DEF TaskOps
<1>1. ASSUME NEW f \in Feeds, NEW b \in Builds, StartPush(t, f, b)  PROVE TypeOK'
  BY <1>1, NewJobs, BeginType DEF StartPush
<1>2. ASSUME NEW f \in Feeds, NEW v \in BOOLEAN, StartMirror(t, f, v)  PROVE TypeOK'
  BY <1>2, NewJobs, BeginType, ConstantsAssumption DEF StartMirror
<1>3. ASSUME NEW f \in Feeds, StartPurge(t, f)  PROVE TypeOK'
  BY <1>3, NewJobs, BeginType DEF StartPurge
<1>4. ASSUME NEW f \in Feeds, StartPlanned(t, f)  PROVE TypeOK'
  BY <1>4, NewJobs, BeginType DEF StartPlanned
<1>5. ASSUME NEW f \in Feeds, NEW s \in Builds \cup {None}, StartApprove(t, f, s)
      PROVE TypeOK'
  BY <1>5, NewJobs, BeginType DEF StartApprove
<1>6. ASSUME NEW f \in Feeds, NEW g \in Feeds, NEW op \in {"copy", "move"},
             StartTransfer(t, op, f, g)
      PROVE TypeOK'
  BY <1>6, NewJobs, BeginType DEF StartTransfer
<1>7. ASSUME StartSweep  PROVE TypeOK'
  <2>1. [NoJob EXCEPT !.op = "sweep"] \in Jobs
    BY NoJobType DEF Jobs
  <2>. QED
    BY <1>7, <2>1, BeginType, ConstantsAssumption DEF StartSweep
<1>. QED
  BY <1>1, <1>2, <1>3, <1>4, <1>5, <1>6, <1>7 DEF Start

\* Every step of a task keeps the types.
LEMMA StepTypeOK ==
    ASSUME TypeOK, RowInv, NEW t \in Tasks, LockVersion(t) \/ Step(t)
    PROVE  TypeOK'
<1>. LockedPCs \subseteq PCs /\ {"wait", "idle", "clear", "download"} \subseteq PCs
  BY DEF PCs
<1>. {"index", "storeNew", "add", "undo", "storeMissing", "join", "keepAside",
      "store", "swap", "swapSame", "restore", "dropOld", "check", "remove",
      "sweepCheck", "gcFiles", "gcRow", "checkShown", "approve", "transfer",
      "arrive", "leave"} \subseteq LockedPCs
  BY DEF LockedPCs
<1>. USE DEF Goto
<1>j. job[t] \in Jobs
  BY DEF TypeOK
<1>f. job[t].feed \in Feeds /\ job[t].target \in Feeds /\ job[t].build \in Builds
  BY <1>j, JobFacts
<1>1. ASSUME LockVersion(t)  PROVE TypeOK'
  <2>1. FirstStep(job[t].op) \in PCs
    BY DEF FirstStep
  <2>. QED
    BY <1>1, <2>1 DEF LockVersion, TypeOK, store, bounds
<1>2. ASSUME MirrorFetched(t)  PROVE TypeOK'
  BY <1>2, FinishType, MoveType DEF MirrorFetched, TypeOK, NoFault
<1>3. ASSUME IndexOrphan(t) \/ IndexNew(t) \/ IndexJoin(t)  PROVE TypeOK'
  BY <1>3, MoveType DEF IndexOrphan, IndexNew, IndexJoin, TypeOK, NoFault
<1>4. ASSUME IndexReplace(t)  PROVE TypeOK'
  <2>1. member[job[t].feed] \in Memberships
    BY <1>4, <1>f DEF IndexReplace, TypeOK
  <2>2. [job[t] EXCEPT !.prev = member[job[t].feed]] \in Jobs
    BY <1>j, <2>1 DEF Jobs
  <2>. QED
    BY <1>4, <2>2, MoveType DEF IndexReplace, TypeOK, NoFault
<1>5. ASSUME IndexRefuse(t)  PROVE TypeOK'
  BY <1>5, FinishType, MoveType DEF IndexRefuse, NoFault
<1>6. ASSUME StorePayload(t) \/ StoreOver(t) \/ GcFiles(t)  PROVE TypeOK'
  BY <1>6, <1>f DEF StorePayload, StoreOver, GcFiles, TypeOK, bounds
<1>7. ASSUME StoreSidecarFails(t) \/ GcFilesFails(t)  PROVE TypeOK'
  BY <1>7, <1>f, FinishType, FaultType DEF StoreSidecarFails, GcFilesFails, TypeOK
<1>8. ASSUME AddVersion(t)  PROVE TypeOK'
  <2>1. NewMember(job[t].feed, job[t].listed) \in Memberships
    BY <1>j, JobFacts, NewMemberType
  <2>2. row' \in Builds \cup {None} /\ member' \in [Feeds -> Memberships \cup {None}]
    BY <1>8, <1>f, <2>1 DEF AddVersion, TypeOK
  <2>. QED
    BY <1>8, <2>2, IndexedType DEF AddVersion, TypeOK, bounds
<1>9. ASSUME AddVersionFails(t)  PROVE TypeOK'
  BY <1>9, MoveType DEF AddVersionFails, TypeOK
<1>10. ASSUME UndoStore(t)  PROVE TypeOK'
  BY <1>10, FinishType, FaultType DEF UndoStore, TypeOK
<1>11. ASSUME KeepAside(t)  PROVE TypeOK'
  <2>1. [job[t] EXCEPT !.backup = IF HardLinks THEN payload ELSE None] \in Jobs
    BY <1>j DEF Jobs, TypeOK
  <2>. QED
    BY <1>11, <2>1, MoveType DEF KeepAside, TypeOK, NoFault
<1>r. Refreshed(t) \in Memberships
  <2>1. job[t].prev \in Memberships
    BY <1>j, JobFacts
  <2>. QED
    BY <2>1 DEF Refreshed, Memberships
<1>12. ASSUME SwapRows(t)  PROVE TypeOK'
  <2>1. row' \in Builds \cup {None} /\ member' \in [Feeds -> Memberships \cup {None}]
    BY <1>12, <1>f, <1>r DEF SwapRows, TypeOK
  <2>2. /\ pc' \in [Tasks -> PCs] /\ lock' \in Tasks \cup {None}
        /\ job' \in [Tasks -> Jobs]
    BY <1>12, IndexedType DEF SwapRows, TypeOK
  <2>. QED
    BY <1>12, <2>1, <2>2 DEF SwapRows, TypeOK, bounds
<1>13. ASSUME SwapFails(t)  PROVE TypeOK'
  BY <1>13, MoveType DEF SwapFails, TypeOK
<1>14. ASSUME Restore(t)  PROVE TypeOK'
  <2>1. job[t].backup \in Builds \cup {None}
    BY <1>j, JobFacts
  <2>. QED
    BY <1>14, <2>1, FinishType, FaultType DEF Restore, TypeOK
<1>15. ASSUME SwapSame(t)  PROVE TypeOK'
  <2>1. member' \in [Feeds -> Memberships \cup {None}]
    BY <1>15, <1>f, <1>r DEF SwapSame, TypeOK
  <2>2. /\ pc' \in [Tasks -> PCs] /\ lock' \in Tasks \cup {None}
        /\ job' \in [Tasks -> Jobs]
    BY <1>15, IndexedType, FinishType DEF SwapSame
  <2>. QED
    BY <1>15, <2>1, <2>2 DEF SwapSame, TypeOK, bounds
<1>16. ASSUME DropOld(t)  PROVE TypeOK'
  BY <1>16, IndexedType, MoveType DEF DropOld, NoFault
<1>17. ASSUME ClearTombstone(t)  PROVE TypeOK'
  BY <1>17, FinishType DEF ClearTombstone, TypeOK, bounds
<1>18. ASSUME CheckPlanned(t) \/ SweepCheck(t) \/ CheckShown(t)  PROVE TypeOK'
  BY <1>18, FinishType, MoveType DEF CheckPlanned, SweepCheck, CheckShown, TypeOK, NoFault
<1>19. ASSUME Remove(t)  PROVE TypeOK'
  <2>1. /\ member' \in [Feeds -> Memberships \cup {None}]
        /\ tombs' \in SUBSET Feeds
    BY <1>19, <1>f DEF Remove, TypeOK
  <2>. QED
    BY <1>19, <2>1, FinishType DEF Remove, TypeOK, bounds
<1>20. ASSUME GcRow(t)  PROVE TypeOK'
  BY <1>20, FinishType DEF GcRow, TypeOK, bounds
<1>21. ASSUME ApproveMembership(t)  PROVE TypeOK'
  <2>. DEFINE f == job[t].feed
              seen == IF job[t].shown = None THEN row ELSE job[t].shown
  <2>1. CASE member[f] = None
    BY <1>21, <2>1, FinishType, MoveType DEF ApproveMembership, NoFault, store
  <2>2. CASE member[f] # None
    <3>1. member[f] \in Memberships
      BY <2>2, <1>f DEF TypeOK
    <3>2. [member[f] EXCEPT !.pending = FALSE] \in Memberships
      BY <3>1, MembershipFacts
    <3>3. seen \in Builds
      BY <2>2, <1>f, <1>j, JobFacts DEF RowInv, Held, TypeOK
    <3>4. /\ member' = [member EXCEPT ![f] = [member[f] EXCEPT !.pending = FALSE]]
          /\ vetted' = [vetted EXCEPT ![f] = vetted[f] \cup {seen}]
      BY <1>21, <2>2 DEF ApproveMembership
    <3>5. /\ member' \in [Feeds -> Memberships \cup {None}]
          /\ vetted' \in [Feeds -> SUBSET Builds]
      BY <1>f, <3>2, <3>3, <3>4 DEF TypeOK
    <3>. QED
      BY <1>21, <3>5, FinishType DEF ApproveMembership, TypeOK, bounds
  <2>. QED
    BY <2>1, <2>2
<1>22. ASSUME TransferRead(t)  PROVE TypeOK'
  <2>1. CASE row = None \/ row \in Blocked[job[t].target] \/ member[job[t].feed] = None
    BY <1>22, <2>1, FinishType, MoveType DEF TransferRead, NoFault
  <2>2. CASE ~(row = None \/ row \in Blocked[job[t].target] \/ member[job[t].feed] = None)
    <3>1. member[job[t].feed] \in Memberships
      BY <2>2, <1>f DEF TypeOK
    <3>2. [job[t] EXCEPT !.prev = member[job[t].feed]] \in Jobs
      BY <1>j, <3>1 DEF Jobs
    <3>. QED
      BY <1>22, <2>2, <3>2, MoveType DEF TransferRead, TypeOK, NoFault
  <2>. QED
    BY <2>1, <2>2
<1>23. ASSUME Arrive(t)  PROVE TypeOK'
  <2>1. Transferred(t) \in Memberships
    <3>1. job[t].prev \in Memberships
      BY <1>j, JobFacts
    <3>. QED
      BY <3>1 DEF Transferred, Memberships
  <2>2. member' \in [Feeds -> Memberships \cup {None}]
    BY <1>23, <1>f, <2>1 DEF Arrive, TypeOK
  <2>. QED
    BY <1>23, <2>2, FinishType DEF Arrive, TypeOK, bounds
<1>24. ASSUME Leave(t)  PROVE TypeOK'
  BY <1>24, <1>f, FinishType DEF Leave, TypeOK, bounds
<1>25. ASSUME Abort(t)  PROVE TypeOK'
  BY <1>25, FinishType, MoveType DEF Abort
<1>. QED
  BY <1>1, <1>2, <1>3, <1>4, <1>5, <1>6, <1>7, <1>8, <1>9, <1>10, <1>11, <1>12, <1>13,
     <1>14, <1>15, <1>16, <1>17, <1>18, <1>19, <1>20, <1>21, <1>22, <1>23, <1>24, <1>25
     DEF Step

\* Flags, crashes and lost payloads keep the types.
LEMMA EnvironmentTypeOK ==
    ASSUME TypeOK, Flag \/ Crash \/ LosePayload \/ UNCHANGED vars
    PROVE  TypeOK'
<1>1. ASSUME NEW f \in Feeds, NEW m, m \in Memberships, SetFlags(f, m)  PROVE TypeOK'
  BY <1>1 DEF SetFlags, TypeOK, bounds
<1>2. ASSUME NEW f \in Feeds, NEW v \in BOOLEAN,
             SetListed(f, v) \/ SetEnabled(f, v) \/ SetPinned(f, v) \/ FollowUpstream(f, v)
      PROVE TypeOK'
  <2>1. member[f] \in Memberships
    BY <1>2 DEF TypeOK, SetListed, SetEnabled, SetPinned, FollowUpstream, SetFlags
  <2>2. /\ [member[f] EXCEPT !.listed = v, !.listing_set = TRUE] \in Memberships
        /\ [member[f] EXCEPT !.listed = v] \in Memberships
        /\ [member[f] EXCEPT !.enabled = v] \in Memberships
        /\ [member[f] EXCEPT !.pinned = v] \in Memberships
    BY <2>1, MembershipFacts
  <2>. QED
    BY <1>1, <1>2, <2>2 DEF SetListed, SetEnabled, SetPinned, FollowUpstream
<1>3. ASSUME Crash  PROVE TypeOK'
  BY <1>3, NoJobType DEF Crash, TypeOK, store, PCs
<1>4. ASSUME LosePayload  PROVE TypeOK'
  BY <1>4 DEF LosePayload, TypeOK
<1>5. ASSUME UNCHANGED vars  PROVE TypeOK'
  BY <1>5 DEF vars, store, bounds, TypeOK
<1>. QED
  BY <1>2, <1>3, <1>4, <1>5 DEF Flag

---------------------------------------------------------------------------
(* The version lock                                                        *)

\* Only the holder of the lock is inside a locked sequence.
LEMMA OnlyHolder ==
    ASSUME TypeOK, LockInv, NEW t \in Tasks, pc[t] \in LockedPCs
    PROVE  lock = t /\ \A u \in Tasks \ {t} : pc[u] \notin LockedPCs
BY DEF LockInv

\* A task outside the locked sequences owes the invariant nothing.
LEMMA OutsidePhase ==
    ASSUME NEW u \in Tasks, pc'[u] \notin LockedPCs
    PROVE  Phase(u)' /\ Match(u)' /\ pc'[u] \notin Between
BY DEF Phase, Match, At, LockedPCs, Between

\* A locked step to another one: only the mover's own obligations remain.
LEMMA Moved ==
    ASSUME TypeOK, LockInv, NEW t \in Tasks, pc[t] \in LockedPCs,
           NEW p \in LockedPCs, Goto(t, p)
    PROVE  /\ LockInv' /\ pc'[t] = p
           /\ \A u \in Tasks \ {t} : Phase(u)' /\ Match(u)' /\ pc'[u] \notin Between
<1>1. lock = t /\ \A u \in Tasks \ {t} : pc[u] \notin LockedPCs
  BY OnlyHolder
<1>2. pc'[t] = p /\ lock' = t /\ \A u \in Tasks \ {t} : pc'[u] = pc[u]
  BY <1>1 DEF Goto, TypeOK
<1>3. LockInv'
  BY <1>1, <1>2 DEF LockInv
<1>. QED
  BY <1>1, <1>2, <1>3, OutsidePhase

\* A locked sequence that ends leaves nobody inside one.
LEMMA Ended ==
    ASSUME TypeOK, LockInv, NEW t \in Tasks, pc[t] \in LockedPCs,
           Finish(t) \/ Indexed(t)
    PROVE  LockInv' /\ PhaseInv' /\ \A u \in Tasks : Match(u)' /\ pc'[u] \notin Between
<1>1. lock = t /\ \A u \in Tasks \ {t} : pc[u] \notin LockedPCs
  BY OnlyHolder
<1>2. /\ pc'[t] \in {"idle", "clear"} /\ lock' = None
      /\ \A u \in Tasks \ {t} : pc'[u] = pc[u]
  BY <1>1 DEF Finish, Indexed, TypeOK
<1>3. \A u \in Tasks : pc'[u] \notin LockedPCs
  BY <1>1, <1>2 DEF LockedPCs
<1>4. LockInv'
  BY <1>2, <1>3, ConstantsAssumption DEF LockInv
<1>. QED
  BY <1>3, <1>4, OutsidePhase DEF PhaseInv

\* Between the two stores' writes is only the holder, so elsewhere they agree.
LEMMA Agreement ==
    ASSUME IInv, NEW t \in Tasks, pc[t] \in LockedPCs \ Between, Calm, Held # {}
    PROVE  payload \in {None, row}
<1>1. \A u \in Tasks : pc[u] \notin Between
  BY OnlyHolder DEF IInv, Between, LockedPCs
<1>. QED
  BY <1>1 DEF IInv, MatchInv

\* A step that writes neither store keeps what is said of the stores alone.
LEMMA StoresKept ==
    ASSUME IInv, UNCHANGED <<row, payload, member, vetted, logged>>, Fault \/ NoFault
    PROVE  /\ RowInv' /\ PayloadInv' /\ GateHolds'
           /\ Calm' = Calm /\ Held' = Held /\ Approved' = Approved
           /\ losses' = losses /\ crashes' = crashes
BY DEF IInv, RowInv, PayloadInv, GateHolds, Calm, Held, Approved, Fault, NoFault, bounds

\* A sequence that ends without writing to a store.
LEMMA EndedQuietly ==
    ASSUME IInv, NEW t \in Tasks, pc[t] \in LockedPCs \ Between,
           Finish(t) \/ Indexed(t),
           UNCHANGED <<row, payload, member, vetted, logged>>, Fault \/ NoFault, TypeOK'
    PROVE  IInv'
<1>1. LockInv' /\ PhaseInv' /\ \A u \in Tasks : Match(u)' /\ pc'[u] \notin Between
  BY Ended DEF IInv
<1>2. MatchInv'
  BY <1>1, Agreement, StoresKept DEF MatchInv
<1>. QED
  BY <1>1, <1>2, StoresKept DEF IInv

\* A step outside the locked sequences that writes to neither store.
LEMMA OutsideQuietly ==
    ASSUME IInv, NEW t \in Tasks, pc[t] \notin LockedPCs, pc'[t] \notin LockedPCs,
           lock' = lock, \A u \in Tasks \ {t} : pc'[u] = pc[u] /\ job'[u] = job[u],
           UNCHANGED <<row, payload, member, vetted, logged>>, Fault \/ NoFault, TypeOK'
    PROVE  IInv'
<1>1. LockInv'
  BY DEF IInv, LockInv
<1>2. \A u \in Tasks \ {t} :
         /\ Phase(u)' <=> Phase(u)
         /\ Match(u)' <=> Match(u)
         /\ pc'[u] \in Between <=> pc[u] \in Between
  BY StoresKept DEF Phase, Match, At, Same, MayReplace, PendingOnly, Mode
<1>3. Phase(t)' /\ Match(t)' /\ pc'[t] \notin Between /\ pc[t] \notin Between
  BY OutsidePhase DEF Between, LockedPCs
<1>4. PhaseInv'
  BY <1>2, <1>3 DEF IInv, PhaseInv
<1>5. MatchInv'
  BY <1>2, <1>3, StoresKept DEF IInv, MatchInv
<1>. QED
  BY <1>1, <1>4, <1>5, StoresKept DEF IInv

\* A locked step to another one that writes to neither store.
LEMMA MovedQuietly ==
    ASSUME IInv, NEW t \in Tasks, pc[t] \in LockedPCs, NEW p \in LockedPCs, Goto(t, p),
           UNCHANGED <<row, payload, member, vetted, logged>>, Fault \/ NoFault, TypeOK',
           Phase(t)', Calm => Match(t)', pc[t] \in Between => p \in Between
    PROVE  IInv'
<1>1. /\ LockInv' /\ pc'[t] = p
      /\ \A u \in Tasks \ {t} : Phase(u)' /\ Match(u)' /\ pc'[u] \notin Between
  BY Moved DEF IInv
<1>2. PhaseInv'
  BY <1>1 DEF PhaseInv
<1>3. MatchInv'
  BY <1>1, Agreement, StoresKept DEF MatchInv
<1>. QED
  BY <1>1, <1>2, <1>3, StoresKept DEF IInv

---------------------------------------------------------------------------
(* The inductive invariant, operation by operation                         *)

\* A task that starts has found out nothing yet.
LEMMA StartInductive ==
    ASSUME IInv, NEW t \in Tasks, Start(t) \/ StartSweep
    PROVE  IInv'
<1>1. TypeOK'
  BY StartTypeOK DEF IInv
<1>2. ASSUME NEW u \in Tasks, NEW j, NEW p, p \in {"wait", "download"}, Begin(u, j, p)
      PROVE  IInv'
  <2>1. pc[u] \notin LockedPCs /\ pc'[u] \notin LockedPCs
    BY <1>2 DEF Begin, Goto, At, IInv, TypeOK, LockedPCs
  <2>2. lock' = lock /\ \A v \in Tasks \ {u} : pc'[v] = pc[v] /\ job'[v] = job[v]
    BY <1>2 DEF Begin, Goto, IInv, TypeOK
  <2>3. UNCHANGED <<row, payload, member, vetted, logged>> /\ NoFault
    BY <1>2 DEF Begin, store, NoFault
  <2>. QED
    BY <1>1, <2>1, <2>2, <2>3, OutsideQuietly
<1>. QED
  BY <1>2, ConstantsAssumption
     DEF Start, StartPush, StartMirror, StartPurge, StartPlanned, StartApprove,
         StartTransfer, StartSweep

\* A task that takes the lock is the only one at a locked step.
LEMMA LockInductive ==
    ASSUME IInv, NEW t \in Tasks, LockVersion(t)
    PROVE  IInv'
<1>1. TypeOK'
  BY StepTypeOK DEF IInv
<1>2. \A u \in Tasks : pc[u] \notin LockedPCs
  BY ConstantsAssumption DEF LockVersion, IInv, LockInv
<1>3. /\ pc'[t] \in {"index", "remove", "check", "sweepCheck", "checkShown", "transfer"}
      /\ lock' = t
      /\ \A u \in Tasks \ {t} : pc'[u] = pc[u]
  BY DEF LockVersion, IInv, TypeOK, FirstStep
<1>4. LockInv'
  BY <1>2, <1>3 DEF LockInv, LockedPCs
<1>5. Phase(t)' /\ Match(t)' /\ pc'[t] \notin Between
  BY <1>3 DEF Phase, Match, At, Between
<1>6. \A u \in Tasks \ {t} : Phase(u)' /\ Match(u)' /\ pc'[u] \notin Between
  BY <1>2, <1>3, OutsidePhase
<1>7. UNCHANGED <<row, payload, member, vetted, logged>> /\ NoFault
  BY DEF LockVersion, store, NoFault
<1>8. \A u \in Tasks : pc[u] \notin Between
  BY <1>2 DEF LockedPCs, Between
<1>9. PhaseInv' /\ MatchInv'
  BY <1>5, <1>6, <1>7, <1>8, StoresKept DEF PhaseInv, MatchInv, IInv
<1>. QED
  BY <1>1, <1>4, <1>7, <1>9, StoresKept DEF IInv

\* Steps that end a sequence, or leave the lock alone, and write no store.
LEMMA QuietInductive ==
    ASSUME IInv, NEW t \in Tasks,
           \/ MirrorFetched(t) \/ IndexRefuse(t) \/ DropOld(t)
           \/ ClearTombstone(t) \/ Abort(t)
    PROVE  IInv'
<1>1. TypeOK'
  BY StepTypeOK DEF IInv, Step
<1>2. \/ pc[t] \in {"download", "clear"}
      \/ pc[t] \in LockedPCs \ Between
  BY DEF MirrorFetched, IndexRefuse, DropOld, ClearTombstone, Abort, AbortPCs,
         LockedPCs, Between, At
<1>3. UNCHANGED <<row, payload, member, vetted, logged>> /\ (Fault \/ NoFault)
  BY DEF MirrorFetched, IndexRefuse, DropOld, ClearTombstone, Abort, store, NoFault
<1>4. CASE pc[t] \in LockedPCs \ Between
  <2>1. Finish(t) \/ Indexed(t)
    BY <1>4 DEF MirrorFetched, IndexRefuse, DropOld, ClearTombstone, Abort, At, LockedPCs
  <2>. QED
    BY <1>1, <1>3, <1>4, <2>1, EndedQuietly
<1>5. CASE pc[t] \in {"download", "clear"}
  <2>1. pc[t] \notin LockedPCs
    BY <1>5 DEF LockedPCs
  <2>2. lock # t
    BY <2>1 DEF IInv, LockInv
  <2>3. (Goto(t, "wait") /\ UNCHANGED job) \/ Finish(t)
    BY <1>5 DEF MirrorFetched, IndexRefuse, DropOld, ClearTombstone, Abort, At
  <2>4. /\ pc'[t] \notin LockedPCs /\ lock' = lock
        /\ \A u \in Tasks \ {t} : pc'[u] = pc[u] /\ job'[u] = job[u]
    BY <2>2, <2>3 DEF Goto, Finish, IInv, TypeOK, LockedPCs
  <2>. QED
    BY <1>1, <1>3, <2>1, <2>4, OutsideQuietly
<1>. QED
  BY <1>2, <1>4, <1>5

\* The decisions of index_inner under the lock.
LEMMA IndexInductive ==
    ASSUME IInv, NEW t \in Tasks,
           IndexOrphan(t) \/ IndexNew(t) \/ IndexJoin(t) \/ IndexReplace(t)
    PROVE  IInv'
<1>. pc[t] = "index" /\ pc[t] \in LockedPCs \ Between
  BY DEF IndexOrphan, IndexNew, IndexJoin, IndexReplace, At, LockedPCs, Between
<1>1. TypeOK'
  BY StepTypeOK DEF IInv, Step
<1>2. UNCHANGED <<row, payload, member, vetted, logged>> /\ NoFault
  BY DEF IndexOrphan, IndexNew, IndexJoin, IndexReplace, store, NoFault
<1>3. /\ Held' = Held /\ Approved' = Approved /\ losses' = losses
      /\ row' = row /\ payload' = payload /\ member' = member
  BY <1>2, StoresKept
<1>4. PICK p \in {"gcFiles", "storeNew", "storeMissing", "join", "swapSame", "keepAside"} :
         Goto(t, p)
  BY DEF IndexOrphan, IndexNew, IndexJoin, IndexReplace
<1>5. pc'[t] = p /\ p \in LockedPCs
  BY <1>4 DEF Goto, IInv, TypeOK, LockedPCs
<1>6. Match(t)'
  BY <1>5 DEF Match, At, Between
<1>7. ASSUME Phase(t)'  PROVE IInv'
  BY <1>1, <1>2, <1>4, <1>5, <1>6, <1>7, MovedQuietly DEF Between
<1>8. CASE IndexOrphan(t)
  BY <1>3, <1>5, <1>7, <1>8 DEF IndexOrphan, Goto, IInv, TypeOK, Orphan, Phase, At
<1>9. CASE IndexNew(t)
  BY <1>3, <1>5, <1>7, <1>9 DEF IndexNew, Goto, IInv, TypeOK, Phase, At
<1>10. CASE IndexJoin(t)
  <2>1. pc'[t] = (IF payload = None THEN "storeMissing" ELSE "join") /\ job' = job
    BY <1>10 DEF IndexJoin, Goto, IInv, TypeOK
  <2>2. Phase(t)'
    BY <1>3, <1>10, <2>1 DEF IndexJoin, Phase, At, Same
  <2>. QED
    BY <1>7, <2>2
<1>11. CASE IndexReplace(t)
  <2>1. /\ pc'[t] = (IF Same(t) /\ payload # None THEN "swapSame" ELSE "keepAside")
        /\ job'[t] = [job[t] EXCEPT !.prev = member[job[t].feed]]
    BY <1>11 DEF IndexReplace, Goto, IInv, TypeOK
  <2>2. /\ job'[t].op = job[t].op /\ job'[t].feed = job[t].feed
        /\ job'[t].build = job[t].build /\ job'[t].prev = member[job[t].feed]
    BY <2>1 DEF IInv, TypeOK, Jobs
  <2>3. Same(t)' = Same(t) /\ MayReplace(t)' = MayReplace(t)
    BY <1>3, <2>2 DEF Same, MayReplace, PendingOnly, Mode
  <2>4. Phase(t)'
    BY <1>3, <1>11, <2>1, <2>2, <2>3 DEF IndexReplace, Phase, At
  <2>. QED
    BY <1>7, <2>4
<1>. QED
  BY <1>8, <1>9, <1>10, <1>11

\* Storing a new version, or the missing bytes of a known one.
LEMMA StoreInductive ==
    ASSUME IInv, NEW t \in Tasks,
           \/ StorePayload(t) \/ StoreSidecarFails(t)
           \/ AddVersionFails(t) \/ UndoStore(t)
    PROVE  IInv'
<1>1. TypeOK'
  BY StepTypeOK DEF IInv, Step
<1>2. job[t].build \in Builds /\ job[t].build # None
  BY ConstantsAssumption, JobFacts DEF IInv, TypeOK
<1>3. Phase(t)
  BY DEF IInv, PhaseInv
<1>4. CASE StorePayload(t)
  <2>1. /\ pc[t] \in {"storeNew", "storeMissing"} /\ pc[t] \in LockedPCs \ Between
        /\ UNCHANGED <<row, member, vetted, logged, crashes, losses>> /\ job' = job
        /\ payload' = job[t].build
    BY <1>4 DEF StorePayload, LockedPCs, Between, bounds
  <2>2. PICK p \in {"add", "join"} :
           Goto(t, p) /\ (p = "add" <=> pc[t] = "storeNew")
    BY <1>4 DEF StorePayload, At
  <2>3. /\ LockInv' /\ pc'[t] = p
        /\ \A u \in Tasks \ {t} : Phase(u)' /\ Match(u)' /\ pc'[u] \notin Between
    BY <2>1, <2>2, Moved DEF IInv, LockedPCs
  <2>4. Held' = Held /\ Approved' = Approved
    BY <2>1 DEF Held, Approved
  <2>5. Phase(t)'
    BY <1>2, <1>3, <2>1, <2>2, <2>3, <2>4 DEF Phase, At, Same
  <2>6. Match(t)' /\ pc'[t] \notin Between
    BY <2>1, <2>2, <2>3 DEF Match, At, Between
  <2>7. Held # {} => payload' = row'
    BY <1>3, <2>1 DEF Phase, At, Same, IInv, RowInv
  <2>8. PhaseInv' /\ MatchInv'
    BY <2>3, <2>4, <2>5, <2>6, <2>7 DEF PhaseInv, MatchInv
  <2>9. RowInv' /\ PayloadInv' /\ GateHolds'
    BY <1>2, <2>1, <2>4 DEF IInv, RowInv, PayloadInv, GateHolds
  <2>. QED
    BY <1>1, <2>3, <2>8, <2>9 DEF IInv
<1>5. CASE StoreSidecarFails(t)
  <2>1. /\ pc[t] \in {"storeNew", "storeMissing"} /\ pc[t] \in LockedPCs \ Between
        /\ UNCHANGED <<row, member, vetted, logged, crashes, losses>>
        /\ payload' = job[t].build /\ Finish(t)
    BY <1>5 DEF StoreSidecarFails, LockedPCs, Between, Fault
  <2>2. LockInv' /\ PhaseInv' /\ \A u \in Tasks : Match(u)' /\ pc'[u] \notin Between
    BY <2>1, Ended DEF IInv
  <2>3. Held' = Held /\ Approved' = Approved
    BY <2>1 DEF Held, Approved
  <2>4. Held # {} => payload' = row'
    BY <1>3, <2>1 DEF Phase, At, Same, IInv, RowInv
  <2>5. MatchInv' /\ RowInv' /\ PayloadInv' /\ GateHolds'
    BY <1>2, <2>1, <2>2, <2>3, <2>4 DEF IInv, MatchInv, RowInv, PayloadInv, GateHolds
  <2>. QED
    BY <1>1, <2>2, <2>5 DEF IInv
<1>6. CASE AddVersionFails(t)
  <2>1. /\ pc[t] = "add" /\ pc[t] \in LockedPCs \ Between /\ Goto(t, "undo")
        /\ UNCHANGED <<row, payload, member, vetted, logged>> /\ Fault
    BY <1>6 DEF AddVersionFails, LockedPCs, Between, At, store
  <2>2. pc'[t] = "undo" /\ "undo" \in LockedPCs
    BY <2>1 DEF Goto, IInv, TypeOK, LockedPCs
  <2>3. Phase(t)' /\ Match(t)'
    BY <1>3, <2>1, <2>2 DEF Phase, Match, At, Between
  <2>. QED
    BY <1>1, <2>1, <2>2, <2>3, MovedQuietly
<1>7. CASE UndoStore(t)
  <2>1. /\ pc[t] = "undo" /\ pc[t] \in LockedPCs \ Between /\ Finish(t)
        /\ UNCHANGED <<row, member, vetted, logged, crashes, losses>>
    BY <1>7 DEF UndoStore, LockedPCs, Between, At, Fault, NoFault, bounds
  <2>2. LockInv' /\ PhaseInv' /\ \A u \in Tasks : Match(u)' /\ pc'[u] \notin Between
    BY <2>1, Ended DEF IInv
  <2>3. Held = {} /\ Held' = {} /\ Approved' = {}
    BY <1>3, <2>1 DEF Phase, IInv, RowInv, Held, Approved
  <2>4. MatchInv' /\ RowInv' /\ PayloadInv' /\ GateHolds'
    BY <2>2, <2>3 DEF MatchInv, RowInv, PayloadInv, GateHolds
  <2>. QED
    BY <1>1, <2>2, <2>4 DEF IInv
<1>. QED
  BY <1>4, <1>5, <1>6, <1>7

\* add_version: the row, unless it is there, and the membership.
LEMMA AddVersionInductive ==
    ASSUME IInv, NEW t \in Tasks, AddVersion(t)
    PROVE  IInv'
<1>. DEFINE f == job[t].feed
            new == NewMember(f, job[t].listed)
<1>1. TypeOK'
  BY StepTypeOK DEF IInv, Step
<1>2. f \in Feeds /\ new \in Memberships /\ new # None /\ new.pending = (f \in Gated)
      /\ job[t].build \in Builds /\ job[t].build # None
  BY ConstantsAssumption, JobFacts, NewMemberType DEF IInv, TypeOK
<1>3. Phase(t)
  BY DEF IInv, PhaseInv
<1>4. /\ pc[t] \in {"add", "join"} /\ pc[t] \in LockedPCs \ Between /\ Indexed(t)
      /\ row' = (IF row = None THEN job[t].build ELSE row)
      /\ member' = [member EXCEPT ![f] = new]
      /\ UNCHANGED <<payload, vetted, logged, crashes, losses>>
  BY DEF AddVersion, LockedPCs, Between, bounds
<1>5. LockInv' /\ PhaseInv' /\ \A u \in Tasks : Match(u)' /\ pc'[u] \notin Between
  BY <1>4, Ended DEF IInv
<1>6. row' = job[t].build /\ (row # None => row' = row)
  BY <1>3, <1>4 DEF Phase, Same, At
<1>7. Held' = Held \cup {f} /\ Approved' \subseteq Approved \cup ({f} \ Gated)
  BY <1>2, <1>4 DEF Held, Approved, IInv, TypeOK
<1>8. RowInv' /\ PayloadInv'
  BY <1>2, <1>3, <1>4, <1>6 DEF RowInv, PayloadInv, Phase, At
<1>9. GateHolds'
  <2>1. Approved \subseteq Held
    BY DEF Approved
  <2>2. Approved # {} => row' = row
    BY <1>6, <2>1 DEF IInv, RowInv
  <2>. QED
    BY <1>4, <1>7, <2>2 DEF IInv, GateHolds
<1>10. Calm' => payload' \in {None, row'}
  <2>1. CASE pc[t] = "add"
    BY <1>4, <1>6, <2>1 DEF IInv, MatchInv, Match, At, Calm
  <2>2. CASE pc[t] = "join"
    <3>1. Held # {}
      BY <1>3, <2>2 DEF Phase
    <3>2. row # None
      BY <3>1 DEF IInv, RowInv
    <3>. QED
      BY <1>4, <1>6, <3>1, <3>2, Agreement DEF Calm
  <2>. QED
    BY <1>4, <2>1, <2>2
<1>. QED
  BY <1>1, <1>5, <1>8, <1>9, <1>10 DEF IInv, MatchInv

\* overwrite up to the swap, and its way back.
LEMMA OverwriteInductive ==
    ASSUME IInv, NEW t \in Tasks,
           KeepAside(t) \/ StoreOver(t) \/ SwapFails(t) \/ Restore(t)
    PROVE  IInv'
<1>1. TypeOK'
  BY StepTypeOK DEF IInv, Step
<1>2. job[t].build \in Builds /\ job[t].build # None
  BY ConstantsAssumption, JobFacts DEF IInv, TypeOK
<1>3. Phase(t)
  BY DEF IInv, PhaseInv
<1>4. CASE KeepAside(t)
  <2>1. /\ pc[t] = "keepAside" /\ pc[t] \in LockedPCs \ Between /\ Goto(t, "store")
        /\ UNCHANGED <<row, payload, member, vetted, logged>> /\ NoFault
        /\ "store" \in LockedPCs
    BY <1>4 DEF KeepAside, LockedPCs, Between, At, store, NoFault
  <2>2. /\ pc'[t] = "store"
        /\ job'[t] = [job[t] EXCEPT !.backup = IF HardLinks THEN payload ELSE None]
    BY <1>4 DEF KeepAside, Goto, IInv, TypeOK
  <2>3. /\ job'[t].op = job[t].op /\ job'[t].feed = job[t].feed
        /\ job'[t].build = job[t].build /\ job'[t].prev = job[t].prev
        /\ job'[t].backup \in {None, payload}
    BY <2>2 DEF IInv, TypeOK, Jobs
  <2>4. Held' = Held /\ Approved' = Approved
    BY <2>1, StoresKept
  <2>5. Same(t)' = Same(t) /\ MayReplace(t)' = MayReplace(t)
    BY <2>1, <2>3, <2>4 DEF Same, MayReplace, PendingOnly, Mode
  <2>6. Phase(t)'
    BY <1>3, <2>1, <2>2, <2>3, <2>5 DEF Phase, At
  <2>7. Calm => Match(t)'
    <3>1. job[t].feed \in Held
      BY <1>3, <2>1, JobFacts DEF Phase, Held, IInv, TypeOK
    <3>2. Calm => payload \in {None, row}
      BY <2>1, <3>1, Agreement
    <3>. QED
      BY <2>1, <2>2, <2>3, <3>2 DEF Match, At, Between
  <2>. QED
    BY <1>1, <2>1, <2>6, <2>7, MovedQuietly
<1>5. CASE StoreOver(t)
  <2>1. /\ pc[t] = "store" /\ pc[t] \in LockedPCs \ Between /\ Goto(t, "swap")
        /\ UNCHANGED <<row, member, vetted, logged, crashes, losses>> /\ job' = job
        /\ payload' = job[t].build /\ "swap" \in LockedPCs
    BY <1>5 DEF StoreOver, LockedPCs, Between, At, bounds
  <2>2. /\ LockInv' /\ pc'[t] = "swap"
        /\ \A u \in Tasks \ {t} : Phase(u)' /\ Match(u)' /\ pc'[u] \notin Between
    BY <2>1, Moved DEF IInv
  <2>3. Held' = Held /\ Approved' = Approved /\ Calm' = Calm
    BY <2>1 DEF Held, Approved, Calm
  <2>4. MayReplace(t)' = MayReplace(t)
    BY <2>1, <2>3 DEF Same, MayReplace, PendingOnly, Mode
  <2>5. Phase(t)'
    BY <1>3, <2>1, <2>2, <2>4 DEF Phase, At
  <2>6. Calm => Match(t)'
    BY <2>1, <2>2 DEF IInv, MatchInv, Match, At, Between
  <2>7. PhaseInv' /\ MatchInv'
    BY <2>2, <2>3, <2>5, <2>6 DEF PhaseInv, MatchInv, Between
  <2>8. RowInv' /\ PayloadInv' /\ GateHolds'
    BY <1>2, <2>1, <2>3 DEF IInv, RowInv, PayloadInv, GateHolds
  <2>. QED
    BY <1>1, <2>2, <2>7, <2>8 DEF IInv
<1>6. CASE SwapFails(t)
  <2>1. /\ pc[t] = "swap" /\ pc[t] \in LockedPCs /\ Goto(t, "restore") /\ job' = job
        /\ UNCHANGED <<row, payload, member, vetted, logged>> /\ (Fault \/ NoFault)
        /\ "restore" \in LockedPCs
    BY <1>6 DEF SwapFails, LockedPCs, At, store
  <2>2. pc'[t] = "restore"
    BY <2>1 DEF Goto, IInv, TypeOK
  <2>3. Held' = Held /\ Approved' = Approved
    BY <2>1, StoresKept
  <2>4. MayReplace(t)' = MayReplace(t)
    BY <2>1, <2>3 DEF Same, MayReplace, PendingOnly, Mode
  <2>5. Phase(t)'
    BY <1>3, <2>1, <2>2, <2>4 DEF Phase, At
  <2>6. Calm => Match(t)'
    BY <2>1, <2>2 DEF IInv, MatchInv, Match, At, Between
  <2>. QED
    BY <1>1, <2>1, <2>5, <2>6, MovedQuietly DEF Between
<1>7. CASE Restore(t)
  <2>1. /\ pc[t] = "restore" /\ pc[t] \in LockedPCs /\ Finish(t)
        /\ UNCHANGED <<row, member, vetted, crashes, losses>>
        /\ \/ payload' = job[t].backup /\ job[t].backup # None /\ logged' = logged
           \/ payload' = payload /\ logged'
    BY <1>7 DEF Restore, LockedPCs, At, Fault, NoFault, bounds
  <2>2. LockInv' /\ PhaseInv' /\ \A u \in Tasks : Match(u)' /\ pc'[u] \notin Between
    BY <2>1, Ended DEF IInv
  <2>3. Held' = Held /\ Approved' = Approved
    BY <2>1 DEF Held, Approved
  <2>4. Calm' => payload' \in {None, row'}
    BY <2>1 DEF IInv, MatchInv, Match, Calm, Between
  <2>5. MatchInv' /\ RowInv' /\ PayloadInv' /\ GateHolds'
    BY <2>1, <2>2, <2>3, <2>4 DEF IInv, MatchInv, RowInv, PayloadInv, GateHolds
  <2>. QED
    BY <1>1, <2>2, <2>5 DEF IInv
<1>. QED
  BY <1>4, <1>5, <1>6, <1>7

\* The swap that commits, of new bytes or of the same ones.
LEMMA SwapInductive ==
    ASSUME IInv, NEW t \in Tasks, SwapRows(t) \/ SwapSame(t)
    PROVE  IInv'
<1>. DEFINE f == job[t].feed
            prev == job[t].prev
<1>1. TypeOK'
  BY StepTypeOK DEF IInv, Step
<1>2. f \in Feeds /\ prev \in Memberships /\ job[t].build \in Builds /\ job[t].build # None
  BY ConstantsAssumption, JobFacts DEF IInv, TypeOK
<1>3. /\ Refreshed(t) \in Memberships /\ Refreshed(t) # None
      /\ Refreshed(t).pending = (prev.pending \/ (f \in Gated /\ ~Same(t)))
  BY <1>2, ConstantsAssumption DEF Refreshed, Memberships
<1>4. Phase(t)
  BY DEF IInv, PhaseInv
<1>5. pc[t] \in {"swap", "swapSame"} /\ pc[t] \in LockedPCs
  BY DEF SwapRows, SwapSame, At, LockedPCs
<1>6. member[f] # None /\ prev.pending = member[f].pending /\ MayReplace(t) /\ f \in Held
  BY <1>2, <1>4, <1>5 DEF Phase, Held
<1>7. CASE SwapSame(t) /\ ~SwapAllowed(t)
  <2>1. UNCHANGED <<row, payload, member, vetted, logged>> /\ NoFault /\ Finish(t)
        /\ pc[t] \notin Between
    BY <1>7 DEF SwapSame, NoFault, At, Between
  <2>. QED
    BY <1>1, <1>5, <2>1, EndedQuietly
<1>8. CASE ~(SwapSame(t) /\ ~SwapAllowed(t))
  <2>1. /\ row' = job[t].build
        /\ member' = [member EXCEPT ![f] = Refreshed(t)]
        /\ UNCHANGED <<payload, vetted, logged, crashes, losses>>
    BY <1>4, <1>8 DEF SwapRows, SwapSame, bounds, Phase, Same, At
  <2>2. Held' = Held
    BY <1>2, <1>3, <1>6, <2>1 DEF Held, IInv, TypeOK
  <2>3. Approved' \subseteq Approved
    BY <1>2, <1>3, <1>6, <2>1 DEF Held, Approved, IInv, TypeOK
  <2>4. row' # row => Gated \cap Approved' = {}
    <3>1. SUFFICES ASSUME row' # row, NEW g \in Gated \cap Approved'  PROVE FALSE
      OBVIOUS
    <3>2. ~Same(t)
      BY <2>1, <3>1 DEF Same
    <3>3. g # f
      BY <1>2, <1>3, <2>1, <3>1, <3>2 DEF Approved, Held, IInv, TypeOK
    <3>4. g \in Approved /\ g \in Held
      BY <2>3, <3>1 DEF Approved
    <3>. QED
      BY <1>6, <3>2, <3>3, <3>4 DEF MayReplace
  <2>5. RowInv' /\ PayloadInv' /\ GateHolds'
    BY <1>2, <2>1, <2>2, <2>3, <2>4 DEF IInv, RowInv, PayloadInv, GateHolds
  <2>6. Calm' => payload' \in {None, row'}
    <3>1. CASE pc[t] = "swap"
      BY <2>1, <3>1 DEF IInv, MatchInv, Match, Calm, Between
    <3>2. CASE pc[t] = "swapSame"
      BY <1>4, <1>5, <1>6, <2>1, <3>2, Agreement DEF Phase, Same, At, Calm, Between
    <3>. QED
      BY <1>5, <3>1, <3>2
  <2>7. LockInv' /\ PhaseInv' /\ \A u \in Tasks : Match(u)' /\ pc'[u] \notin Between
    <3>1. CASE Finish(t) \/ Indexed(t)
      BY <1>5, <3>1, Ended DEF IInv
    <3>2. CASE Goto(t, "dropOld")
      <4>1. "dropOld" \in LockedPCs
        BY DEF LockedPCs
      <4>2. /\ LockInv' /\ pc'[t] = "dropOld"
            /\ \A u \in Tasks \ {t} : Phase(u)' /\ Match(u)' /\ pc'[u] \notin Between
        BY <1>5, <3>2, <4>1, Moved DEF IInv
      <4>3. job' = job
        BY <1>5, <3>2, <4>2 DEF SwapRows, SwapSame, Indexed, Finish, IInv, TypeOK
      <4>4. Same(t)' /\ member'[f] # None
        BY <1>2, <1>3, <2>1, <4>3 DEF Same, IInv, TypeOK
      <4>5. Phase(t)' /\ Match(t)' /\ pc'[t] \notin Between
        BY <4>2, <4>3, <4>4 DEF Phase, Match, At, Between
      <4>. QED
        BY <4>2, <4>5 DEF PhaseInv
    <3>. QED
      BY <3>1, <3>2 DEF SwapRows, SwapSame
  <2>. QED
    BY <1>1, <2>5, <2>6, <2>7 DEF IInv, MatchInv
<1>. QED
  BY <1>7, <1>8

\* Purges and the orphan sweep.
LEMMA PurgeInductive ==
    ASSUME IInv, NEW t \in Tasks,
           \/ CheckPlanned(t) \/ SweepCheck(t) \/ Remove(t)
           \/ GcFiles(t) \/ GcFilesFails(t) \/ GcRow(t)
    PROVE  IInv'
<1>1. TypeOK'
  BY StepTypeOK DEF IInv, Step
<1>2. Phase(t)
  BY DEF IInv, PhaseInv
<1>3. CASE CheckPlanned(t) \/ SweepCheck(t)
  <2>1. /\ pc[t] \in {"check", "sweepCheck"} /\ pc[t] \in LockedPCs \ Between
        /\ UNCHANGED <<row, payload, member, vetted, logged>> /\ NoFault
    BY <1>3 DEF CheckPlanned, SweepCheck, LockedPCs, Between, At, store, NoFault
  <2>2. CASE Finish(t)
    BY <1>1, <2>1, <2>2, EndedQuietly
  <2>3. CASE ~Finish(t)
    <3>1. PICK p \in {"remove", "gcFiles"} : Goto(t, p) /\ (p = "gcFiles" => Held = {})
      BY <1>3, <2>3 DEF CheckPlanned, SweepCheck, Orphan
    <3>2. p \in LockedPCs /\ pc'[t] = p
      BY <3>1 DEF Goto, IInv, TypeOK, LockedPCs
    <3>3. Phase(t)' /\ Match(t)'
      BY <2>1, <3>1, <3>2, StoresKept DEF Phase, Match, At, Between
    <3>. QED
      BY <1>1, <2>1, <3>1, <3>2, <3>3, MovedQuietly
  <2>. QED
    BY <2>2, <2>3
<1>4. CASE Remove(t)
  <2>. DEFINE f == job[t].feed
  <2>1. /\ pc[t] = "remove" /\ pc[t] \in LockedPCs \ Between
        /\ member' = [member EXCEPT ![f] = None]
        /\ UNCHANGED <<row, payload, vetted, logged, crashes, losses>>
    BY <1>4 DEF Remove, LockedPCs, Between, At, bounds
  <2>2. Held' = Held \ {f} /\ Approved' \subseteq Approved
    BY <2>1, JobFacts DEF Held, Approved, IInv, TypeOK
  <2>3. RowInv' /\ PayloadInv' /\ GateHolds'
    BY <2>1, <2>2 DEF IInv, RowInv, PayloadInv, GateHolds
  <2>4. (Calm' /\ Held' # {}) => payload' \in {None, row'}
    BY <2>1, <2>2, Agreement DEF Calm
  <2>5. LockInv' /\ PhaseInv' /\ \A u \in Tasks : Match(u)' /\ pc'[u] \notin Between
    <3>1. CASE Finish(t)
      BY <2>1, <3>1, Ended DEF IInv
    <3>2. CASE ~Finish(t)
      <4>1. Goto(t, "gcFiles") /\ Held' = {} /\ "gcFiles" \in LockedPCs
        BY <1>4, <2>2, <3>2 DEF Remove, LockedPCs
      <4>2. /\ LockInv' /\ pc'[t] = "gcFiles"
            /\ \A u \in Tasks \ {t} : Phase(u)' /\ Match(u)' /\ pc'[u] \notin Between
        BY <2>1, <4>1, Moved DEF IInv
      <4>3. Phase(t)' /\ Match(t)' /\ pc'[t] \notin Between
        BY <4>1, <4>2 DEF Phase, Match, At, Between
      <4>. QED
        BY <4>2, <4>3 DEF PhaseInv
    <3>. QED
      BY <3>1, <3>2
  <2>. QED
    BY <1>1, <2>3, <2>4, <2>5 DEF IInv, MatchInv
<1>5. CASE GcFiles(t) \/ GcFilesFails(t) \/ GcRow(t)
  <2>1. pc[t] \in {"gcFiles", "gcRow"} /\ pc[t] \in LockedPCs /\ Held = {}
    BY <1>2, <1>5 DEF GcFiles, GcFilesFails, GcRow, At, LockedPCs, Phase
  <2>2. Held' = {} /\ Approved' = {}
    BY <1>5, <2>1 DEF GcFiles, GcFilesFails, GcRow, Held, Approved
  <2>3. RowInv' /\ PayloadInv' /\ GateHolds'
    BY <2>2 DEF RowInv, PayloadInv, GateHolds
  <2>4. LockInv' /\ PhaseInv' /\ \A u \in Tasks : Match(u)' /\ pc'[u] \notin Between
    <3>1. CASE Finish(t)
      BY <2>1, <3>1, Ended DEF IInv
    <3>2. CASE ~Finish(t)
      <4>1. PICK p \in {"gcRow", "storeNew"} :
               Goto(t, p) /\ (p = "storeNew" => row' = None)
        BY <1>5, <3>2 DEF GcFiles, GcFilesFails, GcRow
      <4>2. p \in LockedPCs
        BY DEF LockedPCs
      <4>3. /\ LockInv' /\ pc'[t] = p
            /\ \A u \in Tasks \ {t} : Phase(u)' /\ Match(u)' /\ pc'[u] \notin Between
        BY <2>1, <4>1, <4>2, Moved DEF IInv
      <4>4. Phase(t)' /\ Match(t)' /\ pc'[t] \notin Between
        BY <2>2, <4>1, <4>3 DEF Phase, Match, At, Between
      <4>. QED
        BY <4>3, <4>4 DEF PhaseInv
    <3>. QED
      BY <3>1, <3>2
  <2>. QED
    BY <1>1, <2>2, <2>3, <2>4 DEF IInv, MatchInv
<1>. QED
  BY <1>3, <1>4, <1>5

\* Approvals.
LEMMA ApproveInductive ==
    ASSUME IInv, NEW t \in Tasks, CheckShown(t) \/ ApproveMembership(t)
    PROVE  IInv'
<1>. DEFINE f == job[t].feed
<1>1. TypeOK'
  BY StepTypeOK DEF IInv, Step
<1>2. CASE CheckShown(t)
  <2>1. /\ pc[t] = "checkShown" /\ pc[t] \in LockedPCs \ Between
        /\ UNCHANGED <<row, payload, member, vetted, logged>> /\ NoFault
    BY <1>2 DEF CheckShown, LockedPCs, Between, At, store, NoFault
  <2>2. CASE Finish(t)
    BY <1>1, <2>1, <2>2, EndedQuietly
  <2>3. CASE ~Finish(t)
    <3>1. Goto(t, "approve") /\ job' = job /\ job[t].shown \in {None, row}
      BY <1>2, <2>3 DEF CheckShown
    <3>2. "approve" \in LockedPCs /\ pc'[t] = "approve"
      BY <3>1 DEF Goto, IInv, TypeOK, LockedPCs
    <3>3. Phase(t)' /\ Match(t)'
      BY <2>1, <3>1, <3>2 DEF Phase, Match, At, Between
    <3>. QED
      BY <1>1, <2>1, <3>1, <3>2, <3>3, MovedQuietly
  <2>. QED
    BY <2>2, <2>3
<1>3. CASE ApproveMembership(t)
  <2>1. /\ pc[t] = "approve" /\ pc[t] \in LockedPCs \ Between /\ Finish(t)
        /\ UNCHANGED <<row, payload, logged>> /\ NoFault
    BY <1>3 DEF ApproveMembership, LockedPCs, Between, At, NoFault
  <2>2. CASE member[f] = None
    BY <1>1, <1>3, <2>1, <2>2, EndedQuietly DEF ApproveMembership
  <2>3. CASE member[f] # None
    <3>1. f \in Feeds /\ member[f] \in Memberships
      BY <2>3, JobFacts DEF IInv, TypeOK
    <3>2. /\ [member[f] EXCEPT !.pending = FALSE] # None
          /\ member' = [member EXCEPT ![f] = [member[f] EXCEPT !.pending = FALSE]]
      BY <1>3, <2>3, <3>1, MembershipFacts DEF ApproveMembership
    <3>3. vetted' = [vetted EXCEPT ![f] = vetted[f] \cup {row}]
      <4>1. job[t].shown \in {None, row}
        BY <2>1 DEF IInv, PhaseInv, Phase, At
      <4>. QED
        BY <1>3, <2>3, <4>1 DEF ApproveMembership
    <3>4. Held' = Held /\ Approved' \subseteq Approved \cup {f}
      BY <2>3, <3>1, <3>2 DEF Held, Approved, IInv, TypeOK
    <3>5. GateHolds'
      BY <2>1, <3>1, <3>3, <3>4 DEF IInv, GateHolds, TypeOK
    <3>6. RowInv' /\ PayloadInv'
      BY <2>1, <3>4 DEF IInv, RowInv, PayloadInv, NoFault, bounds
    <3>7. LockInv' /\ PhaseInv' /\ \A u \in Tasks : Match(u)' /\ pc'[u] \notin Between
      BY <2>1, Ended DEF IInv
    <3>8. MatchInv'
      BY <2>1, <3>4, <3>7, Agreement DEF MatchInv, Calm, NoFault, bounds
    <3>. QED
      BY <1>1, <3>5, <3>6, <3>7, <3>8 DEF IInv
  <2>. QED
    BY <2>2, <2>3
<1>. QED
  BY <1>2, <1>3

\* Transfers between feeds.
LEMMA TransferInductive ==
    ASSUME IInv, NEW t \in Tasks, TransferRead(t) \/ Arrive(t) \/ Leave(t)
    PROVE  IInv'
<1>. DEFINE f == job[t].feed
            g == job[t].target
<1>1. TypeOK'
  BY StepTypeOK DEF IInv, Step
<1>2. f \in Feeds /\ g \in Feeds /\ job[t].prev \in Memberships
  BY JobFacts DEF IInv, TypeOK
<1>3. CASE TransferRead(t)
  <2>1. /\ pc[t] = "transfer" /\ pc[t] \in LockedPCs \ Between
        /\ UNCHANGED <<row, payload, member, vetted, logged>> /\ NoFault
    BY <1>3 DEF TransferRead, LockedPCs, Between, At, store, NoFault
  <2>2. CASE Finish(t)
    BY <1>1, <2>1, <2>2, EndedQuietly
  <2>3. CASE ~Finish(t)
    <3>1. /\ Goto(t, "arrive") /\ row # None /\ member[f] # None
          /\ job'[t] = [job[t] EXCEPT !.prev = member[f]]
      BY <1>3, <2>3 DEF TransferRead, IInv, TypeOK
    <3>2. "arrive" \in LockedPCs /\ pc'[t] = "arrive" /\ job'[t].feed = f
      BY <3>1 DEF Goto, IInv, TypeOK, LockedPCs, Jobs
    <3>3. Phase(t)' /\ Match(t)'
      BY <2>1, <3>1, <3>2 DEF Phase, Match, At, Between
    <3>. QED
      BY <1>1, <2>1, <3>1, <3>2, <3>3, MovedQuietly
  <2>. QED
    BY <2>2, <2>3
<1>4. CASE Arrive(t)
  <2>1. /\ pc[t] = "arrive" /\ pc[t] \in LockedPCs \ Between
        /\ UNCHANGED <<row, payload, vetted, logged, crashes, losses>>
        /\ member' = [member EXCEPT ![g] = IF member[g] = None THEN Transferred(t)
                                                               ELSE member[g]]
    BY <1>4 DEF Arrive, LockedPCs, Between, At, bounds
  <2>2. /\ Transferred(t) \in Memberships /\ Transferred(t) # None
        /\ g \in Gated => Transferred(t).pending
    BY <1>2, ConstantsAssumption DEF Transferred, Memberships
  <2>3. row # None /\ Held # {}
    BY <1>2, <2>1 DEF IInv, PhaseInv, Phase, At, Held
  <2>4. Held' = Held \cup {g} /\ Gated \cap Approved' \subseteq Approved
    BY <1>2, <2>1, <2>2 DEF Held, Approved, IInv, TypeOK
  <2>5. RowInv' /\ PayloadInv' /\ GateHolds'
    BY <2>1, <2>3, <2>4 DEF IInv, RowInv, PayloadInv, GateHolds
  <2>6. Calm' => payload' \in {None, row'}
    BY <2>1, <2>3, Agreement DEF Calm
  <2>7. LockInv' /\ PhaseInv' /\ \A u \in Tasks : Match(u)' /\ pc'[u] \notin Between
    <3>1. CASE Finish(t)
      BY <2>1, <3>1, Ended DEF IInv
    <3>2. CASE ~Finish(t)
      <4>1. Goto(t, "leave") /\ "leave" \in LockedPCs
        BY <1>4, <3>2 DEF Arrive, LockedPCs
      <4>2. /\ LockInv' /\ pc'[t] = "leave"
            /\ \A u \in Tasks \ {t} : Phase(u)' /\ Match(u)' /\ pc'[u] \notin Between
        BY <2>1, <4>1, Moved DEF IInv
      <4>3. Phase(t)' /\ Match(t)' /\ pc'[t] \notin Between
        BY <4>2 DEF Phase, Match, At, Between
      <4>. QED
        BY <4>2, <4>3 DEF PhaseInv
    <3>. QED
      BY <3>1, <3>2
  <2>. QED
    BY <1>1, <2>5, <2>6, <2>7 DEF IInv, MatchInv
<1>5. CASE Leave(t)
  <2>1. /\ pc[t] = "leave" /\ pc[t] \in LockedPCs \ Between /\ Finish(t)
        /\ UNCHANGED <<row, payload, vetted, logged, crashes, losses>>
        /\ member' = [member EXCEPT ![f] = None]
    BY <1>5 DEF Leave, LockedPCs, Between, At, bounds
  <2>2. Held' = Held \ {f} /\ Approved' \subseteq Approved
    BY <1>2, <2>1 DEF Held, Approved, IInv, TypeOK
  <2>3. RowInv' /\ PayloadInv' /\ GateHolds'
    BY <2>1, <2>2 DEF IInv, RowInv, PayloadInv, GateHolds
  <2>4. LockInv' /\ PhaseInv' /\ \A u \in Tasks : Match(u)' /\ pc'[u] \notin Between
    BY <2>1, Ended DEF IInv
  <2>5. (Calm' /\ Held' # {}) => payload' \in {None, row'}
    BY <2>1, <2>2, Agreement DEF Calm
  <2>. QED
    BY <1>1, <2>3, <2>4, <2>5 DEF IInv, MatchInv
<1>. QED
  BY <1>3, <1>4, <1>5

\* A flag statement changes no membership's existence and no approval.
LEMMA FlagFacts ==
    ASSUME TypeOK, Flag
    PROVE  /\ UNCHANGED <<row, payload, tombs, lock, pc, job, vetted, logged, bounds>>
           /\ Held' = Held /\ Approved' = Approved
           /\ \A f \in Feeds : /\ member'[f] = None <=> member[f] = None
                               /\ member[f] # None => member'[f].pending = member[f].pending
           /\ \E f \in Held : \E m \in Memberships :
                 m.pending = member[f].pending /\ member' = [member EXCEPT ![f] = m]
<1>1. PICK f \in Feeds, v \in BOOLEAN :
         SetListed(f, v) \/ SetEnabled(f, v) \/ SetPinned(f, v) \/ FollowUpstream(f, v)
  BY DEF Flag
<1>2. member[f] \in Memberships /\ f \in Held
  BY <1>1 DEF SetListed, SetEnabled, SetPinned, FollowUpstream, SetFlags, TypeOK, Held
<1>3. PICK m \in Memberships : SetFlags(f, m) /\ m.pending = member[f].pending
  BY <1>1, <1>2, MembershipFacts DEF SetListed, SetEnabled, SetPinned, FollowUpstream
<1>4. m # None
  BY MembershipFacts
<1>5. /\ member' = [member EXCEPT ![f] = m]
      /\ UNCHANGED <<row, payload, tombs, lock, pc, job, vetted, logged, bounds>>
  BY <1>3 DEF SetFlags
<1>6. \A g \in Feeds : /\ member'[g] = None <=> member[g] = None
                       /\ member[g] # None => member'[g].pending = member[g].pending
  BY <1>2, <1>3, <1>4, <1>5 DEF TypeOK, Held
<1>7. Held' = Held /\ Approved' = Approved
  BY <1>6 DEF Held, Approved
<1>. QED
  BY <1>2, <1>3, <1>5, <1>6, <1>7

\* Flags, crashes and lost payloads keep the invariant.
LEMMA EnvironmentInductive ==
    ASSUME IInv, Flag \/ Crash \/ LosePayload \/ UNCHANGED vars
    PROVE  IInv'
<1>1. TypeOK'
  BY EnvironmentTypeOK DEF IInv
<1>2. CASE Flag
  <2>1. /\ UNCHANGED <<row, payload, lock, pc, job, vetted, logged, crashes, losses>>
        /\ Held' = Held /\ Approved' = Approved
        /\ \A f \in Feeds : /\ member'[f] = None <=> member[f] = None
                            /\ member[f] # None => member'[f].pending = member[f].pending
    BY <1>2, FlagFacts DEF IInv, bounds
  <2>2. \A t \in Tasks : job[t].feed \in Feeds
    BY JobFacts DEF IInv, TypeOK
  <2>3. \A t \in Tasks : Same(t)' = Same(t) /\ MayReplace(t)' = MayReplace(t)
    BY <2>1 DEF Same, MayReplace, PendingOnly, Mode
  <2>4. PhaseInv'
    BY <2>1, <2>2, <2>3 DEF IInv, PhaseInv, Phase, At
  <2>5. MatchInv'
    BY <2>1 DEF IInv, MatchInv, Match, Calm, At
  <2>6. LockInv' /\ RowInv' /\ PayloadInv' /\ GateHolds'
    BY <2>1 DEF IInv, LockInv, RowInv, PayloadInv, GateHolds
  <2>. QED
    BY <1>1, <2>4, <2>5, <2>6 DEF IInv
<1>3. CASE Crash
  <2>1. \A t \in Tasks : pc'[t] \notin LockedPCs
    BY <1>3 DEF Crash, LockedPCs
  <2>2. LockInv' /\ PhaseInv'
    BY <1>3, <2>1, OutsidePhase, ConstantsAssumption DEF Crash, LockInv, PhaseInv
  <2>3. ~Calm'
    BY <1>3 DEF Crash, Calm, IInv, TypeOK
  <2>4. MatchInv'
    BY <2>3 DEF MatchInv
  <2>5. RowInv' /\ PayloadInv' /\ GateHolds'
    BY <1>3 DEF Crash, IInv, RowInv, PayloadInv, GateHolds, Held, Approved, store
  <2>. QED
    BY <1>1, <2>2, <2>4, <2>5 DEF IInv
<1>4. CASE LosePayload
  <2>1. /\ UNCHANGED <<row, member, lock, pc, job, vetted, crashes, logged>>
        /\ losses' # 0 /\ payload' = None
        /\ Held' = Held /\ Approved' = Approved
    BY <1>4 DEF LosePayload, IInv, TypeOK, Held, Approved
  <2>2. PayloadInv' /\ MatchInv'
    BY <2>1 DEF IInv, PayloadInv, MatchInv, Match, Calm, At
  <2>3. \A t \in Tasks : Same(t)' = Same(t) /\ MayReplace(t)' = MayReplace(t)
    BY <2>1 DEF Same, MayReplace, PendingOnly, Mode
  <2>4. LockInv' /\ RowInv' /\ PhaseInv' /\ GateHolds'
    BY <2>1, <2>3 DEF IInv, LockInv, RowInv, PhaseInv, Phase, At, GateHolds
  <2>. QED
    BY <1>1, <2>2, <2>4 DEF IInv
<1>5. CASE UNCHANGED vars
  BY <1>5 DEF vars, store, bounds, IInv, TypeOK, LockInv, RowInv, PayloadInv, PhaseInv,
              Phase, MatchInv, Match, Calm, GateHolds, Held, Approved, At, Same,
              MayReplace, PendingOnly, Mode
<1>. QED
  BY <1>2, <1>3, <1>4, <1>5

---------------------------------------------------------------------------
(* The theorems                                                            *)

\* The invariant holds at the start.
LEMMA InitIInv == Init => IInv
<1>. SUFFICES ASSUME Init  PROVE IInv
  OBVIOUS
<1>1. TypeOK
  BY NoJobType DEF Init, TypeOK, PCs
<1>2. Held = {} /\ Approved = {}
  BY DEF Init, Held, Approved
<1>3. \A t \in Tasks : pc[t] = "idle"
  BY DEF Init
<1>4. LockInv
  BY <1>3, ConstantsAssumption DEF Init, LockInv, LockedPCs
<1>5. RowInv /\ PayloadInv /\ GateHolds
  BY <1>2 DEF RowInv, PayloadInv, GateHolds
<1>6. PhaseInv /\ MatchInv
  BY <1>2, <1>3 DEF PhaseInv, Phase, MatchInv, Match, At, Between
<1>. QED
  BY <1>1, <1>4, <1>5, <1>6 DEF IInv

\* Every step keeps the invariant.
LEMMA NextIInv == IInv /\ [Next]_vars => IInv'
<1>. SUFFICES ASSUME IInv, [Next]_vars  PROVE IInv'
  OBVIOUS
<1>1. ASSUME NEW t \in Tasks, Step(t)  PROVE IInv'
  BY <1>1, QuietInductive, IndexInductive, StoreInductive, AddVersionInductive,
     OverwriteInductive, SwapInductive, PurgeInductive, ApproveInductive,
     TransferInductive DEF Step
<1>. QED
  BY <1>1, StartInductive, LockInductive, EnvironmentInductive, ConstantsAssumption
     DEF Next

\* Every reachable state satisfies the inductive invariant.
THEOREM Invariance == Spec => []IInv
BY InitIInv, NextIInv, PTL DEF Spec

\* Every variable keeps its type: no operation writes a malformed row.
THEOREM TypeCorrect == Spec => []TypeOK
<1>1. IInv => TypeOK
  BY DEF IInv
<1>. QED
  BY <1>1, Invariance, PTL

\* A version some feed holds has its packages row and its payload, through
\* every fault and crash of indexing.rs and retention.rs.
THEOREM HeldVersionsAreServable == Spec => []HeldIsServable
<1>1. IInv => HeldIsServable
  BY DEF IInv, RowInv, PayloadInv, HeldIsServable
<1>. QED
  BY <1>1, Invariance, PTL

\* Row and bytes agree whenever the version lock is free, unless the process
\* crashed or overwrite logged that it could not restore the previous payload.
THEOREM MismatchesAreLogged == Spec => []MismatchIsLogged
<1>1. ASSUME IInv  PROVE MismatchIsLogged
  <2>1. lock = None => \A t \in Tasks : pc[t] \notin Between
    BY <1>1, ConstantsAssumption DEF IInv, LockInv, Between, LockedPCs
  <2>. QED
    BY <1>1, <2>1 DEF IInv, TypeOK, PayloadInv, MatchInv, MismatchIsLogged
<1>. QED
  BY <1>1, Invariance, PTL

\* A gated feed serves only builds its admins approved on sight.
THEOREM ApprovalIsNeeded == Spec => []GateHolds
<1>1. IInv => GateHolds
  BY DEF IInv
<1>. QED
  BY <1>1, Invariance, PTL

---------------------------------------------------------------------------
(* The steps that may never happen                                         *)

\* While some feed holds the version, only a committed swap of new bytes
\* changes the row, and only where the overwrite policy let it begin.
LEMMA RowChanges ==
    ASSUME IInv, [Next]_vars, row' # row, Held # {}
    PROVE  \E t \in Tasks :
              SwapRows(t) /\ ~Same(t) /\ MayReplace(t) /\ job[t].feed \in Held
<1>1. PICK t \in Tasks : AddVersion(t) \/ SwapRows(t) \/ GcRow(t)
  <2>1. CASE \E t \in Tasks : Step(t)
    BY <2>1 DEF Step, MirrorFetched, IndexOrphan, IndexNew, IndexJoin, IndexReplace,
          IndexRefuse, StorePayload, StoreSidecarFails, AddVersionFails, UndoStore,
          KeepAside, StoreOver, SwapFails, Restore, SwapSame, DropOld, ClearTombstone,
          CheckPlanned, Remove, SweepCheck, GcFiles, GcFilesFails, CheckShown,
          ApproveMembership, TransferRead, Arrive, Leave, Abort, store
  <2>2. CASE ~\E t \in Tasks : Step(t)
    BY <2>2 DEF Next, Start, StartPush, StartMirror, StartPurge, StartPlanned,
          StartApprove, StartTransfer, StartSweep, Begin, LockVersion, Flag, SetListed,
          SetEnabled, SetPinned, FollowUpstream, SetFlags, Crash, LosePayload, store, vars
  <2>. QED
    BY <2>1, <2>2
<1>2. Phase(t) /\ row # None /\ job[t].feed \in Feeds
  BY JobFacts DEF IInv, PhaseInv, RowInv, TypeOK
<1>3. ~AddVersion(t)
  BY <1>2 DEF AddVersion
<1>4. ~GcRow(t)
  BY <1>2 DEF GcRow, Phase, At
<1>5. SwapRows(t)
  BY <1>1, <1>3, <1>4
<1>. QED
  BY <1>2, <1>5 DEF SwapRows, Phase, At, Same, Held

\* While a feed whose mode promises it serves the version, no operation on
\* any feed changes the build: cached downloads stay right.
THEOREM ServedBuildsAreImmutable == Spec => ServedIsImmutable
<1>1. ASSUME IInv, [Next]_vars
      PROVE  [\A f \in Approved : Immutable(Overwrite[f]) => row' = row]_vars
  <2>1. SUFFICES ASSUME NEW f \in Approved, Immutable(Overwrite[f]), row' # row
                 PROVE  FALSE
    OBVIOUS
  <2>2. f \in Held
    BY <2>1 DEF Approved
  <2>3. PICK t \in Tasks : ~Same(t) /\ MayReplace(t) /\ job[t].feed \in Held
    BY <1>1, <2>1, <2>2, RowChanges
  <2>4. Allows(Mode(t)) /\ job[t].feed = f
    BY <2>1, <2>2, <2>3 DEF MayReplace
  <2>. QED
    BY <2>1, <2>4 DEF Allows, Mode, Immutable
<1>. QED
  BY <1>1, Invariance, PTL DEF Spec, ServedIsImmutable

\* A build is replaced only in its sole feed or while every feed withholds it.
THEOREM SharedBuildsArePinned == Spec => SharedIsPinned
<1>1. ASSUME IInv, [Next]_vars
      PROVE  [(Held # {} /\ row' # row) =>
                 (Approved = {} \/ \E f \in Feeds : Held = {f})]_vars
  <2>1. SUFFICES ASSUME Held # {}, row' # row
                 PROVE  Approved = {} \/ \E f \in Feeds : Held = {f}
    OBVIOUS
  <2>2. PICK t \in Tasks : ~Same(t) /\ MayReplace(t) /\ job[t].feed \in Held
    BY <1>1, <2>1, RowChanges
  <2>. QED
    BY <2>2 DEF MayReplace, Held
<1>. QED
  BY <1>1, Invariance, PTL DEF Spec, SharedIsPinned

\* A mirror fetch never replaces a build some feed holds.
THEOREM MirrorsNeverReplace == Spec => MirrorNeverReplaces
<1>1. ASSUME IInv, [Next]_vars
      PROVE  [\A t \in Tasks : (job[t].op = "mirror" /\ pc'[t] # pc[t] /\ Held # {})
                                   => row' = row]_vars
  <2>1. SUFFICES ASSUME NEW t \in Tasks, job[t].op = "mirror", pc'[t] # pc[t],
                        Held # {}, row' # row
                 PROVE  FALSE
    OBVIOUS
  <2>2. PICK u \in Tasks : SwapRows(u) /\ MayReplace(u) /\ ~Same(u)
    BY <1>1, <2>1, RowChanges
  <2>3. u = t
    BY <1>1, <2>1, <2>2 DEF SwapRows, Indexed, Finish, Goto, IInv, TypeOK
  <2>. QED
    BY <2>1, <2>2, <2>3 DEF MayReplace, PendingOnly, Mode, Allows
<1>. QED
  BY <1>1, Invariance, PTL DEF Spec, MirrorNeverReplaces

\* A push answered 201 is in the feed with its own row and bytes.
THEOREM PushesAreServed == Spec => PushedIsServed
<1>1. ASSUME IInv, [Next]_vars, NEW t \in Tasks, pc[t] # "clear", pc'[t] = "clear", Calm
      PROVE  /\ row' = job[t].build /\ member'[job[t].feed] # None
             /\ payload' = job[t].build \/ (payload' = None /\ losses > 0)
  <2>1. IInv'
    BY <1>1, NextIInv
  <2>2. CASE AddVersion(t) \/ SwapRows(t) \/ SwapSame(t) \/ DropOld(t)
    <3>1. /\ lock' = None /\ logged' = logged /\ crashes' = crashes /\ losses' = losses
          /\ Indexed(t)
      BY <1>1, <2>2 DEF AddVersion, SwapRows, SwapSame, DropOld, Indexed, Finish, Goto,
                        bounds, IInv, TypeOK
    <3>2. /\ job[t].feed \in Feeds /\ job[t].prev \in Memberships
          /\ job[t].listed \in BOOLEAN /\ Phase(t)
      BY <1>1, JobFacts DEF IInv, PhaseInv, TypeOK
    <3>3. row' = job[t].build
      BY <1>1, <2>2, <3>2 DEF AddVersion, SwapRows, SwapSame, DropOld, Phase, At, Same, store
    <3>4. member'[job[t].feed] # None
      <4>1. NewMember(job[t].feed, job[t].listed) # None
        BY <3>2, NewMemberType, MembershipFacts
      <4>2. Refreshed(t) # None
        BY <3>2, ConstantsAssumption DEF Refreshed, Memberships
      <4>. QED
        BY <1>1, <2>2, <3>1, <3>2, <4>1, <4>2
           DEF AddVersion, SwapRows, SwapSame, DropOld, Phase, At, store, IInv, TypeOK
    <3>5. Held' # {} /\ Calm'
      BY <1>1, <3>1, <3>2, <3>4 DEF Held, Calm
    <3>6. \A u \in Tasks : pc'[u] \notin Between
      BY <2>1, <3>1, ConstantsAssumption DEF IInv, LockInv, Between, LockedPCs
    <3>. QED
      BY <1>1, <2>1, <3>1, <3>3, <3>4, <3>5, <3>6
         DEF IInv, MatchInv, PayloadInv, TypeOK
  <2>3. CASE ~(AddVersion(t) \/ SwapRows(t) \/ SwapSame(t) \/ DropOld(t))
    <3>. USE DEF IInv, TypeOK
    <3>1. ASSUME NEW u \in Tasks, NEW p,
                 pc' = [pc EXCEPT ![u] = p], u = t => p # "clear"
          PROVE  FALSE
      BY <1>1, <3>1
    <3>2. ASSUME NEW u \in Tasks, Finish(u)  PROVE FALSE
      BY <3>1, <3>2 DEF Finish
    <3>3. ASSUME NEW u \in Tasks, NEW p, Goto(u, p), p # "clear"  PROVE FALSE
      BY <3>1, <3>3 DEF Goto
    <3>4. ASSUME NEW u \in Tasks, Indexed(u), u # t  PROVE FALSE
      BY <3>1, <3>2, <3>4 DEF Indexed
    <3>5. ASSUME NEW u \in Tasks, Step(u)  PROVE FALSE
      <4>1. CASE AddVersion(u) \/ SwapRows(u) \/ SwapSame(u) \/ DropOld(u)
        BY <2>3, <3>2, <3>3, <3>4, <4>1 DEF AddVersion, SwapRows, SwapSame, DropOld
      <4>2. CASE \/ MirrorFetched(u) \/ IndexOrphan(u) \/ IndexNew(u) \/ IndexJoin(u)
                 \/ IndexReplace(u) \/ IndexRefuse(u) \/ StorePayload(u)
                 \/ StoreSidecarFails(u) \/ AddVersionFails(u) \/ UndoStore(u)
                 \/ KeepAside(u) \/ StoreOver(u) \/ SwapFails(u) \/ Restore(u)
                 \/ ClearTombstone(u) \/ Abort(u)
        BY <3>2, <3>3, <4>2
           DEF MirrorFetched, IndexOrphan, IndexNew, IndexJoin, IndexReplace, IndexRefuse,
               StorePayload, StoreSidecarFails, AddVersionFails, UndoStore, KeepAside,
               StoreOver, SwapFails, Restore, ClearTombstone, Abort
      <4>3. CASE \/ CheckPlanned(u) \/ Remove(u) \/ SweepCheck(u) \/ GcFiles(u)
                 \/ GcFilesFails(u) \/ GcRow(u) \/ CheckShown(u) \/ ApproveMembership(u)
                 \/ TransferRead(u) \/ Arrive(u) \/ Leave(u)
        BY <3>2, <3>3, <4>3
           DEF CheckPlanned, Remove, SweepCheck, GcFiles, GcFilesFails, GcRow, CheckShown,
               ApproveMembership, TransferRead, Arrive, Leave
      <4>. QED
        BY <3>5, <4>1, <4>2, <4>3 DEF Step
    <3>6. ASSUME NEW u \in Tasks, Start(u) \/ StartSweep  PROVE FALSE
      BY <3>3, <3>6, ConstantsAssumption
         DEF Start, StartPush, StartMirror, StartPurge, StartPlanned, StartApprove,
             StartTransfer, StartSweep, Begin
    <3>7. ASSUME NEW u \in Tasks, LockVersion(u)  PROVE FALSE
      <4>1. FirstStep(job[u].op) # "clear"
        BY DEF FirstStep
      <4>. QED
        BY <3>1, <3>7, <4>1 DEF LockVersion
    <3>8. ASSUME Flag \/ Crash \/ LosePayload \/ UNCHANGED vars  PROVE FALSE
      BY <1>1, <3>8, FlagFacts DEF Crash, LosePayload, vars
    <3>. QED
      BY <1>1, <3>5, <3>6, <3>7, <3>8 DEF Next
  <2>. QED
    BY <2>2, <2>3
<1>2. ASSUME IInv, [Next]_vars
      PROVE  [\A t \in Tasks : (pc[t] # "clear" /\ pc'[t] = "clear" /\ Calm) =>
                 /\ row' = job[t].build /\ member'[job[t].feed] # None
                 /\ payload' = job[t].build \/ (payload' = None /\ losses > 0)]_vars
  BY <1>1, <1>2
<1>. QED
  BY <1>2, Invariance, PTL DEF Spec, PushedIsServed

---------------------------------------------------------------------------
(* Refinement                                                              *)

\* A step that touches neither rows, memberships nor tombstones is a stutter of the contract.
LEMMA QuietRefines ==
    ASSUME UNCHANGED <<row, member, tombs>>
    PROVE  UNCHANGED Contract!cvars
BY DEF Contract!cvars, Held

\* A push, a mirror fetch or a transfer that writes a new membership.
LEMMA EnterRefines ==
    ASSUME IInv, NEW t \in Tasks, AddVersion(t) \/ Arrive(t)
    PROVE  [Contract!Next]_(Contract!cvars)
<1>1. Phase(t) /\ job[t] \in Jobs
  BY DEF IInv, PhaseInv, TypeOK
<1>2. CASE AddVersion(t)
  <2>. DEFINE f == job[t].feed
              m == NewMember(f, job[t].listed)
              b == job[t].build
  <2>1. f \in Feeds /\ b \in Builds /\ m \in Memberships /\ (f \in Gated => m.pending)
        /\ m # None
    BY <1>1, JobFacts, NewMemberType, MembershipFacts
  <2>2. row = None => Held = {}
    BY DEF IInv, RowInv
  <2>3. member[f] = None
    <3>1. CASE row = None
      BY <2>1, <2>2, <3>1 DEF Held
    <3>2. CASE row # None
      BY <1>1, <1>2, <3>2 DEF AddVersion, Phase, At
    <3>. QED
      BY <3>1, <3>2
  <2>4. /\ member' = [member EXCEPT ![f] = m] /\ tombs' = tombs
        /\ row' = b /\ (row # None => row = b)
    BY <1>1, <1>2 DEF AddVersion, Phase, At, Same
  <2>5. f \in Held'
    BY <2>1, <2>4 DEF Held, IInv, TypeOK
  <2>6. row = None \/ Held # {}
    BY <1>1, <1>2 DEF AddVersion, Phase, At
  <2>7. Contract!Enter(f, m, b)
    BY <2>1, <2>2, <2>3, <2>4, <2>5, <2>6 DEF Contract!Enter, Contract!Held, Held
  <2>. QED
    BY <2>1, <2>7 DEF Contract!Next
<1>3. CASE Arrive(t)
  <2>. DEFINE g == job[t].target
  <2>1. g \in Feeds /\ job[t].prev \in Memberships /\ job[t].feed \in Feeds
    BY <1>1, JobFacts
  <2>2. row \in Builds /\ Held # {} /\ row' = row /\ tombs' = tombs
    BY <1>1, <1>3, <2>1 DEF Arrive, Phase, At, Held, IInv, TypeOK
  <2>3. CASE member[g] = None
    <3>1. /\ Transferred(t) \in Memberships /\ (g \in Gated => Transferred(t).pending)
          /\ Transferred(t) # None
      BY <2>1, ConstantsAssumption DEF Transferred, Memberships
    <3>2. member' = [member EXCEPT ![g] = Transferred(t)]
      BY <1>3, <2>3 DEF Arrive
    <3>3. g \in Held'
      BY <2>1, <3>1, <3>2 DEF Held, IInv, TypeOK
    <3>4. Contract!Enter(g, Transferred(t), row)
      BY <2>2, <2>3, <3>1, <3>2, <3>3 DEF Contract!Enter, Contract!Held, Held
    <3>. QED
      BY <2>1, <2>2, <3>1, <3>4 DEF Contract!Next
  <2>4. CASE member[g] # None
    <3>1. member' = member
      BY <1>3, <2>1, <2>4 DEF Arrive, IInv, TypeOK
    <3>. QED
      BY <2>2, <3>1, QuietRefines
  <2>. QED
    BY <2>3, <2>4
<1>. QED
  BY <1>2, <1>3

\* An overwrite that commits.
LEMMA ReplaceRefines ==
    ASSUME IInv, NEW t \in Tasks, SwapRows(t) \/ SwapSame(t)
    PROVE  [Contract!Next]_(Contract!cvars)
<1>. DEFINE f == job[t].feed
            b == job[t].build
            m == Refreshed(t)
<1>1. Phase(t) /\ job[t] \in Jobs
  BY DEF IInv, PhaseInv, TypeOK
<1>2. f \in Feeds /\ b \in Builds /\ job[t].prev \in Memberships
  BY <1>1, JobFacts
<1>3. /\ member[f] # None /\ job[t].prev.pending = member[f].pending /\ MayReplace(t)
      /\ f \in Held
  BY <1>1, <1>2 DEF SwapRows, SwapSame, Phase, At, Held
<1>4. /\ m \in Memberships /\ m # None
      /\ m.pending = (member[f].pending \/ (f \in Gated /\ ~Same(t)))
  BY <1>2, <1>3, ConstantsAssumption DEF Refreshed, Memberships
<1>5. CASE SwapSame(t) /\ ~SwapAllowed(t)
  BY <1>5, QuietRefines DEF SwapSame
<1>6. CASE ~(SwapSame(t) /\ ~SwapAllowed(t))
  <2>1. row' = b /\ member' = [member EXCEPT ![f] = m] /\ tombs' = tombs
    BY <1>1, <1>6 DEF SwapRows, SwapSame, Phase, At, Same
  <2>2. f \in Held'
    BY <1>2, <1>4, <2>1 DEF Held, IInv, TypeOK
  <2>3. b # row => Approved = {} \/ (Held = {f} /\ Overwrite[f] \in {"enabled", "prerelease-only"})
    BY <1>3 DEF MayReplace, Same, Allows, Mode
  <2>4. Contract!Replace(f, m, b)
    BY <1>3, <1>4, <2>1, <2>2, <2>3
       DEF Contract!Replace, Contract!Held, Contract!Approved, Held, Approved, Same
  <2>. QED
    BY <1>2, <1>4, <2>4 DEF Contract!Next
<1>. QED
  BY <1>5, <1>6

\* A membership that ends, with its tombstone.
LEMMA WithdrawRefines ==
    ASSUME IInv, NEW t \in Tasks, Remove(t) \/ Leave(t)
    PROVE  [Contract!Next]_(Contract!cvars)
<1>. DEFINE f == job[t].feed
<1>1. f \in Feeds
  BY JobFacts DEF IInv, TypeOK
<1>2. /\ member' = [member EXCEPT ![f] = None] /\ row' = row
      /\ tombs' = IF member[f] # None THEN tombs \cup {f} ELSE tombs
  BY DEF Remove, Leave
<1>3. CASE member[f] = None
  <2>1. member' = member
    BY <1>1, <1>2, <1>3 DEF IInv, TypeOK
  <2>. QED
    BY <1>2, <1>3, <2>1, QuietRefines
<1>4. CASE member[f] # None
  <2>1. f \in Held /\ Held' = Held \ {f}
    BY <1>1, <1>2, <1>4 DEF Held, IInv, TypeOK
  <2>2. Contract!Withdraw(f)
    BY <1>2, <1>4, <2>1 DEF Contract!Withdraw, Contract!Held, Held
  <2>. QED
    BY <1>1, <2>2 DEF Contract!Next
<1>. QED
  BY <1>3, <1>4

\* Approvals, flags, and the tombstone a push clears.
LEMMA AdjustRefines ==
    ASSUME IInv, (\E t \in Tasks : ApproveMembership(t) \/ ClearTombstone(t)) \/ Flag
    PROVE  [Contract!Next]_(Contract!cvars)
<1>1. ASSUME NEW f \in Held, NEW m \in Memberships, m.pending => member[f].pending,
             member' = [member EXCEPT ![f] = m], row' = row, tombs' = tombs
      PROVE  [Contract!Next]_(Contract!cvars)
  <2>1. f \in Feeds /\ member[f] # None /\ m # None
    BY MembershipFacts DEF Held
  <2>2. Held' = Held
    BY <1>1, <2>1 DEF Held, IInv, TypeOK
  <2>3. Contract!Adjust(f, m)
    BY <1>1, <2>1, <2>2 DEF Contract!Adjust, Contract!Held
  <2>. QED
    BY <2>1, <2>3 DEF Contract!Next
<1>2. ASSUME NEW t \in Tasks, ApproveMembership(t)
      PROVE  [Contract!Next]_(Contract!cvars)
  <2>1. job[t].feed \in Feeds /\ row' = row /\ tombs' = tombs
    BY <1>2, JobFacts DEF ApproveMembership, IInv, TypeOK
  <2>2. CASE member[job[t].feed] = None
    BY <1>2, <2>1, <2>2, QuietRefines DEF ApproveMembership
  <2>3. CASE member[job[t].feed] # None
    <3>1. /\ job[t].feed \in Held /\ member[job[t].feed] \in Memberships
          /\ member' = [member EXCEPT ![job[t].feed] =
                           [member[job[t].feed] EXCEPT !.pending = FALSE]]
      BY <1>2, <2>1, <2>3 DEF ApproveMembership, Held, IInv, TypeOK
    <3>2. /\ [member[job[t].feed] EXCEPT !.pending = FALSE] \in Memberships
          /\ ~[member[job[t].feed] EXCEPT !.pending = FALSE].pending
      BY <3>1, MembershipFacts
    <3>. QED
      BY <1>1, <2>1, <3>1, <3>2
  <2>. QED
    BY <2>2, <2>3
<1>3. ASSUME NEW t \in Tasks, ClearTombstone(t)
      PROVE  [Contract!Next]_(Contract!cvars)
  <2>1. job[t].feed \in Feeds
    BY JobFacts DEF IInv, TypeOK
  <2>2. Contract!Undelete(job[t].feed)
    BY <1>3 DEF ClearTombstone, Contract!Undelete, Held
  <2>. QED
    BY <2>1, <2>2 DEF Contract!Next
<1>4. ASSUME Flag  PROVE [Contract!Next]_(Contract!cvars)
  <2>1. PICK f \in Held, m \in Memberships :
           m.pending = member[f].pending /\ member' = [member EXCEPT ![f] = m]
    BY <1>4, FlagFacts DEF IInv
  <2>2. row' = row /\ tombs' = tombs
    BY <1>4, FlagFacts DEF IInv
  <2>. QED
    BY <1>1, <2>1, <2>2
<1>. QED
  BY <1>2, <1>3, <1>4

\* Every step is one of the contract or a stutter.
LEMMA StepRefines ==
    ASSUME IInv, [Next]_vars
    PROVE  [Contract!Next]_(Contract!cvars)
<1>1. ASSUME NEW t \in Tasks, Step(t)  PROVE [Contract!Next]_(Contract!cvars)
  <2>1. CASE GcRow(t)
    <3>1. Held = {}
      BY <2>1 DEF IInv, PhaseInv, Phase, GcRow, At
    <3>2. Held' = {} /\ member' = member /\ tombs' = tombs
      BY <2>1, <3>1 DEF GcRow, Held, IInv, TypeOK
    <3>. QED
      BY <3>1, <3>2 DEF Contract!cvars
  <2>2. CASE AddVersion(t) \/ Arrive(t)
    BY <2>2, EnterRefines
  <2>3. CASE SwapRows(t) \/ SwapSame(t)
    BY <2>3, ReplaceRefines
  <2>4. CASE Remove(t) \/ Leave(t)
    BY <2>4, WithdrawRefines
  <2>5. CASE ApproveMembership(t) \/ ClearTombstone(t)
    BY <2>5, AdjustRefines
  <2>6. CASE UNCHANGED <<row, member, tombs>>
    BY <2>6, QuietRefines
  <2>. QED
    BY <1>1, <2>1, <2>2, <2>3, <2>4, <2>5, <2>6
       DEF Step, MirrorFetched, IndexOrphan, IndexNew, IndexJoin, IndexReplace,
           IndexRefuse, StorePayload, StoreSidecarFails, AddVersionFails, UndoStore,
           KeepAside, StoreOver, SwapFails, Restore, DropOld, CheckPlanned, SweepCheck,
           GcFiles, GcFilesFails, CheckShown, TransferRead, Abort, store
<1>2. CASE Flag
  BY <1>2, AdjustRefines
<1>3. CASE ~Flag /\ ~\E t \in Tasks : Step(t)
  <2>1. UNCHANGED <<row, member, tombs>>
    BY <1>3 DEF Next, Start, StartPush, StartMirror, StartPurge, StartPlanned,
          StartApprove, StartTransfer, StartSweep, Begin, LockVersion, Crash,
          LosePayload, store, vars
  <2>. QED
    BY <2>1, QuietRefines
<1>. QED
  BY <1>1, <1>2, <1>3

\* Through every interleaving, fault and crash the version changes as if each
\* push, delete, transfer and approval were one atomic step of the contract.
THEOREM Refinement == Spec => KeepsContract
<1>1. Init => Contract!Init
  BY DEF Init, Contract!Init, Held
<1>2. IInv /\ [Next]_vars => [Contract!Next]_(Contract!cvars)
  BY StepRefines
<1>. QED
  BY <1>1, <1>2, Invariance, PTL DEF Spec, KeepsContract, Contract!Spec

\* A membership ends only together with its tombstone: what retention or a
\* delete took away is never fetched by a mirror again as if it were new.
THEOREM RemovalsLeaveTombstones == Spec => LeavesWithTombstone
<1>1. ASSUME IInv, [Next]_vars
      PROVE  [\A f \in Feeds : (member[f] # None /\ member'[f] = None) => f \in tombs']_vars
  <2>1. SUFFICES ASSUME NEW f \in Feeds, member[f] # None, member'[f] = None
                 PROVE  f \in tombs'
    OBVIOUS
  <2>2. member \in [Feeds -> Memberships \cup {None}] /\ \A m \in Memberships : m # None
    BY <1>1, MembershipFacts DEF IInv, TypeOK
  <2>3. Contract!Next
    BY <1>1, <2>1, StepRefines DEF Contract!cvars
  <2>4. \E g \in Feeds : Contract!Withdraw(g) /\ g = f
    BY <2>1, <2>2, <2>3 DEF Contract!Next, Contract!Enter, Contract!Replace,
          Contract!Adjust, Contract!Withdraw, Contract!Undelete
  <2>. QED
    BY <2>4 DEF Contract!Withdraw
<1>. QED
  BY <1>1, Invariance, PTL DEF Spec, LeavesWithTombstone
=============================================================================
