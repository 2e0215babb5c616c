----------------------------- MODULE JobsProofs -----------------------------
(***************************************************************************)
(* What the jobs beside serving keep: symbol packages, cleanups, the inbox *)
(* and the process that runs them, for any number of tasks, versions,      *)
(* keys, contents, clients and faults.                                     *)
(***************************************************************************)
EXTENDS Symbols, Retention, Inbox, Process,
        SequenceTheorems, FiniteSetTheorems, WellFoundedInduction, TLAPS

---------------------------------------------------------------------------
\* Symbols.  A row of a version changes hands only with that version's lock, from no row
\* to a row only with the key's.  Whoever has these locks finds what it read still so, and
\* a step of one task touches no row, file or publication that another has anything to say
\* about.

Deciding == {"find", "hash"}
Claiming == {"claim", "store"}
Releasing == {"release", "releaseFile"}
Purging == {"list", "files"}
Pushing == {"keys", "package"} \cup Deciding \cup Claiming \cup Releasing
Plans == {"none", "claim", "restore", "unchanged"}

TaskRecords ==
    [pc : {"idle", "version"} \cup Pushing \cup Purging, push : SUBSET SymPushes, ver : SUBSET SymVersions,
     todo : SUBSET SymKeys, plan : [SymKeys -> Plans], owner : SymVersions \cup {Nothing},
     claimed : SUBSET SymKeys, replace : BOOLEAN]

\* What the stores and the tasks hold.
SymTypeOK ==
    /\ symRow \in [SymKeys -> SymVersions \cup {Nothing}]
    /\ symFile = [k \in SymKeys |-> symFile[k]] /\ published = [k \in SymKeys |-> published[k]]
    /\ member \subseteq data /\ data \subseteq SymVersions
    /\ verLock \in [SymVersions -> SUBSET SymTasks] /\ keyLock \in [SymKeys -> SUBSET SymTasks]
    /\ symTask \in [SymTasks -> TaskRecords]

Locked(t) == symTask[t].pc \notin {"idle", "version"}
HeldKeys(t) ==
    IF symTask[t].pc = "keys" THEN KeysOf(t) \ symTask[t].todo
    ELSE IF symTask[t].pc \in Deciding \cup Claiming \cup Releasing THEN KeysOf(t) ELSE {}

\* Who has which lock, and nobody else has it.
OwnLocks(t) ==
    /\ \A v \in SymVersions : t \in verLock[v] <=> Locked(t) /\ symTask[t].ver = {v}
    /\ \A k \in SymKeys : t \in keyLock[k] <=> k \in HeldKeys(t)
LocksFit ==
    /\ \A t \in SymTasks : OwnLocks(t)
    /\ \A v \in SymVersions : \A t, u \in verLock[v] : t = u
    /\ \A k \in SymKeys : \A t, u \in keyLock[k] : t = u

\* A task works on one version; a push on the keys of one archive, taken in order.
TaskFits(t) ==
    LET d == symTask[t] IN
    /\ d.pc \in Pushing \cup {"version"} =>
          \E p \in SymPushes : d.push = {p} /\ d.ver = {p.ver} /\ d.todo \subseteq DOMAIN p.bytes
                               /\ d.claimed \subseteq DOMAIN p.bytes
    /\ d.pc \in Purging => \E v \in SymVersions : d.ver = {v}
    /\ d.pc \in {"keys"} \cup Deciding \cup Claiming => d.todo # {}
    /\ d.pc \in Releasing => d.claimed # {}
    /\ d.pc = "keys" => \A k \in KeysOf(t) \ d.todo, l \in d.todo : k < l
    /\ d.pc \in Pushing => Ver(t) \in member
    /\ d.pc \in Purging /\ ~d.replace => Ver(t) \notin member
    /\ d.pc \in {"version", "keys"} \cup Deciding => d.claimed = {}

\* What a plan relies on until it is carried out.
PlanFits(t, k) ==
    LET plan == symTask[t].plan[k] IN
    /\ plan \in {"claim", "restore", "unchanged"}
    /\ plan = "claim" => symRow[k] = Nothing
    /\ plan = "restore" => symRow[k] = Ver(t) /\ symFile[k] = Nothing
    /\ plan = "unchanged" => (symRow[k] = Ver(t) => symFile[k] = SymPush(t).bytes[k])

\* How far a push is with a key.
KeyFits(t, k) ==
    LET d == symTask[t] IN
    /\ d.pc \in Deciding /\ k \notin d.todo => PlanFits(t, k)
    /\ d.pc = "hash" /\ k = Key(t) /\ d.owner = Ver(t) => symRow[k] = Ver(t)
    /\ d.pc \in Claiming /\ k \in d.todo /\ (d.pc = "claim" \/ k # Key(t)) => PlanFits(t, k)
    /\ d.pc = "store" /\ k = Key(t) => symRow[k] = Ver(t) /\ published[k] = Nothing
    /\ (d.pc \in Claiming /\ k \notin d.todo) \/ d.pc = "package" =>
          (symRow[k] = Ver(t) => symFile[k] = SymPush(t).bytes[k])
    /\ d.pc \in Pushing /\ k \in d.claimed =>
          published[k] = Nothing /\ symRow[k] \in {Ver(t)} \cup (IF d.pc \in Releasing THEN {Nothing} ELSE {})

\* What a purge has listed is the version's, and what it is through with is unpublished.
PurgeFits(t) ==
    symTask[t].pc = "files" =>
        \A k \in SymKeys : /\ k \in symTask[t].todo => symRow[k] = Ver(t)
                           /\ symRow[k] = Ver(t) /\ k \notin symTask[t].todo => published[k] = Nothing

KeysFit(t) == symTask[t].pc \in Pushing => \A k \in KeysOf(t) : KeyFits(t, k)

SymInv ==
    /\ SymTypeOK /\ LocksFit
    /\ \A t \in SymTasks : TaskFits(t) /\ PurgeFits(t) /\ KeysFit(t)
    /\ SymbolsStay /\ SymbolsHaveOwner

\* What a step of t may do beside the other tasks: rows, files and publications of its own
\* version, rows from nothing only under the lock of the key; locks of its own; and no
\* version somebody else has locked enters or leaves.
RowsFramed(t) ==
    /\ Locked(t) \/ UNCHANGED symStore
    /\ \A k \in SymKeys :
          /\ \/ symRow'[k] = symRow[k]
             \/ symRow[k] = Nothing /\ symRow'[k] = Ver(t) /\ t \in keyLock[k]
             \/ symRow[k] = Ver(t) /\ symRow'[k] = Nothing
          /\ symFile'[k] = symFile[k] \/ symRow[k] \in {Nothing, Ver(t)}
          /\ published'[k] \in {published[k], Nothing} \/ symRow[k] = Ver(t)
KeyLocksFramed(t) ==
    \A k \in SymKeys : /\ keyLock'[k] \ {t} = keyLock[k] \ {t}
                       /\ t \in keyLock'[k] => keyLock[k] \subseteq {t}
OwnersFramed(t) ==
    \A v \in SymVersions : /\ verLock'[v] \ {t} = verLock[v] \ {t}
                           /\ t \in verLock'[v] => verLock[v] \subseteq {t}
                           /\ (v \in member' <=> v \in member) \/ verLock[v] \ {t} = {}
Frame(t) ==
    /\ symTask' = [symTask EXCEPT ![t] = symTask'[t]]
    /\ RowsFramed(t) /\ KeyLocksFramed(t) /\ OwnersFramed(t)

\* A nonempty set of naturals has a least member.
LEMMA LeastMember ==
    ASSUME NEW S \in SUBSET Nat, S # {}
    PROVE  Min(S) \in S /\ \A y \in S : Min(S) <= y
<1>1. PICK x \in S : \A y \in S : ~(<<y, x>> \in OpToRel(<, Nat))
  BY WFMin, NatLessThanWellFounded
<1>2. ASSUME NEW y \in S PROVE x <= y
  <2>1. ~(<<y, x>> \in {ss \in Nat \X Nat : ss[1] < ss[2]})
    BY <1>1 DEF OpToRel
  <2> QED BY <2>1
<1> QED BY <1>2 DEF Min

\* The key at hand is one of those to do, and the first.
LEMMA KeyAtHand ==
    ASSUME SymInv, NEW t \in SymTasks, symTask[t].todo # {}
    PROVE  Key(t) \in symTask[t].todo /\ Key(t) \in SymKeys /\ \A l \in symTask[t].todo : Key(t) <= l
<1>1. symTask[t].todo \in SUBSET SymKeys
  BY DEF SymInv, SymTypeOK, TaskRecords
<1> QED BY <1>1, LeastMember, SymbolsAssumption DEF Key

\* The version a task works on, and the archive a push is of.
LEMMA AtWork ==
    ASSUME SymInv, NEW t \in SymTasks
    PROVE  /\ Locked(t) => symTask[t].ver = {Ver(t)} /\ Ver(t) \in SymVersions /\ Ver(t) # Nothing /\ t \in verLock[Ver(t)]
           /\ symTask[t].pc \in Pushing \cup {"version"} =>
                 /\ SymPush(t) \in SymPushes /\ symTask[t].push = {SymPush(t)} /\ Ver(t) = SymPush(t).ver
                 /\ symTask[t].ver = {Ver(t)} /\ Ver(t) \in SymVersions
                 /\ KeysOf(t) \subseteq SymKeys /\ symTask[t].todo \subseteq KeysOf(t) /\ symTask[t].claimed \subseteq KeysOf(t)
<1>1. TaskFits(t) /\ LocksFit
  BY DEF SymInv
<1>2. \A v : (CHOOSE x \in {v} : TRUE) = v
  OBVIOUS
<1>3. CASE symTask[t].pc \in Pushing \cup {"version"}
  <2>1. PICK p \in SymPushes : /\ symTask[t].push = {p} /\ symTask[t].ver = {p.ver}
                              /\ symTask[t].todo \subseteq DOMAIN p.bytes /\ symTask[t].claimed \subseteq DOMAIN p.bytes
    BY <1>1, <1>3 DEF TaskFits
  <2>2. SymPush(t) = p /\ Ver(t) = p.ver
    BY <1>2, <2>1 DEF SymPush, Ver
  <2>3. p.ver \in SymVersions /\ DOMAIN p.bytes \subseteq SymKeys
    BY SymbolsAssumption
  <2>4. Locked(t) => t \in verLock[p.ver] /\ p.ver # Nothing
    BY <1>1, <2>1, <2>3, SymbolsAssumption DEF LocksFit, OwnLocks, Nothing
  <2> QED BY <2>1, <2>2, <2>3, <2>4 DEF KeysOf
<1>4. CASE symTask[t].pc \in Purging
  <2>1. PICK v \in SymVersions : symTask[t].ver = {v}
    BY <1>1, <1>4 DEF TaskFits
  <2>2. Ver(t) = v /\ v # Nothing
    BY <1>2, <2>1, SymbolsAssumption DEF Ver, Nothing
  <2>3. Locked(t) => t \in verLock[v]
    BY <1>1, <2>1 DEF LocksFit, OwnLocks
  <2>4. symTask[t].pc \notin Pushing \cup {"version"}
    BY <1>4 DEF Purging, Pushing, Deciding, Claiming, Releasing
  <2> QED BY <2>1, <2>2, <2>3, <2>4
<1>5. CASE symTask[t].pc = "idle"
  BY <1>5 DEF Locked, Pushing, Deciding, Claiming, Releasing
<1>6. symTask[t].pc \in {"idle", "version"} \cup Pushing \cup Purging
  BY DEF SymInv, SymTypeOK, TaskRecords
<1> QED BY <1>3, <1>4, <1>5, <1>6

\* Two tasks that are past the version's lock work on two versions.
LEMMA VersionsApart ==
    ASSUME SymInv, NEW t \in SymTasks, NEW u \in SymTasks, t # u, Locked(t), Locked(u)
    PROVE  Ver(t) # Ver(u)
<1>1. t \in verLock[Ver(t)] /\ u \in verLock[Ver(u)] /\ Ver(t) \in SymVersions
  BY AtWork
<1> QED BY <1>1 DEF SymInv, LocksFit

\* Within its frame a step of t leaves be what another task relies on.
LEMMA OthersRows ==
    ASSUME SymInv, NEW t \in SymTasks, NEW u \in SymTasks, t # u, Frame(t), Locked(u), NEW k \in SymKeys
    PROVE  /\ symRow[k] = Ver(u) => symRow'[k] = Ver(u) /\ symFile'[k] = symFile[k] /\ published'[k] \in {published[k], Nothing}
           /\ symRow'[k] = Ver(u) => symRow[k] = Ver(u)
           /\ symRow[k] = Nothing /\ u \in keyLock[k] => symRow'[k] = Nothing /\ published'[k] \in {published[k], Nothing}
<1>1. Ver(u) # Nothing /\ u \in SymTasks
  BY AtWork
<1>2. CASE UNCHANGED symStore
  BY <1>2 DEF symStore
<1>3. CASE Locked(t)
  <2>1. Ver(t) # Ver(u) /\ Ver(t) # Nothing
    BY <1>3, VersionsApart, AtWork
  <2>2. u \in keyLock[k] => t \notin keyLock[k]
    BY DEF SymInv, LocksFit
  <2> QED BY <1>1, <2>1, <2>2 DEF Frame, RowsFramed
<1> QED BY <1>2, <1>3 DEF Frame, RowsFramed

\* ... and so what it says of itself stays true.
LEMMA OthersKeep ==
    ASSUME SymInv, NEW t \in SymTasks, NEW u \in SymTasks, t # u, Frame(t)
    PROVE  symTask'[u] = symTask[u] /\ TaskFits(u)' /\ PurgeFits(u)' /\ KeysFit(u)'
<1>1. symTask'[u] = symTask[u]
  BY DEF Frame, SymInv, SymTypeOK
<1>2. /\ Ver(u)' = Ver(u) /\ SymPush(u)' = SymPush(u) /\ Key(u)' = Key(u) /\ KeysOf(u)' = KeysOf(u)
  BY <1>1 DEF Ver, SymPush, Key, KeysOf
<1>3. TaskFits(u) /\ PurgeFits(u) /\ (symTask[u].pc \in Pushing => \A k \in KeysOf(u) : KeyFits(u, k))
  BY DEF SymInv, KeysFit
<1>4. ASSUME Locked(u) PROVE Ver(u) \in SymVersions /\ (Ver(u) \in member' <=> Ver(u) \in member)
  BY <1>4, AtWork DEF Frame, OwnersFramed, SymInv, LocksFit
<1>5. symTask[u].pc \in Pushing \cup Purging => Locked(u)
  BY DEF Locked, Pushing, Purging, Deciding, Claiming, Releasing
<1>6. TaskFits(u)'
  BY <1>1, <1>2, <1>3, <1>4, <1>5 DEF TaskFits
<1>7. PurgeFits(u)'
  <2>1. CASE symTask[u].pc = "files"
    <3>1. Locked(u) /\ Ver(u) # Nothing
      BY <1>4, <1>5, <2>1, AtWork DEF Locked
    <3>2. \A k \in SymKeys : symRow'[k] = Ver(u) <=> symRow[k] = Ver(u)
      BY <3>1, OthersRows
    <3>3. \A k \in SymKeys : symRow[k] = Ver(u) => published'[k] \in {published[k], Nothing}
      BY <3>1, OthersRows
    <3> QED BY <1>1, <1>2, <1>3, <2>1, <3>2, <3>3 DEF PurgeFits
  <2> QED BY <1>1, <2>1 DEF PurgeFits
<1>8. ASSUME symTask[u].pc \in Pushing, NEW k \in KeysOf(u)
      PROVE  KeyFits(u, k)'
  <2> Locked(u) /\ k \in SymKeys /\ KeyFits(u, k)
    BY <1>3, <1>5, <1>8, AtWork
  <2>1. symRow[k] = Ver(u) => symRow'[k] = Ver(u) /\ symFile'[k] = symFile[k] /\ published'[k] \in {published[k], Nothing}
    BY OthersRows
  <2>2. symRow'[k] = Ver(u) => symRow[k] = Ver(u)
    BY OthersRows
  <2>3. symTask[u].pc \in Deciding \cup Claiming \cup Releasing => u \in keyLock[k]
    <3>1. u \in keyLock[k] <=> k \in HeldKeys(u)
      BY DEF SymInv, LocksFit, OwnLocks
    <3>2. symTask[u].pc \in Deciding \cup Claiming \cup Releasing => HeldKeys(u) = KeysOf(u)
      BY DEF HeldKeys, Deciding, Claiming, Releasing
    <3> QED BY <1>8, <3>1, <3>2
  <2>4. symRow[k] = Nothing /\ u \in keyLock[k] => symRow'[k] = Nothing /\ published'[k] \in {published[k], Nothing}
    BY OthersRows
  <2>5. symTask[u].pc \in Deciding \cup Claiming /\ PlanFits(u, k) => PlanFits(u, k)'
    BY <1>1, <1>2, <2>1, <2>2, <2>3, <2>4 DEF PlanFits
  <2>6. symTask[u].pc \in Pushing /\ k \in symTask[u].claimed =>
          published'[k] = Nothing /\ symRow'[k] \in {Ver(u)} \cup (IF symTask[u].pc \in Releasing THEN {Nothing} ELSE {})
    BY <2>1, <2>3, <2>4 DEF KeyFits
  <2> HIDE DEF PlanFits
  <2> QED BY <1>1, <1>2, <2>1, <2>2, <2>5, <2>6 DEF KeyFits, Claiming, Deciding
<1> QED BY <1>1, <1>2, <1>6, <1>7, <1>8 DEF KeysFit

\* The locks after a step of t.
LEMMA LocksStep ==
    ASSUME SymInv, NEW t \in SymTasks, Frame(t), OwnLocks(t)'
    PROVE  LocksFit'
<1>1. ASSUME NEW u \in SymTasks, u # t PROVE OwnLocks(u)'
  <2>1. symTask'[u] = symTask[u]
    BY <1>1 DEF Frame, SymInv, SymTypeOK
  <2>2. (Locked(u)' <=> Locked(u)) /\ HeldKeys(u)' = HeldKeys(u)
    BY <2>1 DEF Locked, HeldKeys, KeysOf, SymPush
  <2>3. /\ \A k \in SymKeys : u \in keyLock'[k] <=> u \in keyLock[k]
        /\ \A v \in SymVersions : u \in verLock'[v] <=> u \in verLock[v]
    BY <1>1 DEF Frame, KeyLocksFramed, OwnersFramed
  <2> QED BY <2>1, <2>2, <2>3 DEF SymInv, LocksFit, OwnLocks
<1>2. /\ \A v \in SymVersions : \A r, u \in verLock'[v] : r = u
      /\ \A k \in SymKeys : \A r, u \in keyLock'[k] : r = u
  BY DEF Frame, KeyLocksFramed, OwnersFramed, SymInv, LocksFit
<1> QED BY <1>1, <1>2 DEF LocksFit

\* What a step of t has to keep, within its frame.
OwnFits(t) == OwnLocks(t) /\ TaskFits(t) /\ PurgeFits(t) /\ KeysFit(t)

LEMMA StepKeeps ==
    ASSUME SymInv, NEW t \in SymTasks, Frame(t), SymTypeOK', OwnFits(t)', SymbolsStay', SymbolsHaveOwner'
    PROVE  SymInv'
<1>1. ASSUME NEW u \in SymTasks PROVE (TaskFits(u) /\ PurgeFits(u) /\ KeysFit(u))'
  BY OthersKeep DEF OwnFits
<1> QED BY <1>1, LocksStep DEF SymInv, OwnFits

\* A task that ends leaves no lock and nothing to say.
LEMMA EndFits ==
    ASSUME SymInv, NEW t \in SymTasks, SymEnd(t)
    PROVE  /\ symTask' = [symTask EXCEPT ![t] = symTask'[t]] /\ KeyLocksFramed(t) /\ OwnFits(t)'
           /\ \A v \in SymVersions : verLock'[v] \ {t} = verLock[v] \ {t} /\ t \notin verLock'[v]
           /\ symTask' \in [SymTasks -> TaskRecords]
           /\ verLock' \in [SymVersions -> SUBSET SymTasks] /\ keyLock' \in [SymKeys -> SUBSET SymTasks]
<1>1. symTask'[t] = IdleSym /\ IdleSym \in TaskRecords /\ IdleSym.pc = "idle"
  BY DEF SymEnd, SymInv, SymTypeOK, IdleSym, TaskRecords, Nothing, Plans
<1>2. /\ symTask' = [symTask EXCEPT ![t] = IdleSym] /\ symTask \in [SymTasks -> TaskRecords]
      /\ verLock' = FreeVersion(t) /\ keyLock' = FreeKeys(t)
      /\ verLock \in [SymVersions -> SUBSET SymTasks] /\ keyLock \in [SymKeys -> SUBSET SymTasks]
  BY DEF SymEnd, SymInv, SymTypeOK
<1>3. ~Locked(t)' /\ HeldKeys(t)' = {}
  BY <1>1 DEF Locked, HeldKeys, Pushing, Deciding, Claiming, Releasing
<1>4. OwnLocks(t)'
  BY <1>2, <1>3 DEF OwnLocks, FreeVersion, FreeKeys
<1>5. TaskFits(t)' /\ PurgeFits(t)' /\ KeysFit(t)'
  BY <1>1 DEF TaskFits, PurgeFits, KeysFit, Pushing, Purging, Deciding, Claiming, Releasing
<1>6. KeyLocksFramed(t)
  BY <1>2 DEF KeyLocksFramed, FreeKeys
<1>7. /\ symTask' = [symTask EXCEPT ![t] = symTask'[t]] /\ symTask' \in [SymTasks -> TaskRecords]
  BY <1>1, <1>2
<1>8. /\ \A v \in SymVersions : verLock'[v] \ {t} = verLock[v] \ {t} /\ t \notin verLock'[v]
      /\ verLock' \in [SymVersions -> SUBSET SymTasks] /\ keyLock' \in [SymKeys -> SUBSET SymTasks]
  BY <1>2 DEF FreeVersion, FreeKeys
<1> QED BY <1>4, <1>5, <1>6, <1>7, <1>8 DEF OwnFits

\* ... and a task that ends without touching the store keeps everything.
LEMMA EndKeeps ==
    ASSUME SymInv, NEW t \in SymTasks, SymEnd(t), UNCHANGED symStore, UNCHANGED symOwners
    PROVE  SymInv'
<1>1. RowsFramed(t) /\ OwnersFramed(t)
  BY EndFits DEF RowsFramed, OwnersFramed, symStore, symOwners
<1>2. SymTypeOK' /\ SymbolsStay' /\ SymbolsHaveOwner'
  BY EndFits DEF SymInv, SymTypeOK, SymbolsStay, SymbolsHaveOwner, symStore, symOwners
<1> QED BY <1>1, <1>2, EndFits, StepKeeps DEF Frame

\* A step that rewrites the record of t.
LEMMA TaskMoves ==
    ASSUME SymInv, NEW t \in SymTasks, NEW d \in TaskRecords, symTask' = [symTask EXCEPT ![t] = d]
    PROVE  /\ symTask'[t] = d /\ symTask' = [symTask EXCEPT ![t] = symTask'[t]] /\ symTask' \in [SymTasks -> TaskRecords]
           /\ d.ver = symTask[t].ver => Ver(t)' = Ver(t)
           /\ d.push = symTask[t].push => SymPush(t)' = SymPush(t) /\ KeysOf(t)' = KeysOf(t)
<1>1. symTask'[t] = d
  BY DEF SymInv, SymTypeOK
<1>2. symTask' = [symTask EXCEPT ![t] = symTask'[t]] /\ symTask' \in [SymTasks -> TaskRecords]
  BY <1>1 DEF SymInv, SymTypeOK
<1> QED BY <1>1, <1>2 DEF Ver, SymPush, KeysOf

\* A step that keeps the locks, the stores and the owners as they are.
LEMMA LocalKeeps ==
    ASSUME SymInv, NEW t \in SymTasks, NEW d \in TaskRecords, symTask' = [symTask EXCEPT ![t] = d],
           UNCHANGED <<symStore, symOwners, symLocks>>, OwnFits(t)'
    PROVE  SymInv'
<1>1. RowsFramed(t) /\ KeyLocksFramed(t) /\ OwnersFramed(t)
  <2>1. UNCHANGED <<symRow, symFile, published, member, verLock, keyLock>>
    BY DEF symStore, symOwners, symLocks
  <2>2. OwnLocks(t)' /\ LocksFit
    BY DEF OwnFits, SymInv
  <2> QED BY <2>1, <2>2 DEF RowsFramed, KeyLocksFramed, OwnersFramed, symStore, LocksFit
<1>2. SymTypeOK' /\ SymbolsStay' /\ SymbolsHaveOwner'
  BY TaskMoves DEF SymInv, SymTypeOK, SymbolsStay, SymbolsHaveOwner, symStore, symOwners, symLocks
<1>3. symTask' = [symTask EXCEPT ![t] = symTask'[t]]
  BY TaskMoves
<1> QED BY <1>1, <1>2, <1>3, StepKeeps DEF Frame

LEMMA StartSymbolsKeeps ==
    ASSUME SymInv, NEW t \in SymTasks, NEW p \in SymPushes, StartSymbols(t, p)
    PROVE  SymInv'
<1> DEFINE d == [IdleSym EXCEPT !.pc = "version", !.push = {p}, !.ver = {p.ver}]
<1>1. d \in TaskRecords /\ d.pc = "version" /\ d.push = {p} /\ d.ver = {p.ver} /\ d.todo = {} /\ d.claimed = {}
  BY SymbolsAssumption DEF IdleSym, TaskRecords, Nothing, Plans
<1> HIDE DEF d
<1>2. symTask' = [symTask EXCEPT ![t] = d] /\ UNCHANGED <<symStore, symOwners, symLocks>> /\ symTask[t].pc = "idle"
  BY DEF StartSymbols, d
<1>3. symTask'[t] = d
  BY <1>1, <1>2, TaskMoves
<1>4. TaskFits(t)' /\ PurgeFits(t)' /\ KeysFit(t)'
  BY <1>1, <1>3 DEF TaskFits, PurgeFits, KeysFit, Pushing, Purging, Deciding, Claiming, Releasing
<1>5. OwnLocks(t)'
  <2>1. OwnLocks(t) /\ ~Locked(t) /\ HeldKeys(t) = {} /\ ~Locked(t)' /\ HeldKeys(t)' = {}
    BY <1>1, <1>2, <1>3 DEF SymInv, LocksFit, Locked, HeldKeys, Deciding, Claiming, Releasing
  <2> QED BY <1>2, <2>1 DEF OwnLocks, symLocks
<1> QED BY <1>1, <1>2, <1>4, <1>5, LocalKeeps DEF OwnFits

LEMMA LockOwnerKeeps ==
    ASSUME SymInv, NEW t \in SymTasks, LockOwner(t)
    PROVE  SymInv'
<1>1. CASE SymEnd(t)
  BY <1>1, EndKeeps DEF LockOwner
<1>2. CASE ~SymEnd(t)
  <2> DEFINE v == SymPush(t).ver
             d == [symTask[t] EXCEPT !.pc = IF KeysOf(t) = {} THEN "package" ELSE "keys", !.todo = KeysOf(t)]
  <2>1. /\ symTask[t].pc = "version" /\ verLock[v] = {} /\ v \in member
        /\ verLock' = [verLock EXCEPT ![v] = {t}] /\ UNCHANGED <<keyLock, symStore, symOwners>>
        /\ symTask' = [symTask EXCEPT ![t].pc = IF KeysOf(t) = {} THEN "package" ELSE "keys", ![t].todo = KeysOf(t)]
    BY <1>2 DEF LockOwner
  <2>2. /\ SymPush(t) \in SymPushes /\ symTask[t].push = {SymPush(t)} /\ Ver(t) = v
        /\ symTask[t].ver = {v} /\ v \in SymVersions
        /\ KeysOf(t) \subseteq SymKeys /\ symTask[t].claimed = {}
    BY <2>1, AtWork DEF SymInv, TaskFits
  <2>3. d \in TaskRecords /\ symTask[t] \in TaskRecords
    <3>1. symTask[t] \in TaskRecords
      BY DEF SymInv, SymTypeOK
    <3> QED BY <2>2, <3>1 DEF TaskRecords, Pushing
  <2>4. symTask' = [symTask EXCEPT ![t] = d]
    BY <2>1 DEF SymInv, SymTypeOK
  <2>5. /\ d.pc = (IF KeysOf(t) = {} THEN "package" ELSE "keys") /\ d.todo = KeysOf(t)
        /\ d.push = symTask[t].push /\ d.ver = symTask[t].ver /\ d.claimed = {}
    BY <2>2, <2>3 DEF TaskRecords
  <2> HIDE DEF d
  <2>6. /\ symTask'[t] = d /\ symTask' = [symTask EXCEPT ![t] = symTask'[t]] /\ symTask' \in [SymTasks -> TaskRecords]
        /\ Ver(t)' = v /\ SymPush(t)' = SymPush(t) /\ KeysOf(t)' = KeysOf(t)
    BY <2>2, <2>3, <2>4, <2>5, TaskMoves
  <2>7. OwnLocks(t) /\ ~Locked(t) /\ HeldKeys(t) = {} /\ Locked(t)' /\ HeldKeys(t)' = {}
    <3>1. OwnLocks(t) /\ ~Locked(t) /\ HeldKeys(t) = {}
      BY <2>1 DEF SymInv, LocksFit, Locked, HeldKeys, Deciding, Claiming, Releasing
    <3>2. CASE KeysOf(t) = {}
      BY <2>5, <2>6, <3>1, <3>2 DEF Locked, HeldKeys, Deciding, Claiming, Releasing
    <3>3. CASE KeysOf(t) # {}
      BY <2>5, <2>6, <3>1, <3>3 DEF Locked, HeldKeys
    <3> QED BY <3>2, <3>3
  <2>8. /\ verLock \in [SymVersions -> SUBSET SymTasks]
    BY DEF SymInv, SymTypeOK
  <2>9. OwnLocks(t)'
    BY <2>1, <2>2, <2>5, <2>6, <2>7, <2>8 DEF OwnLocks
  <2>10. TaskFits(t)' /\ PurgeFits(t)' /\ KeysFit(t)'
    <3>1. UNCHANGED member
      BY <2>1 DEF symOwners
    <3>2. TaskFits(t)'
      <4>1. d.push = {SymPush(t)} /\ d.ver = {v} /\ d.todo \subseteq DOMAIN SymPush(t).bytes
        BY <2>2, <2>5 DEF KeysOf
      <4>2. d.pc \notin Purging \cup Deciding \cup Claiming \cup Releasing \cup {"version"}
        BY <2>5 DEF Purging, Deciding, Claiming, Releasing
      <4>3. (\E p \in SymPushes : /\ d.push = {p} /\ d.ver = {p.ver} /\ d.todo \subseteq DOMAIN p.bytes
                                  /\ d.claimed \subseteq DOMAIN p.bytes)
        BY <2>2, <2>5, <4>1
      <4>4. (d.pc = "keys" => d.todo # {}) /\ KeysOf(t)' \ d.todo = {} /\ Ver(t)' \in member'
        <5>1. d.pc = "keys" => d.todo # {}
          BY <2>5
        <5>2. KeysOf(t)' \ d.todo = {}
          BY <2>5, <2>6
        <5>3. Ver(t)' \in member'
          BY <2>1, <2>6, <3>1
        <5> QED BY <5>1, <5>2, <5>3
      <4> QED BY <2>5, <2>6, <4>2, <4>3, <4>4 DEF TaskFits
    <3>3. PurgeFits(t)' /\ KeysFit(t)'
      BY <2>5, <2>6 DEF PurgeFits, KeysFit, KeyFits, Pushing, Deciding, Claiming, Releasing
    <3> QED BY <3>2, <3>3
  <2>11. RowsFramed(t) /\ KeyLocksFramed(t) /\ OwnersFramed(t)
    <3>1. UNCHANGED <<symRow, symFile, published, member, keyLock>> /\ \A k \in SymKeys : t \notin keyLock[k]
      BY <2>1, <2>7 DEF symStore, symOwners, OwnLocks
    <3>2. \A w \in SymVersions : t \notin verLock[w]
      BY <2>7 DEF OwnLocks
    <3> QED BY <2>1, <2>2, <2>8, <3>1, <3>2 DEF RowsFramed, KeyLocksFramed, OwnersFramed, symStore
  <2>12. SymTypeOK' /\ SymbolsStay' /\ SymbolsHaveOwner'
    BY <2>1, <2>2, <2>6 DEF SymInv, SymTypeOK, SymbolsStay, SymbolsHaveOwner, symStore, symOwners
  <2> QED BY <2>6, <2>9, <2>10, <2>11, <2>12, StepKeeps DEF Frame, OwnFits
<1> QED BY <1>1, <1>2

\* A step of a push past the version's lock, but for the keys.
LEMMA PushMoves ==
    ASSUME SymInv, NEW t \in SymTasks, NEW d \in TaskRecords, symTask' = [symTask EXCEPT ![t] = d],
           symTask[t].pc \in Pushing, d.pc \in Pushing, d.push = symTask[t].push, d.ver = symTask[t].ver,
           d.todo \subseteq KeysOf(t), d.claimed \subseteq KeysOf(t),
           d.pc \in {"keys"} \cup Deciding \cup Claiming => d.todo # {},
           d.pc \in Releasing => d.claimed # {}, d.pc \in {"keys"} \cup Deciding => d.claimed = {},
           d.pc = "keys" => \A k \in KeysOf(t) \ d.todo, l \in d.todo : k < l,
           UNCHANGED <<symOwners, verLock>>
    PROVE  /\ TaskFits(t)' /\ PurgeFits(t)' /\ OwnersFramed(t)
           /\ \A v \in SymVersions : t \in verLock'[v] <=> Locked(t)' /\ symTask'[t].ver = {v}
           /\ symTask'[t] = d /\ Ver(t)' = Ver(t) /\ SymPush(t)' = SymPush(t) /\ KeysOf(t)' = KeysOf(t)
<1>1. symTask'[t] = d /\ Ver(t)' = Ver(t) /\ SymPush(t)' = SymPush(t) /\ KeysOf(t)' = KeysOf(t)
  BY TaskMoves
<1>2. d.pc \notin Purging \cup {"version", "files"} /\ Locked(t) /\ Locked(t)'
  BY <1>1 DEF Purging, Pushing, Deciding, Claiming, Releasing, Locked
<1>3. /\ SymPush(t) \in SymPushes /\ symTask[t].push = {SymPush(t)} /\ Ver(t) = SymPush(t).ver
      /\ symTask[t].ver = {Ver(t)} /\ Ver(t) \in member
  BY AtWork DEF SymInv, TaskFits
<1>4. \E p \in SymPushes : d.push = {p} /\ d.ver = {p.ver} /\ d.todo \subseteq DOMAIN p.bytes /\ d.claimed \subseteq DOMAIN p.bytes
  BY <1>3 DEF KeysOf
<1>5. member' = member /\ verLock' = verLock
  BY DEF symOwners
<1>6. TaskFits(t)'
  BY <1>1, <1>2, <1>3, <1>4, <1>5 DEF TaskFits
<1>7. PurgeFits(t)'
  BY <1>1, <1>2 DEF PurgeFits
<1>8. \A v \in SymVersions : (t \in verLock[v] <=> symTask[t].ver = {v}) /\ \A r, u \in verLock[v] : r = u
  BY <1>2 DEF SymInv, LocksFit, OwnLocks
<1> QED BY <1>1, <1>2, <1>5, <1>6, <1>7, <1>8 DEF OwnersFramed

LEMMA LockKeyKeeps ==
    ASSUME SymInv, NEW t \in SymTasks, LockKey(t)
    PROVE  SymInv'
<1> DEFINE k == Key(t)
           rest == symTask[t].todo \ {k}
           d == [symTask[t] EXCEPT !.todo = IF rest = {} THEN KeysOf(t) ELSE rest,
                                   !.pc = IF rest = {} THEN "find" ELSE "keys"]
<1>1. /\ symTask[t].pc = "keys" /\ keyLock[k] = {} /\ keyLock' = [keyLock EXCEPT ![k] = {t}]
      /\ UNCHANGED <<symStore, symOwners, verLock>>
      /\ symTask' = [symTask EXCEPT ![t].todo = IF rest = {} THEN KeysOf(t) ELSE rest,
                                    ![t].pc = IF rest = {} THEN "find" ELSE "keys"]
  BY DEF LockKey
<1>2. /\ symTask[t].pc \in Pushing /\ symTask[t].todo # {} /\ symTask[t].claimed = {}
      /\ \A i \in KeysOf(t) \ symTask[t].todo, l \in symTask[t].todo : i < l
  BY <1>1 DEF SymInv, TaskFits, Pushing
<1>3. k \in symTask[t].todo /\ k \in SymKeys /\ \A l \in symTask[t].todo : k <= l
  BY <1>2, KeyAtHand
<1>4. KeysOf(t) \subseteq SymKeys /\ symTask[t].todo \subseteq KeysOf(t)
  BY <1>2, AtWork
<1>5. symTask[t] \in TaskRecords
  BY DEF SymInv, SymTypeOK
<1>6. d \in TaskRecords
  BY <1>4, <1>5 DEF TaskRecords, Pushing, Deciding
<1>7. symTask' = [symTask EXCEPT ![t] = d]
  BY <1>1 DEF SymInv, SymTypeOK
<1>8. /\ d.todo = (IF rest = {} THEN KeysOf(t) ELSE rest) /\ d.pc = (IF rest = {} THEN "find" ELSE "keys")
      /\ d.push = symTask[t].push /\ d.ver = symTask[t].ver /\ d.claimed = {}
  BY <1>2, <1>5 DEF TaskRecords
<1> HIDE DEF d
<1>9. d.pc = "keys" => \A i \in KeysOf(t) \ d.todo, l \in d.todo : i < l
  <2>1. \A l \in rest : k < l
    <3>1. k \in Nat /\ \A l \in rest : l \in Nat /\ k <= l /\ l # k
      BY <1>3, <1>4, SymbolsAssumption
    <3> HIDE DEF k
    <3> QED BY <3>1
  <2>2. d.pc = "keys" => d.todo = rest
    BY <1>8
  <2> QED BY <1>2, <1>3, <2>1, <2>2
<1>10. d.pc \in Pushing /\ d.pc \notin Claiming \cup Releasing \cup {"hash", "package"} /\ d.todo # {} /\ d.todo \subseteq KeysOf(t)
  BY <1>3, <1>4, <1>8 DEF Pushing, Deciding, Claiming, Releasing
<1>11. /\ TaskFits(t)' /\ PurgeFits(t)' /\ OwnersFramed(t)
       /\ \A v \in SymVersions : t \in verLock'[v] <=> Locked(t)' /\ symTask'[t].ver = {v}
       /\ symTask'[t] = d /\ Ver(t)' = Ver(t) /\ SymPush(t)' = SymPush(t) /\ KeysOf(t)' = KeysOf(t)
  BY <1>1, <1>2, <1>6, <1>7, <1>8, <1>9, <1>10, PushMoves
<1>12. HeldKeys(t) = KeysOf(t) \ symTask[t].todo /\ HeldKeys(t)' = HeldKeys(t) \cup {k}
  <2>1. HeldKeys(t) = KeysOf(t) \ symTask[t].todo
    BY <1>1 DEF HeldKeys
  <2>2. CASE rest = {}
    <3>1. d.pc = "find" /\ HeldKeys(t)' = KeysOf(t)
      BY <1>8, <1>11, <2>2 DEF HeldKeys, Deciding
    <3> QED BY <1>3, <1>4, <2>1, <2>2, <3>1
  <2>3. CASE rest # {}
    <3>1. HeldKeys(t)' = KeysOf(t) \ rest
      BY <1>8, <1>11, <2>3 DEF HeldKeys
    <3> QED BY <1>3, <1>4, <2>1, <3>1
  <2> QED BY <2>1, <2>2, <2>3
<1>13. keyLock \in [SymKeys -> SUBSET SymTasks] /\ \A i \in SymKeys : t \in keyLock[i] <=> i \in HeldKeys(t)
  BY DEF SymInv, SymTypeOK, LocksFit, OwnLocks
<1>14. OwnLocks(t)' /\ KeyLocksFramed(t)
  <2>1. \A i \in SymKeys : t \in keyLock'[i] <=> i \in HeldKeys(t)'
    BY <1>1, <1>3, <1>12, <1>13
  <2>2. \A i \in SymKeys : \A r, u \in keyLock[i] : r = u
    BY DEF SymInv, LocksFit
  <2> QED BY <1>1, <1>3, <1>11, <1>13, <2>1, <2>2 DEF OwnLocks, KeyLocksFramed
<1>15. KeysFit(t)'
  <2>1. ASSUME NEW i \in KeysOf(t) PROVE KeyFits(t, i)'
    <3>1. d.pc \in Deciding => i \in d.todo
      BY <1>8 DEF Deciding
    <3> QED BY <1>8, <1>10, <1>11, <3>1 DEF KeyFits, Claiming
  <2> QED BY <1>11, <2>1 DEF KeysFit
<1>16. SymTypeOK' /\ SymbolsStay' /\ SymbolsHaveOwner'
  <2>1. symTask' \in [SymTasks -> TaskRecords] /\ keyLock' \in [SymKeys -> SUBSET SymTasks]
    BY <1>1, <1>6, <1>7, <1>13, TaskMoves
  <2> QED BY <1>1, <2>1 DEF SymInv, SymTypeOK, SymbolsStay, SymbolsHaveOwner, symStore, symOwners
<1>17. RowsFramed(t) /\ symTask' = [symTask EXCEPT ![t] = symTask'[t]]
  <2>1. UNCHANGED <<symRow, symFile, published>>
    BY <1>1 DEF symStore
  <2> QED BY <1>1, <1>6, <1>7, <2>1, TaskMoves DEF RowsFramed
<1> QED BY <1>11, <1>14, <1>15, <1>16, <1>17, StepKeeps DEF Frame, OwnFits

\* A push that holds all its keys and goes on to a step that does too.
LEMMA KeysHeld ==
    ASSUME SymInv, NEW t \in SymTasks, symTask[t].pc \in Deciding \cup Claiming \cup Releasing,
           symTask'[t].pc \in Deciding \cup Claiming \cup Releasing, KeysOf(t)' = KeysOf(t), UNCHANGED keyLock
    PROVE  \A k \in SymKeys : t \in keyLock'[k] <=> k \in HeldKeys(t)'
<1>1. HeldKeys(t) = KeysOf(t) /\ HeldKeys(t)' = KeysOf(t)
  BY DEF HeldKeys, Deciding, Claiming, Releasing
<1> QED BY <1>1 DEF SymInv, LocksFit, OwnLocks

\* What a decision about the key at hand needs to rest on.
LEMMA PlanKeeps ==
    ASSUME SymInv, NEW t \in SymTasks, NEW plan \in {"claim", "restore", "unchanged"},
           symTask[t].pc \in Deciding, Plan(t, plan), UNCHANGED <<symStore, symOwners, symLocks>>,
           plan = "claim" => symRow[Key(t)] = Nothing,
           plan = "restore" => symRow[Key(t)] = Ver(t) /\ symFile[Key(t)] = Nothing,
           plan = "unchanged" => symFile[Key(t)] = SymPush(t).bytes[Key(t)]
    PROVE  SymInv'
<1> DEFINE k == Key(t)
           rest == symTask[t].todo \ {k}
           f == [symTask[t].plan EXCEPT ![k] = plan]
           d == [symTask[t] EXCEPT !.plan = f, !.owner = Nothing, !.todo = IF rest = {} THEN KeysOf(t) ELSE rest,
                                   !.pc = IF rest = {} THEN "claim" ELSE "find"]
<1>1. symTask[t].pc \in Pushing /\ symTask[t].todo # {} /\ symTask[t].claimed = {}
  BY DEF SymInv, TaskFits, Pushing
<1>2. k \in symTask[t].todo /\ k \in SymKeys
  BY <1>1, KeyAtHand
<1>3. KeysOf(t) \subseteq SymKeys /\ symTask[t].todo \subseteq KeysOf(t)
  BY <1>1, AtWork
<1>4. symTask[t] \in TaskRecords /\ symTask[t].plan \in [SymKeys -> Plans]
  BY DEF SymInv, SymTypeOK, TaskRecords
<1>5. f \in [SymKeys -> Plans] /\ f[k] = plan /\ \A i \in SymKeys \ {k} : f[i] = symTask[t].plan[i]
  BY <1>2, <1>4 DEF Plans
<1>6. symTask' = [symTask EXCEPT ![t] = d]
  <2>1. symTask' = [symTask EXCEPT ![t].plan[k] = plan, ![t].owner = Nothing,
                                   ![t].todo = IF rest = {} THEN KeysOf(t) ELSE rest,
                                   ![t].pc = IF rest = {} THEN "claim" ELSE "find"]
    BY DEF Plan
  <2> QED BY <2>1 DEF SymInv, SymTypeOK
<1> HIDE DEF f
<1>7. d \in TaskRecords
  BY <1>3, <1>4, <1>5 DEF TaskRecords, Pushing, Deciding, Claiming
<1>8. /\ d.todo = (IF rest = {} THEN KeysOf(t) ELSE rest) /\ d.pc = (IF rest = {} THEN "claim" ELSE "find")
      /\ d.push = symTask[t].push /\ d.ver = symTask[t].ver /\ d.claimed = {} /\ d.plan = f
  BY <1>1, <1>4 DEF TaskRecords
<1> HIDE DEF d
<1>9. d.pc \in {"claim", "find"} /\ d.todo # {} /\ d.todo \subseteq KeysOf(t)
  BY <1>2, <1>3, <1>8
<1>10. /\ TaskFits(t)' /\ PurgeFits(t)' /\ OwnersFramed(t)
       /\ \A v \in SymVersions : t \in verLock'[v] <=> Locked(t)' /\ symTask'[t].ver = {v}
       /\ symTask'[t] = d /\ Ver(t)' = Ver(t) /\ SymPush(t)' = SymPush(t) /\ KeysOf(t)' = KeysOf(t)
  <2>1. d.pc \in Pushing /\ d.pc # "keys" /\ d.pc \notin Releasing
    BY <1>9 DEF Pushing, Deciding, Claiming, Releasing
  <2> QED BY <1>1, <1>6, <1>7, <1>8, <1>9, <2>1, PushMoves DEF symLocks
<1>11. OwnLocks(t)'
  <2>1. \A i \in SymKeys : t \in keyLock'[i] <=> i \in HeldKeys(t)'
    BY <1>9, <1>10, KeysHeld DEF symLocks, Deciding, Claiming
  <2> QED BY <1>10, <2>1 DEF OwnLocks
<1>12. UNCHANGED <<symRow, symFile, published>>
  BY DEF symStore
<1>13. ASSUME NEW i \in KeysOf(t), i \notin rest PROVE PlanFits(t, i)'
  <2>1. CASE i = k
    BY <1>5, <1>8, <1>10, <1>12, <2>1 DEF PlanFits
  <2>2. CASE i # k
    <3>1. PlanFits(t, i)
      BY <1>1, <1>13, <2>2 DEF SymInv, KeysFit, KeyFits
    <3>2. d.plan[i] = symTask[t].plan[i]
      BY <1>3, <1>5, <1>8, <2>2
    <3> QED BY <1>10, <1>12, <3>1, <3>2 DEF PlanFits
  <2> QED BY <2>1, <2>2
<1>14. KeysFit(t)'
  <2>1. ASSUME NEW i \in KeysOf(t) PROVE KeyFits(t, i)'
    <3>1. i \notin rest => PlanFits(t, i)'
      BY <1>13
    <3>2. CASE rest = {}
      <4>1. d.pc = "claim" /\ i \in d.todo /\ PlanFits(t, i)'
        BY <1>8, <3>1, <3>2
      <4> QED BY <1>8, <1>10, <4>1 DEF KeyFits, Deciding
    <3>3. CASE rest # {}
      <4>1. d.pc = "find" /\ d.todo = rest
        BY <1>8, <3>3
      <4> QED BY <1>8, <1>10, <3>1, <4>1 DEF KeyFits, Claiming
    <3> QED BY <3>2, <3>3
  <2> QED BY <1>10, <2>1 DEF KeysFit
<1> QED BY <1>6, <1>7, <1>10, <1>11, <1>14, LocalKeeps DEF OwnFits

LEMMA FindSymbolKeeps ==
    ASSUME SymInv, NEW t \in SymTasks, FindSymbol(t)
    PROVE  SymInv'
<1> DEFINE owner == symRow[Key(t)]
           d == [symTask[t] EXCEPT !.owner = owner, !.pc = "hash"]
<1>1. symTask[t].pc = "find" /\ UNCHANGED <<symStore, symOwners>>
  BY DEF FindSymbol
<1>2. CASE SymEnd(t)
  BY <1>1, <1>2, EndKeeps
<1>3. CASE owner = Nothing /\ Plan(t, "claim") /\ UNCHANGED symLocks
  BY <1>1, <1>3, PlanKeeps DEF Deciding
<1>4. CASE owner # Nothing /\ symTask' = [symTask EXCEPT ![t].owner = owner, ![t].pc = "hash"] /\ UNCHANGED symLocks
  <2>1. symTask[t].pc \in Pushing /\ symTask[t].todo # {} /\ symTask[t].claimed = {}
    BY <1>1 DEF SymInv, TaskFits, Pushing, Deciding
  <2>2. Key(t) \in SymKeys /\ symTask[t] \in TaskRecords /\ owner \in SymVersions \cup {Nothing}
    BY <2>1, KeyAtHand DEF SymInv, SymTypeOK
  <2>3. symTask[t].todo \subseteq KeysOf(t)
    BY <2>1, AtWork
  <2>4. symTask' = [symTask EXCEPT ![t] = d]
    BY <1>4 DEF SymInv, SymTypeOK
  <2>5. d \in TaskRecords
    BY <2>2 DEF TaskRecords, Pushing, Deciding
  <2>6. /\ d.pc = "hash" /\ d.owner = owner /\ d.todo = symTask[t].todo /\ d.push = symTask[t].push
        /\ d.ver = symTask[t].ver /\ d.claimed = {} /\ d.plan = symTask[t].plan
    BY <2>1, <2>2 DEF TaskRecords
  <2> HIDE DEF d
  <2>7. /\ TaskFits(t)' /\ PurgeFits(t)'
        /\ \A v \in SymVersions : t \in verLock'[v] <=> Locked(t)' /\ symTask'[t].ver = {v}
        /\ symTask'[t] = d /\ Ver(t)' = Ver(t) /\ SymPush(t)' = SymPush(t) /\ KeysOf(t)' = KeysOf(t)
    <3>1. d.pc \in Pushing /\ d.pc \notin Releasing
      BY <2>6 DEF Pushing, Deciding, Releasing
    <3> QED BY <1>1, <1>4, <2>1, <2>3, <2>4, <2>5, <2>6, <3>1, PushMoves DEF symLocks
  <2>8. OwnLocks(t)'
    <3>1. \A i \in SymKeys : t \in keyLock'[i] <=> i \in HeldKeys(t)'
      BY <1>1, <1>4, <2>6, <2>7, KeysHeld DEF symLocks, Deciding
    <3> QED BY <2>7, <3>1 DEF OwnLocks
  <2>9. KeysFit(t)'
    <3>1. ASSUME NEW i \in KeysOf(t) PROVE KeyFits(t, i)'
      <4>1. i \notin symTask[t].todo => PlanFits(t, i)
        BY <1>1, <2>1 DEF SymInv, KeysFit, KeyFits, Deciding
      <4>2. PlanFits(t, i) => PlanFits(t, i)'
        BY <1>1, <2>6, <2>7 DEF PlanFits, symStore
      <4>3. Key(t)' = Key(t) /\ symRow' = symRow
        BY <1>1, <2>6, <2>7 DEF Key, symStore
      <4> QED BY <2>6, <2>7, <4>1, <4>2, <4>3 DEF KeyFits, Claiming
    <3> QED BY <2>7, <3>1 DEF KeysFit
  <2> QED BY <1>1, <1>4, <2>4, <2>5, <2>7, <2>8, <2>9, LocalKeeps DEF OwnFits
<1> QED BY <1>2, <1>3, <1>4 DEF FindSymbol

LEMMA HashStoredKeeps ==
    ASSUME SymInv, NEW t \in SymTasks, HashStored(t)
    PROVE  SymInv'
<1>1. symTask[t].pc = "hash" /\ symTask[t].pc \in Deciding /\ UNCHANGED <<symStore, symOwners>>
  BY DEF HashStored, Deciding
<1>2. symTask[t].owner = Ver(t) => symRow[Key(t)] = Ver(t)
  <2>1. symTask[t].pc \in Pushing /\ symTask[t].todo # {}
    BY <1>1 DEF SymInv, TaskFits, Pushing
  <2>2. Key(t) \in KeysOf(t)
    BY <2>1, KeyAtHand, AtWork
  <2> QED BY <1>1, <2>1, <2>2 DEF SymInv, KeysFit, KeyFits
<1>3. CASE SymEnd(t)
  BY <1>1, <1>3, EndKeeps
<1>4. CASE symFile[Key(t)] = SymPush(t).bytes[Key(t)] /\ Plan(t, "unchanged") /\ UNCHANGED symLocks
  BY <1>1, <1>4, PlanKeeps
<1>5. CASE symFile[Key(t)] = Nothing /\ symTask[t].owner = Ver(t) /\ Plan(t, "restore") /\ UNCHANGED symLocks
  BY <1>1, <1>2, <1>5, PlanKeeps
<1> QED BY <1>3, <1>4, <1>5 DEF HashStored

LEMMA UndoKeeps ==
    ASSUME SymInv, NEW t \in SymTasks, symTask[t].pc \in Claiming, Undo(t), UNCHANGED <<symStore, symOwners>>
    PROVE  SymInv'
<1> DEFINE d == [symTask[t] EXCEPT !.pc = "release"]
<1>1. CASE symTask[t].claimed = {}
  BY <1>1, EndKeeps DEF Undo
<1>2. CASE symTask[t].claimed # {}
  <2>1. UNCHANGED symLocks /\ symTask[t] \in TaskRecords /\ symTask' = [symTask EXCEPT ![t] = d]
    BY <1>2 DEF Undo, SymGoto, SymInv, SymTypeOK
  <2>2. d \in TaskRecords
    BY <2>1 DEF TaskRecords, Pushing, Releasing
  <2>3. /\ d.pc = "release" /\ d.push = symTask[t].push /\ d.ver = symTask[t].ver
        /\ d.todo = symTask[t].todo /\ d.claimed = symTask[t].claimed
    BY <2>1 DEF TaskRecords
  <2> HIDE DEF d
  <2>4. symTask[t].pc \in Pushing /\ d.pc \in Pushing /\ d.pc \in Releasing /\ d.pc \notin {"keys", "package"} \cup Deciding \cup Claiming
    BY <2>3 DEF Pushing, Deciding, Claiming, Releasing
  <2>5. symTask[t].todo \subseteq KeysOf(t) /\ symTask[t].claimed \subseteq KeysOf(t)
    BY <2>4, AtWork
  <2>6. /\ TaskFits(t)' /\ PurgeFits(t)'
        /\ \A v \in SymVersions : t \in verLock'[v] <=> Locked(t)' /\ symTask'[t].ver = {v}
        /\ symTask'[t] = d /\ Ver(t)' = Ver(t) /\ SymPush(t)' = SymPush(t) /\ KeysOf(t)' = KeysOf(t)
    BY <1>2, <2>1, <2>2, <2>3, <2>4, <2>5, PushMoves DEF symLocks
  <2>7. OwnLocks(t)'
    <3>1. \A i \in SymKeys : t \in keyLock'[i] <=> i \in HeldKeys(t)'
      BY <2>1, <2>4, <2>6, KeysHeld DEF symLocks
    <3> QED BY <2>6, <3>1 DEF OwnLocks
  <2>8. KeysFit(t)'
    <3>1. ASSUME NEW i \in KeysOf(t) PROVE KeyFits(t, i)'
      <4>1. i \in symTask[t].claimed => published[i] = Nothing /\ symRow[i] = Ver(t)
        BY <2>4 DEF SymInv, KeysFit, KeyFits, Claiming, Releasing
      <4> QED BY <2>3, <2>4, <2>6, <4>1 DEF KeyFits, Deciding, Claiming, symStore
    <3> QED BY <2>6, <3>1 DEF KeysFit
  <2> QED BY <2>1, <2>2, <2>6, <2>7, <2>8, LocalKeeps DEF OwnFits
<1> QED BY <1>1, <1>2

\* The key at hand is done: its file is the push's, if its row is.
LEMMA KeyDoneKeeps ==
    ASSUME SymInv, NEW t \in SymTasks, symTask[t].pc \in Claiming, KeyDone(t),
           UNCHANGED <<symRow, published, symOwners>>,
           symRow[Key(t)] = Ver(t) => symFile'[Key(t)] = SymPush(t).bytes[Key(t)],
           symFile' = symFile \/ /\ symRow[Key(t)] = Ver(t) /\ published[Key(t)] = Nothing
                                 /\ symFile' = [symFile EXCEPT ![Key(t)] = SymPush(t).bytes[Key(t)]],
           symTask[t].pc = "claim" \/ symRow[Key(t)] = Ver(t)
    PROVE  SymInv'
<1> DEFINE k == Key(t)
           rest == symTask[t].todo \ {k}
           d == [symTask[t] EXCEPT !.todo = rest, !.pc = IF rest = {} THEN "package" ELSE "claim"]
<1>1. symTask[t].pc \in Pushing /\ symTask[t].todo # {} /\ symTask[t].pc \notin Deciding \cup Releasing \cup {"keys", "package", "hash"}
  BY DEF SymInv, TaskFits, Pushing, Claiming, Deciding, Releasing
<1>2. k \in symTask[t].todo /\ k \in SymKeys
  BY <1>1, KeyAtHand
<1>3. KeysOf(t) \subseteq SymKeys /\ symTask[t].todo \subseteq KeysOf(t) /\ symTask[t].claimed \subseteq KeysOf(t)
  BY <1>1, AtWork
<1>4. symTask[t] \in TaskRecords /\ symFile = [i \in SymKeys |-> symFile[i]]
  BY DEF SymInv, SymTypeOK
<1>5. symTask' = [symTask EXCEPT ![t] = d] /\ verLock' = verLock /\ keyLock' = IF rest = {} THEN FreeKeys(t) ELSE keyLock
  BY DEF KeyDone, SymInv, SymTypeOK
<1>6. d \in TaskRecords
  BY <1>3, <1>4 DEF TaskRecords, Pushing, Claiming
<1>7. /\ d.todo = rest /\ d.pc = (IF rest = {} THEN "package" ELSE "claim")
      /\ d.push = symTask[t].push /\ d.ver = symTask[t].ver /\ d.claimed = symTask[t].claimed /\ d.plan = symTask[t].plan
  BY <1>4 DEF TaskRecords
<1> HIDE DEF d
<1>8. d.pc \in {"claim", "package"} /\ (d.pc = "claim" => d.todo # {}) /\ d.todo \subseteq KeysOf(t)
  BY <1>2, <1>3, <1>7
<1>9. d.pc \in Pushing /\ d.pc \notin {"keys", "hash", "store"} \cup Deciding \cup Releasing /\ (d.pc \in Claiming <=> d.pc = "claim")
  BY <1>8 DEF Pushing, Deciding, Claiming, Releasing
<1>10. /\ TaskFits(t)' /\ PurgeFits(t)' /\ OwnersFramed(t)
       /\ \A v \in SymVersions : t \in verLock'[v] <=> Locked(t)' /\ symTask'[t].ver = {v}
       /\ symTask'[t] = d /\ Ver(t)' = Ver(t) /\ SymPush(t)' = SymPush(t) /\ KeysOf(t)' = KeysOf(t)
  BY <1>1, <1>3, <1>5, <1>6, <1>7, <1>8, <1>9, PushMoves
<1>11. OwnLocks(t)' /\ KeyLocksFramed(t) /\ keyLock' \in [SymKeys -> SUBSET SymTasks]
  <2>1. keyLock \in [SymKeys -> SUBSET SymTasks]
    BY DEF SymInv, SymTypeOK
  <2>2. CASE rest = {}
    <3>1. HeldKeys(t)' = {}
      BY <1>7, <1>10, <2>2 DEF HeldKeys, Deciding, Claiming, Releasing
    <3> QED BY <1>5, <1>10, <2>1, <2>2, <3>1 DEF OwnLocks, KeyLocksFramed, FreeKeys
  <2>3. CASE rest # {}
    <3>1. \A i \in SymKeys : t \in keyLock'[i] <=> i \in HeldKeys(t)'
      BY <1>5, <1>7, <1>10, <2>3, KeysHeld DEF Claiming
    <3>2. \A i \in SymKeys : \A r, u \in keyLock[i] : r = u
      BY DEF SymInv, LocksFit
    <3> QED BY <1>5, <1>10, <2>1, <2>3, <3>1, <3>2 DEF OwnLocks, KeyLocksFramed
  <2> QED BY <2>2, <2>3
<1>12. \A i \in SymKeys \ {k} : symFile'[i] = symFile[i]
  BY <1>4
<1>13. KeysFit(t)'
  <2>1. ASSUME NEW i \in KeysOf(t) PROVE KeyFits(t, i)'
    <3>1. KeyFits(t, i)
      BY <1>1 DEF SymInv, KeysFit
    <3>2. i \in rest /\ d.pc = "claim" => PlanFits(t, i)'
      <4>1. SUFFICES ASSUME i \in rest PROVE PlanFits(t, i)'
        OBVIOUS
      <4>2. PlanFits(t, i)
        BY <3>1, <4>1 DEF KeyFits
      <4>3. symFile'[i] = symFile[i]
        BY <1>3, <1>12, <4>1
      <4> QED BY <1>7, <1>10, <4>2, <4>3 DEF PlanFits
    <3>3. i \notin rest => (symRow[i] = Ver(t) => symFile'[i] = SymPush(t).bytes[i])
      <4>1. i # k /\ i \notin rest => i \notin symTask[t].todo /\ i \in SymKeys
        BY <1>3
      <4> QED BY <1>12, <3>1, <4>1 DEF KeyFits
    <3>4. i \in d.claimed => published[i] = Nothing /\ symRow[i] = Ver(t)
      BY <1>1, <1>7, <3>1 DEF KeyFits
    <3>5. d.pc = "package" => i \notin rest
      BY <1>7
    <3> QED BY <1>7, <1>9, <1>10, <3>2, <3>3, <3>4, <3>5 DEF KeyFits
  <2> QED BY <1>10, <2>1 DEF KeysFit
<1>14. RowsFramed(t) /\ symTask' = [symTask EXCEPT ![t] = symTask'[t]]
  <2>1. Locked(t)
    BY <1>1 DEF Locked, Pushing, Claiming
  <2>2. \A i \in SymKeys : symFile'[i] = symFile[i] \/ symRow[i] = Ver(t)
    BY <1>12
  <2> QED BY <1>5, <1>6, <2>1, <2>2, TaskMoves DEF RowsFramed
<1>15. SymTypeOK' /\ SymbolsStay' /\ SymbolsHaveOwner'
  <2>1. symTask' \in [SymTasks -> TaskRecords]
    BY <1>5, <1>6, TaskMoves
  <2>2. symFile' = [i \in SymKeys |-> symFile'[i]]
    BY <1>4
  <2>3. SymTypeOK'
    BY <1>5, <1>11, <2>1, <2>2 DEF SymInv, SymTypeOK, symOwners
  <2>4. SymbolsStay'
    BY <1>12 DEF SymInv, SymbolsStay
  <2> QED BY <2>3, <2>4 DEF SymInv, SymbolsHaveOwner, symOwners
<1> QED BY <1>10, <1>11, <1>13, <1>14, <1>15, StepKeeps DEF Frame, OwnFits

\* What the step of storing a file relies on: the row is the push's and unpublished.
LEMMA StoreReady ==
    ASSUME SymInv, NEW t \in SymTasks, symTask[t].pc = "store"
    PROVE  symRow[Key(t)] = Ver(t) /\ published[Key(t)] = Nothing
<1>1. symTask[t].pc \in Pushing /\ symTask[t].todo # {}
  BY DEF SymInv, TaskFits, Pushing, Claiming
<1>2. Key(t) \in KeysOf(t)
  BY <1>1, KeyAtHand, AtWork
<1> QED BY <1>1, <1>2 DEF SymInv, KeysFit, KeyFits

LEMMA StoreFileKeeps ==
    ASSUME SymInv, NEW t \in SymTasks, StoreFile(t)
    PROVE  SymInv'
<1>1. symTask[t].pc = "store" /\ symTask[t].pc \in Claiming /\ UNCHANGED <<symRow, published, symOwners>>
  BY DEF StoreFile, Claiming
<1>2. CASE Undo(t) /\ UNCHANGED symFile
  BY <1>1, <1>2, UndoKeeps DEF symStore
<1>3. CASE KeyDone(t) /\ symFile' = [symFile EXCEPT ![Key(t)] = SymPush(t).bytes[Key(t)]]
  <2>1. Key(t) \in SymKeys /\ symFile = [k \in SymKeys |-> symFile[k]]
    BY <1>1, KeyAtHand DEF SymInv, TaskFits, SymTypeOK
  <2>2. symFile'[Key(t)] = SymPush(t).bytes[Key(t)]
    BY <1>3, <2>1
  <2> QED BY <1>1, <1>3, <2>2, StoreReady, KeyDoneKeeps
<1> QED BY <1>2, <1>3 DEF StoreFile

LEMMA ClaimKeeps ==
    ASSUME SymInv, NEW t \in SymTasks, Claim(t)
    PROVE  SymInv'
<1> DEFINE k == Key(t)
           plan == symTask[t].plan[k]
<1>1. symTask[t].pc = "claim" /\ symTask[t].pc \in Pushing \cap Claiming /\ symTask[t].todo # {}
      /\ UNCHANGED <<symFile, published, symOwners>>
  BY DEF Claim, SymInv, TaskFits, Claiming, Pushing
<1>2. k \in symTask[t].todo /\ k \in SymKeys
  BY <1>1, KeyAtHand
<1>3. KeysOf(t) \subseteq SymKeys /\ symTask[t].todo \subseteq KeysOf(t) /\ symTask[t].claimed \subseteq KeysOf(t)
  BY <1>1, AtWork
<1>4. \A i \in KeysOf(t) : KeyFits(t, i)
  BY <1>1 DEF SymInv, KeysFit
<1>5. PlanFits(t, k)
  BY <1>1, <1>2, <1>3, <1>4 DEF KeyFits
<1>6. symTask[t] \in TaskRecords /\ symRow \in [SymKeys -> SymVersions \cup {Nothing}]
  BY DEF SymInv, SymTypeOK
<1>7. CASE plan = "unchanged" /\ KeyDone(t) /\ UNCHANGED symRow
  BY <1>1, <1>5, <1>7, KeyDoneKeeps DEF PlanFits
<1>8. CASE Undo(t) /\ UNCHANGED symRow
  BY <1>1, <1>8, UndoKeeps DEF symStore
<1>9. ASSUME NEW c \in SUBSET KeysOf(t), symTask' = [symTask EXCEPT ![t] = [symTask[t] EXCEPT !.claimed = c, !.pc = "store"]],
             UNCHANGED symLocks, plan \in {"restore", "claim"},
             plan = "restore" => symRow' = symRow /\ c = symTask[t].claimed,
             plan = "claim" => /\ symRow[k] = Nothing /\ symRow' = [symRow EXCEPT ![k] = Ver(t)]
                               /\ c = symTask[t].claimed \cup {k}
      PROVE  SymInv'
  <2> DEFINE d == [symTask[t] EXCEPT !.claimed = c, !.pc = "store"]
  <2>1. d \in TaskRecords
    BY <1>3, <1>6 DEF TaskRecords, Pushing, Claiming
  <2>2. /\ d.pc = "store" /\ d.claimed = c /\ d.push = symTask[t].push /\ d.ver = symTask[t].ver
        /\ d.todo = symTask[t].todo /\ d.plan = symTask[t].plan
    BY <1>6 DEF TaskRecords
  <2>3. symTask' = [symTask EXCEPT ![t] = d]
    BY <1>9
  <2> HIDE DEF d
  <2>4. d.pc \in Pushing /\ d.pc \in Claiming /\ d.pc \notin {"keys", "hash", "claim", "package"} \cup Deciding \cup Releasing
    BY <2>2 DEF Pushing, Deciding, Claiming, Releasing
  <2>5. /\ TaskFits(t)' /\ PurgeFits(t)' /\ OwnersFramed(t)
        /\ \A v \in SymVersions : t \in verLock'[v] <=> Locked(t)' /\ symTask'[t].ver = {v}
        /\ symTask'[t] = d /\ Ver(t)' = Ver(t) /\ SymPush(t)' = SymPush(t) /\ KeysOf(t)' = KeysOf(t)
    BY <1>1, <1>3, <1>9, <2>1, <2>2, <2>3, <2>4, PushMoves DEF symLocks
  <2>6. OwnLocks(t)' /\ KeyLocksFramed(t)
    <3>1. \A i \in SymKeys : t \in keyLock'[i] <=> i \in HeldKeys(t)'
      BY <1>1, <1>9, <2>4, <2>5, KeysHeld DEF symLocks
    <3>2. \A i \in SymKeys : \A r, u \in keyLock[i] : r = u
      BY DEF SymInv, LocksFit
    <3> QED BY <1>9, <2>5, <3>1, <3>2 DEF OwnLocks, KeyLocksFramed, symLocks
  <2>7. symRow[k] \in {Nothing, Ver(t)} /\ symRow'[k] = Ver(t) /\ (\A i \in SymKeys \ {k} : symRow'[i] = symRow[i])
    BY <1>2, <1>5, <1>6, <1>9 DEF PlanFits
  <2>8. published[k] = Nothing /\ Ver(t) # Nothing /\ Ver(t) \in SymVersions /\ Locked(t)
    <3>1. Locked(t)
      BY <1>1 DEF Locked
    <3>2. Ver(t) # Nothing /\ Ver(t) \in SymVersions
      BY <3>1, AtWork
    <3>3. published[k] # Nothing => symRow[k] # Nothing /\ symFile[k] = published[k]
      BY <1>2 DEF SymInv, SymbolsStay
    <3> QED BY <1>5, <1>9, <3>1, <3>2, <3>3 DEF PlanFits
  <2>9. KeysFit(t)'
    <3>1. ASSUME NEW i \in KeysOf(t), i # k PROVE KeyFits(t, i)'
      <4>1. symRow'[i] = symRow[i] /\ KeyFits(t, i) /\ Key(t)' = Key(t)
        BY <1>3, <1>4, <2>2, <2>5, <2>7, <3>1 DEF Key
      <4>2. i \in d.todo => PlanFits(t, i)'
        <5>1. i \in d.todo => PlanFits(t, i)
          BY <1>1, <2>2, <4>1 DEF KeyFits
        <5> QED BY <1>1, <2>2, <2>5, <4>1, <5>1 DEF PlanFits
      <4>3. i \in d.claimed => published[i] = Nothing /\ symRow[i] = Ver(t)
        <5>1. i \in d.claimed => i \in symTask[t].claimed
          BY <1>9, <2>2, <3>1
        <5> QED BY <1>1, <4>1, <5>1 DEF KeyFits, Releasing
      <4>4. i \notin d.todo => (symRow[i] = Ver(t) => symFile[i] = SymPush(t).bytes[i])
        BY <1>1, <2>2, <4>1 DEF KeyFits
      <4> QED BY <1>1, <2>2, <2>4, <2>5, <3>1, <4>1, <4>2, <4>3, <4>4 DEF KeyFits
    <3>2. ASSUME NEW i \in KeysOf(t), i = k PROVE KeyFits(t, i)'
      <4>1. Key(t)' = i /\ i \in d.todo
        BY <1>2, <2>2, <2>5, <3>2 DEF Key
      <4> QED BY <1>1, <2>2, <2>4, <2>5, <2>7, <2>8, <3>2, <4>1 DEF KeyFits
    <3> QED BY <2>5, <3>1, <3>2 DEF KeysFit
  <2>10. RowsFramed(t) /\ symTask' = [symTask EXCEPT ![t] = symTask'[t]]
    <3>1. t \in keyLock[k]
      <4>1. k \in HeldKeys(t)
        BY <1>1, <1>2, <1>3 DEF HeldKeys
      <4> QED BY <1>2, <4>1 DEF SymInv, LocksFit, OwnLocks
    <3> QED BY <1>1, <2>1, <2>3, <2>7, <2>8, <3>1, TaskMoves DEF RowsFramed
  <2>11. SymTypeOK' /\ SymbolsStay' /\ SymbolsHaveOwner'
    <3>1. symTask' \in [SymTasks -> TaskRecords]
      BY <2>1, <2>3, TaskMoves
    <3>2. symRow' \in [SymKeys -> SymVersions \cup {Nothing}]
      BY <1>6, <1>9, <2>8
    <3>3. SymTypeOK'
      BY <1>1, <1>9, <3>1, <3>2 DEF SymInv, SymTypeOK, symOwners, symLocks
    <3>4. SymbolsStay'
      BY <1>1, <2>7, <2>8 DEF SymInv, SymbolsStay
    <3>5. Ver(t) \in data
      BY <1>1 DEF SymInv, TaskFits, SymTypeOK
    <3> QED BY <1>1, <2>7, <3>3, <3>4, <3>5 DEF SymInv, SymbolsHaveOwner, symOwners
  <2> QED BY <2>5, <2>6, <2>9, <2>10, <2>11, StepKeeps DEF Frame, OwnFits
<1>10. CASE plan = "restore" /\ SymGoto(t, "store") /\ UNCHANGED <<symRow, symLocks>>
  <2>1. symTask' = [symTask EXCEPT ![t] = [symTask[t] EXCEPT !.claimed = symTask[t].claimed, !.pc = "store"]]
    BY <1>6, <1>10 DEF SymGoto, SymInv, SymTypeOK, TaskRecords
  <2> QED BY <1>3, <1>9, <1>10, <2>1
<1>11. CASE /\ plan = "claim" /\ symRow[k] = Nothing /\ symRow' = [symRow EXCEPT ![k] = Ver(t)]
            /\ symTask' = [symTask EXCEPT ![t].claimed = @ \cup {k}, ![t].pc = "store"] /\ UNCHANGED symLocks
  <2>1. symTask' = [symTask EXCEPT ![t] = [symTask[t] EXCEPT !.claimed = symTask[t].claimed \cup {k}, !.pc = "store"]]
    BY <1>6, <1>11 DEF SymInv, SymTypeOK, TaskRecords
  <2>2. symTask[t].claimed \cup {k} \in SUBSET KeysOf(t)
    BY <1>2, <1>3
  <2> QED BY <1>9, <1>11, <2>1, <2>2
<1> QED BY <1>7, <1>8, <1>10, <1>11 DEF Claim

\* What a key that is given up again is like, and the next of them.
LEMMA ReleaseReady ==
    ASSUME SymInv, NEW t \in SymTasks, symTask[t].pc \in Releasing
    PROVE  /\ symTask[t].pc \in Pushing /\ Locked(t) /\ Min(symTask[t].claimed) \in symTask[t].claimed
           /\ symTask[t].claimed \subseteq KeysOf(t) /\ KeysOf(t) \subseteq SymKeys /\ symTask[t].todo \subseteq KeysOf(t)
           /\ \A i \in symTask[t].claimed : published[i] = Nothing /\ symRow[i] \in {Ver(t), Nothing}
<1>1. symTask[t].pc \in Pushing /\ symTask[t].claimed # {} /\ Locked(t)
  BY DEF SymInv, TaskFits, Pushing, Releasing, Locked
<1>2. symTask[t].claimed \subseteq KeysOf(t) /\ KeysOf(t) \subseteq SymKeys /\ symTask[t].todo \subseteq KeysOf(t)
  BY <1>1, AtWork
<1>3. Min(symTask[t].claimed) \in symTask[t].claimed
  BY <1>1, <1>2, SymbolsAssumption, LeastMember
<1>4. \A i \in symTask[t].claimed : published[i] = Nothing /\ symRow[i] \in {Ver(t), Nothing}
  BY <1>1, <1>2 DEF SymInv, KeysFit, KeyFits
<1> QED BY <1>1, <1>2, <1>3, <1>4

\* A push that gives up its claims, on to the next step or the next key.
LEMMA ReleaseKeeps ==
    ASSUME SymInv, NEW t \in SymTasks, symTask[t].pc \in Releasing, NEW p \in Releasing, NEW c \in SUBSET symTask[t].claimed,
           c # {}, symTask' = [symTask EXCEPT ![t] = [symTask[t] EXCEPT !.claimed = c, !.pc = p]],
           UNCHANGED <<published, symOwners, symLocks>>,
           symRow' = symRow \/ symRow' = [symRow EXCEPT ![Min(symTask[t].claimed)] = Nothing],
           symFile' = symFile \/ symFile' = [symFile EXCEPT ![Min(symTask[t].claimed)] = Nothing]
    PROVE  SymInv'
<1> DEFINE k == Min(symTask[t].claimed)
           d == [symTask[t] EXCEPT !.claimed = c, !.pc = p]
<1>1. /\ symTask[t].pc \in Pushing /\ Locked(t) /\ k \in symTask[t].claimed
      /\ symTask[t].claimed \subseteq KeysOf(t) /\ KeysOf(t) \subseteq SymKeys /\ symTask[t].todo \subseteq KeysOf(t)
      /\ \A i \in symTask[t].claimed : published[i] = Nothing /\ symRow[i] \in {Ver(t), Nothing}
  BY ReleaseReady
<1>2. /\ symTask[t] \in TaskRecords /\ symRow \in [SymKeys -> SymVersions \cup {Nothing}]
      /\ symFile = [i \in SymKeys |-> symFile[i]]
  BY DEF SymInv, SymTypeOK
<1>3. d \in TaskRecords
  BY <1>1, <1>2 DEF TaskRecords, Pushing
<1>4. /\ d.pc = p /\ d.claimed = c /\ d.push = symTask[t].push /\ d.ver = symTask[t].ver /\ d.todo = symTask[t].todo
  BY <1>2 DEF TaskRecords
<1> HIDE DEF d, k
<1>5. symTask' = [symTask EXCEPT ![t] = d]
  BY DEF d
<1>6. d.pc \in Releasing /\ d.pc \in Pushing /\ d.pc \notin {"keys", "hash", "claim", "store", "package"} \cup Deciding \cup Claiming
  BY <1>4 DEF Releasing, Pushing, Deciding, Claiming
<1>7. /\ TaskFits(t)' /\ PurgeFits(t)' /\ OwnersFramed(t)
      /\ \A v \in SymVersions : t \in verLock'[v] <=> Locked(t)' /\ symTask'[t].ver = {v}
      /\ symTask'[t] = d /\ Ver(t)' = Ver(t) /\ SymPush(t)' = SymPush(t) /\ KeysOf(t)' = KeysOf(t)
  BY <1>1, <1>3, <1>4, <1>5, <1>6, PushMoves DEF symLocks
<1>8. OwnLocks(t)' /\ KeyLocksFramed(t)
  <2>1. \A i \in SymKeys : t \in keyLock'[i] <=> i \in HeldKeys(t)'
    BY <1>6, <1>7, KeysHeld DEF symLocks
  <2>2. \A i \in SymKeys : \A r, u \in keyLock[i] : r = u
    BY DEF SymInv, LocksFit
  <2> QED BY <1>7, <2>1, <2>2 DEF OwnLocks, KeyLocksFramed, symLocks
<1>9. \A i \in SymKeys : /\ symRow'[i] = symRow[i] \/ (i = k /\ symRow'[i] = Nothing)
                         /\ symFile'[i] = symFile[i] \/ i = k
  BY <1>2 DEF k
<1>10. KeysFit(t)'
  <2>1. ASSUME NEW i \in KeysOf(t) PROVE KeyFits(t, i)'
    <3>1. i \in c => published[i] = Nothing /\ symRow'[i] \in {Ver(t), Nothing}
      BY <1>1, <1>9
    <3> QED BY <1>4, <1>6, <1>7, <3>1 DEF KeyFits
  <2> QED BY <1>7, <2>1 DEF KeysFit
<1>11. RowsFramed(t) /\ symTask' = [symTask EXCEPT ![t] = symTask'[t]]
  <2>1. symRow[k] \in {Ver(t), Nothing}
    BY <1>1
  <2>2. RowsFramed(t)
    BY <1>1, <1>9, <2>1 DEF RowsFramed
  <2> QED BY <1>3, <1>5, <2>2, TaskMoves
<1>12. SymTypeOK' /\ SymbolsStay' /\ SymbolsHaveOwner'
  <2>1. symTask' \in [SymTasks -> TaskRecords]
    BY <1>3, <1>5, TaskMoves
  <2>2. symRow' \in [SymKeys -> SymVersions \cup {Nothing}] /\ symFile' = [i \in SymKeys |-> symFile'[i]]
    BY <1>2
  <2>3. SymTypeOK'
    BY <2>1, <2>2 DEF SymInv, SymTypeOK, symOwners, symLocks
  <2>4. SymbolsStay'
    <3>1. published[k] = Nothing
      BY <1>1
    <3> QED BY <1>9, <3>1 DEF SymInv, SymbolsStay
  <2> QED BY <1>9, <2>3, <2>4 DEF SymInv, SymbolsHaveOwner, symOwners
<1> QED BY <1>7, <1>8, <1>10, <1>11, <1>12, StepKeeps DEF Frame, OwnFits

LEMMA ReleaseRowKeeps ==
    ASSUME SymInv, NEW t \in SymTasks, ReleaseRow(t)
    PROVE  SymInv'
<1>1. /\ symTask[t].pc \in Releasing /\ SymGoto(t, "releaseFile") /\ UNCHANGED <<symFile, published, symOwners, symLocks>>
      /\ symRow' = symRow \/ symRow' = [symRow EXCEPT ![Min(symTask[t].claimed)] = Nothing]
  BY DEF ReleaseRow, Releasing
<1>2. symTask[t].claimed # {} /\ "releaseFile" \in Releasing
  BY <1>1, ReleaseReady DEF Releasing
<1>3. symTask' = [symTask EXCEPT ![t] = [symTask[t] EXCEPT !.claimed = symTask[t].claimed, !.pc = "releaseFile"]]
  <2>1. symTask[t] \in TaskRecords
    BY DEF SymInv, SymTypeOK
  <2> QED BY <1>1, <2>1 DEF SymGoto, SymInv, SymTypeOK, TaskRecords
<1> QED BY <1>1, <1>2, <1>3, ReleaseKeeps

LEMMA ReleaseFileKeeps ==
    ASSUME SymInv, NEW t \in SymTasks, ReleaseFile(t)
    PROVE  SymInv'
<1> DEFINE k == Min(symTask[t].claimed)
           left == symTask[t].claimed \ {k}
<1>1. /\ symTask[t].pc \in Releasing /\ symFile' = [symFile EXCEPT ![k] = Nothing]
      /\ UNCHANGED <<symRow, published, symOwners>>
  BY DEF ReleaseFile, Releasing
<1>2. CASE SymEnd(t)
  <2>1. /\ Locked(t) /\ k \in SymKeys /\ published[k] = Nothing /\ symRow[k] \in {Ver(t), Nothing}
    BY <1>1, ReleaseReady
  <2>2. \A i \in SymKeys \ {k} : symFile'[i] = symFile[i]
    BY <1>1, <2>1 DEF SymInv, SymTypeOK
  <2>3. RowsFramed(t) /\ OwnersFramed(t)
    BY <1>1, <1>2, <2>1, <2>2, EndFits DEF RowsFramed, OwnersFramed, symOwners
  <2>4. symFile' = [i \in SymKeys |-> symFile'[i]]
    BY <1>1 DEF SymInv, SymTypeOK
  <2>5. SymTypeOK'
    BY <1>1, <1>2, <2>4, EndFits DEF SymInv, SymTypeOK, symOwners
  <2>6. SymbolsStay' /\ SymbolsHaveOwner'
    BY <1>1, <2>1, <2>2 DEF SymInv, SymbolsStay, SymbolsHaveOwner, symOwners
  <2> QED BY <1>2, <2>3, <2>5, <2>6, EndFits, StepKeeps DEF Frame
<1>3. CASE left # {} /\ symTask' = [symTask EXCEPT ![t].claimed = left, ![t].pc = "release"] /\ UNCHANGED symLocks
  <2>1. symTask' = [symTask EXCEPT ![t] = [symTask[t] EXCEPT !.claimed = left, !.pc = "release"]]
    BY <1>3 DEF SymInv, SymTypeOK
  <2>2. "release" \in Releasing /\ left \in SUBSET symTask[t].claimed /\ left # {} /\ UNCHANGED symLocks
    BY <1>3 DEF Releasing
  <2> HIDE DEF left
  <2> QED BY <1>1, <2>1, <2>2, ReleaseKeeps
<1> QED BY <1>2, <1>3 DEF ReleaseFile

\* The end of a push: its rows have its bytes, and nobody else's row is touched.
LEMMA StorePackageKeeps ==
    ASSUME SymInv, NEW t \in SymTasks, StorePackage(t), ~MoveFails
    PROVE  SymInv'
<1>1. /\ symTask[t].pc = "package" /\ SymEnd(t) /\ UNCHANGED <<symRow, symFile, symOwners>>
      /\ published' = [k \in SymKeys |->
             IF k \in DOMAIN SymPush(t).bytes /\ symRow[k] = Ver(t) THEN SymPush(t).bytes[k] ELSE published[k]]
  BY DEF StorePackage
<1>2. symTask[t].pc \in Pushing /\ Locked(t)
  BY <1>1 DEF Pushing, Locked
<1>3. Ver(t) # Nothing
  BY <1>2, AtWork
<1>4. \A k \in KeysOf(t) : symRow[k] = Ver(t) => symFile[k] = SymPush(t).bytes[k]
  BY <1>1, <1>2 DEF SymInv, KeysFit, KeyFits
<1>5. \A k \in SymKeys : \/ published'[k] = published[k]
                         \/ k \in KeysOf(t) /\ symRow[k] = Ver(t) /\ published'[k] = SymPush(t).bytes[k]
  BY <1>1 DEF KeysOf
<1>6. RowsFramed(t) /\ OwnersFramed(t)
  BY <1>1, <1>2, <1>5, EndFits DEF RowsFramed, OwnersFramed, symOwners
<1>7. published' = [k \in SymKeys |-> published'[k]]
  BY <1>1
<1>8. SymTypeOK'
  BY <1>1, <1>7, EndFits DEF SymInv, SymTypeOK, symOwners
<1>9. SymbolsStay' /\ SymbolsHaveOwner'
  BY <1>1, <1>3, <1>4, <1>5 DEF SymInv, SymbolsStay, SymbolsHaveOwner, symOwners
<1> QED BY <1>1, <1>6, <1>8, <1>9, EndFits, StepKeeps DEF Frame

\* Whoever takes a version's lock to purge or replace it; a purge takes the version out.
LEMMA TakesVersion ==
    ASSUME SymInv, NEW t \in SymTasks, NEW v \in SymVersions, NEW d \in TaskRecords, symTask[t].pc = "idle", verLock[v] = {},
           symTask' = [symTask EXCEPT ![t] = d], d.pc = "list", d.ver = {v},
           verLock' = [verLock EXCEPT ![v] = {t}], UNCHANGED <<symStore, data, keyLock>>,
           member' = member \/ (d.replace = FALSE /\ member' = member \ {v}), d.replace = FALSE => v \notin member'
    PROVE  SymInv'
<1>1. /\ symTask'[t] = d /\ symTask' = [symTask EXCEPT ![t] = symTask'[t]] /\ symTask' \in [SymTasks -> TaskRecords]
  BY TaskMoves
<1>2. Ver(t)' = v
  BY <1>1 DEF Ver
<1>3. /\ ~Locked(t) /\ HeldKeys(t) = {} /\ Locked(t)' /\ HeldKeys(t)' = {}
  BY <1>1 DEF Locked, HeldKeys, Deciding, Claiming, Releasing
<1>4. /\ verLock \in [SymVersions -> SUBSET SymTasks] /\ OwnLocks(t)
  BY DEF SymInv, SymTypeOK, LocksFit
<1>5. OwnLocks(t)'
  BY <1>1, <1>3, <1>4 DEF OwnLocks
<1>6. TaskFits(t)' /\ PurgeFits(t)' /\ KeysFit(t)'
  <2>1. d.pc \notin Pushing \cup {"version", "files"}
    BY DEF Pushing, Deciding, Claiming, Releasing
  <2>2. d.replace \in BOOLEAN
    BY DEF TaskRecords
  <2>3. TaskFits(t)'
    BY <1>1, <1>2, <2>1, <2>2 DEF TaskFits, Pushing
  <2> QED BY <1>1, <2>1, <2>3 DEF PurgeFits, KeysFit
<1>7. UNCHANGED <<symRow, symFile, published>>
  BY DEF symStore
<1>8. KeyLocksFramed(t) /\ OwnersFramed(t) /\ RowsFramed(t)
  <2>1. \A w \in SymVersions : t \notin verLock[w]
    BY <1>3, <1>4 DEF OwnLocks
  <2>2. \A k \in SymKeys : t \notin keyLock[k]
    BY <1>3, <1>4 DEF OwnLocks
  <2> QED BY <1>4, <1>7, <2>1, <2>2 DEF KeyLocksFramed, OwnersFramed, RowsFramed, symStore
<1>9. SymTypeOK' /\ SymbolsStay' /\ SymbolsHaveOwner'
  BY <1>1, <1>4, <1>7 DEF SymInv, SymTypeOK, SymbolsStay, SymbolsHaveOwner
<1> QED BY <1>1, <1>5, <1>6, <1>8, <1>9, StepKeeps DEF Frame, OwnFits

LEMMA StartOwnerPurgeKeeps ==
    ASSUME SymInv, NEW t \in SymTasks, NEW v \in SymVersions, StartOwnerPurge(t, v)
    PROVE  SymInv'
<1> DEFINE d == [IdleSym EXCEPT !.pc = "list", !.ver = {v}]
<1>1. d \in TaskRecords /\ d.pc = "list" /\ d.ver = {v} /\ d.replace = FALSE
  BY DEF IdleSym, TaskRecords, Nothing, Plans, Purging
<1>2. /\ symTask' = [symTask EXCEPT ![t] = d] /\ symTask[t].pc = "idle" /\ verLock[v] = {} /\ member' = member \ {v}
      /\ verLock' = [verLock EXCEPT ![v] = {t}] /\ UNCHANGED <<symStore, data, keyLock>>
  BY DEF StartOwnerPurge
<1> HIDE DEF d
<1> QED BY <1>1, <1>2, TakesVersion

LEMMA StartReplaceKeeps ==
    ASSUME SymInv, NEW t \in SymTasks, NEW v \in SymVersions, StartReplace(t, v)
    PROVE  SymInv'
<1> DEFINE d == [IdleSym EXCEPT !.pc = "list", !.ver = {v}, !.replace = TRUE]
<1>1. d \in TaskRecords /\ d.pc = "list" /\ d.ver = {v} /\ d.replace = TRUE
  BY DEF IdleSym, TaskRecords, Nothing, Plans, Purging
<1>2. /\ symTask' = [symTask EXCEPT ![t] = d] /\ symTask[t].pc = "idle" /\ verLock[v] = {} /\ member' = member
      /\ verLock' = [verLock EXCEPT ![v] = {t}] /\ UNCHANGED <<symStore, data, keyLock>>
  BY DEF StartReplace
<1> HIDE DEF d
<1> QED BY <1>1, <1>2, TakesVersion

\* A purge that goes on: what it lists and takes is its version's.
LEMMA PurgeMoves ==
    ASSUME SymInv, NEW t \in SymTasks, symTask[t].pc \in Purging, NEW c \in SUBSET SymKeys,
           symTask' = [symTask EXCEPT ![t] = [symTask[t] EXCEPT !.todo = c, !.pc = "files"]],
           UNCHANGED <<symRow, symOwners, symLocks>>, RowsFramed(t), SymbolsStay',
           symFile' = [k \in SymKeys |-> symFile'[k]], published' = [k \in SymKeys |-> published'[k]],
           \A k \in SymKeys : /\ k \in c => symRow[k] = Ver(t)
                              /\ symRow[k] = Ver(t) /\ k \notin c => published'[k] = Nothing
    PROVE  SymInv'
<1> DEFINE d == [symTask[t] EXCEPT !.todo = c, !.pc = "files"]
<1>1. symTask[t] \in TaskRecords
  BY DEF SymInv, SymTypeOK
<1>2. d \in TaskRecords
  BY <1>1 DEF TaskRecords, Purging
<1>3. d.pc = "files" /\ d.todo = c /\ d.ver = symTask[t].ver /\ d.replace = symTask[t].replace
  BY <1>1 DEF TaskRecords
<1>4. symTask' = [symTask EXCEPT ![t] = d]
  OBVIOUS
<1> HIDE DEF d
<1>5. /\ symTask'[t] = d /\ Ver(t)' = Ver(t)
      /\ symTask' = [symTask EXCEPT ![t] = symTask'[t]] /\ symTask' \in [SymTasks -> TaskRecords]
  BY <1>2, <1>3, <1>4, TaskMoves
<1>6. /\ Locked(t) /\ HeldKeys(t) = {} /\ Locked(t)' /\ HeldKeys(t)' = {}
  BY <1>3, <1>5 DEF Locked, HeldKeys, Purging, Deciding, Claiming, Releasing
<1>7. OwnLocks(t)'
  BY <1>3, <1>5, <1>6 DEF SymInv, LocksFit, OwnLocks, symLocks
<1>8. TaskFits(t)' /\ PurgeFits(t)' /\ KeysFit(t)'
  <2>1. d.pc \notin Pushing \cup {"version"} /\ d.pc \in Purging
    BY <1>3 DEF Pushing, Deciding, Claiming, Releasing, Purging
  <2>2. (\E v \in SymVersions : d.ver = {v}) /\ (~d.replace => Ver(t) \notin member)
    BY <1>3 DEF SymInv, TaskFits
  <2>3. TaskFits(t)'
    BY <1>5, <2>1, <2>2 DEF TaskFits, Pushing, symOwners
  <2>4. PurgeFits(t)'
    BY <1>3, <1>5 DEF PurgeFits
  <2> QED BY <1>5, <2>1, <2>3, <2>4 DEF KeysFit
<1>9. KeyLocksFramed(t) /\ OwnersFramed(t)
  <2>1. LocksFit
    BY DEF SymInv
  <2> QED BY <2>1 DEF KeyLocksFramed, OwnersFramed, LocksFit, symOwners, symLocks
<1>10. SymTypeOK' /\ SymbolsHaveOwner'
  BY <1>5 DEF SymInv, SymTypeOK, SymbolsHaveOwner, symOwners, symLocks
<1> QED BY <1>5, <1>7, <1>8, <1>9, <1>10, StepKeeps DEF Frame, OwnFits

LEMMA FindSymbolsKeeps ==
    ASSUME SymInv, NEW t \in SymTasks, FindSymbols(t)
    PROVE  SymInv'
<1>1. symTask[t].pc \in Purging /\ UNCHANGED <<symStore, symOwners>> /\ UNCHANGED <<symRow, symFile, published>>
  BY DEF FindSymbols, Purging, symStore
<1>2. CASE SymEnd(t)
  BY <1>1, <1>2, EndKeeps
<1>3. CASE /\ UNCHANGED symLocks
           /\ symTask' = [symTask EXCEPT ![t].pc = "files", ![t].todo = {k \in SymKeys : symRow[k] = Ver(t)}]
  <2> DEFINE c == {k \in SymKeys : symRow[k] = Ver(t)}
  <2>1. symTask' = [symTask EXCEPT ![t] = [symTask[t] EXCEPT !.todo = c, !.pc = "files"]]
    BY <1>3 DEF SymInv, SymTypeOK, TaskRecords
  <2>2. c \in SUBSET SymKeys /\ \A k \in SymKeys : k \in c <=> symRow[k] = Ver(t)
    OBVIOUS
  <2> HIDE DEF c
  <2>3. RowsFramed(t) /\ SymbolsStay'
    BY <1>1 DEF RowsFramed, SymInv, SymbolsStay
  <2>4. symFile' = [k \in SymKeys |-> symFile'[k]] /\ published' = [k \in SymKeys |-> published'[k]]
    BY <1>1 DEF SymInv, SymTypeOK
  <2> QED BY <1>1, <1>3, <2>1, <2>2, <2>3, <2>4, PurgeMoves
<1> QED BY <1>2, <1>3 DEF FindSymbols

LEMMA PurgeFileKeeps ==
    ASSUME SymInv, NEW t \in SymTasks, PurgeFile(t)
    PROVE  SymInv'
<1> DEFINE k == Key(t)
           c == symTask[t].todo \ {k}
<1>1. /\ symTask[t].pc = "files" /\ symTask[t].todo # {} /\ UNCHANGED <<symRow, symOwners, symLocks>>
      /\ symFile' = [symFile EXCEPT ![k] = Nothing] /\ published' = [published EXCEPT ![k] = Nothing]
      /\ symTask' = [symTask EXCEPT ![t].todo = @ \ {k}]
  BY DEF PurgeFile
<1>2. k \in symTask[t].todo /\ k \in SymKeys
  BY <1>1, KeyAtHand
<1>3. /\ symTask[t] \in TaskRecords /\ symFile = [i \in SymKeys |-> symFile[i]] /\ published = [i \in SymKeys |-> published[i]]
  BY DEF SymInv, SymTypeOK
<1>4. \A i \in SymKeys : /\ i \in symTask[t].todo => symRow[i] = Ver(t)
                         /\ symRow[i] = Ver(t) /\ i \notin symTask[t].todo => published[i] = Nothing
  BY <1>1 DEF SymInv, PurgeFits
<1>5. symTask' = [symTask EXCEPT ![t] = [symTask[t] EXCEPT !.todo = c, !.pc = "files"]]
  BY <1>1, <1>3 DEF SymInv, SymTypeOK, TaskRecords
<1>6. c \in SUBSET SymKeys
  BY <1>3 DEF TaskRecords
<1>7. /\ symFile' = [i \in SymKeys |-> symFile'[i]] /\ published' = [i \in SymKeys |-> published'[i]]
      /\ published'[k] = Nothing /\ \A i \in SymKeys \ {k} : symFile'[i] = symFile[i] /\ published'[i] = published[i]
  BY <1>1, <1>2, <1>3
<1> HIDE DEF k
<1>8. Locked(t)
  BY <1>1 DEF Locked
<1>9. RowsFramed(t)
  BY <1>1, <1>2, <1>4, <1>7, <1>8 DEF RowsFramed
<1>10. SymbolsStay'
  BY <1>1, <1>7 DEF SymInv, SymbolsStay
<1>11. \A i \in SymKeys : /\ i \in c => symRow[i] = Ver(t)
                          /\ symRow[i] = Ver(t) /\ i \notin c => published'[i] = Nothing
  BY <1>4, <1>7
<1>12. symTask[t].pc \in Purging
  BY <1>1 DEF Purging
<1> HIDE DEF c
<1> QED BY <1>1, <1>5, <1>6, <1>7, <1>9, <1>10, <1>11, <1>12, PurgeMoves

LEMMA PurgeRowsKeeps ==
    ASSUME SymInv, NEW t \in SymTasks, PurgeRows(t)
    PROVE  SymInv'
<1>1. /\ symTask[t].pc = "files" /\ symTask[t].todo = {} /\ SymEnd(t)
      /\ UNCHANGED <<symFile, published, member, build>>
  BY DEF PurgeRows
<1>2. Locked(t) /\ Ver(t) # Nothing /\ symTask[t].pc \in Purging
  BY <1>1, AtWork DEF Locked, Purging
<1>3. CASE UNCHANGED <<symRow, data>>
  BY <1>1, <1>3, EndKeeps DEF symStore, symOwners
<1>4. CASE /\ symRow' = [k \in SymKeys |-> IF symRow[k] = Ver(t) THEN Nothing ELSE symRow[k]]
           /\ data' = IF symTask[t].replace THEN data ELSE data \ {Ver(t)}
  <2>1. \A k \in SymKeys : symRow[k] = Ver(t) => published[k] = Nothing
    BY <1>1 DEF SymInv, PurgeFits
  <2>2. \A k \in SymKeys : symRow'[k] = IF symRow[k] = Ver(t) THEN Nothing ELSE symRow[k]
    BY <1>4
  <2>3. RowsFramed(t) /\ OwnersFramed(t)
    BY <1>1, <1>2, <2>2, EndFits DEF RowsFramed, OwnersFramed
  <2>4. symRow' \in [SymKeys -> SymVersions \cup {Nothing}]
    BY <1>4 DEF SymInv, SymTypeOK
  <2>5. member' \subseteq data' /\ data' \subseteq SymVersions
    <3>1. ~symTask[t].replace => Ver(t) \notin member
      BY <1>2 DEF SymInv, TaskFits
    <3> QED BY <1>1, <1>4, <3>1 DEF SymInv, SymTypeOK
  <2>6. SymTypeOK'
    BY <1>1, <2>4, <2>5, EndFits DEF SymInv, SymTypeOK
  <2>7. SymbolsStay' /\ SymbolsHaveOwner'
    BY <1>1, <1>2, <1>4, <2>1, <2>2 DEF SymInv, SymbolsStay, SymbolsHaveOwner
  <2> QED BY <1>1, <2>3, <2>6, <2>7, EndFits, StepKeeps DEF Frame
<1> QED BY <1>3, <1>4 DEF PurgeRows

\* A push of the version finds nobody at work on it.
LEMMA PushAgainKeeps ==
    ASSUME SymInv, NEW v \in SymVersions, PushAgain(v)
    PROVE  SymInv'
<1>1. /\ verLock[v] = {} /\ member' = member \cup {v} /\ data' = data \cup {v}
      /\ UNCHANGED <<symRow, symFile, published, verLock, keyLock, symTask>>
  BY DEF PushAgain, symStore, symLocks
<1>2. SymTypeOK' /\ SymbolsStay' /\ SymbolsHaveOwner'
  BY <1>1 DEF SymInv, SymTypeOK, SymbolsStay, SymbolsHaveOwner
<1>3. LocksFit'
  BY <1>1 DEF SymInv, LocksFit, OwnLocks, Locked, HeldKeys, KeysOf, SymPush
<1>4. ASSUME NEW u \in SymTasks PROVE (TaskFits(u) /\ PurgeFits(u) /\ KeysFit(u))'
  <2>1. /\ Ver(u)' = Ver(u) /\ SymPush(u)' = SymPush(u) /\ Key(u)' = Key(u) /\ KeysOf(u)' = KeysOf(u)
    BY <1>1 DEF Ver, SymPush, Key, KeysOf
  <2>2. symTask[u].pc \in Pushing \cup Purging => Ver(u) # v
    <3>1. symTask[u].pc \in Pushing \cup Purging => Locked(u)
      BY DEF Locked, Pushing, Purging, Deciding, Claiming, Releasing
    <3> QED BY <1>1, <3>1, AtWork
  <2>3. TaskFits(u) /\ PurgeFits(u) /\ KeysFit(u)
    BY DEF SymInv
  <2>4. TaskFits(u)'
    BY <1>1, <2>1, <2>2, <2>3 DEF TaskFits
  <2>5. PurgeFits(u)'
    BY <1>1, <2>1, <2>3 DEF PurgeFits
  <2>6. KeysFit(u)'
    <3>1. \A k : KeyFits(u, k) => KeyFits(u, k)'
      BY <1>1, <2>1 DEF KeyFits, PlanFits
    <3> QED BY <1>1, <2>1, <2>3, <3>1 DEF KeysFit
  <2> QED BY <2>4, <2>5, <2>6
<1> QED BY <1>2, <1>3, <1>4 DEF SymInv

\* Every step keeps the invariant, as long as storing the archive itself cannot fail.
LEMMA SymNextKeeps ==
    ASSUME SymInv, SymNext, ~MoveFails
    PROVE  SymInv'
<1>1. ASSUME NEW t \in SymTasks, Cancelled(t) PROVE SymInv'
  BY <1>1, EndKeeps DEF Cancelled
<1>2. ASSUME NEW t \in SymTasks, SymStep(t) PROVE SymInv'
  BY <1>2, LockOwnerKeeps, LockKeyKeeps, FindSymbolKeeps, HashStoredKeeps, ClaimKeeps, StoreFileKeeps, ReleaseRowKeeps,
     ReleaseFileKeeps, StorePackageKeeps, FindSymbolsKeeps, PurgeFileKeeps, PurgeRowsKeeps DEF SymStep
<1> QED BY <1>1, <1>2, StartSymbolsKeeps, StartOwnerPurgeKeeps, StartReplaceKeeps, PushAgainKeeps DEF SymNext

LEMMA SymInitHolds == SymInit => SymInv
<1> SUFFICES ASSUME SymInit PROVE SymInv
  OBVIOUS
<1>1. \A t \in SymTasks : symTask[t] = IdleSym /\ symTask[t].pc = "idle"
  BY DEF SymInit, IdleSym
<1>2. SymTypeOK
  BY DEF SymInit, SymTypeOK, IdleSym, TaskRecords, Plans, Nothing
<1>3. LocksFit
  BY <1>1 DEF SymInit, LocksFit, OwnLocks, Locked, HeldKeys, Deciding, Claiming, Releasing
<1>4. \A t \in SymTasks : TaskFits(t) /\ PurgeFits(t) /\ KeysFit(t)
  BY <1>1 DEF TaskFits, PurgeFits, KeysFit, Pushing, Purging, Deciding, Claiming, Releasing
<1>5. SymbolsStay /\ SymbolsHaveOwner
  BY DEF SymInit, SymbolsStay, SymbolsHaveOwner, Nothing
<1> QED BY <1>2, <1>3, <1>4, <1>5 DEF SymInv

\* Of two pushes that wait for each other each would wait for a key below its own.
LEMMA KeysInOrder == SymInv => NoSymbolDeadlock
<1> SUFFICES ASSUME SymInv, NEW t \in SymTasks, NEW u \in SymTasks, symTask[t].pc = "keys", symTask[u].pc = "keys",
                    u \in keyLock[Key(t)], t \in keyLock[Key(u)]
             PROVE  FALSE
  BY DEF NoSymbolDeadlock
<1>1. ASSUME NEW r \in SymTasks, symTask[r].pc = "keys"
      PROVE  /\ Key(r) \in symTask[r].todo /\ Key(r) \in SymKeys
             /\ \A k \in SymKeys : r \in keyLock[k] => k < Key(r)
  <2>1. symTask[r].todo # {} /\ \A k \in KeysOf(r) \ symTask[r].todo, l \in symTask[r].todo : k < l
    BY <1>1 DEF SymInv, TaskFits
  <2>2. \A k \in SymKeys : r \in keyLock[k] => k \in KeysOf(r) \ symTask[r].todo
    BY <1>1 DEF SymInv, LocksFit, OwnLocks, HeldKeys
  <2> QED BY <2>1, <2>2, KeyAtHand
<1>2. Key(t) < Key(u) /\ Key(u) < Key(t) /\ Key(t) \in Nat /\ Key(u) \in Nat
  BY <1>1, SymbolsAssumption
<1> QED BY <1>2

\* Symbols that were published stay until their version goes, have an owner, and no two
\* pushes wait for each other's keys (store_all, release, purge_symbols), for any number
\* of pushes, versions and keys, unless storing the archive after the keys were given
\* back fails (store_symbol_package): the claims it then takes back are not its own.
THEOREM SymbolsKept ==
    ~MoveFails /\ SymSpec => []SymbolsAreKept
<1> SUFFICES ASSUME ~MoveFails PROVE SymSpec => []SymbolsAreKept
  OBVIOUS
<1>1. SymInv /\ [SymNext]_symVars => SymInv'
  <2> SUFFICES ASSUME SymInv, UNCHANGED symVars PROVE SymInv'
    BY SymNextKeeps
  <2>1. UNCHANGED <<symRow, symFile, member, data, verLock, keyLock, symTask, published>>
    BY DEF symVars
  <2>2. SymTypeOK' /\ SymbolsStay' /\ SymbolsHaveOwner'
    BY <2>1 DEF SymInv, SymTypeOK, SymbolsStay, SymbolsHaveOwner
  <2>3. LocksFit'
    BY <2>1 DEF SymInv, LocksFit, OwnLocks, Locked, HeldKeys, KeysOf, SymPush
  <2>4. ASSUME NEW u \in SymTasks PROVE (TaskFits(u) /\ PurgeFits(u) /\ KeysFit(u))'
    BY <2>1 DEF SymInv, TaskFits, PurgeFits, KeysFit, KeyFits, PlanFits, Ver, SymPush, Key, KeysOf
  <2> QED BY <2>2, <2>3, <2>4 DEF SymInv
<1>2. SymInv => SymbolsAreKept
  BY KeysInOrder DEF SymInv, SymbolsAreKept
<1> QED BY <1>1, <1>2, SymInitHolds, PTL DEF SymSpec

---------------------------------------------------------------------------
\* Retention.  A plan spares a version a client can get, the cleanup that has it is the
\* only one, and nothing but a withdrawal takes the spared version away meanwhile.

FeedRows == [v : Nat, pre : BOOLEAN, pinned : BOOLEAN, servable : BOOLEAN, added : Nat]

\* What the feed and the cleanups hold; a version has one row.
RetentionTypeOK ==
    /\ feedRows \subseteq FeedRows
    /\ \A r, s \in feedRows : r.v = s.v => r = s
    /\ \E last \in Nat : \A r \in feedRows : r.v <= last
    /\ day \in Nat /\ shown \subseteq SUBSET Nat /\ withdrawn \in BOOLEAN
    /\ cleaner \in [Cleanups -> [pc : {"idle", "next", "purge"}, todo : SUBSET Nat, row : SUBSET FeedRows, page : SUBSET SUBSET Nat]]

\* A cleanup at work is the one that runs.  What it checked was not pinned, and what
\* an admin's has left to do is on the page.
CleanerFits(c) ==
    /\ cleaner[c].pc # "idle" => running = c
    /\ cleaner[c].pc = "idle" => cleaner[c].todo = {}
    /\ cleaner[c].pc # "purge" => cleaner[c].row = {}
    /\ \A r \in cleaner[c].row : ~r.pinned
    /\ c = "manual" /\ cleaner[c].pc # "idle" =>
          \E page \in cleaner[c].page : cleaner[c].todo \subseteq page /\ \A r \in cleaner[c].row : r.v \in page

\* Unless others withdrew versions, one a client can get is not among those to go.
Spares(c) ==
    ~withdrawn /\ (cleaner[c].todo # {} \/ cleaner[c].row # {}) =>
        \E s \in feedRows : s.servable /\ s.v \notin cleaner[c].todo /\ \A r \in cleaner[c].row : s.v # r.v

RetentionInv == RetentionTypeOK /\ \A c \in Cleanups : CleanerFits(c) /\ Spares(c)

\* Among bounded versions there is a newest.
LEMMA NewestIsThere ==
    ASSUME NEW S \in SUBSET FeedRows, S # {}, NEW last \in Nat, \A r \in S : r.v <= last
    PROVE  Newest(S) # {}
<1> DEFINE D == {last - r.v : r \in S}
<1>1. D \in SUBSET Nat /\ D # {}
  BY DEF FeedRows
<1>2. PICK c \in S : Min(D) = last - c.v
  BY <1>1, LeastMember
<1>3. ASSUME NEW d \in S PROVE d.v <= c.v
  <2>1. last - c.v <= last - d.v
    BY <1>1, <1>2, LeastMember
  <2> QED BY <2>1 DEF FeedRows
<1> QED BY <1>2, <1>3 DEF Newest

\* A plan that takes something spares a version a client can get (prune_plan).
LEMMA PlanSparesOne ==
    ASSUME NEW S \in SUBSET FeedRows, \A r, s \in S : r.v = s.v => r = s,
           NEW last \in Nat, \A r \in S : r.v <= last,
           NEW policy, NEW now, PrunePlan(S, policy, now) # {}
    PROVE  \E s \in S : s.servable /\ s.v \notin Fingerprint(PrunePlan(S, policy, now))
<1> DEFINE plan == PrunePlan(S, policy, now)
           servable == {c \in S : c.servable}
           stable == {c \in servable : ~c.pre}
<1>1. plan \subseteq servable /\ plan \cap Protected(S) = {}
  BY DEF PrunePlan
<1>2. Protected(S) = IF stable # {} THEN Newest(stable) ELSE Newest(servable)
  BY DEF Protected
<1>3. servable # {}
  BY <1>1
<1>4. PICK s \in Protected(S) : TRUE
  <2>1. CASE stable # {}
    BY <1>2, <2>1, NewestIsThere
  <2>2. CASE stable = {}
    BY <1>2, <1>3, <2>2, NewestIsThere
  <2> QED BY <2>1, <2>2
<1>5. s \in servable
  BY <1>2, <1>4 DEF Newest
<1>6. s \notin plan
  BY <1>1, <1>4
<1> HIDE DEF plan
<1>7. s.v \notin Fingerprint(plan)
  BY <1>1, <1>5, <1>6 DEF Fingerprint
<1> QED BY <1>5, <1>7 DEF plan
LEMMA RetentionBegins == RetentionInit => RetentionInv
<1> SUFFICES ASSUME RetentionInit PROVE RetentionInv
  OBVIOUS
<1> USE DEF RetentionInit, NoCleanup
<1>1. RetentionTypeOK
  BY DEF RetentionTypeOK, FeedRows
<1>2. ASSUME NEW c \in Cleanups PROVE CleanerFits(c) /\ Spares(c)
  BY <1>2 DEF CleanerFits, Spares
<1> QED BY <1>1, <1>2 DEF RetentionInv

\* The page that is shown changes, or the day.
LEMMA LookingKeeps ==
    ASSUME RetentionInv, ShowPlan \/ DayPasses
    PROVE  RetentionInv'
<1>1. feedRows \subseteq FeedRows
  BY DEF RetentionInv, RetentionTypeOK
<1>2. Fingerprint(ThePlan) \in SUBSET Nat
  BY <1>1 DEF Fingerprint, ThePlan, PrunePlan, FeedRows
<1>3. day' \in Nat /\ shown' \subseteq SUBSET Nat /\ UNCHANGED <<feedRows, withdrawn, cleaner>>
  <2>1. CASE ShowPlan
    BY <1>2, <2>1 DEF RetentionInv, RetentionTypeOK, ShowPlan
  <2>2. CASE DayPasses
    BY <2>2 DEF RetentionInv, RetentionTypeOK, DayPasses
  <2> QED BY <2>1, <2>2
<1>4. RetentionTypeOK'
  BY <1>3 DEF RetentionInv, RetentionTypeOK
<1>5. ASSUME NEW c \in Cleanups PROVE CleanerFits(c)' /\ Spares(c)'
  BY <1>5 DEF RetentionInv, CleanerFits, Spares, ShowPlan, DayPasses
<1> QED BY <1>4, <1>5 DEF RetentionInv

\* A cleanup that begins has what the plan is now to do (sweep, run_shown).
LEMMA BeginsKeeps ==
    ASSUME RetentionInv, StartSweep \/ RunShown
    PROVE  RetentionInv'
<1> DEFINE plan == Fingerprint(ThePlan)
<1>1. feedRows \in SUBSET FeedRows /\ cleaner \in [Cleanups -> [pc : {"idle", "next", "purge"}, todo : SUBSET Nat,
                                                        row : SUBSET FeedRows, page : SUBSET SUBSET Nat]]
  BY DEF RetentionInv, RetentionTypeOK
<1>2. plan \in SUBSET Nat
  BY <1>1 DEF Fingerprint, ThePlan, PrunePlan, FeedRows
<1>3. plan # {} => \E s \in feedRows : s.servable /\ s.v \notin plan
  <2>1. ASSUME plan # {} PROVE \E s \in feedRows : s.servable /\ s.v \notin plan
    <3>1. ThePlan # {}
      BY <2>1 DEF Fingerprint
    <3>2. PICK last \in Nat : \A r \in feedRows : r.v <= last
      BY DEF RetentionInv, RetentionTypeOK
    <3>3. \A r, s \in feedRows : r.v = s.v => r = s
      BY DEF RetentionInv, RetentionTypeOK
    <3> QED BY <1>1, <3>1, <3>2, <3>3, PlanSparesOne DEF ThePlan
  <2> QED BY <2>1
<1>4. PICK c \in Cleanups, page \in SUBSET SUBSET Nat :
         /\ cleaner' = [cleaner EXCEPT ![c] = [pc |-> "next", todo |-> plan, row |-> {}, page |-> page]]
         /\ running' = c /\ running = "none" /\ withdrawn' = FALSE
         /\ c = "manual" => page = {plan}
         /\ UNCHANGED <<feedRows, day, shown>>
  <2>1. CASE StartSweep
    <3>1. /\ cleaner' = [cleaner EXCEPT !["sweep"] = [pc |-> "next", todo |-> plan, row |-> {}, page |-> {}]]
          /\ running' = "sweep" /\ running = "none" /\ withdrawn' = FALSE
          /\ UNCHANGED <<feedRows, day, shown>>
      BY <2>1 DEF StartSweep
    <3>2. "sweep" \in Cleanups /\ "sweep" # "manual" /\ {} \in SUBSET SUBSET Nat
      BY DEF Cleanups
    <3> HIDE DEF plan
    <3> QED BY <3>1, <3>2
  <2>2. CASE RunShown
    <3>1. /\ cleaner' = [cleaner EXCEPT !["manual"] = [pc |-> "next", todo |-> plan, row |-> {}, page |-> shown]]
          /\ running' = "manual" /\ running = "none" /\ withdrawn' = FALSE /\ shown = {plan}
          /\ UNCHANGED <<feedRows, day, shown>>
      BY <2>2 DEF RunShown
    <3>2. "manual" \in Cleanups /\ {plan} \in SUBSET SUBSET Nat
      BY <1>2 DEF Cleanups
    <3> HIDE DEF plan
    <3> QED BY <3>1, <3>2
  <2> QED BY <2>1, <2>2
<1> HIDE DEF plan
<1>5. RetentionTypeOK'
  <2>1. [pc |-> "next", todo |-> plan, row |-> {}, page |-> page]
           \in [pc : {"idle", "next", "purge"}, todo : SUBSET Nat, row : SUBSET FeedRows, page : SUBSET SUBSET Nat]
    BY <1>2, <1>4
  <2>2. cleaner' \in [Cleanups -> [pc : {"idle", "next", "purge"}, todo : SUBSET Nat, row : SUBSET FeedRows, page : SUBSET SUBSET Nat]]
    BY <1>1, <1>4, <2>1
  <2> QED BY <1>4, <2>2 DEF RetentionInv, RetentionTypeOK
<1>6. cleaner'[c] = [pc |-> "next", todo |-> plan, row |-> {}, page |-> page]
  BY <1>1, <1>4
<1>7. CleanerFits(c)' /\ Spares(c)'
  BY <1>3, <1>4, <1>6 DEF CleanerFits, Spares
<1>8. ASSUME NEW d \in Cleanups, d # c PROVE CleanerFits(d)' /\ Spares(d)'
  <2>1. d # running
    BY <1>4, <1>8 DEF Cleanups
  <2>2. CleanerFits(d)
    BY <1>8 DEF RetentionInv
  <2>3. cleaner[d].pc = "idle" /\ cleaner[d].todo = {} /\ cleaner[d].row = {}
    BY <2>1, <2>2 DEF CleanerFits
  <2>4. cleaner'[d] = cleaner[d]
    BY <1>1, <1>4, <1>8
  <2> QED BY <2>3, <2>4 DEF CleanerFits, Spares
<1> QED BY <1>5, <1>7, <1>8 DEF RetentionInv

\* A step of a cleanup leaves the feed to the next statement (purge_planned), or ends it.
LEMMA ChecksKeep ==
    ASSUME RetentionInv, NEW c \in Cleanups, CheckPlanned(c) \/ Finish(c)
    PROVE  RetentionInv'
<1>1. cleaner \in [Cleanups -> [pc : {"idle", "next", "purge"}, todo : SUBSET Nat, row : SUBSET FeedRows, page : SUBSET SUBSET Nat]]
      /\ feedRows \subseteq FeedRows
  BY DEF RetentionInv, RetentionTypeOK
<1>2. CleanerFits(c) /\ Spares(c) /\ cleaner[c].pc = "next"
  BY DEF RetentionInv, CheckPlanned, Finish
<1>3. cleaner[c].row = {} /\ running = c
  BY <1>2 DEF CleanerFits
<1>4. PICK q \in [pc : {"idle", "next", "purge"}, todo : SUBSET Nat, row : SUBSET FeedRows, page : SUBSET SUBSET Nat] :
         /\ cleaner' = [cleaner EXCEPT ![c] = q]
         /\ \/ q = NoCleanup
            \/ /\ q.pc # "idle" /\ q.todo \subseteq cleaner[c].todo /\ q.page = cleaner[c].page
               /\ running' = running
               /\ q.pc # "purge" => q.row = {}
               /\ \A r \in q.row : ~r.pinned /\ r.v \in cleaner[c].todo
  <2>1. CASE Finish(c)
    <3>1. NoCleanup \in [pc : {"idle", "next", "purge"}, todo : SUBSET Nat, row : SUBSET FeedRows, page : SUBSET SUBSET Nat]
      BY DEF NoCleanup
    <3> QED BY <2>1, <3>1 DEF Finish, CleanupEnds
  <2>2. CASE CheckPlanned(c)
    <3>1. PICK v \in cleaner[c].todo :
             LET fine == {r \in Current(v) : r.servable /\ ~r.pinned}
             IN  cleaner' = [cleaner EXCEPT ![c].todo = @ \ {v}, ![c].row = fine,
                                            ![c].pc = IF fine = {} THEN "next" ELSE "purge"]
      BY <2>2 DEF CheckPlanned
    <3> DEFINE fine == {r \in Current(v) : r.servable /\ ~r.pinned}
               q == [cleaner[c] EXCEPT !.todo = @ \ {v}, !.row = fine, !.pc = IF fine = {} THEN "next" ELSE "purge"]
    <3>2. cleaner' = [cleaner EXCEPT ![c] = q]
      BY <3>1
    <3>3. fine \in SUBSET FeedRows /\ \A r \in fine : ~r.pinned /\ r.v = v
      BY <1>1 DEF Current
    <3> HIDE DEF fine
    <3>4. q \in [pc : {"idle", "next", "purge"}, todo : SUBSET Nat, row : SUBSET FeedRows, page : SUBSET SUBSET Nat]
      BY <1>1, <3>3
    <3>5. /\ q.pc = IF fine = {} THEN "next" ELSE "purge"
          /\ q.todo = cleaner[c].todo \ {v} /\ q.row = fine /\ q.page = cleaner[c].page
      BY <1>1
    <3>6. running' = running
      BY <2>2 DEF CheckPlanned
    <3> HIDE DEF q
    <3> QED BY <3>1, <3>2, <3>3, <3>4, <3>5, <3>6
  <2> QED BY <2>1, <2>2
<1>5. UNCHANGED <<feedRows, day, shown, withdrawn>>
  BY DEF CheckPlanned, Finish
<1>6. cleaner'[c] = q /\ \A d \in Cleanups : d # c => cleaner'[d] = cleaner[d]
  BY <1>1, <1>4
<1>7. RetentionTypeOK'
  <2>1. cleaner' \in [Cleanups -> [pc : {"idle", "next", "purge"}, todo : SUBSET Nat, row : SUBSET FeedRows, page : SUBSET SUBSET Nat]]
    BY <1>1, <1>4
  <2> QED BY <1>5, <2>1 DEF RetentionInv, RetentionTypeOK
<1>8. CleanerFits(c)'
  <2>1. CASE q = NoCleanup
    BY <1>6, <2>1 DEF CleanerFits, NoCleanup
  <2>2. CASE q # NoCleanup
    <3>1. c = "manual" => \E page \in cleaner[c].page : cleaner[c].todo \subseteq page
      BY <1>2 DEF CleanerFits
    <3>2. c = "manual" => \E page \in q.page : q.todo \subseteq page /\ \A r \in q.row : r.v \in page
      BY <1>4, <2>2, <3>1
    <3> QED BY <1>3, <1>4, <1>6, <2>2, <3>2 DEF CleanerFits
  <2> QED BY <2>1, <2>2
<1>9. Spares(c)'
  BY <1>2, <1>4, <1>5, <1>6 DEF Spares, NoCleanup
<1>10. ASSUME NEW d \in Cleanups, d # c PROVE CleanerFits(d)' /\ Spares(d)'
  <2>1. CleanerFits(d) /\ cleaner'[d] = cleaner[d]
    BY <1>6, <1>10 DEF RetentionInv
  <2>2. cleaner[d].pc = "idle" /\ cleaner[d].todo = {} /\ cleaner[d].row = {}
    BY <1>3, <1>10, <2>1 DEF CleanerFits
  <2> QED BY <2>1, <2>2 DEF CleanerFits, Spares
<1> QED BY <1>7, <1>8, <1>9, <1>10 DEF RetentionInv

\* What was checked goes (purge_locked).
LEMMA PurgeRemoves ==
    ASSUME RetentionInv, NEW c \in Cleanups, Purge(c)
    PROVE  RetentionInv'
<1>1. cleaner \in [Cleanups -> [pc : {"idle", "next", "purge"}, todo : SUBSET Nat, row : SUBSET FeedRows, page : SUBSET SUBSET Nat]]
  BY DEF RetentionInv, RetentionTypeOK
<1>2. CleanerFits(c) /\ Spares(c) /\ cleaner[c].pc = "purge" /\ running = c
  BY DEF RetentionInv, Purge, CleanerFits
<1> DEFINE q == [cleaner[c] EXCEPT !.pc = "next", !.row = {}]
<1>3. cleaner' = [cleaner EXCEPT ![c] = q] /\ UNCHANGED <<day, shown, running, withdrawn>>
  BY DEF Purge
<1>4. q \in [pc : {"idle", "next", "purge"}, todo : SUBSET Nat, row : SUBSET FeedRows, page : SUBSET SUBSET Nat]
  BY <1>1
<1>5. q.pc = "next" /\ q.row = {} /\ q.todo = cleaner[c].todo /\ q.page = cleaner[c].page
  BY <1>1
<1> HIDE DEF q
<1>6. cleaner'[c] = q /\ \A d \in Cleanups : d # c => cleaner'[d] = cleaner[d]
  BY <1>1, <1>3
<1>7. feedRows' = {r \in feedRows : \A checked \in cleaner[c].row : r.v # checked.v}
  BY DEF Purge
<1>8. RetentionTypeOK'
  <2>1. cleaner' \in [Cleanups -> [pc : {"idle", "next", "purge"}, todo : SUBSET Nat, row : SUBSET FeedRows, page : SUBSET SUBSET Nat]]
    BY <1>1, <1>3, <1>4
  <2>2. PICK last \in Nat : \A r \in feedRows : r.v <= last
    BY DEF RetentionInv, RetentionTypeOK
  <2>3. \A r \in feedRows' : r.v <= last
    BY <1>7, <2>2
  <2> QED BY <1>3, <1>7, <2>1, <2>3 DEF RetentionInv, RetentionTypeOK
<1>9. CleanerFits(c)'
  BY <1>2, <1>3, <1>5, <1>6 DEF CleanerFits
<1>10. Spares(c)'
  BY <1>2, <1>3, <1>5, <1>6, <1>7 DEF Spares
<1>11. ASSUME NEW d \in Cleanups, d # c PROVE CleanerFits(d)' /\ Spares(d)'
  <2>1. CleanerFits(d) /\ cleaner'[d] = cleaner[d]
    BY <1>6, <1>11 DEF RetentionInv
  <2>2. cleaner[d].pc = "idle" /\ cleaner[d].todo = {} /\ cleaner[d].row = {}
    BY <1>2, <1>11, <2>1 DEF CleanerFits
  <2> QED BY <2>1, <2>2 DEF CleanerFits, Spares
<1> QED BY <1>8, <1>9, <1>10, <1>11 DEF RetentionInv

\* What others do to the feed leaves what a cleanup spares, or counts as withdrawn.
LEMMA EditsKeep ==
    ASSUME RetentionInv,
           (\E row \in AllRows : PushVersion(row)) \/ (\E r \in feedRows : SetPinned(r) \/ SetServable(r) \/ DeleteVersion(r))
    PROVE  RetentionInv'
<1>1. /\ feedRows \subseteq FeedRows /\ day \in Nat /\ withdrawn \in BOOLEAN
      /\ \A r, s \in feedRows : r.v = s.v => r = s
  BY DEF RetentionInv, RetentionTypeOK
<1>2. PICK last \in Nat : \A r \in feedRows : r.v <= last
  BY DEF RetentionInv, RetentionTypeOK
<1>3. UNCHANGED <<day, shown, running, cleaner>>
  BY DEF PushVersion, SetPinned, SetServable, DeleteVersion
<1> DEFINE Edited ==
      /\ feedRows' \subseteq FeedRows /\ withdrawn' \in BOOLEAN
      /\ \A r, s \in feedRows' : r.v = s.v => r = s
      /\ \E most \in Nat : \A r \in feedRows' : r.v <= most
      /\ ~withdrawn' => ~withdrawn /\ \A s \in feedRows : s.servable => \E t \in feedRows' : t.v = s.v /\ t.servable
<1>4. Edited
  <2>1. ASSUME NEW row \in AllRows, PushVersion(row) PROVE Edited
    <3> DEFINE new == [row EXCEPT !.added = day]
    <3>1. new \in FeedRows /\ new.v = row.v
      BY <1>1, RetentionAssumption DEF FeedRows
    <3> HIDE DEF new
    <3>2. feedRows' = feedRows \cup {new} /\ withdrawn' = withdrawn
      BY <2>1 DEF PushVersion, new
    <3>3. \A r \in feedRows : r.v # new.v
      BY <2>1, <3>1 DEF PushVersion, Current
    <3>4. last + new.v \in Nat /\ \A r \in feedRows' : r.v <= last + new.v
      BY <1>1, <1>2, <3>1, <3>2 DEF FeedRows
    <3> QED BY <1>1, <3>1, <3>2, <3>3, <3>4
  <2>2. ASSUME NEW r \in feedRows, SetPinned(r) \/ SetServable(r) PROVE Edited
    <3>1. PICK s \in FeedRows : /\ s.v = r.v /\ feedRows' = (feedRows \ {r}) \cup {s}
                                /\ withdrawn' \in BOOLEAN
                                /\ ~withdrawn' => ~withdrawn /\ (r.servable => s.servable)
      <4>1. CASE SetPinned(r)
        <5>1. [r EXCEPT !.pinned = ~@] \in FeedRows /\ [r EXCEPT !.pinned = ~@].v = r.v
              /\ [r EXCEPT !.pinned = ~@].servable = r.servable
          BY <1>1 DEF FeedRows
        <5> QED BY <1>1, <4>1, <5>1 DEF SetPinned, Change
      <4>2. CASE SetServable(r)
        <5>1. [r EXCEPT !.servable = ~@] \in FeedRows /\ [r EXCEPT !.servable = ~@].v = r.v
          BY <1>1 DEF FeedRows
        <5>2. feedRows' = (feedRows \ {r}) \cup {[r EXCEPT !.servable = ~@]} /\ withdrawn' = (withdrawn \/ r.servable)
          BY <4>2 DEF SetServable, Change
        <5>3. withdrawn' \in BOOLEAN
          BY <1>1, <2>2, <5>2 DEF FeedRows
        <5> QED BY <5>1, <5>2, <5>3
      <4> QED BY <2>2, <4>1, <4>2
    <3>2. \A q \in feedRows' : q.v <= last
      BY <1>2, <3>1
    <3>3. \A p, q \in feedRows' : p.v = q.v => p = q
      BY <1>1, <3>1
    <3>4. ~withdrawn' => ~withdrawn /\ \A q \in feedRows : q.servable => \E t \in feedRows' : t.v = q.v /\ t.servable
      BY <3>1
    <3> QED BY <1>1, <3>1, <3>2, <3>3, <3>4
  <2>3. ASSUME NEW r \in feedRows, DeleteVersion(r) PROVE Edited
    BY <1>1, <1>2, <2>3 DEF DeleteVersion
  <2> QED BY <2>1, <2>2, <2>3
<1>5. RetentionTypeOK'
  BY <1>3, <1>4 DEF RetentionInv, RetentionTypeOK
<1>6. ASSUME NEW c \in Cleanups PROVE CleanerFits(c)' /\ Spares(c)'
  BY <1>3, <1>4, <1>6 DEF RetentionInv, CleanerFits, Spares
<1> QED BY <1>5, <1>6 DEF RetentionInv

LEMMA RetentionStep == RetentionInv /\ [RetentionNext]_retentionVars => RetentionInv'
<1> SUFFICES ASSUME RetentionInv, [RetentionNext]_retentionVars PROVE RetentionInv'
  OBVIOUS
<1>1. CASE UNCHANGED retentionVars
  BY <1>1 DEF retentionVars, RetentionInv, RetentionTypeOK, CleanerFits, Spares
<1>2. CASE RetentionNext
  BY <1>2, LookingKeeps, BeginsKeeps, ChecksKeep, PurgeRemoves, EditsKeep DEF RetentionNext
<1> QED BY <1>1, <1>2

\* What a purge takes is what was checked, and it spares what the plan spared.
LEMMA PurgesAsShown ==
    ASSUME RetentionInv, RetentionNext, NEW c \in Cleanups, Purged(c)
    PROVE  /\ \A r \in Gone : \E checked \in cleaner[c].row : r.v = checked.v
           /\ c = "manual" => \A r \in Gone : \E page \in cleaner[c].page : r.v \in page
           /\ ~withdrawn /\ Gone # {} => \E r \in feedRows' : r.servable
           /\ \A r \in cleaner[c].row : ~r.pinned
<1>1. cleaner \in [Cleanups -> [pc : {"idle", "next", "purge"}, todo : SUBSET Nat, row : SUBSET FeedRows, page : SUBSET SUBSET Nat]]
  BY DEF RetentionInv, RetentionTypeOK
<1>2. cleaner[c].pc = "purge" /\ cleaner'[c].pc = "next" /\ CleanerFits(c) /\ Spares(c)
  BY DEF Purged, RetentionInv
<1>3. Purge(c)
  <2>1. CASE \E d \in Cleanups : CheckPlanned(d) \/ Purge(d) \/ Finish(d)
    <3>1. PICK d \in Cleanups : CheckPlanned(d) \/ Purge(d) \/ Finish(d)
      BY <2>1
    <3>2. d # c => cleaner'[c] = cleaner[c]
      BY <1>1, <3>1 DEF CheckPlanned, Purge, Finish, CleanupEnds
    <3> QED BY <1>2, <3>1, <3>2 DEF CheckPlanned, Finish
  <2>2. CASE StartSweep
    BY <1>1, <1>2, <2>2 DEF StartSweep
  <2>3. CASE RunShown
    BY <1>1, <1>2, <2>3 DEF RunShown
  <2>4. CASE cleaner' = cleaner
    BY <1>2, <2>4
  <2> QED BY <2>1, <2>2, <2>3, <2>4 DEF RetentionNext, ShowPlan, DayPasses, PushVersion, SetPinned, SetServable, DeleteVersion
<1>4. feedRows' = {r \in feedRows : \A checked \in cleaner[c].row : r.v # checked.v}
  BY <1>3 DEF Purge
<1>5. \A r \in Gone : \E checked \in cleaner[c].row : r.v = checked.v
  BY <1>4 DEF Gone
<1>6. ASSUME c = "manual" PROVE \A r \in Gone : \E page \in cleaner[c].page : r.v \in page
  BY <1>2, <1>5, <1>6 DEF CleanerFits
<1>7. ASSUME ~withdrawn, Gone # {} PROVE \E r \in feedRows' : r.servable
  BY <1>2, <1>4, <1>5, <1>7 DEF Spares
<1>8. \A r \in cleaner[c].row : ~r.pinned
  BY <1>2 DEF CleanerFits
<1> QED BY <1>5, <1>6, <1>7, <1>8

\* A cleanup removes only what the admin was shown or the sweep planned, no version
\* pinned before its turn came, and leaves something to serve unless others withdrew
\* versions meanwhile (run_shown, purge_planned, prune_plan), for any number of
\* versions, any policy, and whatever happens to the feed meanwhile.
THEOREM CleanupIsTrue == RetentionSpec => CleanupIsAsShown
<1>1. RetentionInv /\ [RetentionNext]_retentionVars =>
         [Purged("manual") => \A r \in Gone : \E page \in cleaner["manual"].page : r.v \in page]_retentionVars
  BY PurgesAsShown DEF Cleanups
<1>2. RetentionInv /\ [RetentionNext]_retentionVars =>
         [\A c \in Cleanups : Purged(c) /\ ~withdrawn /\ Gone # {} => \E r \in feedRows' : r.servable]_retentionVars
  BY PurgesAsShown
<1>3. RetentionInv /\ [RetentionNext]_retentionVars =>
         [\A c \in Cleanups : Purged(c) => \A r \in Gone : r.pinned => r \notin cleaner[c].row]_retentionVars
  BY PurgesAsShown
<1> QED BY <1>1, <1>2, <1>3, RetentionBegins, RetentionStep, PTL
        DEF RetentionSpec, CleanupIsAsShown, OnlyShownGo, CleanupLeavesOne, PinBeforeTurnWins

---------------------------------------------------------------------------
\* The inbox.  What was hashed of a drop nobody touches is what the drop starts with; a
\* copy is attached only when a checksum names its hash.

Data == Seq(Blocks)
Nodes == Seq([content : Data, links : Nat])
ScanRecords ==
    [pc : {"idle", "open", "copy", "verify", "attach", "remove", "removeMarker", "fail"},
     node : Nat, size : Nat, expected : Data, hashed : Data, staged : Data]

\* What the directory and the scan hold: one drop, one checksum.
InboxTypeOK ==
    /\ node \in Nodes
    /\ \A d \in drop : d.kind = "file" => d.node \in 1 .. Len(node)
    /\ \A d, e \in drop : d = e
    /\ marker \subseteq Data /\ \A c, d \in marker : c = d
    /\ scanner \in ScanRecords
    /\ \A a, b \in attached : a = b
    /\ touched \in BOOLEAN /\ lost \in BOOLEAN

\* A file has the hash it is attached under, unless a block was lost.
IsHashed(a) == lost \/ a.bytes = a.hash

\* What the scan compares with was promised, and it attaches under that.
ScanFits ==
    /\ marker \subseteq promised
    /\ \A a \in attached : IsHashed(a)
    /\ \A a \in taken : a.hash \in promised /\ IsHashed(a)
    /\ scanner.pc \in {"copy", "verify"} => scanner.expected \in promised
    /\ scanner.pc = "attach" => scanner.hashed \in promised
    /\ scanner.pc \in {"verify", "attach"} => lost \/ scanner.staged = scanner.hashed
    /\ scanner.pc = "remove" => \E a \in taken : a.hash = scanner.hashed

\* What has been hashed of a drop the uploader left alone is what it starts with, in
\* the end all of it.
CopyFits ==
    scanner.pc \in {"copy", "verify", "attach", "remove"} =>
        /\ scanner.node \in 1 .. Len(node)
        /\ ~touched =>
              LET from == node[scanner.node].content
              IN  IF scanner.pc = "copy"
                  THEN /\ scanner.size = Len(from) /\ Len(scanner.hashed) <= Len(from)
                       /\ \A i \in 1 .. Len(scanner.hashed) : scanner.hashed[i] = from[i]
                  ELSE scanner.hashed = from

InboxInv == InboxTypeOK /\ ScanFits /\ CopyFits

LEMMA InboxBegins == InboxInit => InboxInv
<1> SUFFICES ASSUME InboxInit PROVE InboxInv
  OBVIOUS
<1>1. <<>> \in Data /\ <<>> \in Nodes
  BY DEF Data, Nodes
<1>2. NoScan \in ScanRecords /\ NoScan.pc = "idle"
  BY <1>1 DEF NoScan, ScanRecords
<1> QED BY <1>1, <1>2 DEF InboxInit, InboxInv, InboxTypeOK, ScanFits, CopyFits

LEMMA FileIs ==
    ASSUME InboxInv, NEW n \in 1 .. Len(node)
    PROVE  node[n] \in [content : Data, links : Nat] /\ node[n].content \in Data
<1>1. node \in Seq([content : Data, links : Nat])
  BY DEF InboxInv, InboxTypeOK, Nodes
<1>2. node[n] \in [content : Data, links : Nat]
  BY <1>1, ElementOfSeq
<1> QED BY <1>2

\* The handle, the size and the checksum are of one drop (import).
LEMMA OpenKeeps ==
    ASSUME InboxInv, OpenDrop
    PROVE  InboxInv'
<1> USE DEF InboxInv, InboxTypeOK
<1>1. CASE scanner' = [scanner EXCEPT !.pc = "fail"]
  <2>1. scanner' \in ScanRecords /\ scanner'.pc = "fail"
    BY <1>1 DEF ScanRecords
  <2>2. UNCHANGED <<drop, node, marker, attached, taken, lost, promised>> /\ touched' = FALSE
    BY DEF OpenDrop
  <2> QED BY <2>1, <2>2 DEF ScanFits, IsHashed, CopyFits
<1>2. CASE /\ marker \notin {{}, {<<>>}} /\ IsFile
           /\ scanner' = [pc |-> "copy", node |-> TheOne(drop).node, hashed |-> <<>>, staged |-> <<>>,
                          size |-> Len(node[TheOne(drop).node].content), expected |-> TheOne(marker)]
  <2>1. TheOne(drop) \in drop /\ TheOne(drop).kind = "file"
    BY <1>2 DEF IsFile, TheOne
  <2>2. TheOne(drop).node \in 1 .. Len(node)
    BY <2>1
  <2>3. TheOne(marker) \in marker
    BY <1>2 DEF TheOne
  <2> DEFINE n == TheOne(drop).node  want == TheOne(marker)
  <2>4. n \in 1 .. Len(node) /\ want \in marker
    BY <2>2, <2>3
  <2>5. scanner' = [pc |-> "copy", node |-> n, hashed |-> <<>>, staged |-> <<>>, size |-> Len(node[n].content), expected |-> want]
    BY <1>2
  <2> HIDE DEF n, want
  <2>6. node[n].content \in Data
    BY <2>4, FileIs
  <2>7. Len(node[n].content) \in Nat /\ <<>> \in Data /\ n \in Nat /\ Len(<<>>) = 0
    BY <2>4, <2>6 DEF Data, Nodes
  <2>8. scanner' \in ScanRecords
    BY <2>4, <2>5, <2>7 DEF ScanRecords
  <2>9. UNCHANGED <<drop, node, marker, attached, taken, lost, promised>> /\ touched' = FALSE
    BY DEF OpenDrop
  <2>10. ScanFits'
    BY <2>4, <2>5, <2>9 DEF ScanFits, IsHashed
  <2>11. CopyFits'
    BY <2>4, <2>5, <2>7, <2>9 DEF CopyFits
  <2> QED BY <2>8, <2>9, <2>10, <2>11
<1> QED BY <1>1, <1>2 DEF OpenDrop, ScanTo

\* Block after block, to the end (copy_hashed).
LEMMA CopyKeeps ==
    ASSUME InboxInv, CopyBlock
    PROVE  InboxInv'
<1> USE DEF InboxInv, InboxTypeOK
<1> DEFINE from == node[scanner.node].content
           at == Len(scanner.hashed) + 1
           goesOn == at <= scanner.size /\ at <= Len(from)
<1>1. scanner.pc = "copy" /\ UNCHANGED <<drop, node, marker, attached, taken, promised, touched>>
  BY DEF CopyBlock
<1>2. from \in Data /\ scanner.node \in 1 .. Len(node)
  BY <1>1, FileIs DEF CopyFits
<1>3. CASE goesOn /\ scanner' = [scanner EXCEPT !.hashed = Append(scanner.hashed, from[at])] /\ UNCHANGED lost
  <2>2. scanner.hashed \in Data /\ at \in 1 .. Len(from)
    BY <1>2, <1>3 DEF ScanRecords, Data
  <2>3. from[at] \in Blocks
    BY <1>2, <2>2 DEF Data
  <2> DEFINE longer == Append(scanner.hashed, from[at])
  <2>4. /\ longer \in Data /\ Len(longer) = at
        /\ \A i \in 1 .. Len(scanner.hashed) : longer[i] = scanner.hashed[i]
        /\ longer[at] = from[at]
    BY <2>2, <2>3 DEF Data
  <2>5. scanner' = [scanner EXCEPT !.hashed = longer]
    BY <1>3
  <2> HIDE DEF longer
  <2>6. scanner' \in ScanRecords /\ scanner'.hashed = longer /\ scanner'.pc = "copy"
        /\ UNCHANGED <<scanner.node, scanner.size, scanner.expected>>
    BY <1>1, <2>4, <2>5 DEF ScanRecords
  <2>7. \A i \in 1 .. at : i = at \/ i \in 1 .. Len(scanner.hashed)
    BY <2>2 DEF Data
  <2>8. ~touched => \A i \in 1 .. at : longer[i] = from[i]
    BY <1>1, <2>4, <2>7 DEF CopyFits
  <2>9. CopyFits'
    BY <1>1, <1>2, <1>3, <2>4, <2>6, <2>8 DEF CopyFits
  <2> QED BY <1>1, <1>3, <2>6, <2>9 DEF ScanFits, IsHashed
<1>4. ASSUME ~goesOn, NEW rest \in Data, scanner' = [scanner EXCEPT !.pc = "verify", !.staged = rest],
             lost' = TRUE \/ (UNCHANGED lost /\ rest = scanner.hashed)
      PROVE  InboxInv'
  <2>2. scanner' \in ScanRecords /\ scanner'.pc = "verify" /\ scanner'.staged = rest
        /\ UNCHANGED <<scanner.node, scanner.size, scanner.expected, scanner.hashed>>
    BY <1>4 DEF ScanRecords
  <2>3. ASSUME ~touched PROVE scanner.hashed = from
    <3>1. /\ scanner.hashed \in Seq(Blocks) /\ from \in Seq(Blocks) /\ scanner.size = Len(from)
          /\ Len(scanner.hashed) <= Len(from)
          /\ \A i \in 1 .. Len(scanner.hashed) : scanner.hashed[i] = from[i]
      BY <1>1, <1>2, <2>3 DEF CopyFits, ScanRecords, Data
    <3>2. Len(scanner.hashed) = Len(from)
      BY <1>4, <3>1
    <3> QED BY <3>1, <3>2, SeqEqual
  <2>4. ScanFits'
    BY <1>1, <1>4, <2>2 DEF ScanFits, IsHashed
  <2>5. CopyFits'
    BY <1>1, <1>2, <2>2, <2>3 DEF CopyFits
  <2> QED BY <1>1, <1>4, <2>2, <2>4, <2>5
<1>5. CASE scanner' = [scanner EXCEPT !.pc = "fail"] /\ UNCHANGED lost
  <2>1. scanner' \in ScanRecords /\ scanner'.pc = "fail"
    BY <1>5 DEF ScanRecords
  <2> QED BY <1>1, <1>5, <2>1 DEF ScanFits, IsHashed, CopyFits
<1>6. CASE ~goesOn /\ scanner' = [scanner EXCEPT !.pc = "verify", !.staged = scanner.hashed] /\ UNCHANGED lost
  <2>1. scanner.hashed \in Data
    BY DEF ScanRecords
  <2> QED BY <1>4, <1>6, <2>1
<1>7. CASE ~goesOn /\ at > 1 /\ lost' = TRUE
           /\ scanner' = [scanner EXCEPT !.pc = "verify", !.staged = SubSeq(scanner.hashed, 1, at - 2)]
  <2>1. SubSeq(scanner.hashed, 1, at - 2) \in Data
    BY <1>7 DEF ScanRecords, Data
  <2> QED BY <1>4, <1>7, <2>1
<1> QED BY <1>3, <1>5, <1>6, <1>7 DEF CopyBlock, ScanTo

\* The copy is attached only when it has the promised checksum, and the drop goes after.
LEMMA ScanKeeps ==
    ASSUME InboxInv, FindDrop \/ VerifyCopy \/ AttachCopy \/ RemoveDrop \/ RemoveMarker \/ WriteReport \/ ScanStops
    PROVE  InboxInv'
<1> USE DEF InboxInv, InboxTypeOK
<1>1. UNCHANGED <<node, promised, touched, lost>> /\ drop' \in {{}, drop} /\ marker' \in {{}, marker} /\ taken \subseteq taken'
  BY DEF FindDrop, VerifyCopy, AttachCopy, RemoveDrop, RemoveMarker, WriteReport, ScanStops
<1>2. PICK p \in {"idle", "open", "copy", "verify", "attach", "remove", "removeMarker", "fail"} :
         scanner' = [scanner EXCEPT !.pc = p] \/ (scanner' = NoScan /\ p = "idle")
  BY DEF FindDrop, VerifyCopy, AttachCopy, RemoveDrop, RemoveMarker, WriteReport, ScanStops, ScanTo
<1>3. NoScan \in ScanRecords
  BY DEF NoScan, ScanRecords, Data
<1>4. scanner' \in ScanRecords /\ scanner'.pc = p
  BY <1>2, <1>3 DEF ScanRecords, NoScan
<1>5. p # "idle" => UNCHANGED <<scanner.node, scanner.size, scanner.expected, scanner.hashed, scanner.staged>>
  BY <1>2 DEF ScanRecords
<1> DEFINE Stored ==
      /\ \A a, b \in attached' : a = b
      /\ \A a \in attached' : IsHashed(a)'
      /\ \A a \in taken' : a.hash \in promised /\ IsHashed(a)'
<1>8. /\ Stored
      /\ AttachCopy /\ p = "remove" => \E a \in taken' : a.hash = scanner.hashed
  <2>1. CASE UNCHANGED <<attached, taken>>
    <3>1. ~(AttachCopy /\ p = "remove") \/ attached' \subseteq taken'
      BY <1>4, <2>1 DEF AttachCopy, ScanTo, ScanRecords
    <3>2. AttachCopy /\ p = "remove" => \E a \in attached' : a.hash = scanner.hashed
      BY <1>4, <2>1 DEF AttachCopy, ScanTo, ScanRecords, Staged
    <3> QED BY <1>1, <2>1, <3>1, <3>2 DEF ScanFits, IsHashed
  <2>2. CASE AttachCopy /\ attached = {} /\ attached' = {Staged} /\ taken' = taken \cup attached'
    <3>1. Staged.hash = scanner.hashed /\ Staged.bytes = scanner.staged
      BY DEF Staged
    <3>2. scanner.pc = "attach"
      BY <2>2 DEF AttachCopy
    <3> QED BY <1>1, <2>2, <3>1, <3>2 DEF ScanFits, IsHashed
  <2>3. CASE /\ AttachCopy /\ (\E a \in attached : a.hash = scanner.hashed) /\ UNCHANGED attached
             /\ taken' = taken \cup attached'
    <3>1. PICK a \in attached : a.hash = scanner.hashed
      BY <2>3
    <3>2. attached = {a} /\ scanner.pc = "attach"
      BY <2>3, <3>1 DEF AttachCopy
    <3> QED BY <1>1, <2>3, <3>1, <3>2 DEF ScanFits, IsHashed
  <2> QED BY <2>1, <2>2, <2>3 DEF FindDrop, VerifyCopy, AttachCopy, RemoveDrop, RemoveMarker, WriteReport, ScanStops
<1> HIDE DEF Stored
<1>6. ScanFits' /\ CopyFits'
  <2>1. CASE p \notin {"copy", "verify", "attach", "remove"}
    BY <1>1, <1>4, <1>8, <2>1 DEF ScanFits, CopyFits, Stored
  <2>2. CASE p \in {"copy", "verify", "attach", "remove"}
    <3>1. (VerifyCopy \/ AttachCopy) /\ UNCHANGED <<drop, marker>>
      BY <1>4, <2>2 DEF FindDrop, VerifyCopy, AttachCopy, RemoveDrop, RemoveMarker, WriteReport, ScanStops, ScanTo, ScanRecords, NoScan
    <3>2. CASE VerifyCopy
      <4>1. scanner.pc = "verify" /\ p = "attach" /\ scanner.hashed = scanner.expected
        BY <1>4, <2>2, <3>2 DEF VerifyCopy, ScanTo, ScanRecords
      <4> QED BY <1>1, <1>4, <1>5, <1>8, <3>1, <4>1 DEF ScanFits, CopyFits, Stored
    <3>3. CASE AttachCopy
      <4>1. scanner.pc = "attach" /\ p = "remove"
        BY <1>4, <2>2, <3>3 DEF AttachCopy, ScanTo, ScanRecords
      <4> QED BY <1>1, <1>4, <1>5, <1>8, <3>1, <3>3, <4>1 DEF ScanFits, CopyFits, Stored
    <3> QED BY <3>1, <3>2, <3>3
  <2> QED BY <2>1, <2>2
<1> QED BY <1>1, <1>4, <1>6, <1>8 DEF Stored

\* The uploader touches what the scanner has open, or leaves it.
LEMMA UploaderKeeps ==
    ASSUME InboxInv, Uploader
    PROVE  InboxInv'
<1> USE DEF InboxInv, InboxTypeOK
<1>1. UNCHANGED <<scanner, taken, lost>> /\ promised \subseteq promised'
      /\ (attached' \in {attached, {}} \/ \E c \in Contents : attached' = {[hash |-> c, bytes |-> c]})
  BY DEF Uploader, PutFile, PutMarker, AttachElsewhere, WriteInPlace, PutLink, RemoveReport
<1>8. /\ \A a, b \in attached' : a = b
      /\ \A a \in attached' : IsHashed(a)'
  BY <1>1 DEF ScanFits, IsHashed
<1>2. (\E c \in Data : marker' = {c} /\ c \in promised') \/ marker' = marker
  <2>1. Contents \subseteq Data /\ <<>> \in Data
    BY InboxAssumption DEF Data
  <2>2. CASE \E c \in Contents \cup {<<>>} : PutMarker(c)
    BY <2>1, <2>2 DEF PutMarker
  <2>3. CASE marker' = marker
    BY <2>3
  <2> QED BY <2>2, <2>3 DEF Uploader, PutFile, AttachElsewhere, WriteInPlace, PutLink, RemoveReport
<1>3. touched' = TRUE \/ UNCHANGED <<touched, node, drop>>
  BY DEF Uploader, PutFile, PutMarker, AttachElsewhere, WriteInPlace, PutLink, RemoveReport
<1> DEFINE Fits ==
      /\ node' \in Nodes /\ Len(node') >= Len(node)
      /\ \A d \in drop' : d.kind = "file" => d.node \in 1 .. Len(node')
      /\ \A d, e \in drop' : d = e
<1>4. Fits
  <2>1. ASSUME NEW c \in Contents, PutFile(c) PROVE Fits
    <3>1. [content |-> c, links |-> 1] \in [content : Data, links : Nat]
      BY InboxAssumption DEF Data
    <3>2. node' = Append(node, [content |-> c, links |-> 1]) /\ drop' = {[kind |-> "file", node |-> Len(node) + 1]}
      BY <2>1 DEF PutFile
    <3>3. node' \in Nodes /\ Len(node') = Len(node) + 1 /\ Len(node) \in Nat
      BY <3>1, <3>2 DEF Nodes
    <3> QED BY <3>2, <3>3
  <2>2. ASSUME NEW at \in 1 .. 2, NEW b \in Blocks, WriteInPlace(at, b) PROVE Fits
    <3> DEFINE n == TheOne(drop).node  c == node[n].content
               new == IF at <= Len(c) THEN [c EXCEPT ![at] = b] ELSE Append(c, b)
    <3>1. TheOne(drop) \in drop /\ TheOne(drop).kind = "file"
      BY <2>2 DEF WriteInPlace, IsFile, TheOne
    <3>2. n \in 1 .. Len(node)
      BY <3>1
    <3>3. node[n] \in [content : Data, links : Nat]
      BY <3>2, FileIs
    <3>4. node' = [node EXCEPT ![n] = [node[n] EXCEPT !.content = new]] /\ UNCHANGED drop
      BY <2>2 DEF WriteInPlace
    <3> HIDE DEF n
    <3>5. new \in Data
      BY <3>3 DEF Data
    <3> HIDE DEF new
    <3>6. [node[n] EXCEPT !.content = new] \in [content : Data, links : Nat]
      BY <3>3, <3>5
    <3>7. node' \in Nodes /\ Len(node') = Len(node) /\ Len(node) \in Nat
      BY <3>2, <3>4, <3>6 DEF Nodes
    <3> QED BY <3>4, <3>7
  <2>3. ASSUME PutLink PROVE Fits
    <3>1. CASE UNCHANGED node
      BY <2>3, <3>1 DEF PutLink, Nodes
    <3>2. CASE IsFile /\ node' = [node EXCEPT ![TheOne(drop).node].links = 2] /\ UNCHANGED drop
      <4> DEFINE n == TheOne(drop).node
      <4>1. TheOne(drop) \in drop /\ TheOne(drop).kind = "file"
        BY <3>2 DEF IsFile, TheOne
      <4>2. n \in 1 .. Len(node)
        BY <4>1
      <4>3. node' = [node EXCEPT ![n] = [node[n] EXCEPT !.links = 2]]
        BY <3>2
      <4> HIDE DEF n
      <4>4. [node[n] EXCEPT !.links = 2] \in [content : Data, links : Nat]
        BY <4>2, FileIs
      <4>5. node' \in Nodes /\ Len(node') = Len(node) /\ Len(node) \in Nat
        BY <4>2, <4>3, <4>4 DEF Nodes
      <4> QED BY <3>2, <4>5
    <3> QED BY <2>3, <3>1, <3>2 DEF PutLink
  <2>4. CASE UNCHANGED <<node, drop>>
    BY <2>4 DEF Nodes
  <2> QED BY <2>1, <2>2, <2>3, <2>4 DEF Uploader, PutMarker, AttachElsewhere, RemoveReport
<1>5. InboxTypeOK'
  BY <1>1, <1>2, <1>3, <1>4, <1>8
<1>6. ScanFits'
  BY <1>1, <1>2, <1>8 DEF ScanFits, IsHashed
<1>7. CopyFits'
  <2>1. scanner.pc \in {"copy", "verify", "attach", "remove"} => scanner.node \in 1 .. Len(node')
    BY <1>4 DEF CopyFits, Nodes
  <2> QED BY <1>1, <1>3, <2>1 DEF CopyFits
<1> QED BY <1>5, <1>6, <1>7

LEMMA InboxStep == InboxInv /\ [InboxNext]_inboxVars => InboxInv'
<1> SUFFICES ASSUME InboxInv, [InboxNext]_inboxVars PROVE InboxInv'
  OBVIOUS
<1>1. CASE UNCHANGED inboxVars
  BY <1>1 DEF inboxVars, InboxInv, InboxTypeOK, ScanFits, IsHashed, CopyFits
<1>2. CASE InboxNext
  BY <1>2, OpenKeeps, CopyKeeps, ScanKeeps, UploaderKeeps DEF InboxNext, ScanStep
<1> QED BY <1>1, <1>2

\* Nothing is attached under a hash no checksum promised, and a drop the uploader left
\* alone since it was opened is removed only once its bytes are attached (import,
\* copy_hashed), for contents of any length, any number of uploads and crashes, and
\* whatever the uploader changes in place meanwhile.  Only a buffered last write that
\* fails unnoticed lets a file be attached that is not the one its hash is of.
THEOREM DropsKept == InboxSpec => DropsAreKept
<1>1. InboxInv => AttachedIsPromised
  BY DEF InboxInv, ScanFits, IsHashed, AttachedIsPromised
<1>2. InboxInv /\ [InboxNext]_inboxVars =>
         [scanner.pc = "remove" /\ ~touched /\ drop' = {} =>
             \E a \in taken : a.hash = node[scanner.node].content /\ (lost \/ a.bytes = a.hash)]_inboxVars
  BY DEF InboxInv, CopyFits, ScanFits, IsHashed
<1> QED BY <1>1, <1>2, InboxBegins, InboxStep, PTL DEF InboxSpec, DropsAreKept, DropIsNotLost

---------------------------------------------------------------------------
\* The process.  A slot is with one open connection or free; a start that finds both
\* files of the certificate writes none.

ProcessTypeOK ==
    /\ pair \in [cert : Nat, key : Nat] /\ starts \in Nat
    /\ conns \in [Conns -> {"closed", "new", "open", "busy"}]
    /\ slots \in Nat
    /\ kills \in Nat /\ removals \in Nat

\* Once a pair has served, and until an operator removes a file, both files are of it
\* and no start writes one.
PairStays ==
    loaded # Missing /\ removals = 0 =>
        /\ pair.cert = loaded /\ pair.key = loaded
        /\ proc \notin {"cert", "cert begun", "key", "key begun"}

ProcessInv == ProcessTypeOK /\ SlotsComeBack /\ PairStays

HasSlot(net) == {c \in Conns : net[c] # "closed"}

LEMMA OpenIsFinite ==
    ASSUME NEW net \in [Conns -> {"closed", "new", "open", "busy"}]
    PROVE  IsFiniteSet(HasSlot(net)) /\ Cardinality(HasSlot(net)) \in Nat
<1>1. IsFiniteSet(HasSlot(net))
  BY ProcessAssumption, FS_Subset DEF HasSlot
<1> QED BY <1>1, FS_CardinalityType

LEMMA ProcessBegins == ProcessInit => ProcessInv
<1> SUFFICES ASSUME ProcessInit PROVE ProcessInv
  OBVIOUS
<1>1. {c \in Conns : conns[c] # "closed"} = {}
  BY DEF ProcessInit, Closed
<1>2. SlotsComeBack
  BY <1>1, FS_EmptySet, ProcessAssumption DEF ProcessInit, SlotsComeBack
<1> QED BY <1>2, ProcessAssumption DEF ProcessInit, ProcessInv, ProcessTypeOK, PairStays, Missing, Closed

\* Closing a connection gives its slot back (Limited), closing all of them all slots.
LEMMA DropKeepsSlots ==
    ASSUME ProcessInv, NEW c \in Conns, conns[c] # "closed", Drop(c)
    PROVE  conns' \in [Conns -> {"closed", "new", "open", "busy"}] /\ slots' \in Nat /\ SlotsComeBack'
<1>1. conns \in [Conns -> {"closed", "new", "open", "busy"}] /\ slots \in Nat
      /\ slots + Cardinality(HasSlot(conns)) = MaxConnections
  BY DEF ProcessInv, ProcessTypeOK, SlotsComeBack, HasSlot
<1>2. HasSlot(conns') = HasSlot(conns) \ {c} /\ c \in HasSlot(conns) /\ conns' \in [Conns -> {"closed", "new", "open", "busy"}]
  BY <1>1 DEF Drop, HasSlot
<1>3. Cardinality(HasSlot(conns')) = Cardinality(HasSlot(conns)) - 1
  BY <1>1, <1>2, OpenIsFinite, FS_RemoveElement
<1>4. slots' = slots + 1
  BY DEF Drop
<1>5. slots' + Cardinality(HasSlot(conns')) = MaxConnections
  BY <1>1, <1>3, <1>4, OpenIsFinite
<1> QED BY <1>1, <1>2, <1>4, <1>5 DEF SlotsComeBack, HasSlot

LEMMA AllCloseKeepsSlots ==
    ASSUME conns' = Closed, slots' = MaxConnections
    PROVE  conns' \in [Conns -> {"closed", "new", "open", "busy"}] /\ slots' \in Nat /\ SlotsComeBack'
<1>1. {c \in Conns : conns'[c] # "closed"} = {}
  BY DEF Closed
<1> QED BY <1>1, FS_EmptySet, ProcessAssumption DEF SlotsComeBack, Closed

LEMMA AcceptKeepsSlots ==
    ASSUME ProcessInv, NEW c \in Conns, Accept(c)
    PROVE  conns' \in [Conns -> {"closed", "new", "open", "busy"}] /\ slots' \in Nat /\ SlotsComeBack'
<1>1. conns \in [Conns -> {"closed", "new", "open", "busy"}] /\ slots \in Nat /\ slots > 0
      /\ slots + Cardinality(HasSlot(conns)) = MaxConnections
  BY DEF ProcessInv, ProcessTypeOK, SlotsComeBack, HasSlot, Accept
<1>2. HasSlot(conns') = HasSlot(conns) \cup {c} /\ c \notin HasSlot(conns) /\ conns' \in [Conns -> {"closed", "new", "open", "busy"}]
  BY <1>1 DEF Accept, HasSlot
<1>3. Cardinality(HasSlot(conns')) = Cardinality(HasSlot(conns)) + 1
  BY <1>1, <1>2, OpenIsFinite, FS_AddElement
<1>4. slots' = slots - 1
  BY DEF Accept
<1>5. slots' + Cardinality(HasSlot(conns')) = MaxConnections /\ slots' \in Nat
  BY <1>1, <1>3, <1>4, OpenIsFinite
<1> QED BY <1>2, <1>5 DEF SlotsComeBack, HasSlot

\* A connection that goes on keeps its slot.
LEMMA OpenStaysOpen ==
    ASSUME ProcessInv, UNCHANGED slots, NEW c \in Conns, NEW s \in {"new", "open", "busy"},
           conns[c] # "closed", conns' = [conns EXCEPT ![c] = s]
    PROVE  conns' \in [Conns -> {"closed", "new", "open", "busy"}] /\ slots' \in Nat /\ SlotsComeBack'
<1>1. conns \in [Conns -> {"closed", "new", "open", "busy"}] /\ slots \in Nat
  BY DEF ProcessInv, ProcessTypeOK
<1>2. {d \in Conns : conns'[d] # "closed"} = {d \in Conns : conns[d] # "closed"}
  BY <1>1
<1>3. conns' \in [Conns -> {"closed", "new", "open", "busy"}]
  BY <1>1
<1> QED BY <1>1, <1>2, <1>3 DEF ProcessInv, SlotsComeBack

LEMMA SlotsKept ==
    ASSUME ProcessInv, ProcessNext
    PROVE  conns' \in [Conns -> {"closed", "new", "open", "busy"}] /\ slots' \in Nat /\ SlotsComeBack'
<1>1. CASE UNCHANGED connVars
  BY <1>1 DEF connVars, ProcessInv, ProcessTypeOK, SlotsComeBack
<1>2. CASE StartFails \/ Kill \/ ServerStops \/ Exit
  BY <1>2, AllCloseKeepsSlots DEF StartFails, Kill, ServerStops, Exit, ProcessGone
<1>3. ASSUME NEW c \in Conns, FirstBytesTimeout(c) \/ Disconnect(c) \/ CloseIdle(c)
      PROVE  conns' \in [Conns -> {"closed", "new", "open", "busy"}] /\ slots' \in Nat /\ SlotsComeBack'
  BY <1>3, DropKeepsSlots DEF FirstBytesTimeout, Disconnect, CloseIdle
<1>4. ASSUME NEW c \in Conns, FirstBytes(c) \/ Request(c) \/ WorkStep(c)
      PROVE  conns' \in [Conns -> {"closed", "new", "open", "busy"}] /\ slots' \in Nat /\ SlotsComeBack'
  <2>1. UNCHANGED slots
    BY <1>4 DEF FirstBytes, Request, WorkStep, connVars
  <2>2. CASE UNCHANGED conns
    BY <1>1, <2>1, <2>2 DEF connVars
  <2>3. CASE conns[c] # "closed" /\ \E s \in {"new", "open", "busy"} : conns' = [conns EXCEPT ![c] = s]
    BY <2>1, <2>3, OpenStaysOpen
  <2> QED BY <1>4, <2>2, <2>3 DEF FirstBytes, Request, WorkStep, connVars
<1>5. ASSUME NEW c \in Conns, Accept(c)
      PROVE  conns' \in [Conns -> {"closed", "new", "open", "busy"}] /\ slots' \in Nat /\ SlotsComeBack'
  BY <1>5, AcceptKeepsSlots
<1> QED BY <1>1, <1>2, <1>3, <1>4, <1>5 DEF ProcessNext, StartProcess, EnsureCertificate, WriteFile, LoadPair, Bind, RemoveFile,
           BeginSweep, FinishSweep, Signal, GracefulShutdown, DeadlinePasses

\* A start that finds both files writes none of them (ensure_certificate).
LEMMA PairKept ==
    ASSUME ProcessInv, ProcessNext
    PROVE  /\ pair' \in [cert : Nat, key : Nat] /\ starts' \in Nat /\ kills' \in Nat /\ removals' \in Nat
           /\ PairStays'
           /\ loaded' # loaded /\ loaded # Missing => removals > 0
<1>0. ProcessTypeOK /\ PairStays
  BY DEF ProcessInv
<1>1. CASE WriteFile("cert", "cert begun", "key") \/ WriteFile("key", "key begun", "load")
  <2>1. PICK f \in {"cert", "key"}, n \in Nat : pair' = [pair EXCEPT ![f] = n]
    BY <1>0, <1>1 DEF WriteFile, ProcessTypeOK, Torn
  <2>2. pair' \in [cert : Nat, key : Nat]
    BY <1>0, <2>1 DEF ProcessTypeOK
  <2>3. proc \in {"cert", "cert begun", "key", "key begun"}
    BY <1>1 DEF WriteFile
  <2>4. UNCHANGED <<loaded, counted>>
    BY <1>1 DEF WriteFile
  <2> QED BY <1>0, <2>2, <2>3, <2>4 DEF ProcessTypeOK, PairStays, counted
<1>2. CASE \E f \in {"cert", "key"} : RemoveFile(f)
  <2>1. PICK f \in {"cert", "key"} : RemoveFile(f)
    BY <1>2
  <2>2. pair' \in [cert : Nat, key : Nat]
    BY <1>0, <2>1 DEF RemoveFile, ProcessTypeOK, Missing
  <2>3. UNCHANGED <<loaded, starts, kills>> /\ removals' \in Nat /\ removals' # 0
    BY <1>0, <2>1 DEF RemoveFile, ProcessTypeOK
  <2> QED BY <1>0, <2>2, <2>3 DEF ProcessTypeOK, PairStays
<1>3. CASE LoadPair
  <2>1. UNCHANGED <<pair, counted>> /\ loaded' = pair.cert /\ pair.cert = pair.key /\ proc' = "bind"
    BY <1>3 DEF LoadPair
  <2>2. PairStays' /\ (loaded' # loaded /\ loaded # Missing => removals # 0)
    BY <1>0, <2>1 DEF PairStays, counted
  <2>3. removals \in Nat
    BY <1>0 DEF ProcessTypeOK
  <2> QED BY <1>0, <2>1, <2>2, <2>3 DEF ProcessTypeOK, counted
<1>4. CASE EnsureCertificate
  <2>1. UNCHANGED <<pair, loaded, counted>> /\ (pair.cert # Missing /\ pair.key # Missing => proc' = "load")
    BY <1>4 DEF EnsureCertificate, tlsVars
  <2> QED BY <1>0, <2>1 DEF ProcessTypeOK, PairStays, counted
<1>5. CASE /\ UNCHANGED <<pair, loaded, removals>>
           /\ proc' = proc \/ proc' \in {"off", "start", "serve", "drain"}
           /\ starts' \in {starts, starts + 1} /\ kills' \in {kills, kills + 1}
  <2>1. PairStays'
    BY <1>0, <1>5 DEF PairStays
  <2> QED BY <1>0, <1>5, <2>1 DEF ProcessTypeOK
<1>6. CASE StartProcess \/ Bind \/ StartFails \/ Kill \/ ServerStops \/ Exit
  BY <1>5, <1>6 DEF StartProcess, Bind, StartFails, Kill, ServerStops, Exit, ProcessGone, tlsVars, counted
<1>7. ASSUME NEW c \in Conns, \/ Accept(c) \/ FirstBytes(c) \/ FirstBytesTimeout(c) \/ Request(c)
                              \/ Disconnect(c) \/ WorkStep(c) \/ CloseIdle(c)
      PROVE  UNCHANGED <<proc, tlsVars, counted>>
  BY <1>7 DEF Accept, FirstBytes, FirstBytesTimeout, Request, Disconnect, WorkStep, CloseIdle
<1>8. ASSUME BeginSweep \/ FinishSweep \/ Signal \/ GracefulShutdown \/ DeadlinePasses
      PROVE  UNCHANGED <<proc, tlsVars, counted>>
  BY <1>8 DEF BeginSweep, FinishSweep, Signal, GracefulShutdown, DeadlinePasses
<1>9. CASE UNCHANGED <<proc, tlsVars, counted>>
  BY <1>5, <1>9 DEF tlsVars, counted
<1> QED BY <1>1, <1>2, <1>3, <1>4, <1>6, <1>7, <1>8, <1>9 DEF ProcessNext

LEMMA ProcessStep == ProcessInv /\ [ProcessNext]_processVars => ProcessInv'
<1> SUFFICES ASSUME ProcessInv, [ProcessNext]_processVars PROVE ProcessInv'
  OBVIOUS
<1>1. CASE UNCHANGED processVars
  BY <1>1 DEF processVars, ProcessInv, ProcessTypeOK, SlotsComeBack, PairStays
<1>2. CASE ProcessNext
  BY <1>2, SlotsKept, PairKept DEF ProcessInv, ProcessTypeOK
<1> QED BY <1>1, <1>2

\* A process that stops by itself has finished its work or run out of time.
LEMMA StopWaits ==
    ASSUME ProcessInv, ProcessNext, proc = "drain", proc' = "off", kills' = kills
    PROVE  deadline = "passed" \/ (sweep # "half" /\ \A c \in Conns : work[c] = "none")
<1>1. ~Kill
  BY DEF Kill, ProcessInv, ProcessTypeOK
<1>2. Exit
  BY <1>1 DEF ProcessNext, StartProcess, EnsureCertificate, WriteFile, LoadPair, Bind, StartFails, RemoveFile,
              Accept, FirstBytes, FirstBytesTimeout, Request, Disconnect, WorkStep, CloseIdle,
              BeginSweep, FinishSweep, Signal, GracefulShutdown, DeadlinePasses, ServerStops
<1> QED BY <1>2 DEF Exit, NoWork

\* Every connection slot comes back, a stop cuts nothing off before its deadline, and the
\* certificate stays until an operator removes it (accept, run_server, ensure_certificate),
\* for any number of clients, starts, kills and removals.
THEOREM ProcessKept == ProcessSpec => ProcessIsSound
<1>1. ProcessInv => SlotsComeBack
  BY DEF ProcessInv
<1>2. ProcessInv /\ [ProcessNext]_processVars =>
         [proc = "drain" /\ proc' = "off" /\ kills' = kills =>
             deadline = "passed" \/ (sweep # "half" /\ \A c \in Conns : work[c] = "none")]_processVars
  BY StopWaits
<1>3. ProcessInv /\ [ProcessNext]_processVars =>
         [loaded' # loaded /\ loaded # Missing => removals > 0]_processVars
  BY PairKept
<1> QED BY <1>1, <1>2, <1>3, ProcessBegins, ProcessStep, PTL DEF ProcessSpec, ProcessIsSound, StopCutsNothing, PairIsStable
=============================================================================
