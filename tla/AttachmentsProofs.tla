-------------------------- MODULE AttachmentsProofs --------------------------
(***************************************************************************)
(* Attached files keep their bytes, and approved files stay, for every     *)
(* number of feeds, versions, names, blobs and tasks.                      *)
(*                                                                         *)
(* The invariant says for each task what it may still rely on at the step  *)
(* it is at.  OthersKeep shows once that no step of another task can take  *)
(* that away, as rows are touched under the lock of their version and      *)
(* references and bytes under the lock of their blob; then each action has *)
(* to be checked for its own task only.                                    *)
(***************************************************************************)
EXTENDS Attachments, FunctionTheorems, FiniteSetTheorems, TLAPS

\* From the check of its version on a task has the version lock.
Working(t) ==
    /\ pc[t] \in {"check", "store", "add", "undo", "last", "next", "lockBlob", "count", "delete", "drop", "enter"}
    /\ job[t].op # "sweep"

\* Which operation is at which step, and the locals the step relies on.
StepFits(t) ==
    /\ pc[t] \in {"store", "add", "undo"} => job[t].op = "attach"
    /\ pc[t] \in {"next", "count", "delete"} => job[t].op \in {"detach", "push", "purge", "pass", "sweep"}
    /\ pc[t] = "lockBlob" => job[t].op \in {"attach", "detach", "push", "purge", "pass", "sweep"}
    /\ pc[t] = "drop" => Purging(t)
    /\ pc[t] = "enter" => job[t].op = "push"
    /\ pc[t] = "last" => job[t].op = "purge"
    /\ pc[t] \in {"lock", "orphan"} => job[t].op = "pass"
    /\ pc[t] = "lock" => job[t].version \in Versions
    /\ pc[t] = "check" => job[t].op # "sweep"
    /\ pc[t] = "check" /\ job[t].op \in {"attach", "detach"} => job[t].name \in Names
    /\ pc[t] = "check" /\ job[t].op = "attach" => job[t].sha \in Blobs

\* The locks a step relies on are those of its task.
StepLocks(t) ==
    /\ Working(t) => job[t].version \in Versions /\ vlock[job[t].version] = t
    /\ pc[t] \in {"store", "add", "undo", "lockBlob", "count", "delete"} => job[t].sha \in Blobs
    /\ pc[t] \in {"store", "add", "undo", "count", "delete"} => block[job[t].sha] = t

\* What was found out under a lock is still so when it is acted upon: a purge's version
\* is in no feed, an attach's is there and may be changed, its bytes are stored, a blob
\* about to be deleted is referenced by nothing that stays, and a version about to enter
\* a feed brings no file whose bytes are gone.
StillSo(t) ==
    /\ Purging(t) /\ pc[t] \in {"next", "lockBlob", "count", "delete", "drop"} =>
          Holders(job[t].version) = {}
    /\ job[t].op = "attach" /\ pc[t] \in {"lockBlob", "store", "add"} =>
          /\ job[t].version \in data
          /\ Approved(job[t].version) \cap Reviewing \subseteq job[t].keys
    /\ pc[t] = "add" => job[t].sha \in stored
    /\ pc[t] = "delete" =>
          \A v \in Versions, n \in Names :
             files[v][n] = job[t].sha => Purging(t) /\ v = job[t].version
    /\ pc[t] = "enter" =>
          \/ Holders(job[t].version) # {}
          \/ \A n \in Names : files[job[t].version][n] = None

TaskInv(t) == StepFits(t) /\ StepLocks(t) /\ StillSo(t)

\* package_files cascades from packages.
FilesHaveRow == \A v \in Versions : v \notin data => \A n \in Names : files[v][n] = None

AttachmentsInv == TypeOK /\ FilesHaveRow /\ HeldHasBytes /\ \A t \in All : TaskInv(t)

\* What a step of t may touch: its own place and locks, rows of a version it has locked,
\* references to and bytes of a blob it has locked.
Frame(t) ==
    /\ \A u \in All \ {t} : pc'[u] = pc[u] /\ job'[u] = job[u]
    /\ \A u \in All \ {t}, v \in Versions : vlock[v] = u => vlock'[v] = u
    /\ \A u \in All \ {t}, s \in Blobs : block[s] = u => block'[s] = u
    /\ \A v \in Versions : vlock[v] # t =>
          member'[v] = member[v] /\ files'[v] = files[v] /\ (v \in data' <=> v \in data)
    /\ \A v \in Versions, n \in Names :
          files'[v][n] = files[v][n] \/ files'[v][n] = None \/ block[files'[v][n]] = t
    /\ \A s \in Blobs : s \in stored /\ s \notin stored' => block[s] = t

\* What the other tasks rely on survives a step within the frame.
LEMMA OthersKeep ==
    ASSUME AttachmentsInv, NEW t \in All, Frame(t), NEW u \in All, u # t
    PROVE  TaskInv(u)'
<1> USE DEF AttachmentsInv
<1>1. TaskInv(u) /\ pc'[u] = pc[u] /\ job'[u] = job[u]
  BY DEF Frame
<1>2. StepFits(u)'
  BY <1>1 DEF TaskInv, StepFits, Purging
<1>3. StepLocks(u)'
  BY <1>1 DEF TaskInv, StepLocks, Working, Frame
<1> DEFINE v == job[u].version
<1>4. ASSUME Working(u)
      PROVE  /\ v \in Versions
             /\ member'[v] = member[v] /\ files'[v] = files[v] /\ (v \in data' <=> v \in data)
  <2>1. v \in Versions /\ vlock[v] # t
    BY <1>1, <1>4 DEF TaskInv, StepLocks
  <2> QED BY <2>1 DEF Frame
<1>5. StillSo(u)
  BY <1>1 DEF TaskInv
<1>6. ASSUME Purging(u), pc[u] \in {"next", "lockBlob", "count", "delete", "drop"}
      PROVE  (Holders(job[u].version) = {})'
  <2>1. Working(u)
    BY <1>6 DEF Working, Purging
  <2> QED BY <1>1, <1>4, <1>5, <1>6, <2>1 DEF StillSo, Holders
<1>7. ASSUME job[u].op = "attach", pc[u] \in {"lockBlob", "store", "add"}
      PROVE  (job[u].version \in data /\ Approved(job[u].version) \cap Reviewing \subseteq job[u].keys)'
  <2>1. Working(u)
    BY <1>7 DEF Working
  <2> QED BY <1>1, <1>4, <1>5, <1>7, <2>1 DEF StillSo, Approved, Reviewing
<1>8. pc[u] = "add" => job[u].sha \in stored'
  BY <1>1, <1>5 DEF TaskInv, StillSo, StepLocks, Frame
<1>9. ASSUME pc[u] = "delete", NEW w \in Versions, NEW n \in Names, files'[w][n] = job[u].sha
      PROVE  Purging(u) /\ w = job[u].version
  <2>1. job[u].sha \in Blobs /\ block[job[u].sha] = u
    BY <1>1, <1>9 DEF TaskInv, StepLocks
  <2>2. files[w][n] = job[u].sha
    BY <1>9, <2>1, AttachmentsAssumption DEF Frame
  <2> QED BY <1>5, <1>9, <2>2 DEF StillSo
<1>10. ASSUME pc[u] = "enter"
       PROVE  (Holders(job[u].version) # {} \/ \A n \in Names : files[job[u].version][n] = None)'
  <2>1. Working(u)
    BY <1>1, <1>10 DEF Working, TaskInv, StepFits
  <2> QED BY <1>1, <1>4, <1>5, <1>10, <2>1 DEF StillSo, Holders
<1>11. StillSo(u)'
  BY <1>1, <1>6, <1>7, <1>8, <1>9, <1>10 DEF StillSo, Purging
<1> QED BY <1>2, <1>3, <1>11 DEF TaskInv


\* A blob whose references are counted as unused has none that stays.
LEMMA UnusedMeansUnreferenced ==
    ASSUME TypeOK, NEW t \in All, job[t].sha \in Blobs, Unused(t),
           Purging(t) => job[t].version \in Versions
    PROVE  \A v \in Versions, n \in Names :
              files[v][n] = job[t].sha => Purging(t) /\ v = job[t].version
<1> DEFINE s == job[t].sha
           w == job[t].version
           refs == {x \in Versions \X Names : files[x[1]][x[2]] = s}
           here == {n \in Names : files[w][n] = s}
           mine == {x \in refs : x[1] = w}
           second == [x \in mine |-> x[2]]
<1>1. IsFiniteSet(refs) /\ Cardinality(refs) \in Nat
  <2>1. IsFiniteSet(Versions \X Names)
    BY FS_Product, AttachmentsAssumption
  <2> QED BY <2>1, FS_Subset, FS_CardinalityType
<1>2. CASE Purging(t)
  <2>1. Cardinality(refs) <= Cardinality(here)
    BY <1>2 DEF Unused, References
  <2>2. IsFiniteSet(mine) /\ Cardinality(mine) \in Nat
    BY <1>1, FS_Subset, FS_CardinalityType
  <2>3. second \in Surjection(mine, here)
    <3>1. second \in [mine -> here]
      OBVIOUS
    <3>2. ASSUME NEW n \in here PROVE \E x \in mine : second[x] = n
      <4>1. <<w, n>> \in mine
        BY <1>2
      <4> QED BY <4>1
    <3> QED BY <3>1, <3>2 DEF Surjection
  <2>4. IsFiniteSet(here) /\ Cardinality(here) <= Cardinality(mine)
    BY <2>2, <2>3, FS_Surjection
  <2>5. Cardinality(here) \in Nat
    BY <2>4, FS_CardinalityType
  <2>6. Cardinality(mine) <= Cardinality(refs) /\ (Cardinality(mine) = Cardinality(refs) => mine = refs)
    BY <1>1, FS_Subset
  <2>7. mine = refs
    BY <1>1, <2>1, <2>2, <2>4, <2>5, <2>6
  <2>8. ASSUME NEW v \in Versions, NEW n \in Names, files[v][n] = s PROVE v = w
    <3>1. <<v, n>> \in refs
      BY <2>8
    <3> QED BY <2>7, <3>1
  <2> QED BY <1>2, <2>8
<1>3. CASE ~Purging(t)
  <2>1. Cardinality(refs) = 0
    BY <1>1, <1>3 DEF Unused, References
  <2>2. refs = {}
    BY <1>1, <2>1, FS_EmptySet
  <2>3. ASSUME NEW v \in Versions, NEW n \in Names, files[v][n] = s PROVE FALSE
    <3>1. <<v, n>> \in refs
      BY <2>3
    <3> QED BY <2>2, <3>1
  <2> QED BY <2>3
<1> QED BY <1>2, <1>3

\* The invariant holds at the start.
LEMMA AttachmentsInit == Init => AttachmentsInv
<1> SUFFICES ASSUME Init PROVE AttachmentsInv
  OBVIOUS
<1>1. TypeOK
  BY AttachmentsAssumption DEF Init, TypeOK, Jobs, NoJob, Ops, PCs
<1>2. HeldHasBytes /\ FilesHaveRow
  BY AttachmentsAssumption DEF Init, HeldHasBytes, Holders, FilesHaveRow
<1>3. \A t \in All : TaskInv(t)
  BY DEF Init, NoJob, TaskInv, StepFits, StepLocks, StillSo, Working
<1> QED BY <1>1, <1>2, <1>3 DEF AttachmentsInv

\* What a step within the frame that keeps its own task's part and the rows' part keeps.
LEMMA WithinFrame ==
    ASSUME AttachmentsInv, NEW t \in All, Frame(t),
           TypeOK', FilesHaveRow', HeldHasBytes', TaskInv(t)'
    PROVE  AttachmentsInv'
<1>1. \A u \in All : u # t => TaskInv(u)'
  BY OthersKeep
<1> QED BY <1>1 DEF AttachmentsInv


---------------------------------------------------------------------------
\* The places, locals and locks after a step of t.
Moves(t) ==
    /\ pc' \in [All -> PCs] /\ job' \in [All -> Jobs]
    /\ vlock' \in [Versions -> All \cup {None}] /\ block' \in [Blobs -> All \cup {None}]
    /\ \A u \in All \ {t} : pc'[u] = pc[u] /\ job'[u] = job[u]
    /\ \A u \in All \ {t}, v \in Versions : vlock[v] = u => vlock'[v] = u
    /\ \A u \in All \ {t}, s \in Blobs : block[s] = u => block'[s] = u

\* A task that goes on keeps its locks, its operation and the version it works on.
LEMMA GotoMoves ==
    ASSUME TypeOK, NEW t \in All, NEW p \in PCs, Goto(t, p), Stay
    PROVE  Moves(t) /\ pc'[t] = p /\ job' = job /\ vlock' = vlock /\ block' = block
BY DEF TypeOK, Goto, Stay, Moves

\* A lock given up is nobody's, any other stays whose it was.
LEMMA UnlockedKeeps ==
    ASSUME NEW S, NEW t \in All, NEW lock \in [S -> All \cup {None}]
    PROVE  /\ Unlocked(lock, t) \in [S -> All \cup {None}]
           /\ \A u \in All \ {t}, x \in S : lock[x] = u => Unlocked(lock, t)[x] = u
BY DEF Unlocked

\* The locks of the others after t has given up its own.
LEMMA GuardsDropped ==
    ASSUME TypeOK, NEW t \in All
    PROVE  /\ Unlocked(vlock, t) \in [Versions -> All \cup {None}] /\ Unlocked(block, t) \in [Blobs -> All \cup {None}]
           /\ \A u \in All \ {t}, v \in Versions : vlock[v] = u => Unlocked(vlock, t)[v] = u
           /\ \A u \in All \ {t}, s \in Blobs : block[s] = u => Unlocked(block, t)[s] = u
<1>1. vlock \in [Versions -> All \cup {None}] /\ block \in [Blobs -> All \cup {None}]
  BY DEF TypeOK
<1> QED BY <1>1, UnlockedKeeps

\* A task that is done leaves the state its invariant asks of an idle one.
LEMMA FinishMoves ==
    ASSUME TypeOK, NEW t \in All, Finish(t)
    PROVE  Moves(t) /\ TaskInv(t)'
<1>1. pc'[t] = "idle" /\ pc' \in [All -> PCs] /\ \A u \in All \ {t} : pc'[u] = pc[u]
  BY DEF TypeOK, Finish, Goto, PCs
<1>2. job' \in [All -> Jobs] /\ job'[t] = NoJob /\ \A u \in All \ {t} : job'[u] = job[u]
  BY DEF TypeOK, Finish, NoJob, Jobs, Ops
<1>3. Moves(t)
  BY <1>1, <1>2, GuardsDropped DEF Finish, Moves
<1>4. TaskInv(t)'
  BY <1>1, <1>2 DEF TaskInv, StepFits, StepLocks, StillSo, Working, NoJob
<1> QED BY <1>3, <1>4

\* The pass is done with an orphan and gives its locks back.
LEMMA LeaveMoves ==
    ASSUME TypeOK, NEW t \in All, LeaveOrphan(t), job[t].op = "pass"
    PROVE  Moves(t) /\ TaskInv(t)'
<1>1. pc'[t] = "orphan" /\ pc' \in [All -> PCs] /\ \A u \in All \ {t} : pc'[u] = pc[u]
  BY DEF TypeOK, LeaveOrphan, Goto, PCs
<1>2. job' \in [All -> Jobs] /\ job'[t].op = "pass" /\ \A u \in All \ {t} : job'[u] = job[u]
  <2>1. job' = [job EXCEPT ![t] = [job[t] EXCEPT !.version = None, !.sha = None, !.todo = {}]]
    BY DEF TypeOK, LeaveOrphan
  <2>2. job \in [All -> Jobs] /\ job[t] \in Jobs
    BY DEF TypeOK
  <2>3. [job[t] EXCEPT !.version = None, !.sha = None, !.todo = {}] \in Jobs
    BY <2>2 DEF Jobs
  <2>4. [job[t] EXCEPT !.version = None, !.sha = None, !.todo = {}].op = "pass"
    BY <2>2 DEF Jobs
  <2> QED BY <2>1, <2>2, <2>3, <2>4
<1>3. Moves(t)
  BY <1>1, <1>2, GuardsDropped DEF LeaveOrphan, Moves
<1>4. TaskInv(t)'
  BY <1>1, <1>2 DEF TaskInv, StepFits, StepLocks, StillSo, Working
<1> QED BY <1>3, <1>4

\* An error ends a task, or what the pass does about one orphan, and the locks are given back.
LEMMA FailMoves ==
    ASSUME TypeOK, NEW t \in All, Fail(t)
    PROVE  Moves(t) /\ TaskInv(t)'
BY FinishMoves, LeaveMoves DEF Fail

\* Going on to the next blob keeps the operation and the lock of its version.
LEMMA NextBlobMoves ==
    ASSUME TypeOK, NEW t \in All, NextBlob(t)
    PROVE  /\ Moves(t) /\ pc'[t] = "next" /\ vlock' = vlock
           /\ job'[t].op = job[t].op /\ job'[t].version = job[t].version
<1>1. pc'[t] = "next" /\ pc' \in [All -> PCs] /\ \A u \in All \ {t} : pc'[u] = pc[u]
  BY DEF TypeOK, NextBlob, Goto, PCs
<1>2. /\ job' \in [All -> Jobs] /\ \A u \in All \ {t} : job'[u] = job[u]
      /\ job'[t].op = job[t].op /\ job'[t].version = job[t].version
  <2> DEFINE j == [job[t] EXCEPT !.todo = @ \ {job[t].sha}, !.sha = None]
  <2>1. job' = [job EXCEPT ![t] = j]
    BY DEF TypeOK, NextBlob
  <2>2. job \in [All -> Jobs] /\ job[t] \in Jobs
    BY DEF TypeOK
  <2>3. j \in Jobs /\ j.op = job[t].op /\ j.version = job[t].version
    BY <2>2 DEF Jobs
  <2> HIDE DEF j
  <2> QED BY <2>1, <2>2, <2>3
<1>3. vlock' = vlock /\ vlock \in [Versions -> All \cup {None}]
  BY DEF TypeOK, NextBlob
<1> QED BY <1>1, <1>2, <1>3, GuardsDropped DEF NextBlob, Moves

\* A purge goes on under the lock of its version.
LEMMA PurgeMoves ==
    ASSUME TypeOK, NEW t \in All, PurgeData(t), job[t].version \in Versions
    PROVE  /\ Moves(t) /\ pc'[t] = "next" /\ vlock' = vlock /\ block' = block
           /\ job'[t].op = job[t].op /\ job'[t].version = job[t].version
<1>1. pc'[t] = "next" /\ pc' \in [All -> PCs] /\ \A u \in All \ {t} : pc'[u] = pc[u]
  BY DEF TypeOK, PurgeData, Goto, PCs
<1>2. BlobsOf(job[t].version) \subseteq Blobs
  BY DEF TypeOK, BlobsOf
<1>3. /\ job' \in [All -> Jobs] /\ \A u \in All \ {t} : job'[u] = job[u]
      /\ job'[t].op = job[t].op /\ job'[t].version = job[t].version
  BY <1>2 DEF TypeOK, PurgeData, Jobs
<1> QED BY <1>1, <1>3 DEF TypeOK, PurgeData, Moves


\* Troubles stay a number.
LEMMA TroublesBounded ==
    ASSUME TypeOK, Quiet \/ Trouble
    PROVE  troubles' \in 0 .. MaxTroubles
BY AttachmentsAssumption DEF TypeOK, Quiet, Trouble

\* A step that changes neither rows nor bytes.
LEMMA RowsStay ==
    ASSUME AttachmentsInv, NEW t \in All, Moves(t), UNCHANGED <<rows, stored>>, Quiet \/ Trouble, TaskInv(t)'
    PROVE  AttachmentsInv'
<1> USE DEF AttachmentsInv
<1>1. TypeOK'
  BY TroublesBounded DEF TypeOK, Moves, rows
<1>2. FilesHaveRow' /\ HeldHasBytes'
  BY DEF FilesHaveRow, HeldHasBytes, Holders, BlobsOf, rows
<1>3. Frame(t)
  BY DEF Frame, Moves, rows
<1> QED BY <1>1, <1>2, <1>3, WithinFrame

\* A step that changes rows of a version it has locked.
LEMMA RowsChange ==
    ASSUME AttachmentsInv, NEW t \in All, Moves(t), Quiet \/ Trouble, TaskInv(t)',
           NEW v \in Versions, vlock[v] = t, stored' = stored, data' \subseteq Versions,
           member' \in [Versions -> [Feeds -> {None, "pending", "approved"}]],
           files' \in [Versions -> [Names -> Blobs \cup {None}]],
           \A w \in Versions \ {v} : member'[w] = member[w] /\ files'[w] = files[w] /\ (w \in data' <=> w \in data),
           \A n \in Names : files'[v][n] \in {files[v][n], None} \/ (v \in data' /\ files'[v][n] \in stored /\ block[files'[v][n]] = t),
           v \notin data' => v \notin data \/ \A n \in Names : files'[v][n] = None,
           Holders(v)' # {} => Holders(v) # {} \/ \A n \in Names : files'[v][n] = None
    PROVE  AttachmentsInv'
<1> USE DEF AttachmentsInv
<1>1. TypeOK'
  BY TroublesBounded DEF TypeOK, Moves
<1>2. FilesHaveRow'
  BY DEF FilesHaveRow
<1>3. HeldHasBytes'
  <2>1. SUFFICES ASSUME NEW w \in Versions, Holders(w)' # {}, NEW n \in Names, files'[w][n] # None
                 PROVE  files'[w][n] \in stored
    BY DEF HeldHasBytes, BlobsOf
  <2>2. HeldHasBytes /\ \A x \in Versions, m \in Names : files[x][m] # None => files[x][m] \in BlobsOf(x)
    BY DEF BlobsOf
  <2>3. CASE w = v
    BY <2>1, <2>2, <2>3 DEF HeldHasBytes
  <2>4. CASE w # v
    BY <2>1, <2>2, <2>4 DEF HeldHasBytes, Holders
  <2> QED BY <2>3, <2>4
<1>4. Frame(t)
  BY DEF Frame, Moves
<1> QED BY <1>1, <1>2, <1>3, <1>4, WithinFrame

\* A step that deletes the bytes of blobs t has locked and nothing held references.
LEMMA BytesGo ==
    ASSUME AttachmentsInv, NEW t \in All, Moves(t), Quiet \/ Trouble, TaskInv(t)', UNCHANGED rows,
           stored' \subseteq Blobs,
           \A s \in stored \ stored' :
              block[s] = t /\ \A v \in Versions, n \in Names : files[v][n] = s => Holders(v) = {}
    PROVE  AttachmentsInv'
<1> USE DEF AttachmentsInv
<1>1. TypeOK'
  BY TroublesBounded DEF TypeOK, Moves, rows
<1>2. FilesHaveRow' /\ HeldHasBytes'
  BY DEF FilesHaveRow, HeldHasBytes, Holders, BlobsOf, rows
<1>3. Frame(t)
  BY DEF Frame, Moves, rows
<1> QED BY <1>1, <1>2, <1>3, WithinFrame


---------------------------------------------------------------------------
\* Requests that start and the locks they take.

\* An operation is modelled from where it has the lock of its version.
LEMMA BeginKeeps ==
    ASSUME AttachmentsInv, NEW t \in All, NEW v \in Versions, NEW j \in Jobs, Begin(t, v, j),
           j.op \in {"attach", "detach", "push", "purge", "approve"},
           j.op \in {"attach", "detach"} => j.name \in Names,
           j.op = "attach" => j.sha \in Blobs
    PROVE  AttachmentsInv'
<1> USE DEF AttachmentsInv
<1> DEFINE k == [j EXCEPT !.version = v]
<1>1. k \in Jobs /\ k.op = j.op /\ k.name = j.name /\ k.version = v /\ k.sha = j.sha
  BY DEF Jobs
<1>2. job' = [job EXCEPT ![t] = k] /\ vlock' = [vlock EXCEPT ![v] = t] /\ block' = block /\ vlock[v] = None
      /\ pc' = [pc EXCEPT ![t] = "check"] /\ UNCHANGED <<rows, stored>> /\ Quiet
  BY DEF Begin, Goto, Quiet
<1> HIDE DEF k
<1>3. Moves(t) /\ job'[t] = k /\ pc'[t] = "check" /\ vlock'[v] = t
  BY <1>1, <1>2, AttachmentsAssumption DEF TypeOK, Moves, PCs
<1>4. TaskInv(t)'
  BY <1>1, <1>3 DEF TaskInv, StepFits, StepLocks, StillSo, Working
<1> QED BY <1>2, <1>3, <1>4, RowsStay

\* Every request starts with nothing found out yet.
LEMMA StartKeeps ==
    ASSUME AttachmentsInv, NEW t \in Tasks, Start(t)
    PROVE  AttachmentsInv'
<1>0. t \in All
  BY DEF All
<1>1. ASSUME NEW f \in Feeds, NEW v \in Versions, StartPush(t, f, v) \/ StartPurge(t, f, v) \/ StartApprove(t, f, v)
      PROVE  AttachmentsInv'
  <2>1. PICK o \in {"push", "purge", "approve"} : Begin(t, v, [NoJob EXCEPT !.op = o, !.feed = f])
    BY <1>1 DEF StartPush, StartPurge, StartApprove
  <2> DEFINE j == [NoJob EXCEPT !.op = o, !.feed = f]
  <2>2. j \in Jobs /\ j.op = o
    BY DEF NoJob, Jobs, Ops
  <2> HIDE DEF j
  <2>3. Begin(t, v, j)
    BY <2>1 DEF j
  <2> QED BY <1>0, <2>2, <2>3, BeginKeeps
<1>2. ASSUME NEW f \in Feeds, NEW v \in Versions, NEW n \in Names, NEW keys \in KeySets, StartDetach(t, f, v, n, keys)
      PROVE  AttachmentsInv'
  <2> DEFINE j == [NoJob EXCEPT !.op = "detach", !.feed = f, !.name = n, !.keys = keys]
  <2>1. j \in Jobs /\ j.op = "detach" /\ j.name = n
    BY AttachmentsAssumption DEF NoJob, Jobs, Ops
  <2>2. Begin(t, v, j)
    BY <1>2 DEF StartDetach
  <2> HIDE DEF j
  <2> QED BY <1>0, <2>1, <2>2, BeginKeeps
<1>3. ASSUME NEW f \in Feeds, NEW v \in Versions, NEW n \in Names, NEW keys \in KeySets, NEW s \in Blobs,
             StartAttach(t, f, v, n, s, keys)
      PROVE  AttachmentsInv'
  <2> DEFINE j == [NoJob EXCEPT !.op = "attach", !.feed = f, !.name = n, !.sha = s, !.keys = keys]
  <2>1. j \in Jobs /\ j.op = "attach" /\ j.name = n /\ j.sha = s
    BY AttachmentsAssumption DEF NoJob, Jobs, Ops
  <2>2. Begin(t, v, j)
    BY <1>3 DEF StartAttach
  <2> HIDE DEF j
  <2> QED BY <1>0, <2>1, <2>2, BeginKeeps
<1> QED BY <1>1, <1>2, <1>3 DEF Start

\* The daily pass starts with nothing locked.
LEMMA StartPassKeeps ==
    ASSUME AttachmentsInv, StartPass
    PROVE  AttachmentsInv'
<1> USE DEF AttachmentsInv
<1>0. Sweeper \in All
  BY DEF All
<1>1. PICK list \in SUBSET Versions :
         job' = [job EXCEPT ![Sweeper] = [NoJob EXCEPT !.op = "pass", !.orphans = list]] /\ (Quiet \/ Trouble)
  BY DEF StartPass
<1> DEFINE j == [NoJob EXCEPT !.op = "pass", !.orphans = list]
<1>2. j \in Jobs /\ j.op = "pass"
  BY DEF NoJob, Jobs, Ops
<1>3. job' = [job EXCEPT ![Sweeper] = j]
  BY <1>1
<1>4. pc' = [pc EXCEPT ![Sweeper] = "orphan"] /\ UNCHANGED <<rows, stored, vlock, block>>
  BY DEF StartPass, Goto
<1> HIDE DEF j
<1>5. Moves(Sweeper) /\ pc'[Sweeper] = "orphan" /\ job'[Sweeper] = j
  BY <1>0, <1>2, <1>3, <1>4 DEF TypeOK, Moves, PCs
<1>6. TaskInv(Sweeper)'
  BY <1>2, <1>5 DEF TaskInv, StepFits, StepLocks, StillSo, Working
<1> QED BY <1>0, <1>1, <1>4, <1>5, <1>6, RowsStay

\* The pass takes the lock of a version that is free.
LEMMA LockKeeps ==
    ASSUME AttachmentsInv, NEW t \in All, Lock(t)
    PROVE  AttachmentsInv'
<1> USE DEF AttachmentsInv
<1>1. TaskInv(t)
  OBVIOUS
<1>2. CASE LockVersion(t)
  <2> DEFINE v == job[t].version
  <2>1. /\ pc[t] = "lock" /\ vlock[v] = None /\ vlock' = [vlock EXCEPT ![v] = t] /\ pc' = [pc EXCEPT ![t] = "check"]
        /\ UNCHANGED <<rows, stored, block, job>> /\ Quiet
    BY <1>2 DEF LockVersion, At, Goto, Quiet
  <2>2. v \in Versions /\ job[t].op = "pass"
    BY <1>1, <2>1 DEF TaskInv, StepFits
  <2>3. Moves(t) /\ pc'[t] = "check" /\ job' = job /\ vlock'[v] = t
    BY <2>1, <2>2, AttachmentsAssumption DEF TypeOK, Moves, PCs
  <2>4. TaskInv(t)'
    BY <2>2, <2>3 DEF TaskInv, StepFits, StepLocks, StillSo, Working
  <2> QED BY <2>1, <2>3, <2>4, RowsStay
<1>3. CASE LockBlob(t)
  <2> DEFINE s == job[t].sha
             p == IF job[t].op = "attach" THEN "store" ELSE "count"
  <2>1. /\ pc[t] = "lockBlob" /\ block[s] = None /\ block' = [block EXCEPT ![s] = t] /\ pc' = [pc EXCEPT ![t] = p]
        /\ UNCHANGED <<rows, stored, vlock, job>> /\ Quiet
    BY <1>3 DEF LockBlob, At, Goto, Quiet
  <2>2. s \in Blobs
    BY <1>1, <2>1 DEF TaskInv, StepLocks
  <2>3. Moves(t) /\ pc'[t] = p /\ job' = job /\ vlock' = vlock /\ block'[s] = t
    BY <2>1, <2>2, AttachmentsAssumption DEF TypeOK, Moves, PCs
  <2>4. StepFits(t)' /\ StepLocks(t)'
    BY <1>1, <2>1, <2>2, <2>3 DEF TaskInv, StepFits, StepLocks, Working, Purging
  <2>5. StillSo(t)'
    BY <1>1, <2>1, <2>3 DEF TaskInv, StillSo, Purging, Holders, Approved, rows
  <2> QED BY <2>1, <2>3, <2>4, <2>5, RowsStay DEF TaskInv
<1> QED BY <1>2, <1>3 DEF Lock


---------------------------------------------------------------------------
\* attach_locked and detach

\* An attach goes on for a version that is there and that it may change.
LEMMA CheckAttachKeeps ==
    ASSUME AttachmentsInv, NEW t \in All, CheckAttach(t)
    PROVE  AttachmentsInv'
<1> USE DEF AttachmentsInv
<1> DEFINE v == job[t].version
<1>1. TaskInv(t) /\ pc[t] = "check" /\ job[t].op = "attach" /\ Quiet /\ UNCHANGED <<rows, stored>>
  BY DEF CheckAttach, At
<1>2. v \in Versions /\ vlock[v] = t
  BY <1>1 DEF TaskInv, StepLocks, Working
<1>3. CASE v \in data /\ MayChange(t) /\ Goto(t, "lockBlob") /\ Stay
  <2>1. Moves(t) /\ pc'[t] = "lockBlob" /\ job' = job /\ vlock' = vlock /\ block' = block
    BY <1>3, GotoMoves DEF PCs
  <2>2. Approved(v) \cap Reviewing \subseteq job[t].keys
    BY <1>3 DEF MayChange, Holds, MayOverride
  <2>3. job[t].sha \in Blobs
    BY <1>1 DEF TaskInv, StepFits
  <2>4. TaskInv(t)'
    BY <1>1, <1>2, <1>3, <2>1, <2>2, <2>3
       DEF TaskInv, StepFits, StepLocks, StillSo, Working, Purging, Approved, rows
  <2> QED BY <1>1, <2>1, <2>4, RowsStay
<1>4. CASE Finish(t)
  BY <1>1, <1>4, FinishMoves, RowsStay
<1> QED BY <1>3, <1>4 DEF CheckAttach

\* The bytes are stored under the lock of their blob.
LEMMA StoreBlobKeeps ==
    ASSUME AttachmentsInv, NEW t \in All, StoreBlob(t)
    PROVE  AttachmentsInv'
<1> USE DEF AttachmentsInv
<1>1. TaskInv(t) /\ pc[t] = "store" /\ Quiet /\ UNCHANGED rows /\ stored' = stored \cup {job[t].sha}
  BY DEF StoreBlob, At
<1>2. Moves(t) /\ pc'[t] = "add" /\ job' = job /\ vlock' = vlock /\ block' = block
  BY GotoMoves DEF StoreBlob, PCs
<1>3. job[t].sha \in Blobs
  BY <1>1 DEF TaskInv, StepLocks
<1>4. TaskInv(t)'
  BY <1>1, <1>2 DEF TaskInv, StepFits, StepLocks, StillSo, Working, Purging, Approved, rows
<1> QED BY <1>1, <1>2, <1>3, <1>4, BytesGo DEF TypeOK

\* A file is recorded while its bytes are stored, and what it replaces is left to be counted.
LEMMA AddFileKeeps ==
    ASSUME AttachmentsInv, NEW t \in All, AddFile(t)
    PROVE  AttachmentsInv'
<1> USE DEF AttachmentsInv
<1>1. TaskInv(t) /\ pc[t] = "add" /\ job[t].op = "attach" /\ UNCHANGED <<data, member, stored>>
  BY DEF AddFile, At, TaskInv, StepFits
<1>2. PICK v \in Versions : v = job[t].version /\ vlock[v] = t /\ v \in data
  BY <1>1 DEF TaskInv, StepLocks, Working, StillSo
<1>3. PICK s \in Blobs : s = job[t].sha /\ block[s] = t /\ s \in stored
  BY <1>1 DEF TaskInv, StepLocks, StillSo
<1>4. CASE Quiet /\ Finish(t) /\ files' = [files EXCEPT ![v][job[t].name] = s]
  <2>1. /\ files' \in [Versions -> [Names -> Blobs \cup {None}]]
        /\ \A w \in Versions \ {v} : files'[w] = files[w]
        /\ \A m \in Names : files'[v][m] \in {files[v][m], s}
    BY <1>4 DEF TypeOK
  <2>2. Moves(t) /\ TaskInv(t)'
    BY <1>4, FinishMoves
  <2>3. Holders(v)' = Holders(v)
    BY <1>1 DEF Holders
  <2> QED BY <1>1, <1>2, <1>3, <1>4, <2>1, <2>2, <2>3, RowsChange DEF TypeOK
<1>5. CASE Trouble /\ Goto(t, "undo") /\ Stay /\ UNCHANGED files
  <2>1. Moves(t) /\ pc'[t] = "undo" /\ job' = job /\ vlock' = vlock /\ block' = block
    BY <1>5, GotoMoves DEF PCs
  <2>2. TaskInv(t)'
    BY <1>1, <2>1 DEF TaskInv, StepFits, StepLocks, StillSo, Working, Purging
  <2> QED BY <1>1, <1>5, <2>1, <2>2, RowsStay DEF rows
<1> QED BY <1>2, <1>3, <1>4, <1>5 DEF AddFile

\* A row that could not be written leaves its blob to be counted.
LEMMA UndoStoreKeeps ==
    ASSUME AttachmentsInv, NEW t \in All, UndoStore(t)
    PROVE  AttachmentsInv'
<1> USE DEF AttachmentsInv
<1>1. TaskInv(t) /\ pc[t] = "undo" /\ UNCHANGED rows /\ (Quiet \/ Trouble)
  BY DEF UndoStore, At
<1>2. PICK s \in Blobs : s = job[t].sha /\ block[s] = t
  BY <1>1 DEF TaskInv, StepLocks
<1>3. Moves(t) /\ TaskInv(t)'
  BY FinishMoves DEF UndoStore
<1>4. References(s) = 0 => \A v \in Versions, n \in Names : files[v][n] # s
  <2> DEFINE refs == {x \in Versions \X Names : files[x[1]][x[2]] = s}
  <2>1. IsFiniteSet(refs)
    BY FS_Product, FS_Subset, AttachmentsAssumption
  <2>2. SUFFICES ASSUME Cardinality(refs) = 0, NEW v \in Versions, NEW n \in Names, files[v][n] = s PROVE FALSE
    BY DEF References
  <2>3. refs = {} /\ <<v, n>> \in refs
    BY <2>1, <2>2, FS_EmptySet
  <2> QED BY <2>3
<1>5. stored' = stored \/ (stored' = stored \ {s} /\ References(s) = 0)
  BY <1>2 DEF UndoStore
<1> QED BY <1>1, <1>2, <1>3, <1>4, <1>5, BytesGo DEF TypeOK

\* A detach removes the row first and leaves the blob to be counted.
LEMMA DeleteFileKeeps ==
    ASSUME AttachmentsInv, NEW t \in All, DeleteFile(t)
    PROVE  AttachmentsInv'
<1> USE DEF AttachmentsInv
<1>1. TaskInv(t) /\ pc[t] = "check" /\ job[t].op = "detach" /\ Quiet /\ UNCHANGED <<data, member, stored>>
  BY DEF DeleteFile, At
<1>2. PICK v \in Versions : v = job[t].version /\ vlock[v] = t
  BY <1>1 DEF TaskInv, StepLocks, Working
<1>3. PICK n \in Names : n = job[t].name
  BY <1>1 DEF TaskInv, StepFits
<1>4. CASE Finish(t) /\ UNCHANGED files
  BY <1>1, <1>4, FinishMoves, RowsStay DEF rows
<1>5. CASE /\ files[v][n] # None /\ files' = [files EXCEPT ![v][n] = None]
           /\ job' = [job EXCEPT ![t].todo = {files[v][n]}] /\ Goto(t, "next") /\ UNCHANGED <<vlock, block>>
  <2> DEFINE j == [job[t] EXCEPT !.todo = {files[v][n]}]
  <2>1. job' = [job EXCEPT ![t] = j] /\ job \in [All -> Jobs] /\ job[t] \in Jobs
    BY <1>5 DEF TypeOK
  <2>2. j \in Jobs /\ j.op = "detach" /\ j.version = v
    <3>1. files[v][n] \in Blobs
      BY <1>5 DEF TypeOK
    <3> QED BY <1>1, <1>2, <2>1, <3>1 DEF Jobs
  <2> HIDE DEF j
  <2>3. Moves(t) /\ pc'[t] = "next" /\ job'[t] = j
    BY <1>5, <2>1, <2>2 DEF Goto, TypeOK, Moves, PCs
  <2>4. TaskInv(t)'
    BY <1>2, <1>5, <2>2, <2>3 DEF TaskInv, StepFits, StepLocks, StillSo, Working, Purging
  <2>5. /\ files' \in [Versions -> [Names -> Blobs \cup {None}]]
        /\ \A w \in Versions \ {v} : files'[w] = files[w]
        /\ \A m \in Names : files'[v][m] \in {files[v][m], None}
    BY <1>5 DEF TypeOK
  <2>6. Holders(v)' = Holders(v)
    BY <1>1 DEF Holders
  <2> QED BY <1>1, <1>2, <2>3, <2>4, <2>5, <2>6, RowsChange DEF TypeOK
<1> QED BY <1>2, <1>3, <1>4, <1>5 DEF DeleteFile


---------------------------------------------------------------------------
\* Pushes, purges, approvals

\* A purge begins: the version is in no feed.
LEMMA PurgeBegins ==
    ASSUME AttachmentsInv, NEW t \in All, PurgeData(t), UNCHANGED <<rows, stored>>, Quiet,
           NEW v \in Versions, v = job[t].version, vlock[v] = t, Holders(v) = {}, Purging(t)
    PROVE  AttachmentsInv'
<1> USE DEF AttachmentsInv
<1>1. /\ Moves(t) /\ pc'[t] = "next" /\ vlock' = vlock /\ block' = block
      /\ job'[t].op = job[t].op /\ job'[t].version = v
  BY PurgeMoves
<1>2. TaskInv(t)'
  BY <1>1 DEF TaskInv, StepFits, StepLocks, StillSo, Working, Purging, Holders, rows
<1> QED BY <1>1, <1>2, RowsStay

\* A new build may drop the files and the approvals, never bytes a file still has.
LEMMA CheckPushKeeps ==
    ASSUME AttachmentsInv, NEW t \in All, CheckPush(t)
    PROVE  AttachmentsInv'
<1> USE DEF AttachmentsInv
<1>1. TaskInv(t) /\ pc[t] = "check" /\ job[t].op = "push" /\ Quiet /\ UNCHANGED stored
  BY DEF CheckPush, At
<1>2. PICK v \in Versions : v = job[t].version /\ vlock[v] = t
  BY <1>1 DEF TaskInv, StepLocks, Working
<1> DEFINE f == job[t].feed
<1>3. CASE Orphan(v) /\ PurgeData(t) /\ UNCHANGED rows
  BY <1>1, <1>2, <1>3, PurgeBegins DEF Orphan, Purging
<1>4. CASE ~Orphan(v) /\ member[v][f] = None /\ Goto(t, "enter") /\ Stay /\ UNCHANGED rows
  <2>1. Moves(t) /\ pc'[t] = "enter" /\ job' = job /\ vlock' = vlock /\ block' = block
    BY <1>4, GotoMoves DEF PCs
  <2>2. Holders(v) # {} \/ \A n \in Names : files[v][n] = None
    BY <1>4 DEF Orphan, FilesHaveRow
  <2>3. TaskInv(t)'
    BY <1>1, <1>2, <1>4, <2>1, <2>2 DEF TaskInv, StepFits, StepLocks, StillSo, Working, Purging, Holders, rows
  <2> QED BY <1>1, <1>4, <2>1, <2>3, RowsStay
<1>5. CASE /\ files' = [files EXCEPT ![v] = [n \in Names |-> None]]
           /\ job' = [job EXCEPT ![t].op = "detach", ![t].todo = BlobsOf(v)]
           /\ Goto(t, "next") /\ UNCHANGED <<data, member, vlock, block>>
  <2> DEFINE j == [job[t] EXCEPT !.op = "detach", !.todo = BlobsOf(v)]
  <2>1. job' = [job EXCEPT ![t] = j] /\ job \in [All -> Jobs] /\ job[t] \in Jobs
    BY <1>5 DEF TypeOK
  <2>2. j \in Jobs /\ j.op = "detach" /\ j.version = v
    <3>1. BlobsOf(v) \subseteq Blobs
      BY DEF TypeOK, BlobsOf
    <3> QED BY <1>2, <2>1, <3>1 DEF Jobs, Ops
  <2> HIDE DEF j
  <2>3. pc' = [pc EXCEPT ![t] = "next"] /\ UNCHANGED <<vlock, block>>
    BY <1>5 DEF Goto
  <2>4. Moves(t) /\ pc'[t] = "next" /\ job'[t] = j
    BY <2>1, <2>2, <2>3 DEF TypeOK, Moves, PCs
  <2>5. TaskInv(t)'
    BY <1>2, <2>2, <2>3, <2>4 DEF TaskInv, StepFits, StepLocks, StillSo, Working, Purging
  <2>6. /\ files' \in [Versions -> [Names -> Blobs \cup {None}]]
        /\ \A w \in Versions \ {v} : files'[w] = files[w]
        /\ \A m \in Names : files'[v][m] = None
    BY <1>5 DEF TypeOK
  <2> QED BY <1>1, <1>2, <1>5, <2>4, <2>5, <2>6, RowsChange DEF TypeOK
<1>6. CASE /\ Holders(v) = {f} /\ member' = [member EXCEPT ![v][f] = "pending"]
           /\ Finish(t) /\ UNCHANGED <<data, files>>
  <2>1. Moves(t) /\ TaskInv(t)'
    BY <1>6, FinishMoves
  <2>2. /\ member' \in [Versions -> [Feeds -> {None, "pending", "approved"}]]
        /\ \A w \in Versions \ {v} : member'[w] = member[w]
    BY <1>6 DEF TypeOK
  <2>3. Holders(v) # {}
    BY <1>6
  <2> QED BY <1>1, <1>2, <1>6, <2>1, <2>2, <2>3, RowsChange DEF TypeOK
<1>7. CASE Finish(t) /\ UNCHANGED rows
  BY <1>1, <1>7, FinishMoves, RowsStay
<1> QED BY <1>2, <1>3, <1>4, <1>5, <1>6, <1>7 DEF CheckPush

\* A version enters a feed only with files whose bytes are there.
LEMMA EnterKeeps ==
    ASSUME AttachmentsInv, NEW t \in All, Enter(t)
    PROVE  AttachmentsInv'
<1> USE DEF AttachmentsInv
<1>1. TaskInv(t) /\ pc[t] = "enter" /\ job[t].op = "push" /\ Quiet /\ UNCHANGED <<files, stored>>
  BY DEF Enter, At, TaskInv, StepFits
<1>2. PICK v \in Versions : v = job[t].version /\ vlock[v] = t
  BY <1>1 DEF TaskInv, StepLocks, Working
<1>3. Holders(v) # {} \/ \A n \in Names : files[v][n] = None
  BY <1>1, <1>2 DEF TaskInv, StillSo
<1>4. data' = data \cup {v} /\ member' = [member EXCEPT ![v][job[t].feed] = Entered(job[t].feed)]
  BY <1>2 DEF Enter
<1>5. /\ member' \in [Versions -> [Feeds -> {None, "pending", "approved"}]]
      /\ \A w \in Versions \ {v} : member'[w] = member[w]
  BY <1>4 DEF TypeOK, Entered
<1>6. Moves(t) /\ TaskInv(t)'
  BY FinishMoves DEF Enter
<1>7. /\ \A w \in Versions \ {v} : files'[w] = files[w] /\ (w \in data' <=> w \in data)
      /\ \A n \in Names : files'[v][n] \in {files[v][n], None}
      /\ v \in data' /\ data' \subseteq Versions /\ files' \in [Versions -> [Names -> Blobs \cup {None}]]
      /\ Holders(v) # {} \/ \A n \in Names : files'[v][n] = None
  BY <1>1, <1>3, <1>4 DEF TypeOK
<1> QED BY <1>1, <1>2, <1>5, <1>6, <1>7, RowsChange

\* A version leaves a feed; fewer feeds ask for its files.
LEMMA RemoveMembershipKeeps ==
    ASSUME AttachmentsInv, NEW t \in All, RemoveMembership(t)
    PROVE  AttachmentsInv'
<1> USE DEF AttachmentsInv
<1>1. TaskInv(t) /\ pc[t] = "check" /\ job[t].op = "purge" /\ Quiet /\ UNCHANGED <<data, files, stored>>
  BY DEF RemoveMembership, At
<1>2. PICK v \in Versions : v = job[t].version /\ vlock[v] = t
  BY <1>1 DEF TaskInv, StepLocks, Working
<1>3. Moves(t) /\ pc'[t] = "last" /\ job' = job /\ vlock' = vlock /\ block' = block
  BY GotoMoves DEF RemoveMembership, PCs
<1>4. TaskInv(t)'
  BY <1>1, <1>2, <1>3 DEF TaskInv, StepFits, StepLocks, StillSo, Working, Purging
<1>5. /\ member' \in [Versions -> [Feeds -> {None, "pending", "approved"}]]
      /\ \A w \in Versions \ {v} : member'[w] = member[w]
      /\ Holders(v)' \subseteq Holders(v)
  BY <1>2 DEF TypeOK, RemoveMembership, Holders
<1> QED BY <1>1, <1>2, <1>3, <1>4, <1>5, RowsChange DEF TypeOK

\* A purge goes on only if no feed has the version, and none gets it while the lock is held.
LEMMA CountFeedsKeeps ==
    ASSUME AttachmentsInv, NEW t \in All, CountFeeds(t)
    PROVE  AttachmentsInv'
<1> USE DEF AttachmentsInv
<1>1. TaskInv(t) /\ pc[t] = "last" /\ job[t].op = "purge" /\ Quiet /\ UNCHANGED <<rows, stored>>
  BY DEF CountFeeds, At, TaskInv, StepFits
<1>2. PICK v \in Versions : v = job[t].version /\ vlock[v] = t
  BY <1>1 DEF TaskInv, StepLocks, Working
<1>3. CASE Holders(v) = {} /\ PurgeData(t)
  BY <1>1, <1>2, <1>3, PurgeBegins DEF Purging
<1>4. CASE Finish(t)
  BY <1>1, <1>4, FinishMoves, RowsStay
<1> QED BY <1>2, <1>3, <1>4 DEF CountFeeds

\* An approval changes no file.
LEMMA ApproveKeeps ==
    ASSUME AttachmentsInv, NEW t \in All, Approve(t)
    PROVE  AttachmentsInv'
<1> USE DEF AttachmentsInv
<1>1. TaskInv(t) /\ pc[t] = "check" /\ job[t].op = "approve" /\ Quiet /\ UNCHANGED <<data, files, stored>>
  BY DEF Approve, At
<1>2. PICK v \in Versions : v = job[t].version /\ vlock[v] = t
  BY <1>1 DEF TaskInv, StepLocks, Working
<1>3. Moves(t) /\ TaskInv(t)'
  BY FinishMoves DEF Approve
<1>4. /\ member' \in [Versions -> [Feeds -> {None, "pending", "approved"}]]
      /\ \A w \in Versions \ {v} : member'[w] = member[w]
      /\ Holders(v)' \subseteq Holders(v)
  <2>1. CASE member' = member
    BY <2>1 DEF TypeOK, Holders
  <2>2. CASE member[v][job[t].feed] # None /\ member' = [member EXCEPT ![v][job[t].feed] = "approved"]
    <3>1. /\ member' \in [Versions -> [Feeds -> {None, "pending", "approved"}]]
          /\ \A w \in Versions \ {v} : member'[w] = member[w]
          /\ \A g \in Feeds : member'[v][g] = member[v][g] \/ g = job[t].feed
      BY <2>2 DEF TypeOK
    <3>2. Holders(v)' \subseteq Holders(v)
      BY <2>2, <3>1 DEF Holders
    <3> QED BY <3>1, <3>2
  <2> QED BY <1>2, <2>1, <2>2 DEF Approve
<1> QED BY <1>1, <1>2, <1>3, <1>4, RowsChange DEF TypeOK


---------------------------------------------------------------------------
\* The daily pass, and blobs that may have lost their last reference

\* The pass turns to the next version, or to the blobs.
LEMMA NextOrphanKeeps ==
    ASSUME AttachmentsInv, NEW t \in All, NextOrphan(t)
    PROVE  AttachmentsInv'
<1> USE DEF AttachmentsInv
<1>1. TaskInv(t) /\ pc[t] = "orphan" /\ job[t].op = "pass" /\ UNCHANGED <<rows, stored>>
  BY DEF NextOrphan, At, TaskInv, StepFits
<1>2. job \in [All -> Jobs] /\ job[t] \in Jobs /\ pc \in [All -> PCs]
  BY DEF TypeOK
<1>3. ASSUME NEW v \in job[t].orphans, Quiet,
             job' = [job EXCEPT ![t].version = v, ![t].orphans = @ \ {v}], Goto(t, "lock"), UNCHANGED <<vlock, block>>
      PROVE  AttachmentsInv'
  <2> DEFINE j == [job[t] EXCEPT !.version = v, !.orphans = @ \ {v}]
  <2>1. job' = [job EXCEPT ![t] = j]
    BY <1>2, <1>3
  <2>2. j \in Jobs /\ j.op = "pass" /\ j.version \in Versions
    BY <1>1, <1>2 DEF Jobs
  <2>3. pc' = [pc EXCEPT ![t] = "lock"] /\ UNCHANGED <<vlock, block>>
    BY <1>3 DEF Goto
  <2> HIDE DEF j
  <2>4. Moves(t) /\ pc'[t] = "lock" /\ job'[t] = j
    BY <1>2, <2>1, <2>2, <2>3 DEF TypeOK, Moves, PCs
  <2>5. TaskInv(t)'
    BY <2>2, <2>4 DEF TaskInv, StepFits, StepLocks, StillSo, Working
  <2> QED BY <1>1, <1>3, <2>4, <2>5, RowsStay
<1>4. ASSUME Quiet, job' = [job EXCEPT ![t].op = "sweep", ![t].todo = stored], Goto(t, "next"), UNCHANGED <<vlock, block>>
      PROVE  AttachmentsInv'
  <2> DEFINE j == [job[t] EXCEPT !.op = "sweep", !.todo = stored]
  <2>1. job' = [job EXCEPT ![t] = j]
    BY <1>2, <1>4
  <2>2. j \in Jobs /\ j.op = "sweep"
    BY <1>2 DEF Jobs, Ops, TypeOK
  <2>3. pc' = [pc EXCEPT ![t] = "next"] /\ UNCHANGED <<vlock, block>>
    BY <1>4 DEF Goto
  <2> HIDE DEF j
  <2>4. Moves(t) /\ pc'[t] = "next" /\ job'[t] = j
    BY <1>2, <2>1, <2>2, <2>3 DEF TypeOK, Moves, PCs
  <2>5. TaskInv(t)'
    BY <2>2, <2>4 DEF TaskInv, StepFits, StepLocks, StillSo, Working, Purging
  <2> QED BY <1>1, <1>4, <2>4, <2>5, RowsStay
<1>5. ASSUME Trouble, Finish(t) PROVE AttachmentsInv'
  BY <1>1, <1>5, FinishMoves, RowsStay
<1> QED BY <1>3, <1>4, <1>5 DEF NextOrphan

\* The pass purges a version only if no feed has it by now.
LEMMA CheckOrphanKeeps ==
    ASSUME AttachmentsInv, NEW t \in All, CheckOrphan(t)
    PROVE  AttachmentsInv'
<1> USE DEF AttachmentsInv
<1>1. TaskInv(t) /\ pc[t] = "check" /\ job[t].op = "pass" /\ Quiet /\ UNCHANGED <<rows, stored>>
  BY DEF CheckOrphan, At
<1>2. PICK v \in Versions : v = job[t].version /\ vlock[v] = t
  BY <1>1 DEF TaskInv, StepLocks, Working
<1>3. CASE Orphan(v) /\ PurgeData(t)
  BY <1>1, <1>2, <1>3, PurgeBegins DEF Purging, Orphan
<1>4. CASE LeaveOrphan(t)
  BY <1>1, <1>4, LeaveMoves, RowsStay
<1> QED BY <1>2, <1>3, <1>4 DEF CheckOrphan

\* A task takes the lock of a blob that is free.
LEMMA TakeBlobKeeps ==
    ASSUME AttachmentsInv, NEW t \in All, TakeBlob(t)
    PROVE  AttachmentsInv'
<1> USE DEF AttachmentsInv
<1>1. TaskInv(t) /\ pc[t] = "next" /\ Quiet /\ UNCHANGED <<rows, stored>>
  BY DEF TakeBlob, At
<1>2. job \in [All -> Jobs] /\ job[t] \in Jobs /\ pc \in [All -> PCs]
  BY DEF TypeOK
<1>3. ASSUME NEW s \in job[t].todo, job' = [job EXCEPT ![t].sha = s], Goto(t, "lockBlob"), UNCHANGED <<vlock, block>>
      PROVE  AttachmentsInv'
  <2> DEFINE j == [job[t] EXCEPT !.sha = s]
  <2>1. job' = [job EXCEPT ![t] = j]
    BY <1>2, <1>3
  <2>2. j \in Jobs /\ j.op = job[t].op /\ j.version = job[t].version /\ j.sha = s /\ s \in Blobs
    BY <1>2, <1>3 DEF Jobs
  <2>3. pc' = [pc EXCEPT ![t] = "lockBlob"] /\ UNCHANGED <<vlock, block>>
    BY <1>3 DEF Goto
  <2> HIDE DEF j
  <2>4. Moves(t) /\ pc'[t] = "lockBlob" /\ job'[t] = j
    BY <1>2, <2>1, <2>2, <2>3 DEF TypeOK, Moves, PCs
  <2>5. StepFits(t)' /\ StepLocks(t)'
    BY <1>1, <2>2, <2>3, <2>4 DEF TaskInv, StepFits, StepLocks, Working, Purging
  <2>6. StillSo(t)'
    BY <1>1, <2>2, <2>4 DEF TaskInv, StepFits, StillSo, Purging, Holders, rows
  <2> QED BY <1>1, <2>4, <2>5, <2>6, RowsStay DEF TaskInv
<1>4. ASSUME Purging(t), Goto(t, "drop"), Stay PROVE AttachmentsInv'
  <2>1. Moves(t) /\ pc'[t] = "drop" /\ job' = job /\ vlock' = vlock /\ block' = block
    BY <1>4, GotoMoves DEF PCs
  <2>2. TaskInv(t)'
    BY <1>1, <1>4, <2>1 DEF TaskInv, StepFits, StepLocks, StillSo, Working, Purging, Holders, rows
  <2> QED BY <1>1, <2>1, <2>2, RowsStay
<1>5. ASSUME Finish(t) PROVE AttachmentsInv'
  BY <1>1, <1>5, FinishMoves, RowsStay
<1> QED BY <1>3, <1>4, <1>5 DEF TakeBlob


\* The next blob of a list, whatever became of this one.
LEMMA NextBlobFits ==
    ASSUME AttachmentsInv, NEW t \in All, pc[t] \in {"count", "delete"}, NextBlob(t), UNCHANGED rows
    PROVE  Moves(t) /\ TaskInv(t)'
<1> USE DEF AttachmentsInv
<1>1. TaskInv(t)
  OBVIOUS
<1>2. /\ Moves(t) /\ pc'[t] = "next" /\ vlock' = vlock
      /\ job'[t].op = job[t].op /\ job'[t].version = job[t].version
  BY NextBlobMoves
<1>3. StepFits(t)' /\ StepLocks(t)'
  BY <1>1, <1>2 DEF TaskInv, StepFits, StepLocks, Working, Purging
<1>4. StillSo(t)'
  BY <1>1, <1>2 DEF TaskInv, StillSo, Purging, Holders, rows
<1> QED BY <1>2, <1>3, <1>4 DEF TaskInv

\* A blob is to be deleted only if nothing that stays refers to it.
LEMMA CountReferencesKeeps ==
    ASSUME AttachmentsInv, NEW t \in All, CountReferences(t)
    PROVE  AttachmentsInv'
<1> USE DEF AttachmentsInv
<1>1. TaskInv(t) /\ pc[t] = "count" /\ Quiet /\ UNCHANGED <<rows, stored>>
  BY DEF CountReferences, At
<1>2. CASE Unused(t) /\ Goto(t, "delete") /\ Stay
  <2>1. Moves(t) /\ pc'[t] = "delete" /\ job' = job /\ vlock' = vlock /\ block' = block
    BY <1>2, GotoMoves DEF PCs
  <2>2. job[t].sha \in Blobs /\ (Purging(t) => job[t].version \in Versions)
    BY <1>1 DEF TaskInv, StepLocks, Working, Purging
  <2>3. \A v \in Versions, n \in Names : files[v][n] = job[t].sha => Purging(t) /\ v = job[t].version
    BY <1>2, <2>2, UnusedMeansUnreferenced
  <2>4. StepFits(t)' /\ StepLocks(t)'
    BY <1>1, <2>1 DEF TaskInv, StepFits, StepLocks, Working, Purging
  <2>5. StillSo(t)'
    BY <1>1, <2>1, <2>3 DEF TaskInv, StillSo, Purging, Holders, rows
  <2> QED BY <1>1, <2>1, <2>4, <2>5, RowsStay DEF TaskInv
<1>3. CASE NextBlob(t)
  BY <1>1, <1>3, NextBlobFits, RowsStay
<1> QED BY <1>2, <1>3 DEF CountReferences

\* What is deleted under the lock of its blob is referred to by nothing that stays.
LEMMA DeleteBlobKeeps ==
    ASSUME AttachmentsInv, NEW t \in All, DeleteBlob(t)
    PROVE  AttachmentsInv'
<1> USE DEF AttachmentsInv
<1>1. TaskInv(t) /\ pc[t] = "delete" /\ Quiet /\ UNCHANGED rows /\ stored' = stored \ {job[t].sha}
  BY DEF DeleteBlob, At
<1>2. Moves(t) /\ TaskInv(t)'
  BY <1>1, NextBlobFits DEF DeleteBlob
<1>3. ASSUME NEW s \in stored \ stored'
      PROVE  block[s] = t /\ \A v \in Versions, n \in Names : files[v][n] = s => Holders(v) = {}
  BY <1>1, <1>3 DEF TaskInv, StepLocks, StillSo
<1> QED BY <1>1, <1>2, <1>3, BytesGo DEF TypeOK

\* The row of a version no feed has goes, with its files.
LEMMA DropDataKeeps ==
    ASSUME AttachmentsInv, NEW t \in All, DropData(t)
    PROVE  AttachmentsInv'
<1> USE DEF AttachmentsInv
<1>1. TaskInv(t) /\ pc[t] = "drop" /\ Purging(t) /\ Quiet /\ UNCHANGED stored
  BY DEF DropData, At, TaskInv, StepFits
<1>2. PICK v \in Versions : v = job[t].version /\ vlock[v] = t
  BY <1>1 DEF TaskInv, StepLocks, Working, Purging
<1>3. /\ data' = data \ {v} /\ member' = [member EXCEPT ![v] = [f \in Feeds |-> None]]
      /\ files' = [files EXCEPT ![v] = [n \in Names |-> None]]
  BY <1>2 DEF DropData
<1>4. /\ member' \in [Versions -> [Feeds -> {None, "pending", "approved"}]]
      /\ files' \in [Versions -> [Names -> Blobs \cup {None}]] /\ data' \subseteq Versions
      /\ \A w \in Versions \ {v} : member'[w] = member[w] /\ files'[w] = files[w] /\ (w \in data' <=> w \in data)
      /\ \A n \in Names : files'[v][n] = None
  BY <1>3 DEF TypeOK
<1>5. Moves(t) /\ TaskInv(t)'
  <2>1. CASE job[t].op = "push" /\ Goto(t, "enter") /\ Stay
    <3>1. Moves(t) /\ pc'[t] = "enter" /\ job' = job /\ vlock' = vlock /\ block' = block
      BY <2>1, GotoMoves DEF PCs
    <3>2. TaskInv(t)'
      BY <1>2, <1>4, <2>1, <3>1 DEF TaskInv, StepFits, StepLocks, StillSo, Working, Purging
    <3> QED BY <3>1, <3>2
  <2>2. CASE Fail(t)
    BY <2>2, FailMoves
  <2> QED BY <2>1, <2>2 DEF DropData
<1> QED BY <1>1, <1>2, <1>4, <1>5, RowsChange

\* A call that fails ends its task, or leaves a blob and turns to the next.
LEMMA CallFailsKeeps ==
    ASSUME AttachmentsInv, NEW t \in All, CallFails(t)
    PROVE  AttachmentsInv'
<1> USE DEF AttachmentsInv
<1>1. Trouble /\ UNCHANGED <<rows, stored>>
  BY DEF CallFails
<1>2. CASE Fail(t)
  BY <1>1, <1>2, FailMoves, RowsStay
<1>3. CASE pc[t] \in {"count", "delete"} /\ NextBlob(t)
  BY <1>1, <1>3, NextBlobFits, RowsStay
<1> QED BY <1>2, <1>3 DEF CallFails

\* The process stops: nobody is left to rely on anything but what the rows say.
LEMMA RestartKeeps ==
    ASSUME AttachmentsInv, Restart
    PROVE  AttachmentsInv'
<1> USE DEF AttachmentsInv
<1>1. TypeOK'
  <2>1. NoJob \in Jobs
    BY DEF NoJob, Jobs, Ops
  <2> QED BY <2>1, TroublesBounded DEF Restart, TypeOK, PCs, rows
<1>2. FilesHaveRow' /\ HeldHasBytes'
  BY DEF Restart, FilesHaveRow, HeldHasBytes, Holders, BlobsOf, rows
<1>3. \A t \in All : TaskInv(t)'
  BY DEF Restart, TaskInv, StepFits, StepLocks, StillSo, Working, NoJob
<1> QED BY <1>1, <1>2, <1>3

\* Every step keeps the invariant.
LEMMA AttachmentsStep == AttachmentsInv /\ [Next]_vars => AttachmentsInv'
<1> SUFFICES ASSUME AttachmentsInv, [Next]_vars PROVE AttachmentsInv'
  OBVIOUS
<1>1. ASSUME NEW t \in All, Step(t) PROVE AttachmentsInv'
  BY <1>1, CheckAttachKeeps, StoreBlobKeeps, AddFileKeeps, UndoStoreKeeps, DeleteFileKeeps, CheckPushKeeps,
     EnterKeeps, RemoveMembershipKeeps, CountFeedsKeeps, ApproveKeeps, NextOrphanKeeps, CheckOrphanKeeps,
     TakeBlobKeeps, CountReferencesKeeps, DeleteBlobKeeps, DropDataKeeps, CallFailsKeeps DEF Step
<1>2. CASE UNCHANGED vars
  <2>1. UNCHANGED <<data, member, files, stored, vlock, block, pc, job, troubles>>
    BY <1>2 DEF vars, rows
  <2> QED BY <2>1 DEF AttachmentsInv, TypeOK, FilesHaveRow, HeldHasBytes, Holders, BlobsOf, Approved,
          TaskInv, StepFits, StepLocks, StillSo, Working, Purging
<1> QED BY <1>1, <1>2, StartKeeps, StartPassKeeps, LockKeeps, RestartKeeps DEF Next

---------------------------------------------------------------------------
\* The inductive invariant holds throughout, the types of the state with it.
THEOREM AttachmentsInvariant == Spec => []AttachmentsInv
BY AttachmentsInit, AttachmentsStep, PTL DEF Spec

\* No version a feed holds has a file whose bytes are gone, for any feeds, versions,
\* files and tasks and however often a call fails or the process restarts (lock_blob,
\* attach_locked, purge_file_blobs).
THEOREM HeldFilesHaveBytes == Spec => []HeldHasBytes
<1>1. AttachmentsInv => HeldHasBytes
  BY DEF AttachmentsInv
<1> QED BY <1>1, AttachmentsInvariant, PTL

\* What a feed that reviews has approved is changed only with its own admin key
\* (ApprovalGuard::check_not_approved).
THEOREM ApprovedFilesAreKept == Spec => ApprovedFilesStay
<1> DEFINE Stays == \A v \in Versions : files'[v] # files[v] =>
                       \A g \in Approved(v) \cap Reviewing : vlock[v] # None /\ g \in job[vlock[v]].keys
<1>1. ASSUME AttachmentsInv, [Next]_vars PROVE [Stays]_vars
  <2>1. SUFFICES ASSUME NEW v \in Versions, files'[v] # files[v], NEW g \in Approved(v) \cap Reviewing
                 PROVE  vlock[v] # None /\ g \in job[vlock[v]].keys
    OBVIOUS
  <2>2. PICK t \in All : AddFile(t) \/ DeleteFile(t) \/ CheckPush(t) \/ DropData(t)
    <3>1. ASSUME NEW t \in All, CheckAttach(t) \/ StoreBlob(t) \/ UndoStore(t) \/ CountFeeds(t) \/ NextOrphan(t)
                    \/ CheckOrphan(t) \/ TakeBlob(t) \/ CountReferences(t) \/ DeleteBlob(t) \/ CallFails(t)
          PROVE  FALSE
      <4>1. UNCHANGED rows
        BY <3>1 DEF CheckAttach, StoreBlob, UndoStore, CountFeeds, NextOrphan, CheckOrphan, TakeBlob,
                    CountReferences, DeleteBlob, CallFails
      <4> QED BY <2>1, <4>1 DEF rows
    <3>2. ASSUME NEW t \in All, Enter(t) \/ RemoveMembership(t) \/ Approve(t) PROVE FALSE
      BY <2>1, <3>2 DEF Enter, RemoveMembership, Approve
    <3>3. ASSUME NEW t \in All, Lock(t) \/ StartPass \/ Restart \/ UNCHANGED vars PROVE FALSE
      BY <2>1, <3>3 DEF Lock, LockVersion, LockBlob, StartPass, Restart, vars, rows
    <3>4. ASSUME NEW t \in Tasks, Start(t) PROVE FALSE
      <4>1. \E w, j : Begin(t, w, j)
        BY <3>4 DEF Start, StartPush, StartPurge, StartApprove, StartDetach, StartAttach
      <4> QED BY <2>1, <4>1 DEF Begin, rows
    <3>5. Sweeper \in All
      BY DEF All
    <3> QED BY <1>1, <3>1, <3>2, <3>3, <3>4, <3>5 DEF Next, Step
  <2>3. TaskInv(t) /\ TypeOK
    BY <1>1 DEF AttachmentsInv
  <2>4. g \in Feeds /\ member[v][g] = "approved" /\ g \in Reviewing
    BY <2>1 DEF Approved
  <2>5. Holders(v) # {} /\ Approved(v) # {}
    BY <2>4, AttachmentsAssumption DEF Holders, Approved
  <2>6. CASE AddFile(t)
    <3>1. pc[t] = "add" /\ job[t].op = "attach" /\ v = job[t].version /\ vlock[v] = t
      <4>1. pc[t] = "add" /\ job[t].op = "attach" /\ files' = [files EXCEPT ![job[t].version][job[t].name] = job[t].sha]
        BY <2>1, <2>3, <2>6 DEF AddFile, At, TaskInv, StepFits
      <4>2. job[t].version \in Versions /\ vlock[job[t].version] = t
        BY <2>3, <4>1 DEF TaskInv, StepLocks, Working
      <4> QED BY <2>1, <2>3, <4>1, <4>2 DEF TypeOK
    <3> QED BY <2>3, <2>4, <2>1, <3>1, AttachmentsAssumption DEF TaskInv, StillSo
  <2>7. CASE DeleteFile(t)
    <3>1. pc[t] = "check" /\ job[t].op = "detach" /\ MayChange(t)
          /\ files' = [files EXCEPT ![job[t].version][job[t].name] = None]
      BY <2>1, <2>7 DEF DeleteFile, At
    <3>2. job[t].version \in Versions /\ vlock[job[t].version] = t
      BY <2>3, <3>1 DEF TaskInv, StepLocks, Working
    <3>3. v = job[t].version
      BY <2>1, <2>3, <3>1, <3>2 DEF TypeOK
    <3>4. g \in job[t].keys
      BY <2>1, <2>4, <3>1, <3>3 DEF MayChange, Holds, MayOverride
    <3> QED BY <3>2, <3>3, <3>4, AttachmentsAssumption
  <2>8. CASE CheckPush(t)
    <3>1. /\ pc[t] = "check" /\ job[t].op = "push" /\ Approved(job[t].version) = {}
          /\ files' = [files EXCEPT ![job[t].version] = [n \in Names |-> None]]
      BY <2>1, <2>8 DEF CheckPush, At, rows
    <3>2. v = job[t].version
      BY <2>1, <2>3, <3>1 DEF TypeOK
    <3> QED BY <2>5, <3>1, <3>2
  <2>9. CASE DropData(t)
    <3>1. /\ pc[t] = "drop" /\ Purging(t) /\ Holders(job[t].version) = {}
          /\ files' = [files EXCEPT ![job[t].version] = [n \in Names |-> None]]
      BY <2>3, <2>9 DEF DropData, At, TaskInv, StepFits, StillSo
    <3>2. v = job[t].version
      BY <2>1, <2>3, <3>1 DEF TypeOK
    <3> QED BY <2>5, <3>1, <3>2
  <2> QED BY <2>2, <2>6, <2>7, <2>8, <2>9
<1> QED BY <1>1, AttachmentsInvariant, PTL DEF Spec, ApprovedFilesStay
=============================================================================
