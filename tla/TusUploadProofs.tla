-------------------------- MODULE TusUploadProofs --------------------------
(***************************************************************************)
(* An upload keeps the bytes it recorded and attaches what it hashed, for  *)
(* any number of requests and any length.                                  *)
(*                                                                         *)
(* The theorems suppose that the session's second read, the one under the  *)
(* slot's lock, does not fail.  When it does, tus_patch and tus_delete     *)
(* forget a slot that another request may already have taken from SLOTS:   *)
(* two requests then hold two slots of one upload (see the README).        *)
(*                                                                         *)
(* The argument: as long as a byte is missing, every request works with    *)
(* the one registered slot, so at most one is past the lock; its hash has  *)
(* seen what the file starts with.  Once every byte is there, requests     *)
(* may overlap, and then none of them changes the file.                    *)
(***************************************************************************)
EXTENDS TusUpload, SequenceTheorems, FunctionTheorems, FiniteSetTheorems, TLAPS

\* The second read of the session, under the slot's lock, does not fail.
SessionIsReadAgain == Faulty \cap {"again", "again2"} = {}

\* From the second read of the session to the rename: a request that may write.
Active(t) == pc[t] \in {"space", "resume", "truncate", "append", "record", "sync", "rename"}

\* How much of the upload the row has when the request starts on it, or has recorded.
Base(t) == IF pc[t] \in {"sync", "rename"} THEN Length ELSE job[t].received

\* The partial file, if there is one and no byte was lost, starts with the bytes s.
Heads(s) == part # None /\ ~lost => Len(s) <= Len(part) /\ \A i \in 1 .. Len(s) : part[i] = s[i]

\* The partial file, if there is one, is as long as s, whatever it holds.
Fills(s) == part # None => Len(s) <= Len(part)

\* No request can bring another byte.
Over == ~Current \/ row = Length

\* While a creation is at work there is nothing yet.
Unborn(t) ==
    pc[t] = "insert" => /\ row = None /\ table = None /\ part = <<>>
                        /\ \A u \in Tasks \ {t} : pc[u] = "idle"

\* A request that is at a step under the lock holds the lock of its slot.
SlotLocked(t) ==
    /\ pc[t] \in {"idle", "insert", "slot"} => job[t].slot = None
    /\ pc[t] \in LockedPCs \cup {"tryLock"} => job[t].slot \in Slots
    /\ pc[t] \in LockedPCs => holder[job[t].slot] = t

\* A request forgets the slot only when no other can bring a byte.
ForgetsLate(t) ==
    /\ pc[t] \in {"sync", "rename", "deleteRow", "attach", "forget", "release"} => Over
    /\ pc[t] \in {"slot", "tryLock", "again", "space", "resume", "truncate", "append"} /\ job[t].op = "patch" =>
          job[t].content \in Contents
    /\ pc[t] \in {"again", "space", "resume", "truncate", "append"} => job[t].op = "patch"
    /\ t = Sweeper /\ pc[t] # "idle" => row = None \/ expired

\* The row is as the request read it.
Agrees(t) ==
    pc[t] \in {"space", "resume", "truncate", "append", "record"} => row \in {None, job[t].received}

\* What the request's hash has seen is what the file starts with, and what it goes on
\* with is as long.
Follows(t) ==
    /\ pc[t] \in {"space", "resume"} /\ hash[job[t].slot] # None => Heads(hash[job[t].slot])
    /\ pc[t] \in {"truncate", "append"} => hash[job[t].slot] = None
    /\ pc[t] = "truncate" => Len(job[t].seen) = job[t].received
    /\ pc[t] \in {"truncate", "append", "record", "sync", "rename"} => Heads(job[t].seen)
    /\ pc[t] \in {"append", "record"} => Len(job[t].seen) >= job[t].received
    /\ pc[t] \in {"append", "sync", "rename"} \/ (pc[t] = "record" /\ job[t].clean) => Fills(job[t].seen)
    /\ pc[t] \in {"sync", "rename", "deleteRow", "attach"} => Len(job[t].seen) = Length
    /\ pc[t] \in {"deleteRow", "attach"} => /\ Len(job[t].file) = Length
                                            /\ lost \/ job[t].file = job[t].seen

TaskInv(t) == Unborn(t) /\ SlotLocked(t) /\ ForgetsLate(t) /\ Agrees(t) /\ Follows(t)

\* As long as a byte is missing every request works with the one slot.
OneSlot == ~Over => \A t \in Tasks : job[t].slot # None => job[t].slot = table

\* Two requests are past the lock only when no byte is missing.
OneShort == \A t, u \in Tasks : t # u /\ Active(t) /\ Active(u) => Base(t) = Length /\ Base(u) = Length

\* A slot that can be found or is in use keeps a hash of what the file starts with.
Usable(s) == s = table \/ \E t \in Tasks : job[t].slot = s
HashKept == Current => \A s \in Slots : hash[s] # None /\ Usable(s) => Heads(hash[s])

TusInv ==
    /\ TypeOK /\ OneSlot /\ OneShort /\ HashKept /\ RecordedIsOnDisk /\ AttachedIsHashed
    /\ \A t \in Tasks : TaskInv(t)

---------------------------------------------------------------------------
\* Sequences of bytes

\* Bytes are the sequences of contents that are no longer than the upload.
LEMMA BytesDef == \A x : x \in Bytes <=> x \in Seq(Contents) /\ Len(x) <= Length
<1>1. Length \in Nat
  BY UploadAssumption
<1>2. ASSUME NEW x \in Bytes PROVE x \in Seq(Contents) /\ Len(x) <= Length
  <2>1. PICK m \in 0 .. Length : x \in [1 .. m -> Contents]
    BY DEF Bytes, BoundedSeq, SeqOf
  <2>2. x \in Seq(Contents) /\ Len(x) = m
    BY <1>1, <2>1, SeqDef
  <2> QED BY <1>1, <2>2
<1>3. ASSUME NEW x \in Seq(Contents), Len(x) <= Length PROVE x \in Bytes
  <2>1. Len(x) \in Nat /\ x \in [1 .. Len(x) -> Contents]
    BY LenProperties
  <2> QED BY <1>1, <1>3, <2>1 DEF Bytes, BoundedSeq, SeqOf
<1> QED BY <1>2, <1>3

\* What the file starts with is a part of the file.
LEMMA PrefixOfPart ==
    ASSUME part \in Bytes, NEW n \in 0 .. Len(part)
    PROVE  /\ Prefix(n) \in Bytes /\ Len(Prefix(n)) = n
           /\ \A i \in 1 .. n : Prefix(n)[i] = part[i]
<1>1. part \in Seq(Contents) /\ Len(part) <= Length /\ Len(part) \in Nat /\ Length \in Nat
  BY BytesDef, LenProperties, UploadAssumption
<1>2. /\ SubSeq(part, 1, n) \in Seq(Contents) /\ Len(SubSeq(part, 1, n)) = n
      /\ \A i \in 1 .. n : SubSeq(part, 1, n)[i] = part[i]
  <2>1. \A i \in 1 .. n : part[i] \in Contents
    BY <1>1, ElementOfSeq
  <2> QED BY <1>1, <2>1, SubSeqProperties
<1>3. n <= Length
  BY <1>1
<1> DEFINE x == SubSeq(part, 1, n)
<1> HIDE DEF x
<1>4. x \in Bytes
  BY <1>2, <1>3, BytesDef DEF x
<1> QED BY <1>2, <1>4 DEF Prefix, x

\* A file that is set to a length keeps what it has below.
LEMMA SetLenBytes ==
    ASSUME part \in Bytes, NEW n \in 0 .. Length
    PROVE  /\ SetLen(n) \in Bytes /\ Len(SetLen(n)) = n
           /\ \A i \in 1 .. n : i \in 1 .. Len(part) => SetLen(n)[i] = part[i]
<1> DEFINE w == [i \in 1 .. n |-> IF i \in DOMAIN part THEN part[i] ELSE 0]
<1>1. /\ part \in Seq(Contents) /\ Len(part) \in Nat /\ Length \in Nat /\ DOMAIN part = 1 .. Len(part)
      /\ n \in Nat /\ n <= Length
  BY BytesDef, LenProperties, UploadAssumption
<1>2. w \in [1 .. n -> Contents]
  <2>1. ASSUME NEW i \in 1 .. n PROVE (IF i \in DOMAIN part THEN part[i] ELSE 0) \in Contents
    BY <1>1, ElementOfSeq, UploadAssumption
  <2> QED BY <2>1
<1>3. w \in Seq(Contents) /\ Len(w) = n
  BY <1>1, <1>2, SeqDef
<1>4. \A i \in 1 .. n : i \in 1 .. Len(part) => w[i] = part[i]
  BY <1>1
<1>5. SetLen(n) = w
  BY DEF SetLen
<1> HIDE DEF w
<1> QED BY <1>1, <1>3, <1>4, <1>5, BytesDef

\* A byte appended to a sequence comes after those it had.
LEMMA Appended ==
    ASSUME NEW s \in Bytes, NEW c \in Contents, Len(s) < Length
    PROVE  /\ Append(s, c) \in Bytes /\ Len(Append(s, c)) = Len(s) + 1
           /\ Append(s, c)[Len(s) + 1] = c /\ \A i \in 1 .. Len(s) : Append(s, c)[i] = s[i]
<1>1. s \in Seq(Contents) /\ Len(s) <= Length /\ Len(s) \in Nat /\ Length \in Nat
  BY BytesDef, LenProperties, UploadAssumption
<1>2. /\ Append(s, c) \in Seq(Contents) /\ Len(Append(s, c)) = Len(s) + 1
      /\ Append(s, c)[Len(s) + 1] = c /\ \A i \in 1 .. Len(s) : Append(s, c)[i] = s[i]
  BY <1>1, AppendProperties
<1> DEFINE x == Append(s, c)
<1>3. Len(s) + 1 <= Length
  BY <1>1
<1> HIDE DEF x
<1>4. x \in Bytes
  BY <1>2, <1>3, BytesDef DEF x
<1> QED BY <1>2, <1>4 DEF x

\* A byte written right behind what the request has seen.
LEMMA WrittenByte ==
    ASSUME NEW t \in Tasks, part \in Bytes, job[t].seen \in Bytes, NEW c \in Contents,
           Len(job[t].seen) < Length, Len(job[t].seen) <= Len(part)
    PROVE  LET w == Written(t, c) IN
           /\ w \in Bytes /\ Len(w) >= Len(part) /\ Len(w) >= Len(job[t].seen) + 1
           /\ w[Len(job[t].seen) + 1] = c
           /\ \A i \in 1 .. Len(part) : i # Len(job[t].seen) + 1 => w[i] = part[i]
<1> DEFINE k == Len(job[t].seen) + 1
           n == IF k > Len(part) THEN k ELSE Len(part)
           w == [j \in 1 .. n |-> CASE j = k -> c [] j \in DOMAIN part \ {k} -> part[j] [] OTHER -> 0]
<1>1. /\ part \in Seq(Contents) /\ Len(part) <= Length /\ Len(part) \in Nat /\ Length \in Nat
      /\ Len(job[t].seen) \in Nat /\ DOMAIN part = 1 .. Len(part)
  BY BytesDef, LenProperties, UploadAssumption
<1>2. Written(t, c) = w
  BY UploadAssumption DEF Written
<1>3. n \in Nat /\ n <= Length /\ n >= Len(part) /\ n >= k /\ k \in 1 .. n
  BY <1>1
<1>4. w \in [1 .. n -> Contents]
  <2>1. ASSUME NEW j \in 1 .. n PROVE (CASE j = k -> c [] j \in DOMAIN part \ {k} -> part[j] [] OTHER -> 0) \in Contents
    <3>1. CASE j = k
      BY <1>1, <3>1, UploadAssumption
    <3>2. CASE j # k
      <4>1. j \in 1 .. Len(part)
        BY <1>1, <1>3, <3>2
      <4> QED BY <1>1, <3>2, <4>1, ElementOfSeq
    <3> QED BY <3>1, <3>2
  <2> QED BY <2>1
<1>5. w \in Seq(Contents) /\ Len(w) = n
  BY <1>3, <1>4, SeqDef
<1>6. w[k] = c
  <2>1. k \in 1 .. n
    BY <1>3
  <2> HIDE DEF n, k
  <2> QED BY <2>1
<1>7. ASSUME NEW i \in 1 .. Len(part), i # k PROVE w[i] = part[i]
  <2>1. i \in 1 .. n /\ i \in DOMAIN part
    BY <1>1, <1>3
  <2> HIDE DEF n, k
  <2> QED BY <1>7, <2>1
<1> HIDE DEF w, n
<1> QED BY <1>1, <1>2, <1>3, <1>5, <1>6, <1>7, BytesDef


---------------------------------------------------------------------------
\* Moving between steps

\* The places, locals and locks after a step of t.
Moves(t) ==
    /\ pc' \in [Tasks -> PCs] /\ job' \in [Tasks -> Jobs] /\ holder' \in [Slots -> Tasks \cup {None}]
    /\ \A u \in Tasks \ {t} : pc'[u] = pc[u] /\ job'[u] = job[u]
    /\ \A u \in Tasks \ {t}, s \in Slots : holder[s] = u => holder'[s] = u
    /\ troubles' \in 0 .. MaxTroubles

\* The empty sequence and the locals of an idle task have their types.
LEMMA SlotsAndJobs ==
    /\ NoJob \in Jobs /\ Length \in Nat /\ <<>> \in Bytes /\ Len(<<>>) = 0
    /\ \A x \in Bytes : Len(x) \in 0 .. Length
<1>1. Length \in Nat
  BY UploadAssumption
<1>2. <<>> \in Bytes /\ Len(<<>>) = 0
  <2>1. <<>> \in Seq(Contents) /\ Len(<<>>) = 0
    BY EmptySeq
  <2>2. Len(<<>>) <= Length
    BY <1>1, <2>1
  <2>3. \A x : x \in Seq(Contents) /\ Len(x) <= Length => x \in Bytes
    BY BytesDef
  <2> QED BY <2>1, <2>2, <2>3, Zenon
<1>3. ASSUME NEW x \in Bytes PROVE Len(x) \in 0 .. Length
  <2>1. x \in Seq(Contents) /\ Len(x) <= Length
    BY BytesDef
  <2> QED BY <1>1, <2>1, LenProperties
<1>4. NoJob \in Jobs
  BY <1>1, <1>2 DEF NoJob, Jobs
<1> QED BY <1>1, <1>2, <1>3, <1>4

\* Troubles stay a number.
LEMMA TroublesBounded ==
    ASSUME TypeOK, UNCHANGED troubles \/ Trouble
    PROVE  troubles' \in 0 .. MaxTroubles
BY UploadAssumption DEF TypeOK, Trouble

\* Going to the next step changes one place.
LEMMA GotoMoves ==
    ASSUME TypeOK, NEW t \in Tasks, NEW p \in PCs, Goto(t, p), NEW j \in Jobs, job' = [job EXCEPT ![t] = j],
           holder' = holder, UNCHANGED troubles \/ Trouble
    PROVE  Moves(t) /\ pc'[t] = p /\ job'[t] = j
BY TroublesBounded DEF TypeOK, Goto, Moves

\* A request that is done leaves the locals of an idle one.
LEMMA ReturnMoves ==
    ASSUME TypeOK, NEW t \in Tasks, Return(t), UNCHANGED troubles \/ Trouble
    PROVE  Moves(t) /\ pc'[t] = "idle" /\ job'[t] = NoJob
<1>1. "idle" \in PCs
  BY DEF PCs
<1> QED BY <1>1, SlotsAndJobs, TroublesBounded DEF TypeOK, Return, Goto, Moves

\* A request that gives up still holds its slot until it has forgotten it.
LEMMA GiveUpMoves ==
    ASSUME TypeOK, NEW t \in Tasks, GiveUp(t), holder' = holder, UNCHANGED troubles \/ Trouble
    PROVE  Moves(t) /\ pc'[t] = "forget" /\ job'[t] = [NoJob EXCEPT !.slot = job[t].slot]
<1>1. "forget" \in PCs
  BY DEF PCs, LockedPCs
<1>2. job[t] \in Jobs
  BY DEF TypeOK
<1>3. [NoJob EXCEPT !.slot = job[t].slot] \in Jobs
  BY <1>2, SlotsAndJobs DEF Jobs
<1> QED BY <1>1, <1>3, GotoMoves DEF GiveUp


---------------------------------------------------------------------------
\* What a step has to keep

\* What a step of t may touch of what the others rely on.
Frame(t) ==
    /\ Moves(t)
    /\ \A s \in Slots, u \in Tasks \ {t} : holder[s] = u => hash'[s] \in {hash[s], None}
    /\ Over => Over'
    /\ lost => lost'
    /\ \A u \in Tasks \ {t} : Active(u) =>
          /\ part' \in {part, None} \/ (lost /\ Len(part') = Length)
          /\ row' \in {row, None} \/ (row' = Length /\ Base(u) = Length)
    /\ (row = None \/ expired) => (row' = None \/ expired')
    /\ \A u \in Tasks \ {t} : pc[u] # "insert"

\* Within its frame a request takes nothing away that another relies on.
LEMMA OthersKeep ==
    ASSUME TusInv, NEW t \in Tasks, Frame(t), NEW u \in Tasks, u # t
    PROVE  TaskInv(u)'
<1> USE DEF TusInv
<1>1. TaskInv(u) /\ pc'[u] = pc[u] /\ job'[u] = job[u] /\ pc[u] # "insert"
  BY DEF Frame, Moves
<1>2. Unborn(u)'
  BY <1>1 DEF Unborn
<1>3. SlotLocked(u)'
  BY <1>1 DEF TaskInv, SlotLocked, Frame, Moves
<1>4. ForgetsLate(u)'
  BY <1>1 DEF TaskInv, ForgetsLate, Frame
<1>5. Agrees(u)'
  <2>1. SUFFICES ASSUME pc[u] \in {"space", "resume", "truncate", "append", "record"}
                 PROVE  row' \in {None, job[u].received}
    BY <1>1 DEF Agrees
  <2>2. Active(u) /\ Base(u) = job[u].received
    BY <2>1 DEF Active, Base
  <2>3. row \in {None, job[u].received}
    BY <1>1, <2>1 DEF TaskInv, Agrees
  <2> QED BY <2>2, <2>3 DEF Frame
<1>6. Follows(u)'
  <2>1. Follows(u)
    BY <1>1 DEF TaskInv
  <2>2. (Active(u) => part' \in {part, None} \/ (lost /\ Len(part') = Length)) /\ (lost => lost')
    BY DEF Frame
  <2>3. job[u].seen \in Bytes /\ Len(job[u].seen) <= Length
    BY SlotsAndJobs DEF TypeOK, Jobs
  <2>4. pc[u] \in {"space", "resume", "truncate", "append"} => hash'[job[u].slot] \in {hash[job[u].slot], None}
    BY <1>1 DEF TaskInv, SlotLocked, LockedPCs, Frame
  <2>5. pc[u] \in {"space", "resume", "truncate", "append", "record", "sync", "rename"} => Active(u)
    BY DEF Active
  <2>6. Active(u) /\ Fills(job[u].seen) => Fills(job[u].seen)'
    BY <1>1, <2>2, <2>3 DEF Fills
  <2>7. /\ Active(u) /\ Heads(job[u].seen) => Heads(job[u].seen)'
        /\ Active(u) /\ Heads(hash[job[u].slot]) /\ hash'[job[u].slot] = hash[job[u].slot] => Heads(hash[job[u].slot])'
    BY <1>1, <2>2 DEF Heads
  <2> QED BY <1>1, <2>1, <2>2, <2>4, <2>5, <2>6, <2>7 DEF Follows
<1> QED BY <1>2, <1>3, <1>4, <1>5, <1>6 DEF TaskInv

\* A step within its frame need be looked at for its own request only.
LEMMA WithinFrame ==
    ASSUME TusInv, NEW t \in Tasks, Frame(t), TaskInv(t)',
           TypeOK', OneSlot', OneShort', HashKept', RecordedIsOnDisk', AttachedIsHashed'
    PROVE  TusInv'
<1>1. \A u \in Tasks : u # t => TaskInv(u)'
  BY OthersKeep
<1> QED BY <1>1 DEF TusInv


\* Nobody else creates the upload while a request is at work or the row is there.
LEMMA Born ==
    ASSUME TusInv, NEW t \in Tasks, pc[t] # "idle" \/ row # None
    PROVE  \A u \in Tasks \ {t} : pc[u] # "insert"
BY DEF TusInv, TaskInv, Unborn

\* A step that adds nothing: row and file stay or go, hashes stay or are taken out, the
\* slot is the registered one and is forgotten only when no byte can come any more.
LEMMA NothingAdded ==
    ASSUME TusInv, NEW t \in Tasks, Moves(t), TaskInv(t)', pc[t] # "idle" \/ row # None,
           row' \in {row, None}, expired' = expired \/ expired' = TRUE, part' \in {part, None},
           hash' \in [Slots -> Bytes \cup {None}], \A s \in Slots : hash'[s] \in {hash[s], None},
           table' = table \/ (table' = None /\ Over), job'[t].slot \in {job[t].slot, None, table'},
           AttachedIsHashed', lost' = lost,
           Active(t)' => \/ Active(t) /\ Base(t)' = Base(t)
                         \/ /\ Base(t)' = Length
                            /\ \A u \in Tasks : u # t /\ Active(u) => Base(u) = Length
                         \/ \A u \in Tasks : u # t => ~Active(u)
    PROVE  TusInv'
<1> USE DEF TusInv
<1>1. /\ Over => Over'
      /\ Current' => Current /\ row' = row
      /\ (row = None \/ expired) => (row' = None \/ expired')
  BY DEF Over, Current
<1>2. TypeOK'
  BY DEF TypeOK, Moves
<1>3. Frame(t)
  BY <1>1, Born DEF Frame, Active
<1>4. OneSlot'
  <2>1. SUFFICES ASSUME ~Over', NEW u \in Tasks, job'[u].slot # None PROVE job'[u].slot = table'
    BY DEF OneSlot
  <2>2. ~Over /\ table' = table
    BY <1>1, <2>1
  <2>3. job'[u].slot \in {job[u].slot, None, table'}
    BY DEF Moves
  <2> QED BY <2>1, <2>2, <2>3 DEF OneSlot
<1>5. OneShort'
  <2>1. SUFFICES ASSUME NEW x \in Tasks, NEW y \in Tasks, x # y, Active(x)', Active(y)'
                 PROVE  Base(x)' = Length /\ Base(y)' = Length
    BY DEF OneShort
  <2>2. \A u \in Tasks : u # t => (Active(u)' <=> Active(u)) /\ Base(u)' = Base(u)
    BY DEF Moves, Active, Base
  <2>3. \A u \in Tasks : u # t /\ Active(u) /\ Active(t)' => Base(u) = Length /\ Base(t)' = Length
    BY DEF OneShort
  <2>4. CASE x = t
    BY <2>1, <2>2, <2>3, <2>4
  <2>5. CASE y = t
    BY <2>1, <2>2, <2>3, <2>5
  <2>6. CASE x # t /\ y # t
    BY <2>1, <2>2, <2>6 DEF OneShort
  <2> QED BY <2>4, <2>5, <2>6
<1>6. HashKept'
  <2>1. SUFFICES ASSUME Current', NEW s \in Slots, hash'[s] # None, Usable(s)' PROVE Heads(hash[s])'
    BY DEF HashKept
  <2>2. Usable(s)
    <3>1. s # None
      BY UploadAssumption
    <3> QED BY <2>1, <3>1 DEF Usable, Moves
  <2>3. hash'[s] = hash[s]
    BY <2>1
  <2>4. Heads(hash[s])
    BY <1>1, <2>1, <2>2, <2>3 DEF HashKept
  <2> QED BY <2>3, <2>4 DEF Heads
<1>7. RecordedIsOnDisk'
  BY DEF RecordedIsOnDisk
<1> QED BY <1>2, <1>3, <1>4, <1>5, <1>6, <1>7, WithinFrame

\* A request that returns.
LEMMA ReturnKeeps ==
    ASSUME TusInv, NEW t \in Tasks, pc[t] # "idle", Return(t), UNCHANGED <<upload, table, hash, attached, lost>>,
           UNCHANGED troubles \/ Trouble
    PROVE  TusInv'
<1> USE DEF TusInv
<1>1. Moves(t) /\ pc'[t] = "idle" /\ job'[t] = NoJob
  BY ReturnMoves
<1>2. TaskInv(t)'
  BY <1>1 DEF TaskInv, Unborn, SlotLocked, LockedPCs, ForgetsLate, Agrees, Follows, NoJob
<1>3. ~Active(t)'
  BY <1>1 DEF Active
<1>4. job'[t].slot = None
  BY <1>1 DEF NoJob
<1>5. AttachedIsHashed'
  BY DEF AttachedIsHashed
<1> QED BY <1>1, <1>2, <1>3, <1>4, <1>5, NothingAdded DEF upload, TypeOK

\* A request that goes on to forget the slot.
LEMMA GiveUpKeeps ==
    ASSUME TusInv, NEW t \in Tasks, pc[t] \in LockedPCs, GiveUp(t), UNCHANGED <<memory, expired>>,
           part' \in {part, None}, row' \in {row, None}, Over', AttachedIsHashed', lost' = lost,
           UNCHANGED troubles \/ Trouble
    PROVE  TusInv'
<1> USE DEF TusInv
<1>1. Moves(t) /\ pc'[t] = "forget" /\ job'[t] = [NoJob EXCEPT !.slot = job[t].slot]
  BY GiveUpMoves DEF memory
<1>2. job'[t].slot = job[t].slot /\ job'[t].op = "none"
  BY <1>1 DEF NoJob
<1>3. job[t].slot \in Slots /\ holder[job[t].slot] = t
  BY DEF TaskInv, SlotLocked
<1>4. TaskInv(t)'
  <2>1. t = Sweeper => row' = None \/ expired'
    BY DEF TaskInv, ForgetsLate, LockedPCs
  <2> QED BY <1>1, <1>2, <1>3, <2>1 DEF TaskInv, Unborn, SlotLocked, LockedPCs, ForgetsLate, Agrees, Follows, memory
<1>5. ~Active(t)' /\ pc[t] # "idle"
  BY <1>1 DEF Active, LockedPCs
<1> QED BY <1>1, <1>2, <1>4, <1>5, NothingAdded DEF memory, TypeOK


---------------------------------------------------------------------------
\* Creating, starting, getting at the slot

\* A creation starts with an empty file and no row.
LEMMA CreatePartKeeps ==
    ASSUME TusInv, NEW t \in Workers, CreatePart(t)
    PROVE  TusInv'
<1> USE DEF TusInv
<1>0. t \in Tasks
  BY DEF Tasks
<1>1. /\ row = None /\ table = None /\ \A u \in Tasks : pc[u] = "idle"
      /\ part' = <<>> /\ pc' = [pc EXCEPT ![t] = "insert"]
      /\ UNCHANGED <<row, expired, table, holder, hash, job, attached, lost, troubles>>
  BY DEF CreatePart, Goto, At, memory
<1>2. TypeOK'
  BY <1>0, <1>1, SlotsAndJobs DEF TypeOK, PCs
<1>3. /\ \A u \in Tasks \ {t} : pc'[u] = "idle"
      /\ pc'[t] = "insert"
  BY <1>0, <1>1 DEF TypeOK
<1>4. \A u \in Tasks : job'[u].slot = None
  BY <1>1 DEF TaskInv, SlotLocked
<1>5. \A u \in Tasks : TaskInv(u)'
  BY <1>1, <1>3, <1>4, UploadAssumption DEF TaskInv, Unborn, SlotLocked, LockedPCs, ForgetsLate, Agrees, Follows
<1>6. OneSlot' /\ OneShort' /\ HashKept' /\ RecordedIsOnDisk' /\ AttachedIsHashed'
  BY <1>1, <1>3 DEF OneSlot, OneShort, HashKept, RecordedIsOnDisk, AttachedIsHashed, Over, Current, Active
<1> QED BY <1>2, <1>5, <1>6

\* The row comes after its file, with nothing received.
LEMMA CreateUploadKeeps ==
    ASSUME TusInv, NEW t \in Tasks, CreateUpload(t)
    PROVE  TusInv'
<1> USE DEF TusInv
<1>1. /\ pc[t] = "insert" /\ row' = 0 /\ Return(t)
      /\ UNCHANGED <<expired, part, table, hash, attached, lost, troubles>>
  BY DEF CreateUpload, At
<1>2. Moves(t) /\ pc'[t] = "idle" /\ job'[t] = NoJob
  BY <1>1, ReturnMoves
<1>3. table = None /\ part = <<>> /\ \A u \in Tasks \ {t} : pc[u] = "idle"
  BY <1>1 DEF TaskInv, Unborn
<1>4. \A u \in Tasks : pc'[u] = "idle" /\ job'[u].slot = None
  BY <1>2, <1>3 DEF Moves, TaskInv, SlotLocked, NoJob
<1>5. TypeOK'
  BY <1>1, <1>2, SlotsAndJobs DEF TypeOK, Moves
<1>6. \A u \in Tasks : TaskInv(u)'
  BY <1>4 DEF TaskInv, Unborn, SlotLocked, LockedPCs, ForgetsLate, Agrees, Follows
<1>7. OneSlot' /\ OneShort'
  BY <1>4 DEF OneSlot, OneShort, Active
<1>8. HashKept'
  BY <1>1, <1>3, <1>4, UploadAssumption DEF HashKept, Usable
<1>9. RecordedIsOnDisk' /\ AttachedIsHashed'
  BY <1>1, <1>3, SlotsAndJobs DEF RecordedIsOnDisk, AttachedIsHashed
<1> QED BY <1>5, <1>6, <1>7, <1>8, <1>9

\* PATCH, DELETE and the sweep begin alike.
LEMMA BeginKeeps ==
    ASSUME TusInv, NEW t \in Tasks, row # None, NEW j \in Jobs, j.slot = None,
           j.op = "patch" => j.content \in Contents, t = Sweeper => expired,
           pc[t] = "idle", job' = [job EXCEPT ![t] = j], Goto(t, "slot"),
           UNCHANGED <<upload, memory, attached, lost, troubles>>
    PROVE  TusInv'
<1> USE DEF TusInv
<1>1. "slot" \in PCs
  BY DEF PCs
<1>2. Moves(t) /\ pc'[t] = "slot" /\ job'[t] = j
  BY <1>1, GotoMoves DEF memory
<1>3. TaskInv(t)'
  BY <1>2 DEF TaskInv, Unborn, SlotLocked, LockedPCs, ForgetsLate, Agrees, Follows, upload
<1>4. ~Active(t)' /\ AttachedIsHashed'
  BY <1>2 DEF Active, AttachedIsHashed
<1> QED BY <1>2, <1>3, <1>4, NothingAdded DEF upload, memory, TypeOK

\* A request starts without a slot and has to read the session.
LEMMA StartKeeps ==
    ASSUME TusInv,
           \/ \E t \in Workers, offset \in 0 .. Length, c \in Contents : StartPatch(t, offset, c)
           \/ \E t \in Workers : StartDelete(t)
           \/ StartSweep
    PROVE  TusInv'
<1>1. ASSUME NEW t \in Workers, NEW offset \in 0 .. Length, NEW c \in Contents, StartPatch(t, offset, c)
      PROVE  TusInv'
  <2> DEFINE j == [NoJob EXCEPT !.op = "patch", !.offset = offset, !.content = c]
  <2>1. j \in Jobs /\ j.slot = None /\ j.content = c
    BY SlotsAndJobs DEF Jobs, NoJob
  <2>2. job' = [job EXCEPT ![t] = j] /\ t \in Tasks
    BY <1>1 DEF StartPatch, Tasks
  <2> HIDE DEF j
  <2> QED BY <1>1, <2>1, <2>2, BeginKeeps, UploadAssumption DEF StartPatch, At, Current
<1>2. ASSUME NEW t \in Workers, StartDelete(t) PROVE TusInv'
  <2> DEFINE j == [NoJob EXCEPT !.op = "delete"]
  <2>1. j \in Jobs /\ j.slot = None /\ j.op = "delete"
    BY SlotsAndJobs DEF Jobs, NoJob
  <2>2. job' = [job EXCEPT ![t] = j] /\ t \in Tasks
    BY <1>2 DEF StartDelete, Tasks
  <2> HIDE DEF j
  <2> QED BY <1>2, <2>1, <2>2, BeginKeeps, UploadAssumption DEF StartDelete, At, Current
<1>3. ASSUME StartSweep PROVE TusInv'
  <2> DEFINE j == [NoJob EXCEPT !.op = "sweep"]
  <2>1. j \in Jobs /\ j.slot = None /\ j.op = "sweep"
    BY SlotsAndJobs DEF Jobs, NoJob
  <2>2. job' = [job EXCEPT ![Sweeper] = j] /\ Sweeper \in Tasks
    BY <1>3 DEF StartSweep, Tasks
  <2> HIDE DEF j
  <2> QED BY <1>3, <2>1, <2>2, BeginKeeps DEF StartSweep, At
<1> QED BY <1>1, <1>2, <1>3


\* Among one slot more than there are tasks one is unused.
LEMMA FreshSlotIsUnused ==
    ASSUME TypeOK, table = None
    PROVE  FreshSlot \in Slots /\ Unused(FreshSlot)
<1> DEFINE slots == [u \in Tasks |-> job[u].slot]
           used == {slots[u] : u \in Tasks}
<1>1. IsFiniteSet(used) /\ Cardinality(used) <= Cardinality(Tasks)
  <2>1. slots \in Surjection(Tasks, used)
    BY DEF Surjection
  <2> QED BY <2>1, FS_Surjection, UploadAssumption
<1>2. Cardinality(Tasks) \in Nat /\ Cardinality(used) \in Nat
  BY <1>1, FS_CardinalityType, UploadAssumption
<1>3. IsFiniteSet(Slots) /\ Cardinality(Slots) = Cardinality(Tasks) + 1
  BY <1>2, FS_Interval DEF Slots
<1>4. ~(Slots \subseteq used)
  BY <1>1, <1>2, <1>3, FS_Subset
<1>5. PICK s \in Slots : s \notin used
  BY <1>4
<1>6. Unused(s)
  BY <1>5, UploadAssumption DEF Unused
<1> QED BY <1>6 DEF FreshSlot

\* A request finds the registered slot or registers a fresh one.
LEMMA GetSlotKeeps ==
    ASSUME TusInv, NEW t \in Tasks, GetSlot(t)
    PROVE  TusInv'
<1> USE DEF TusInv
<1>1. PICK s : /\ s = IF table = None THEN FreshSlot ELSE table
               /\ table' = s /\ job' = [job EXCEPT ![t].slot = s]
               /\ hash' = IF table = None THEN [hash EXCEPT ![s] = None] ELSE hash
               /\ pc[t] = "slot" /\ Goto(t, "tryLock") /\ UNCHANGED <<upload, holder, attached, lost, troubles>>
  BY DEF GetSlot, At
<1>2. s \in Slots
  BY <1>1, FreshSlotIsUnused DEF TypeOK
<1> DEFINE j == [job[t] EXCEPT !.slot = s]
<1>3. j \in Jobs /\ j.slot = s /\ j.op = job[t].op /\ j.content = job[t].content
  <2>1. job[t] \in Jobs
    BY DEF TypeOK
  <2> QED BY <1>2, <2>1 DEF Jobs
<1>4. job' = [job EXCEPT ![t] = j] /\ "tryLock" \in PCs
  BY <1>1 DEF TypeOK, PCs
<1> HIDE DEF j
<1>5. Moves(t) /\ pc'[t] = "tryLock" /\ job'[t] = j
  BY <1>1, <1>3, <1>4, GotoMoves
<1>6. TaskInv(t)'
  BY <1>1, <1>2, <1>3, <1>5 DEF TaskInv, Unborn, SlotLocked, LockedPCs, ForgetsLate, Agrees, Follows, upload
<1>7. ~Active(t)' /\ AttachedIsHashed'
  BY <1>1, <1>5 DEF Active, AttachedIsHashed
<1>8. CASE table # None
  BY <1>1, <1>3, <1>5, <1>6, <1>7, <1>8, NothingAdded DEF upload, TypeOK
<1>9. CASE table = None
  <2>1. Unused(s) /\ hash' = [hash EXCEPT ![s] = None] /\ UNCHANGED <<row, expired, part, lost>>
    BY <1>1, <1>9, FreshSlotIsUnused DEF upload
  <2>2. TypeOK'
    BY <1>1, <1>2, <1>5, <2>1 DEF TypeOK, Moves
  <2>3. Frame(t)
    BY <1>1, <1>2, <1>5, <2>1, Born DEF Frame, Over, Current, TypeOK
  <2>4. OneSlot'
    BY <1>1, <1>3, <1>5, <1>9, <2>1 DEF OneSlot, Moves, Over, Current
  <2>5. OneShort'
    BY <1>5, <1>7 DEF OneShort, Moves, Active, Base
  <2>6. HashKept'
    <3>1. SUFFICES ASSUME Current', NEW x \in Slots, hash'[x] # None, Usable(x)' PROVE Heads(hash[x])'
      BY DEF HashKept
    <3>2. x # s /\ hash'[x] = hash[x]
      BY <1>2, <2>1, <3>1 DEF TypeOK
    <3>3. Usable(x)
      BY <1>1, <1>3, <1>5, <3>1, <3>2 DEF Usable, Moves
    <3> QED BY <2>1, <3>1, <3>2, <3>3 DEF HashKept, Heads, Current
  <2>7. RecordedIsOnDisk'
    BY <2>1 DEF RecordedIsOnDisk
  <2> QED BY <1>6, <1>7, <2>2, <2>3, <2>4, <2>5, <2>6, <2>7, WithinFrame
<1> QED BY <1>8, <1>9

\* A slot that is locked turns the request away.
LEMMA TryLockKeeps ==
    ASSUME TusInv, NEW t \in Tasks, TryLock(t)
    PROVE  TusInv'
<1> USE DEF TusInv
<1>1. pc[t] = "tryLock" /\ UNCHANGED <<upload, table, hash, attached, lost, troubles>>
  BY DEF TryLock, At
<1>2. CASE Return(t)
  BY <1>1, <1>2, ReturnKeeps
<1>3. ASSUME holder[job[t].slot] = None PROVE TusInv'
  <2>1. PICK p \in {"again", "again2", "removePart"} : Goto(t, p) /\ (p = "again" => job[t].op = "patch")
    BY <1>3 DEF TryLock
  <2>2. job[t].slot \in Slots /\ job' = job /\ holder' = [holder EXCEPT ![job[t].slot] = t]
    BY <1>1, <1>3 DEF TryLock, TaskInv, SlotLocked
  <2>3. Moves(t) /\ pc'[t] = p /\ job'[t] = job[t] /\ holder'[job[t].slot] = t
    BY <1>1, <1>3, <2>1, <2>2, UploadAssumption DEF TypeOK, Goto, Moves, PCs, LockedPCs
  <2>4. TaskInv(t)'
    BY <1>1, <2>1, <2>2, <2>3 DEF TaskInv, Unborn, SlotLocked, LockedPCs, ForgetsLate, Agrees, Follows, upload
  <2>5. ~Active(t)' /\ AttachedIsHashed'
    BY <1>1, <2>3 DEF Active, AttachedIsHashed
  <2> QED BY <1>1, <2>3, <2>4, <2>5, NothingAdded DEF upload, TypeOK
<1> QED BY <1>2, <1>3 DEF TryLock

\* A slot is forgotten only when no request can bring another byte.
LEMMA ForgetKeeps ==
    ASSUME TusInv, NEW t \in Tasks, Forget(t)
    PROVE  TusInv'
<1> USE DEF TusInv
<1>1. pc[t] = "forget" /\ table' = None /\ Goto(t, "release") /\ UNCHANGED <<upload, holder, hash, job, attached, lost, troubles>>
  BY DEF Forget, At
<1>2. job' = [job EXCEPT ![t] = job[t]] /\ job[t] \in Jobs /\ "release" \in PCs
  BY <1>1 DEF TypeOK, PCs, LockedPCs
<1>3. Moves(t) /\ pc'[t] = "release" /\ job'[t] = job[t]
  BY <1>1, <1>2, GotoMoves
<1>4. Over /\ Over'
  BY <1>1 DEF TaskInv, ForgetsLate, Over, Current, upload
<1>5. TaskInv(t)'
  BY <1>1, <1>3, <1>4 DEF TaskInv, Unborn, SlotLocked, LockedPCs, ForgetsLate, Agrees, Follows, upload
<1>6. ~Active(t)' /\ AttachedIsHashed'
  BY <1>1, <1>3 DEF Active, AttachedIsHashed
<1> QED BY <1>1, <1>3, <1>4, <1>5, <1>6, NothingAdded DEF upload, TypeOK

\* A released slot leaves its hash as the request left it.
LEMMA ReleaseKeeps ==
    ASSUME TusInv, NEW t \in Tasks, Release(t)
    PROVE  TusInv'
BY ReturnKeeps DEF Release, At


---------------------------------------------------------------------------
\* tus_patch

\* A request that got through with a byte missing is alone past the lock.
LEMMA AloneOrComplete ==
    ASSUME TusInv, NEW t \in Tasks, pc[t] \in LockedPCs, Current
    PROVE  \/ row = Length /\ \A u \in Tasks : u # t /\ Active(u) => Base(u) = Length
           \/ \A u \in Tasks : u # t => ~Active(u)
<1> USE DEF TusInv
<1>1. CASE row = Length
  BY <1>1 DEF TaskInv, Agrees, Active, Base, Current
<1>2. CASE row # Length
  <2>1. ~Over /\ row # None
    BY <1>2 DEF Over, Current
  <2>2. job[t].slot = table /\ holder[table] = t /\ table \in Slots
    BY <2>1, UploadAssumption DEF OneSlot, TaskInv, SlotLocked
  <2>3. ASSUME NEW u \in Tasks, u # t, Active(u) PROVE FALSE
    <3>1. job[u].slot \in Slots /\ holder[job[u].slot] = u
      BY <2>3 DEF TaskInv, SlotLocked, LockedPCs, Active
    <3>2. job[u].slot = table
      BY <2>1, <3>1, UploadAssumption DEF OneSlot
    <3> QED BY <2>2, <2>3, <3>1, <3>2
  <2> QED BY <2>3
<1> QED BY <1>1, <1>2

\* Under the lock the session is read again: row and offset agree from here on.
LEMMA SessionAgainKeeps ==
    ASSUME TusInv, SessionIsReadAgain, NEW t \in Tasks, SessionAgain(t)
    PROVE  TusInv'
<1> USE DEF TusInv
<1>1. pc[t] = "again" /\ UNCHANGED <<upload, table, hash, attached, lost>> /\ pc[t] \in LockedPCs
  BY DEF SessionAgain, At, LockedPCs
<1>2. CASE NoFault /\ Return(t)
  BY <1>1, <1>2, ReturnKeeps DEF NoFault
<1>3. CASE ~Current /\ NoFault /\ GiveUp(t) /\ UNCHANGED holder
  <2>1. Over' /\ AttachedIsHashed'
    BY <1>1, <1>3 DEF Over, Current, upload, AttachedIsHashed
  <2> QED BY <1>1, <1>3, <2>1, GiveUpKeeps DEF NoFault, memory, upload
<1>4. CASE /\ Current /\ NoFault
           /\ job' = [job EXCEPT ![t].received = row, ![t].offset = 0] /\ Goto(t, "space") /\ UNCHANGED holder
  <2> DEFINE j == [job[t] EXCEPT !.received = row, !.offset = 0]
  <2>1. job[t] \in Jobs /\ row \in 0 .. Length
    BY <1>4 DEF TypeOK, Current
  <2>2. /\ j \in Jobs /\ j.slot = job[t].slot /\ j.op = job[t].op /\ j.content = job[t].content
        /\ j.received = row
    BY <2>1, SlotsAndJobs DEF Jobs
  <2>3. job' = [job EXCEPT ![t] = j] /\ "space" \in PCs
    BY <1>4 DEF TypeOK, PCs, LockedPCs
  <2> HIDE DEF j
  <2>4. Moves(t) /\ pc'[t] = "space" /\ job'[t] = j
    BY <1>4, <2>2, <2>3, GotoMoves DEF NoFault
  <2>5. job[t].slot \in Slots /\ Usable(job[t].slot)
    BY <1>1 DEF TaskInv, SlotLocked, LockedPCs, Usable
  <2>6. hash[job[t].slot] # None => Heads(hash[job[t].slot])
    BY <1>4, <2>5 DEF HashKept
  <2>7. Unborn(t)' /\ SlotLocked(t)' /\ ForgetsLate(t)' /\ Agrees(t)'
    BY <1>1, <1>4, <2>2, <2>4 DEF TaskInv, Unborn, SlotLocked, LockedPCs, ForgetsLate, Agrees, upload
  <2>8. Follows(t)'
    BY <1>1, <2>2, <2>4, <2>6 DEF Follows, Heads, upload
  <2>9. Base(t)' = row /\ AttachedIsHashed'
    BY <1>1, <2>2, <2>4 DEF Base, AttachedIsHashed
  <2> QED BY <1>1, <1>4, <2>2, <2>4, <2>7, <2>8, <2>9, AloneOrComplete, NothingAdded DEF upload, TypeOK, TaskInv
<1> QED BY <1>1, <1>2, <1>3, <1>4 DEF SessionAgain, Fails, SessionIsReadAgain

\* The space check turns away and changes nothing else.
LEMMA CheckSpaceKeeps ==
    ASSUME TusInv, NEW t \in Tasks, CheckSpace(t)
    PROVE  TusInv'
<1> USE DEF TusInv
<1>1. pc[t] = "space" /\ UNCHANGED <<upload, table, hash, attached, lost, troubles>>
  BY DEF CheckSpace, At
<1>2. CASE Return(t)
  BY <1>1, <1>2, ReturnKeeps
<1>3. CASE Goto(t, "resume") /\ UNCHANGED <<holder, job>>
  <2>1. job' = [job EXCEPT ![t] = job[t]] /\ job[t] \in Jobs /\ "resume" \in PCs
    BY <1>3 DEF TypeOK, PCs, LockedPCs
  <2>2. Moves(t) /\ pc'[t] = "resume" /\ job'[t] = job[t]
    BY <1>1, <1>3, <2>1, GotoMoves
  <2>3. TaskInv(t)'
    BY <1>1, <1>3, <2>2 DEF TaskInv, Unborn, SlotLocked, LockedPCs, ForgetsLate, Agrees, Follows, Heads, upload
  <2>4. Active(t) /\ Base(t)' = Base(t) /\ AttachedIsHashed'
    BY <1>1, <2>2 DEF Active, Base, AttachedIsHashed
  <2> QED BY <1>1, <2>2, <2>3, <2>4, NothingAdded DEF upload, TypeOK
<1> QED BY <1>2, <1>3 DEF CheckSpace

\* The hash goes on from the slot, or from the bytes of the file.
LEMMA ResumeHashKeeps ==
    ASSUME TusInv, NEW t \in Tasks, ResumeHash(t)
    PROVE  TusInv'
<1> USE DEF TusInv
<1> DEFINE s == job[t].slot
           n == job[t].received
           kept == hash[s] # None /\ Len(hash[s]) = n
           readable == part # None /\ Len(part) >= n
           bytes == IF kept THEN hash[s] ELSE Prefix(n)
<1>1. pc[t] = "resume" /\ UNCHANGED <<upload, table, attached, lost, troubles>>
  BY DEF ResumeHash, At
<1>2. CASE Return(t) /\ UNCHANGED hash
  BY <1>1, <1>2, ReturnKeeps
<1>3. CASE /\ kept \/ readable
           /\ job' = [job EXCEPT ![t].seen = bytes]
           /\ hash' = [hash EXCEPT ![s] = None] /\ Goto(t, "truncate") /\ UNCHANGED holder
  <2>1. s \in Slots /\ holder[s] = t /\ (hash[s] # None => Heads(hash[s])) /\ job[t] \in Jobs /\ n \in 0 .. Length
    BY <1>1 DEF TaskInv, SlotLocked, LockedPCs, Follows, TypeOK, Jobs
  <2>2. bytes \in Bytes /\ Len(bytes) = n /\ Heads(bytes)
    <3>1. CASE kept
      BY <2>1, <3>1 DEF TypeOK
    <3>2. CASE ~kept
      <4>1. part \in Bytes /\ n \in 0 .. Len(part)
        BY <1>3, <2>1, <3>2, SlotsAndJobs DEF TypeOK
      <4>2. /\ Prefix(n) \in Bytes /\ Len(Prefix(n)) = n /\ \A i \in 1 .. n : Prefix(n)[i] = part[i]
        BY <4>1, PrefixOfPart
      <4>3. n <= Len(part)
        BY <1>3, <3>2, <4>1
      <4> QED BY <3>2, <4>2, <4>3 DEF Heads
    <3> QED BY <3>1, <3>2
  <2> HIDE DEF bytes
  <2> DEFINE j == [job[t] EXCEPT !.seen = bytes]
  <2>3. /\ j \in Jobs /\ j.slot = s /\ j.op = job[t].op /\ j.content = job[t].content
        /\ j.received = n /\ j.seen = bytes
    BY <2>1, <2>2 DEF Jobs
  <2>4. job' = [job EXCEPT ![t] = j] /\ "truncate" \in PCs
    BY <1>3 DEF TypeOK, PCs, LockedPCs
  <2> HIDE DEF j
  <2>5. Moves(t) /\ pc'[t] = "truncate" /\ job'[t] = j
    BY <1>1, <1>3, <2>3, <2>4, GotoMoves
  <2>6. /\ hash' \in [Slots -> Bytes \cup {None}] /\ hash'[s] = None
        /\ \A x \in Slots : hash'[x] \in {hash[x], None}
    BY <1>3, <2>1 DEF TypeOK
  <2>7. Unborn(t)' /\ SlotLocked(t)' /\ ForgetsLate(t)' /\ Agrees(t)'
    BY <1>1, <1>3, <2>3, <2>5 DEF TaskInv, Unborn, SlotLocked, LockedPCs, ForgetsLate, Agrees, upload
  <2>8. Follows(t)'
    BY <1>1, <2>2, <2>3, <2>5, <2>6 DEF Follows, Heads, upload
  <2>9. Active(t) /\ Base(t)' = Base(t) /\ AttachedIsHashed'
    BY <1>1, <2>3, <2>5 DEF Active, Base, AttachedIsHashed
  <2> QED BY <1>1, <2>3, <2>5, <2>6, <2>7, <2>8, <2>9, NothingAdded DEF upload, TaskInv
<1> QED BY <1>2, <1>3 DEF ResumeHash


\* A step of the writer that changes the file past what the row records, and nothing
\* when the file is complete, unless it fills in what was lost.
LEMMA PartWritten ==
    ASSUME TusInv, NEW t \in Tasks, pc[t] \in {"truncate", "append"}, Moves(t), TaskInv(t)',
           part' \in Bytes \cup {None}, UNCHANGED <<row, expired, table, attached>>, lost' \in BOOLEAN, lost => lost',
           hash' \in [Slots -> Bytes \cup {None}], \A x \in Slots : x # job[t].slot => hash'[x] = hash[x],
           hash'[job[t].slot] # None => Heads(hash[job[t].slot])',
           job[t].received = Length => part' = part \/ (lost /\ Len(part') = Length),
           part' # None => lost' \/ Len(part') >= job[t].received,
           job'[t].slot = job[t].slot, Active(t)', Base(t)' = job[t].received
    PROVE  TusInv'
<1> USE DEF TusInv
<1> DEFINE s == job[t].slot
<1>1. /\ Active(t) /\ Base(t) = job[t].received /\ s \in Slots /\ holder[s] = t
      /\ row \in {None, job[t].received} /\ pc[t] # "idle"
  BY DEF Active, Base, TaskInv, SlotLocked, LockedPCs, Agrees
<1>2. TypeOK'
  BY DEF TypeOK, Moves
<1>3. \A u \in Tasks \ {t} : Active(u) => part' = part \/ (lost /\ Len(part') = Length)
  BY <1>1 DEF OneShort
<1>4. Frame(t)
  BY <1>1, <1>3, Born DEF Frame, Over, Current
<1>5. OneSlot'
  BY DEF OneSlot, Over, Current, Moves
<1>6. OneShort'
  BY <1>1 DEF OneShort, Moves, Active, Base
<1>7. HashKept'
  <2>1. SUFFICES ASSUME Current', NEW x \in Slots, hash'[x] # None, Usable(x)' PROVE Heads(hash[x])'
    BY DEF HashKept
  <2>2. CASE x = s
    BY <2>1, <2>2
  <2>3. CASE x # s
    <3>1. hash'[x] = hash[x] /\ Usable(x) /\ Current
      BY <2>1, <2>3 DEF Usable, Moves, Current
    <3>2. Over
      <4>1. SUFFICES ASSUME ~Over PROVE FALSE
        OBVIOUS
      <4>2. s = table /\ x = table
        BY <1>1, <3>1, <4>1, UploadAssumption DEF OneSlot, Usable
      <4> QED BY <2>3, <4>2
    <3>3. part' = part \/ lost
      BY <1>1, <3>1, <3>2, UploadAssumption DEF Over, Current
    <3> QED BY <2>1, <3>1, <3>3 DEF HashKept, Heads
  <2> QED BY <2>2, <2>3
<1>8. RecordedIsOnDisk' /\ AttachedIsHashed'
  BY <1>1 DEF RecordedIsOnDisk, AttachedIsHashed
<1> QED BY <1>2, <1>4, <1>5, <1>6, <1>7, <1>8, WithinFrame

\* Setting the length keeps all that was recorded and the hash has seen.
LEMMA TruncateKeeps ==
    ASSUME TusInv, NEW t \in Tasks, Truncate(t)
    PROVE  TusInv'
<1> USE DEF TusInv
<1> DEFINE n == job[t].received
<1>1. pc[t] = "truncate" /\ UNCHANGED <<row, expired, table, hash, attached, lost, troubles>>
  BY DEF Truncate, At
<1>2. CASE Return(t) /\ UNCHANGED part
  BY <1>1, <1>2, ReturnKeeps DEF upload
<1>3. CASE part # None /\ part' = SetLen(n) /\ Goto(t, "append") /\ UNCHANGED <<holder, job>>
  <2>1. /\ Heads(job[t].seen) /\ Len(job[t].seen) = n /\ job[t] \in Jobs /\ n \in 0 .. Length
        /\ hash[job[t].slot] = None /\ job[t].seen \in Bytes /\ part \in Bytes
    BY <1>1, <1>3 DEF TaskInv, Follows, TypeOK, Jobs
  <2>2. Len(part) \in 0 .. Length /\ (~lost => n \in 0 .. Len(part))
    BY <1>3, <2>1, SlotsAndJobs DEF Heads
  <2>3. part' \in Bytes /\ Len(part') = n /\ \A i \in 1 .. n : i \in 1 .. Len(part) => part'[i] = part[i]
    BY <1>3, <2>1, SetLenBytes
  <2>4. n = Length => part' = part \/ (lost /\ Len(part') = Length)
    <3>1. SUFFICES ASSUME n = Length, ~lost PROVE part' = part
      BY <2>3
    <3>2. Len(part) = n
      BY <2>2, <3>1, SlotsAndJobs
    <3>3. part \in Seq(Contents) /\ part' \in Seq(Contents)
      BY <2>1, <2>3, BytesDef
    <3>4. \A i \in 1 .. n : part'[i] = part[i]
      BY <2>3, <3>2
    <3> QED BY <2>3, <3>2, <3>3, <3>4, SeqEqual
  <2>5. job' = [job EXCEPT ![t] = job[t]] /\ "append" \in PCs
    BY <1>3 DEF TypeOK, PCs, LockedPCs
  <2>6. Moves(t) /\ pc'[t] = "append" /\ job'[t] = job[t]
    BY <1>1, <1>3, <2>1, <2>5, GotoMoves
  <2>7. Unborn(t)' /\ SlotLocked(t)' /\ ForgetsLate(t)' /\ Agrees(t)'
    BY <1>1, <1>3, <2>6 DEF TaskInv, Unborn, SlotLocked, LockedPCs, ForgetsLate, Agrees
  <2>8. Heads(job[t].seen)' /\ Fills(job[t].seen)'
    BY <1>1, <1>3, <2>1, <2>2, <2>3, <2>6 DEF Heads, Fills
  <2>9. Follows(t)'
    BY <1>1, <2>1, <2>6, <2>8 DEF Follows
  <2>10. Active(t)' /\ Base(t)' = n
    BY <2>6 DEF Active, Base
  <2>11. part' # None => Len(part') >= n
    BY <2>1, <2>3
  <2> QED BY <1>1, <2>1, <2>3, <2>4, <2>6, <2>7, <2>9, <2>10, <2>11, PartWritten DEF TypeOK, TaskInv
<1> QED BY <1>2, <1>3 DEF Truncate


\* What a byte written behind what the request has seen leaves of the file.
LEMMA WriteKeepsHead ==
    ASSUME TusInv, NEW t \in Tasks, pc[t] = "append", Len(job[t].seen) < Length, part' = Written(t, job[t].content)
    PROVE  /\ part' \in Bytes \cup {None} /\ (part' # None => part # None /\ Len(part') >= Len(part))
           /\ (part' # None => Len(part') >= Len(job[t].seen) + 1 /\ part'[Len(job[t].seen) + 1] = job[t].content)
           /\ part' # None /\ ~lost => \A i \in 1 .. Len(job[t].seen) : part'[i] = job[t].seen[i]
           /\ part' # None => \A i \in 1 .. Len(job[t].seen) : i \in 1 .. Len(part) => part'[i] = part[i]
           /\ job[t].content \in Contents /\ job[t].seen \in Bytes /\ Len(job[t].seen) \in 0 .. Length
           /\ part # None => Len(job[t].seen) <= Len(part) /\ Len(part) \in Nat
<1> USE DEF TusInv
<1>1. /\ job[t].content \in Contents /\ job[t].seen \in Bytes /\ Heads(job[t].seen) /\ Fills(job[t].seen)
      /\ Len(job[t].seen) \in 0 .. Length
  BY SlotsAndJobs DEF TaskInv, ForgetsLate, Follows, TypeOK, Jobs
<1>2. CASE part = None
  BY <1>1, <1>2 DEF Written
<1>3. CASE part # None
  <2>1. part \in Bytes /\ Len(job[t].seen) <= Len(part) /\ Len(part) \in 0 .. Length
    BY <1>1, <1>3, SlotsAndJobs DEF Fills, TypeOK
  <2>2. /\ part' \in Bytes /\ Len(part') >= Len(part) /\ Len(part') >= Len(job[t].seen) + 1
        /\ part'[Len(job[t].seen) + 1] = job[t].content
        /\ \A i \in 1 .. Len(part) : i # Len(job[t].seen) + 1 => part'[i] = part[i]
    BY <1>1, <2>1, WrittenByte
  <2>3. ASSUME NEW i \in 1 .. Len(job[t].seen) PROVE part'[i] = part[i] /\ (~lost => part'[i] = job[t].seen[i])
    <3>1. i \in 1 .. Len(part) /\ i # Len(job[t].seen) + 1
      BY <1>1, <2>1
    <3> QED BY <1>1, <1>3, <2>2, <3>1 DEF Heads
  <2> QED BY <1>1, <1>3, <2>1, <2>2, <2>3
<1> QED BY <1>2, <1>3

\* A byte goes to file and hash alike.
LEMMA AppendByteKeeps ==
    ASSUME TusInv, NEW t \in Tasks, AppendByte(t)
    PROVE  TusInv'
<1> USE DEF TusInv
<1> DEFINE c == job[t].content
           seen == job[t].seen
<1>1. /\ pc[t] = "append" /\ Len(seen) < Length /\ part' = Written(t, c)
      /\ job' = [job EXCEPT ![t].seen = Append(@, c)]
      /\ UNCHANGED <<row, expired, table, holder, hash, pc, attached, lost, troubles>>
  BY DEF AppendByte, At, memory
<1>2. /\ part' \in Bytes \cup {None} /\ (part' # None => part # None /\ Len(part') >= Len(part))
      /\ (part' # None => Len(part') >= Len(seen) + 1 /\ part'[Len(seen) + 1] = c)
      /\ part' # None /\ ~lost => \A i \in 1 .. Len(seen) : part'[i] = seen[i]
      /\ c \in Contents /\ seen \in Bytes /\ Len(seen) \in 0 .. Length
      /\ part # None => Len(seen) <= Len(part) /\ Len(part) \in Nat
  BY <1>1, WriteKeepsHead
<1>3. /\ Append(seen, c) \in Bytes /\ Len(Append(seen, c)) = Len(seen) + 1
      /\ Append(seen, c)[Len(seen) + 1] = c /\ \A i \in 1 .. Len(seen) : Append(seen, c)[i] = seen[i]
  BY <1>1, <1>2, Appended
<1>4. Len(seen) >= job[t].received /\ hash[job[t].slot] = None /\ job[t] \in Jobs /\ job[t].received \in 0 .. Length
  BY <1>1 DEF TaskInv, Follows, TypeOK, Jobs
<1> DEFINE x == Append(seen, c)
           j == [job[t] EXCEPT !.seen = x]
<1>5. job' = [job EXCEPT ![t] = j]
  BY <1>1 DEF TypeOK
<1> HIDE DEF x
<1>6. /\ j \in Jobs /\ j.slot = job[t].slot /\ j.op = job[t].op /\ j.content = c
      /\ j.received = job[t].received /\ j.seen = x
  BY <1>3, <1>4 DEF Jobs, x
<1> HIDE DEF j
<1>7. Moves(t) /\ pc'[t] = "append" /\ job'[t] = j
  BY <1>1, <1>5, <1>6, TroublesBounded DEF Moves, TypeOK
<1>8. Unborn(t)' /\ SlotLocked(t)' /\ ForgetsLate(t)' /\ Agrees(t)'
  BY <1>1, <1>6, <1>7 DEF TaskInv, Unborn, SlotLocked, LockedPCs, ForgetsLate, Agrees
<1>9. part' # None /\ ~lost => \A i \in 1 .. Len(x) : part'[i] = x[i]
  <2>1. SUFFICES ASSUME part' # None, ~lost, NEW i \in 1 .. Len(seen) + 1 PROVE part'[i] = x[i]
    BY <1>3 DEF x
  <2>2. i \in 1 .. Len(seen) \/ i = Len(seen) + 1
    BY <1>2
  <2> QED BY <1>2, <1>3, <2>1, <2>2 DEF x
<1>10. Len(x) = Len(seen) + 1
  BY <1>3 DEF x
<1>11. Heads(job[t].seen)' /\ Fills(job[t].seen)'
  BY <1>1, <1>2, <1>6, <1>7, <1>9, <1>10 DEF Heads, Fills
<1>12. Follows(t)'
  BY <1>1, <1>2, <1>4, <1>6, <1>7, <1>10, <1>11 DEF Follows
<1>13. Active(t)' /\ Base(t)' = job[t].received /\ lost' \in BOOLEAN
  BY <1>1, <1>6, <1>7 DEF Active, Base, TypeOK
<1>14. /\ job[t].received # Length
       /\ part' # None => Len(part') >= job[t].received
  <2>1. part' # None => Len(part') \in 0 .. Length
    BY <1>2, SlotsAndJobs
  <2> QED BY <1>1, <1>2, <1>4, <2>1, SlotsAndJobs
<1> QED BY <1>1, <1>2, <1>4, <1>6, <1>7, <1>8, <1>12, <1>13, <1>14, PartWritten DEF TypeOK, TaskInv

\* The hash goes back into the slot when the body ends.
LEMMA EndOfBodyKeeps ==
    ASSUME TusInv, NEW t \in Tasks, EndOfBody(t)
    PROVE  TusInv'
<1> USE DEF TusInv
<1> DEFINE old == job[t].seen
           c == job[t].content
<1>1. PICK seen \in {old, Append(old, c)}, clean \in BOOLEAN :
         /\ BodyEnds(t, seen, clean) /\ pc[t] = "append" /\ (UNCHANGED troubles \/ Trouble)
         /\ \/ seen = old /\ part' = part /\ lost' = lost
            \/ seen = old /\ ~clean /\ Len(old) < Length /\ part' = Written(t, c) /\ lost' = lost
            \/ seen = Append(old, c) /\ ~clean /\ Len(old) < Length /\ part' = part /\ lost' = TRUE
  BY DEF EndOfBody, At, Fails, NoFault
<1>2. /\ Len(old) >= job[t].received /\ job[t] \in Jobs /\ job[t].received \in 0 .. Length /\ c \in Contents
      /\ Heads(old) /\ Fills(old) /\ job[t].slot \in Slots /\ old \in Bytes /\ Len(old) \in 0 .. Length
  BY <1>1, SlotsAndJobs DEF TaskInv, ForgetsLate, Follows, SlotLocked, LockedPCs, TypeOK, Jobs
<1>3. /\ hash' = [hash EXCEPT ![job[t].slot] = seen] /\ Goto(t, "record")
      /\ job' = [job EXCEPT ![t].seen = seen, ![t].clean = clean, ![t].content = None]
      /\ UNCHANGED <<row, expired, table, holder, attached>>
  BY <1>1 DEF BodyEnds
<1>4. /\ seen \in Bytes /\ Len(seen) >= job[t].received /\ lost' \in BOOLEAN /\ (lost => lost')
      /\ part' \in Bytes \cup {None}
      /\ job[t].received = Length => part' = part
      /\ part' # None /\ ~lost' => /\ Len(part') >= Len(seen) /\ Len(part') \in 0 .. Length
                                   /\ \A i \in 1 .. Len(seen) : part'[i] = seen[i]
      /\ part' # None /\ clean => Len(part') >= Len(seen)
  <2>1. CASE seen = old /\ part' = part /\ lost' = lost
    BY <1>2, <2>1, SlotsAndJobs DEF Heads, Fills, TypeOK
  <2>2. CASE seen = old /\ ~clean /\ Len(old) < Length /\ part' = Written(t, c) /\ lost' = lost
    <3>1. /\ part' \in Bytes \cup {None}
          /\ part' # None => Len(part') >= Len(old) + 1
          /\ part' # None /\ ~lost => \A i \in 1 .. Len(old) : part'[i] = old[i]
      BY <1>1, <2>2, WriteKeepsHead
    <3> QED BY <1>2, <2>2, <3>1, SlotsAndJobs DEF TypeOK
  <2>3. CASE seen = Append(old, c) /\ ~clean /\ Len(old) < Length /\ part' = part /\ lost' = TRUE
    <3>1. Append(old, c) \in Bytes /\ Len(Append(old, c)) = Len(old) + 1
      BY <1>2, <2>3, Appended
    <3> QED BY <1>2, <2>3, <3>1 DEF TypeOK
  <2> QED BY <1>1, <2>1, <2>2, <2>3
<1> DEFINE j == [job[t] EXCEPT !.seen = seen, !.clean = clean, !.content = None]
<1>6. job' = [job EXCEPT ![t] = j] /\ "record" \in PCs
  BY <1>3 DEF TypeOK, PCs, LockedPCs
<1>7. /\ j \in Jobs /\ j.slot = job[t].slot /\ j.op = job[t].op
      /\ j.received = job[t].received /\ j.seen = seen /\ j.clean = clean
  BY <1>2, <1>4 DEF Jobs
<1> HIDE DEF j
<1>8. Moves(t) /\ pc'[t] = "record" /\ job'[t] = j
  BY <1>1, <1>3, <1>6, <1>7, GotoMoves
<1>9. Unborn(t)' /\ SlotLocked(t)' /\ ForgetsLate(t)' /\ Agrees(t)'
  BY <1>1, <1>3, <1>7, <1>8 DEF TaskInv, Unborn, SlotLocked, LockedPCs, ForgetsLate, Agrees
<1>10. Heads(job[t].seen)' /\ (clean => Fills(job[t].seen)')
  BY <1>4, <1>7, <1>8 DEF Heads, Fills
<1>11. Follows(t)'
  BY <1>2, <1>4, <1>7, <1>8, <1>10 DEF Follows
<1>12. Active(t)' /\ Base(t)' = job[t].received
  BY <1>7, <1>8 DEF Active, Base
<1>13. part' # None => lost' \/ Len(part') >= job[t].received
  BY <1>2, <1>4, SlotsAndJobs
<1>14. /\ hash' \in [Slots -> Bytes \cup {None}] /\ hash'[job[t].slot] = seen
       /\ \A x \in Slots : x # job[t].slot => hash'[x] = hash[x]
  BY <1>2, <1>3, <1>4 DEF TypeOK
<1>15. Heads(hash[job[t].slot])'
  BY <1>4, <1>7, <1>8, <1>14 DEF Heads
<1> QED BY <1>1, <1>3, <1>4, <1>7, <1>8, <1>9, <1>11, <1>12, <1>13, <1>14, <1>15, PartWritten DEF TaskInv


\* The row takes what the file has and the hash has seen.
LEMMA RecordKeeps ==
    ASSUME TusInv, NEW t \in Tasks, Record(t)
    PROVE  TusInv'
<1> USE DEF TusInv
<1> DEFINE seen == job[t].seen
<1>1. /\ pc[t] = "record" /\ row' = (IF row = None THEN None ELSE Len(seen))
      /\ UNCHANGED <<expired, part, table, hash, attached, lost, troubles>>
  BY DEF Record, At
<1>2. /\ Len(seen) >= job[t].received /\ job[t] \in Jobs /\ job[t].received \in 0 .. Length
      /\ Heads(seen) /\ Len(seen) \in 0 .. Length /\ row \in {None, job[t].received} /\ Active(t) /\ Base(t) = job[t].received
  BY <1>1, SlotsAndJobs DEF TaskInv, Follows, Agrees, TypeOK, Jobs, Active, Base
<1>3. /\ Moves(t) /\ TaskInv(t)' /\ job'[t].slot \in {job[t].slot, None}
      /\ Active(t)' => Base(t)' = Length
  <2>1. CASE job[t].clean /\ Len(seen) = Length /\ Goto(t, "sync") /\ UNCHANGED <<holder, job>>
    <3>1. job' = [job EXCEPT ![t] = job[t]] /\ "sync" \in PCs
      BY <2>1 DEF TypeOK, PCs, LockedPCs
    <3>2. Moves(t) /\ pc'[t] = "sync" /\ job'[t] = job[t]
      BY <1>1, <1>2, <2>1, <3>1, GotoMoves
    <3>3. Over'
      BY <1>1, <2>1 DEF Over, Current
    <3>4. TaskInv(t)'
      BY <1>1, <1>2, <2>1, <3>2, <3>3 DEF TaskInv, Unborn, SlotLocked, LockedPCs, ForgetsLate, Agrees, Follows, Heads, Fills
    <3> QED BY <3>2, <3>4 DEF Base
  <2>2. CASE Return(t)
    <3>1. Moves(t) /\ pc'[t] = "idle" /\ job'[t] = NoJob
      BY <1>1, <2>2, ReturnMoves
    <3>2. TaskInv(t)'
      BY <3>1 DEF TaskInv, Unborn, SlotLocked, LockedPCs, ForgetsLate, Agrees, Follows, NoJob
    <3>3. job'[t].slot = None /\ ~Active(t)'
      BY <3>1 DEF NoJob, Active
    <3> QED BY <3>1, <3>2, <3>3
  <2> QED BY <2>1, <2>2 DEF Record
<1>4. /\ row' \in 0 .. Length \cup {None} /\ (row' = None <=> row = None)
      /\ row = Length => row' = Length
  BY <1>1, <1>2, UploadAssumption DEF TypeOK
<1>5. TypeOK'
  BY <1>1, <1>3, <1>4 DEF TypeOK, Moves
<1>6. (Over => Over') /\ (Current' => Current)
  BY <1>1, <1>4 DEF Over, Current
<1>7. ASSUME NEW u \in Tasks \ {t}, Active(u) PROVE Base(u) = Length /\ row' \in {None, Length}
  <2>1. Base(u) = Length /\ job[t].received = Length
    BY <1>2, <1>7 DEF OneShort
  <2>2. Len(seen) = Length
    BY <1>2, <2>1, SlotsAndJobs
  <2> QED BY <1>1, <2>1, <2>2
<1>8. Frame(t)
  BY <1>1, <1>3, <1>4, <1>6, <1>7, Born DEF Frame
<1>9. OneSlot'
  <2>1. SUFFICES ASSUME ~Over', NEW u \in Tasks, job'[u].slot # None PROVE job'[u].slot = table'
    BY DEF OneSlot
  <2>2. job'[u].slot = job[u].slot
    BY <1>3, <2>1 DEF Moves
  <2> QED BY <1>1, <1>6, <2>1, <2>2 DEF OneSlot
<1>10. OneShort'
  <2>1. SUFFICES ASSUME NEW x \in Tasks, NEW y \in Tasks, x # y, Active(x)', Active(y)'
                 PROVE  Base(x)' = Length /\ Base(y)' = Length
    BY DEF OneShort
  <2>2. \A u \in Tasks : u # t => (Active(u)' <=> Active(u)) /\ Base(u)' = Base(u)
    BY <1>3 DEF Moves, Active, Base
  <2> QED BY <1>3, <1>7, <2>1, <2>2 DEF OneShort
<1>11. HashKept'
  <2>1. SUFFICES ASSUME Current', NEW s \in Slots, hash'[s] # None, Usable(s)' PROVE Heads(hash[s])'
    BY DEF HashKept
  <2>2. Usable(s)
    <3>1. s # None
      BY UploadAssumption
    <3> QED BY <1>1, <1>3, <2>1, <3>1 DEF Usable, Moves
  <2>3. Heads(hash[s])
    BY <1>1, <1>6, <2>1, <2>2 DEF HashKept
  <2> QED BY <1>1, <2>3 DEF Heads
<1>12. RecordedIsOnDisk' /\ AttachedIsHashed'
  <2>1. part # None => Len(part) \in 0 .. Length
    BY SlotsAndJobs DEF TypeOK
  <2> QED BY <1>1, <1>2, <2>1 DEF RecordedIsOnDisk, AttachedIsHashed, Heads
<1> QED BY <1>3, <1>5, <1>8, <1>9, <1>10, <1>11, <1>12, WithinFrame

\* Syncing changes nothing that the invariant sees.
LEMMA SyncKeeps ==
    ASSUME TusInv, NEW t \in Tasks, Sync(t)
    PROVE  TusInv'
<1> USE DEF TusInv
<1>1. /\ pc[t] = "sync" /\ hash' = [hash EXCEPT ![job[t].slot] = None] /\ Goto(t, "rename")
      /\ UNCHANGED <<upload, table, holder, job, attached, lost, troubles>>
  BY DEF Sync, At
<1>2. job' = [job EXCEPT ![t] = job[t]] /\ job[t] \in Jobs /\ "rename" \in PCs
  BY <1>1 DEF TypeOK, PCs, LockedPCs
<1>3. Moves(t) /\ pc'[t] = "rename" /\ job'[t] = job[t]
  BY <1>1, <1>2, GotoMoves
<1>4. /\ hash' \in [Slots -> Bytes \cup {None}] /\ \A x \in Slots : hash'[x] \in {hash[x], None}
  BY <1>1 DEF TypeOK
<1>5. TaskInv(t)'
  BY <1>1, <1>3 DEF TaskInv, Unborn, SlotLocked, LockedPCs, ForgetsLate, Agrees, Follows, Heads, Fills, Over, Current, upload
<1>6. Active(t) /\ Base(t)' = Base(t) /\ AttachedIsHashed'
  BY <1>1, <1>3 DEF Active, Base, AttachedIsHashed
<1> QED BY <1>1, <1>3, <1>4, <1>5, <1>6, NothingAdded DEF upload

\* A complete file is renamed; unless a byte was lost it holds what the hash has seen.
LEMMA RenamePartKeeps ==
    ASSUME TusInv, NEW t \in Tasks, RenamePart(t)
    PROVE  TusInv'
<1> USE DEF TusInv
<1>1. /\ pc[t] = "rename" /\ UNCHANGED <<row, expired, memory, attached, lost, troubles>> /\ pc[t] \in LockedPCs
  BY DEF RenamePart, At, LockedPCs
<1>2. Over /\ Over' /\ AttachedIsHashed'
  BY <1>1 DEF TaskInv, ForgetsLate, Over, Current, AttachedIsHashed
<1>3. CASE GiveUp(t) /\ UNCHANGED part
  BY <1>1, <1>2, <1>3, GiveUpKeeps
<1>4. CASE part # None /\ part' = None /\ job' = [job EXCEPT ![t].file = part] /\ Goto(t, "deleteRow")
  <2>1. /\ Heads(job[t].seen) /\ Fills(job[t].seen) /\ Len(job[t].seen) = Length
        /\ job[t] \in Jobs /\ job[t].seen \in Bytes /\ part \in Bytes
    BY <1>1, <1>4 DEF TaskInv, Follows, TypeOK, Jobs
  <2>2. Len(part) = Length /\ (lost \/ part = job[t].seen)
    <3>1. Len(part) = Length
      BY <1>4, <2>1, SlotsAndJobs DEF Fills
    <3>2. ASSUME ~lost PROVE Len(part) = Len(job[t].seen) /\ \A i \in 1 .. Len(part) : part[i] = job[t].seen[i]
      BY <1>4, <2>1, <3>1, <3>2 DEF Heads
    <3>3. part \in Seq(Contents) /\ job[t].seen \in Seq(Contents)
      BY <2>1, BytesDef
    <3> QED BY <3>1, <3>2, <3>3, SeqEqual
  <2> DEFINE j == [job[t] EXCEPT !.file = part]
  <2>3. job' = [job EXCEPT ![t] = j] /\ "deleteRow" \in PCs /\ holder' = holder
    BY <1>1, <1>4 DEF TypeOK, PCs, LockedPCs, memory
  <2>4. j \in Jobs /\ j.slot = job[t].slot /\ j.seen = job[t].seen /\ j.file = part /\ j.op = job[t].op
    BY <2>1 DEF Jobs
  <2> HIDE DEF j
  <2>5. Moves(t) /\ pc'[t] = "deleteRow" /\ job'[t] = j
    BY <1>1, <1>4, <2>3, <2>4, GotoMoves
  <2>6. TaskInv(t)'
    BY <1>1, <1>2, <2>1, <2>2, <2>3, <2>4, <2>5 DEF TaskInv, Unborn, SlotLocked, LockedPCs, ForgetsLate, Agrees, Follows
  <2>7. ~Active(t)'
    BY <2>5 DEF Active
  <2> QED BY <1>1, <1>2, <1>4, <2>4, <2>5, <2>6, <2>7, NothingAdded DEF memory, TypeOK
<1> QED BY <1>3, <1>4 DEF RenamePart

\* The row goes once the file was renamed.
LEMMA DeleteUploadKeeps ==
    ASSUME TusInv, NEW t \in Tasks, DeleteUpload(t)
    PROVE  TusInv'
<1> USE DEF TusInv
<1>1. /\ pc[t] = "deleteRow" /\ row' = None /\ Goto(t, "attach")
      /\ UNCHANGED <<expired, part, table, holder, hash, job, attached, lost, troubles>>
  BY DEF DeleteUpload, At, memory
<1>2. job' = [job EXCEPT ![t] = job[t]] /\ job[t] \in Jobs /\ "attach" \in PCs
  BY <1>1 DEF TypeOK, PCs, LockedPCs
<1>3. Moves(t) /\ pc'[t] = "attach" /\ job'[t] = job[t]
  BY <1>1, <1>2, GotoMoves
<1>4. TaskInv(t)'
  BY <1>1, <1>3 DEF TaskInv, Unborn, SlotLocked, LockedPCs, ForgetsLate, Agrees, Follows, Over, Current
<1>5. ~Active(t)' /\ AttachedIsHashed'
  BY <1>1, <1>3 DEF Active, AttachedIsHashed
<1> QED BY <1>1, <1>3, <1>4, <1>5, NothingAdded DEF TypeOK

\* What is attached is the renamed file, with the hash of all that was counted.
LEMMA AttachKeeps ==
    ASSUME TusInv, NEW t \in Tasks, Attach(t)
    PROVE  TusInv'
<1> USE DEF TusInv
<1>1. /\ pc[t] = "attach" /\ GiveUp(t) /\ UNCHANGED <<upload, memory, lost, troubles>> /\ pc[t] \in LockedPCs
  BY DEF Attach, At, LockedPCs
<1>2. Over' /\ Len(job[t].file) = Length /\ (lost \/ job[t].file = job[t].seen)
  BY <1>1 DEF TaskInv, ForgetsLate, Follows, Over, Current, upload
<1>3. attached' \in {attached, [file |-> job[t].file, hash |-> job[t].seen]}
  BY DEF Attach
<1>4. AttachedIsHashed'
  <2>1. CASE attached' = attached
    BY <1>1, <2>1 DEF AttachedIsHashed
  <2>2. CASE attached' = [file |-> job[t].file, hash |-> job[t].seen]
    <3>1. attached'.file = job[t].file /\ attached'.hash = job[t].seen
      BY <2>2
    <3> QED BY <1>1, <1>2, <3>1 DEF AttachedIsHashed
  <2> QED BY <1>3, <2>1, <2>2
<1> QED BY <1>1, <1>2, <1>4, GiveUpKeeps DEF upload

---------------------------------------------------------------------------
\* tus_delete and sweep_expired_uploads

\* A deletion reads the session again under the lock.
LEMMA DeleteAgainKeeps ==
    ASSUME TusInv, SessionIsReadAgain, NEW t \in Tasks, DeleteAgain(t)
    PROVE  TusInv'
<1> USE DEF TusInv
<1>1. pc[t] = "again2" /\ UNCHANGED <<upload, memory, attached, lost>> /\ pc[t] \in LockedPCs
  BY DEF DeleteAgain, At, LockedPCs
<1>2. CASE ~Current /\ NoFault /\ GiveUp(t)
  <2>1. Over' /\ AttachedIsHashed'
    BY <1>1, <1>2 DEF Over, Current, upload, AttachedIsHashed
  <2> QED BY <1>1, <1>2, <2>1, GiveUpKeeps DEF NoFault, upload
<1>3. CASE Current /\ NoFault /\ Goto(t, "removePart") /\ UNCHANGED job
  <2>1. job' = [job EXCEPT ![t] = job[t]] /\ job[t] \in Jobs /\ "removePart" \in PCs /\ holder' = holder
    BY <1>1, <1>3 DEF TypeOK, PCs, LockedPCs, memory
  <2>2. Moves(t) /\ pc'[t] = "removePart" /\ job'[t] = job[t]
    BY <1>3, <2>1, GotoMoves DEF NoFault
  <2>3. TaskInv(t)'
    BY <1>1, <2>1, <2>2 DEF TaskInv, Unborn, SlotLocked, LockedPCs, ForgetsLate, Agrees, Follows, upload
  <2>4. ~Active(t)' /\ AttachedIsHashed'
    BY <1>1, <2>2 DEF Active, AttachedIsHashed
  <2> QED BY <1>1, <2>2, <2>3, <2>4, NothingAdded DEF upload, memory, TypeOK
<1> QED BY <1>1, <1>2, <1>3 DEF DeleteAgain, Fails, SessionIsReadAgain

\* A removed file has no start to agree with.
LEMMA RemovePartKeeps ==
    ASSUME TusInv, NEW t \in Tasks, RemovePart(t)
    PROVE  TusInv'
<1> USE DEF TusInv
<1>1. /\ pc[t] = "removePart" /\ part' \in {part, None} /\ Goto(t, "removeRow") /\ (UNCHANGED troubles \/ Trouble)
      /\ UNCHANGED <<row, expired, table, holder, hash, job, attached, lost>>
  BY DEF RemovePart, At, NoFault, Fails, memory
<1>2. job' = [job EXCEPT ![t] = job[t]] /\ job[t] \in Jobs /\ "removeRow" \in PCs
  BY <1>1 DEF TypeOK, PCs, LockedPCs
<1>3. Moves(t) /\ pc'[t] = "removeRow" /\ job'[t] = job[t]
  BY <1>1, <1>2, GotoMoves
<1>4. TaskInv(t)'
  BY <1>1, <1>3 DEF TaskInv, Unborn, SlotLocked, LockedPCs, ForgetsLate, Agrees, Follows
<1>5. ~Active(t)' /\ AttachedIsHashed'
  BY <1>1, <1>3 DEF Active, AttachedIsHashed
<1> QED BY <1>1, <1>3, <1>4, <1>5, NothingAdded DEF TypeOK

\* Without its row no request can bring another byte.
LEMMA RemoveRowKeeps ==
    ASSUME TusInv, NEW t \in Tasks, RemoveRow(t)
    PROVE  TusInv'
<1> USE DEF TusInv
<1>1. /\ pc[t] = "removeRow" /\ UNCHANGED <<expired, part, table, hash, attached, lost>> /\ (UNCHANGED troubles \/ Trouble)
      /\ pc[t] \in LockedPCs /\ AttachedIsHashed'
  BY DEF RemoveRow, At, NoFault, Fails, LockedPCs, AttachedIsHashed
<1>2. CASE row' = row /\ Return(t)
  <2>1. UNCHANGED <<upload, table, hash, attached, lost>> /\ pc[t] # "idle"
    BY <1>1, <1>2 DEF upload
  <2> QED BY <1>1, <1>2, <2>1, ReturnKeeps
<1>3. CASE row' \in {row, None} /\ GiveUp(t) /\ UNCHANGED holder /\ (row' = None \/ t = Sweeper)
  <2>1. Over'
    BY <1>1, <1>3 DEF TaskInv, ForgetsLate, Over, Current
  <2>2. UNCHANGED <<memory, expired>> /\ part' \in {part, None} /\ row' \in {row, None}
    BY <1>1, <1>3 DEF memory
  <2> QED BY <1>1, <1>3, <2>1, <2>2, GiveUpKeeps
<1>4. CASE row' = None /\ GiveUp(t) /\ UNCHANGED holder
  BY <1>3, <1>4
<1>5. CASE UNCHANGED row /\ t = Sweeper /\ GiveUp(t) /\ UNCHANGED holder
  BY <1>3, <1>5
<1> QED BY <1>2, <1>4, <1>5 DEF RemoveRow

---------------------------------------------------------------------------
\* What the environment does

\* A call that fails leaves what the next request starts from.
LEMMA CallFailsKeeps ==
    ASSUME TusInv, NEW t \in Tasks, CallFails(t)
    PROVE  TusInv'
<1> USE DEF TusInv
<1>1. /\ UNCHANGED <<upload, table, hash, attached, lost>> /\ Trouble /\ pc[t] # "idle"
      /\ AttachedIsHashed'
  BY DEF CallFails, Fails, AttachedIsHashed
<1>2. CASE Return(t)
  BY <1>1, <1>2, ReturnKeeps
<1>3. CASE pc[t] \in {"rename", "deleteRow"} /\ GiveUp(t) /\ UNCHANGED holder
  <2>1. Over' /\ pc[t] \in LockedPCs
    BY <1>1, <1>3 DEF TaskInv, ForgetsLate, Over, Current, upload, LockedPCs
  <2>2. UNCHANGED <<memory, expired>> /\ part' \in {part, None} /\ row' \in {row, None}
    BY <1>1, <1>3 DEF memory, upload
  <2> QED BY <1>1, <1>3, <2>1, <2>2, GiveUpKeeps
<1> QED BY <1>2, <1>3 DEF CallFails, Detached

\* A dropped request unlocks its slot; a hash it had taken out is gone with it.
LEMMA CancelKeeps ==
    ASSUME TusInv, NEW t \in Workers, Cancel(t)
    PROVE  TusInv'
<1>1. t \in Tasks /\ pc[t] # "idle"
  BY DEF Tasks, Cancel
<1> QED BY <1>1, ReturnKeeps DEF Cancel

\* A restart forgets the slots and keeps row and file.
LEMMA CrashKeeps ==
    ASSUME TusInv, Crash
    PROVE  TusInv'
<1> USE DEF TusInv
<1>1. /\ UNCHANGED <<row, expired, part, attached, lost>> /\ table' = None
      /\ \A t \in Tasks : pc'[t] = "idle" /\ job'[t] = NoJob
      /\ \A s \in Slots : hash'[s] = None
  BY DEF Crash, upload
<1>2. TypeOK'
  <2>1. "idle" \in PCs /\ troubles' \in 0 .. MaxTroubles
    BY TroublesBounded DEF PCs, Crash
  <2> QED BY <1>1, <2>1, SlotsAndJobs DEF TypeOK, Crash
<1>3. \A t \in Tasks : TaskInv(t)'
  BY <1>1 DEF TaskInv, Unborn, SlotLocked, LockedPCs, ForgetsLate, Agrees, Follows, NoJob
<1>4. OneSlot' /\ OneShort' /\ HashKept' /\ RecordedIsOnDisk' /\ AttachedIsHashed'
  BY <1>1 DEF OneSlot, OneShort, HashKept, RecordedIsOnDisk, AttachedIsHashed, Active, NoJob
<1> QED BY <1>2, <1>3, <1>4

\* An expiry changes neither row nor file.
LEMMA ExpireKeeps ==
    ASSUME TusInv, Expire
    PROVE  TusInv'
<1> USE DEF TusInv
<1>1. /\ expired' = TRUE /\ UNCHANGED <<row, part, table, holder, hash, pc, job, attached, lost, troubles>>
  BY DEF Expire, memory
<1>2. Over' /\ ~Current'
  BY <1>1 DEF Over, Current
<1>3. TypeOK' /\ OneSlot' /\ OneShort' /\ HashKept' /\ RecordedIsOnDisk' /\ AttachedIsHashed'
  BY <1>1, <1>2 DEF TypeOK, OneSlot, OneShort, HashKept, RecordedIsOnDisk, AttachedIsHashed, Active, Base
<1>4. ASSUME NEW t \in Tasks PROVE TaskInv(t)'
  BY <1>1, <1>2 DEF TaskInv, Unborn, SlotLocked, ForgetsLate, Agrees, Follows, Heads, Fills
<1> QED BY <1>3, <1>4

---------------------------------------------------------------------------
\* The invariant

\* The invariant holds at the start.
LEMMA TusInit ==
    ASSUME Init
    PROVE  TusInv
<1>1. TypeOK
  <2>1. "idle" \in PCs /\ 0 \in 0 .. MaxTroubles /\ NoJob \in Jobs
    BY SlotsAndJobs, UploadAssumption DEF PCs
  <2>2. row \in 0 .. Length \cup {None} /\ expired \in BOOLEAN /\ part \in Bytes \cup {None} /\ table \in Slots \cup {None}
    BY DEF Init
  <2> QED BY <2>1, <2>2 DEF Init, TypeOK
<1>2. \A t \in Tasks : TaskInv(t)
  BY DEF Init, TaskInv, Unborn, SlotLocked, LockedPCs, ForgetsLate, Agrees, Follows, NoJob
<1>3. OneSlot /\ OneShort /\ HashKept /\ RecordedIsOnDisk /\ AttachedIsHashed
  BY DEF Init, OneSlot, OneShort, HashKept, RecordedIsOnDisk, AttachedIsHashed, Active, NoJob
<1> QED BY <1>1, <1>2, <1>3 DEF TusInv

\* A step that changes nothing keeps the invariant.
LEMMA TusStutter ==
    ASSUME TusInv, UNCHANGED vars
    PROVE  TusInv'
<1> USE DEF TusInv, vars, upload, memory
<1>1. TypeOK' /\ OneSlot' /\ OneShort' /\ HashKept' /\ RecordedIsOnDisk' /\ AttachedIsHashed'
  BY DEF TypeOK, OneSlot, OneShort, HashKept, RecordedIsOnDisk, AttachedIsHashed, Active, Base, Over, Current, Usable, Heads
<1>2. ASSUME NEW t \in Tasks PROVE TaskInv(t)'
  BY DEF TaskInv, Unborn, SlotLocked, ForgetsLate, Agrees, Follows, Heads, Fills, Over, Current
<1> QED BY <1>1, <1>2

\* Every step keeps the invariant.
LEMMA TusStep ==
    ASSUME SessionIsReadAgain, TusInv, [Next]_vars
    PROVE  TusInv'
<1>1. ASSUME NEW t \in Tasks, Step(t) PROVE TusInv'
  BY <1>1, CreateUploadKeeps, GetSlotKeeps, TryLockKeeps, ForgetKeeps, ReleaseKeeps, SessionAgainKeeps,
     CheckSpaceKeeps, ResumeHashKeeps, TruncateKeeps, AppendByteKeeps, EndOfBodyKeeps, RecordKeeps, SyncKeeps,
     RenamePartKeeps, DeleteUploadKeeps, AttachKeeps, DeleteAgainKeeps, RemovePartKeeps, RemoveRowKeeps,
     CallFailsKeeps, Zenon DEF Step
<1>2. ASSUME NEW t \in Workers,
             \/ CreatePart(t)
             \/ \E offset \in 0 .. Length, c \in Contents : StartPatch(t, offset, c)
             \/ StartDelete(t)
             \/ Cancel(t)
      PROVE  TusInv'
  BY <1>2, CreatePartKeeps, StartKeeps, CancelKeeps, Zenon
<1>3. CASE StartSweep
  BY <1>3, StartKeeps, Zenon
<1> QED BY <1>1, <1>2, <1>3, CrashKeeps, ExpireKeeps, TusStutter, Zenon DEF Next

---------------------------------------------------------------------------
\* What was recorded stays

BytesStay ==
    (row # None /\ row' # None /\ part # None /\ part' # None) =>
       /\ row' >= row
       /\ \A i \in (1 .. row) \cap DOMAIN part : i \in DOMAIN part' /\ part'[i] = part[i]

\* Recorded bytes stay where neither row nor file changes or both go.
LEMMA SameOrGone ==
    ASSUME TusInv, row = None \/ row' \in {row, None}, part = None \/ part' \in {part, None}
    PROVE  BytesStay
BY UploadAssumption DEF BytesStay, TusInv, TypeOK

\* A step of the writer leaves the first bytes, as many of those the row records as are
\* there, as they are.
LEMMA HeadStays ==
    ASSUME TusInv, NEW t \in Tasks, UNCHANGED row, row \in {None, job[t].received},
           part' \in Bytes \cup {None},
           part # None /\ part' # None =>
              \A i \in 1 .. job[t].received : i \in 1 .. Len(part) => i \in 1 .. Len(part') /\ part'[i] = part[i]
    PROVE  BytesStay
<1>1. SUFFICES ASSUME row # None, part # None, part' # None
               PROVE  /\ row' >= row
                      /\ \A i \in (1 .. row) \cap DOMAIN part : i \in DOMAIN part' /\ part'[i] = part[i]
  BY DEF BytesStay
<1>2. row' = row /\ row = job[t].received /\ row \in Nat
  BY <1>1, UploadAssumption DEF TusInv, TypeOK
<1>3. part \in Seq(Contents) /\ part' \in Seq(Contents)
  BY <1>1, BytesDef DEF TusInv, TypeOK
<1>4. DOMAIN part' = 1 .. Len(part') /\ DOMAIN part = 1 .. Len(part)
  BY <1>3, LenProperties
<1> QED BY <1>1, <1>2, <1>4

\* A writing request changes nothing below the recorded offset.
LEMMA WriterKeepsBytes ==
    ASSUME TusInv, NEW t \in Tasks, Truncate(t) \/ AppendByte(t) \/ EndOfBody(t)
    PROVE  BytesStay
<1> USE DEF TusInv
<1> DEFINE n == job[t].received
           seen == job[t].seen
<1>1. UNCHANGED row /\ pc[t] \in {"truncate", "append"}
  BY DEF Truncate, AppendByte, EndOfBody, BodyEnds, At
<1>2. /\ row \in {None, n} /\ n \in 0 .. Length /\ seen \in Bytes /\ Len(seen) \in 0 .. Length
      /\ Len(seen) >= n /\ (pc[t] = "truncate" => Len(seen) = n)
  BY <1>1, SlotsAndJobs DEF TaskInv, Agrees, Follows, TypeOK, Jobs
<1>3. CASE part' = part
  BY <1>1, <1>3, SameOrGone
<1>4. CASE pc[t] = "truncate" /\ part # None /\ part' = SetLen(n)
  <2>1. part \in Bytes
    BY <1>4 DEF TypeOK
  <2>2. part' \in Bytes /\ Len(part') = n /\ \A i \in 1 .. n : i \in 1 .. Len(part) => part'[i] = part[i]
    BY <1>2, <1>4, <2>1, SetLenBytes
  <2> QED BY <1>1, <1>2, <2>2, HeadStays
<1>5. CASE pc[t] = "append" /\ Len(seen) < Length /\ part' = Written(t, job[t].content)
  <2>1. /\ part' \in Bytes \cup {None}
        /\ part' # None => part # None /\ Len(part') >= Len(part)
        /\ part' # None => \A i \in 1 .. Len(seen) : i \in 1 .. Len(part) => part'[i] = part[i]
    BY <1>5, WriteKeepsHead
  <2>2. ASSUME part # None, part' # None
        PROVE  \A i \in 1 .. n : i \in 1 .. Len(part) => i \in 1 .. Len(part') /\ part'[i] = part[i]
    <3>1. Len(part) \in 0 .. Length /\ Len(part') \in 0 .. Length
      BY <2>1, <2>2, SlotsAndJobs DEF TypeOK
    <3> QED BY <1>2, <2>1, <2>2, <3>1
  <2> QED BY <1>1, <1>2, <2>1, <2>2, HeadStays
<1> QED BY <1>3, <1>4, <1>5 DEF Truncate, AppendByte, EndOfBody, BodyEnds, At
\* Recording moves the offset up, never down.
LEMMA RecordKeepsBytes ==
    ASSUME TusInv, NEW t \in Tasks, Record(t)
    PROVE  BytesStay
<1>1. /\ pc[t] = "record" /\ row' = (IF row = None THEN None ELSE Len(job[t].seen)) /\ part' = part
  BY DEF Record, At
<1>2. row \in {None, job[t].received} /\ Len(job[t].seen) >= job[t].received
  BY <1>1 DEF TusInv, TaskInv, Agrees, Follows
<1> QED BY <1>1, <1>2 DEF BytesStay

\* No step takes a recorded byte away.
LEMMA BytesStayStep ==
    ASSUME TusInv, [Next]_vars
    PROVE  BytesStay
<1>1. ASSUME NEW t \in Tasks, Step(t) PROVE BytesStay
  <2>1. CASE CreateUpload(t)
    <3>1. row = None /\ part' = part
      BY <2>1 DEF TusInv, TaskInv, Unborn, CreateUpload, At
    <3> QED BY <3>1, SameOrGone
  <2>2. CASE GetSlot(t) \/ TryLock(t) \/ Forget(t) \/ Release(t) \/ SessionAgain(t) \/ CheckSpace(t) \/ ResumeHash(t)
             \/ Sync(t) \/ Attach(t) \/ DeleteAgain(t) \/ CallFails(t)
    <3>1. UNCHANGED upload
      BY <2>2 DEF GetSlot, TryLock, Forget, Release, SessionAgain, CheckSpace, ResumeHash, Sync, Attach, DeleteAgain, CallFails
    <3> QED BY <3>1, SameOrGone DEF upload
  <2>3. CASE Truncate(t) \/ AppendByte(t) \/ EndOfBody(t)
    BY <2>3, WriterKeepsBytes
  <2>4. CASE Record(t)
    BY <2>4, RecordKeepsBytes
  <2>5. CASE RenamePart(t) \/ DeleteUpload(t) \/ RemovePart(t) \/ RemoveRow(t)
    <3>1. row' \in {row, None} /\ part' \in {part, None}
      BY <2>5 DEF RenamePart, DeleteUpload, RemovePart, RemoveRow
    <3> QED BY <3>1, SameOrGone
  <2> QED BY <1>1, <2>1, <2>2, <2>3, <2>4, <2>5 DEF Step
<1>2. ASSUME NEW t \in Workers, CreatePart(t) PROVE BytesStay
  BY <1>2, SameOrGone DEF CreatePart
<1>3. ASSUME UNCHANGED <<row, part>> PROVE BytesStay
  BY <1>3, SameOrGone
<1>4. ASSUME NEW t \in Workers,
             (\E offset \in 0 .. Length, c \in Contents : StartPatch(t, offset, c)) \/ StartDelete(t) \/ Cancel(t)
      PROVE  BytesStay
  BY <1>3, <1>4 DEF StartPatch, StartDelete, Cancel, upload
<1>5. CASE StartSweep \/ Crash \/ Expire \/ UNCHANGED vars
  BY <1>3, <1>5 DEF StartSweep, Crash, Expire, vars, upload
<1> QED BY <1>1, <1>2, <1>4, <1>5 DEF Next

---------------------------------------------------------------------------
\* What an upload promises

\* The locks, the one slot and the running hash fit together in every reachable state
\* of an upload, whatever its requests, sweeps, failures and restarts; once a counted
\* byte was lost, the locks and the lengths still do.
THEOREM UploadInvariant == SessionIsReadAgain => (Spec => []TusInv)
<1> SUFFICES ASSUME SessionIsReadAgain PROVE Spec => []TusInv
  OBVIOUS
<1>1. Init => TusInv
  BY TusInit
<1>2. TusInv /\ [Next]_vars => TusInv'
  BY TusStep
<1> QED BY <1>1, <1>2, PTL DEF Spec

\* A file attached from an upload is complete and, unless a buffered write failed after
\* append_hashed had counted it, was stored under the hash of its own bytes: tus_patch's
\* resumed hash then covers nothing but what finish() renames.
THEOREM AttachedFilesAreHashed == SessionIsReadAgain => (Spec => []AttachedIsHashed)
<1>1. TusInv => AttachedIsHashed
  BY DEF TusInv
<1> QED BY <1>1, UploadInvariant, PTL

\* What set_upload_received recorded is on disk, unless a buffered write failed after it
\* was counted, and no later request, retry, dropped request or restart changes or cuts
\* off a recorded byte that is there.
THEOREM RecordedBytesAreKept == SessionIsReadAgain => (Spec => UploadsKeepBytes)
<1>1. TusInv => TypeOK /\ RecordedIsOnDisk
  BY DEF TusInv
<1>2. TusInv /\ [Next]_vars => [BytesStay]_vars
  BY BytesStayStep
<1> QED BY <1>1, <1>2, UploadInvariant, PTL DEF Spec, UploadsKeepBytes, RecordedBytesStay, BytesStay
=============================================================================
