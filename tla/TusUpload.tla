---------------------------- MODULE TusUpload ----------------------------
(***************************************************************************)
(* One resumable (tus) upload of an attached file: its row in `uploads`,   *)
(* its partial file, and the slot in memory that makes one request at a    *)
(* time its writer and carries the running SHA-256 from one request to the *)
(* next.                                                                   *)
(*                                                                         *)
(* The offset is known three times: in the row, as the length of the file, *)
(* and as the number of bytes the hash has seen.  Requests may be dropped  *)
(* by their client at any await, calls may fail, the process may restart.  *)
(* An upload's id is a fresh UUID, so its life happens once.               *)
(***************************************************************************)
EXTENDS Naturals, Sequences, FiniteSets, SequencesExt

CONSTANTS
    Workers,    \* request tasks
    Sweeper,    \* the task that drops expired uploads every quarter of an hour
    Contents,   \* the values of a byte; 0, which a hole in a file reads as, is one
    Length,     \* Upload-Length
    Faulty,     \* the steps whose call may fail
    MaxTroubles,  \* failed calls, dropped requests and restarts in one behaviour
    None

Tasks == Workers \cup {Sweeper}

\* As many slots as can be alive at once: one per task, and the one in SLOTS.
Slots == 0 .. Cardinality(Tasks)

Bytes == BoundedSeq(Contents, Length)

ASSUME UploadAssumption ==
    /\ IsFiniteSet(Tasks) /\ Sweeper \notin Workers
    /\ Length \in Nat /\ 0 \in Contents
    /\ None \notin Slots /\ None \notin 0 .. Length /\ None \notin Bytes /\ None \notin Tasks
    /\ MaxTroubles \in Nat

VARIABLES
    row,       \* the uploads row: the bytes received, or None
    expired,   \* whether the row's expiry has passed
    part,      \* {id}.part: the bytes in it, or None
    table,     \* SLOTS: the slot registered for the upload, or None
    holder,    \* who has locked each slot
    hash,      \* the bytes the hash kept in each slot has seen, or None
    pc, job,   \* where each task is, and its locals
    attached,  \* what was attached: the file, and the bytes its hash covers
    lost,      \* history: a byte that was counted never reached the file
    troubles   \* failed calls, dropped requests and restarts so far

upload == <<row, expired, part>>
memory == <<table, holder, hash>>
vars == <<upload, memory, pc, job, attached, lost, troubles>>

NoJob == [op |-> "none", slot |-> None, offset |-> 0, content |-> None,
          received |-> 0, seen |-> <<>>, clean |-> TRUE,
          file |-> None]

Jobs == [op : {"none", "patch", "delete", "sweep"}, slot : Slots \cup {None}, offset : 0 .. Length,
         content : Contents \cup {None}, received : 0 .. Length, seen : Bytes,
         clean : BOOLEAN, file : Bytes \cup {None}]

\* Steps at which a request holds its slot.
LockedPCs == {"again", "space", "resume", "truncate", "append",
              "record", "sync", "rename", "deleteRow", "attach",
              "again2", "removePart", "removeRow", "forget", "release"}

\* The part of them that finish() runs in a task of its own: a client that
\* goes away cannot stop it.
Detached == {"rename", "deleteRow", "attach", "forget", "release"}

PCs == LockedPCs \cup {"idle", "insert", "slot", "tryLock"}

TypeOK ==
    /\ row \in 0 .. Length \cup {None}
    /\ expired \in BOOLEAN
    /\ part \in Bytes \cup {None}
    /\ table \in Slots \cup {None}
    /\ holder \in [Slots -> Tasks \cup {None}]
    /\ hash \in [Slots -> Bytes \cup {None}]
    /\ pc \in [Tasks -> PCs]
    /\ job \in [Tasks -> Jobs]
    /\ lost \in BOOLEAN
    /\ troubles \in 0 .. MaxTroubles

Init ==
    /\ row = None /\ expired = FALSE /\ part = None
    /\ table = None
    /\ holder = [s \in Slots |-> None]
    /\ hash = [s \in Slots |-> None]
    /\ pc = [t \in Tasks |-> "idle"]
    /\ job = [t \in Tasks |-> NoJob]
    /\ attached = None /\ lost = FALSE
    /\ troubles = 0

---------------------------------------------------------------------------
(* Moving between steps                                                    *)

At(t, p) == pc[t] = p

Goto(t, p) == pc' = [pc EXCEPT ![t] = p]

\* The handler returns: its guard and its slot handle are dropped.
Return(t) ==
    /\ Goto(t, "idle")
    /\ job' = [job EXCEPT ![t] = NoJob]
    /\ holder' = [s \in Slots |-> IF holder[s] = t THEN None ELSE holder[s]]

\* On to forget_slot, with the lock still held.
GiveUp(t) ==
    /\ Goto(t, "forget")
    /\ job' = [job EXCEPT ![t] = [NoJob EXCEPT !.slot = job[t].slot]]

NoFault == UNCHANGED troubles

Trouble == troubles < MaxTroubles /\ troubles' = troubles + 1

Fails(t) ==
    /\ pc[t] \in Faulty
    /\ Trouble

\* session(): the row exists and has not expired.
Current == row # None /\ ~expired

---------------------------------------------------------------------------
(* tus_create                                                              *)

\* The partial file is made first...
CreatePart(t) ==
    /\ At(t, "idle") /\ t \in Workers
    /\ row = None /\ part = None /\ table = None /\ attached = None /\ ~expired
    /\ \A u \in Tasks : At(u, "idle")
    /\ part' = <<>>
    /\ Goto(t, "insert")
    /\ UNCHANGED <<row, expired, memory, job, attached, lost, troubles>>

\* ... and then the row, from when on the upload can be found.
CreateUpload(t) ==
    /\ At(t, "insert")
    /\ row' = 0
    /\ Return(t)
    /\ UNCHANGED <<expired, part, table, hash, attached, lost, troubles>>

---------------------------------------------------------------------------
(* Getting at an upload: PATCH, DELETE and the sweep                       *)

StartPatch(t, offset, c) ==
    /\ At(t, "idle") /\ Current
    /\ job' = [job EXCEPT ![t] = [NoJob EXCEPT !.op = "patch",
                                   !.offset = offset, !.content = c]]
    /\ Goto(t, "slot")
    /\ UNCHANGED <<upload, memory, attached, lost, troubles>>

StartDelete(t) ==
    /\ At(t, "idle") /\ Current
    /\ job' = [job EXCEPT ![t] = [NoJob EXCEPT !.op = "delete"]]
    /\ Goto(t, "slot")
    /\ UNCHANGED <<upload, memory, attached, lost, troubles>>

\* expired_uploads lists it.
StartSweep ==
    /\ At(Sweeper, "idle") /\ row # None /\ expired
    /\ job' = [job EXCEPT ![Sweeper] = [NoJob EXCEPT !.op = "sweep"]]
    /\ Goto(Sweeper, "slot")
    /\ UNCHANGED <<upload, memory, attached, lost, troubles>>

Unused(s) == s # table /\ \A t \in Tasks : job[t].slot # s

FreshSlot == CHOOSE s \in Slots : Unused(s)

\* slot(): the registered slot, or a new one.
GetSlot(t) ==
    LET s == IF table = None THEN FreshSlot ELSE table IN
    /\ At(t, "slot")
    /\ table' = s
    /\ hash' = IF table = None THEN [hash EXCEPT ![s] = None] ELSE hash
    /\ job' = [job EXCEPT ![t].slot = s]
    /\ Goto(t, "tryLock")
    /\ UNCHANGED <<upload, holder, attached, lost, troubles>>

\* Mutant: a second request is let in.
TryLockAlways(t) ==
    LET s == job[t].slot IN
    /\ At(t, "tryLock")
    /\ holder' = [holder EXCEPT ![s] = t]
    /\ Goto(t, CASE job[t].op = "patch"  -> "again"
                 [] job[t].op = "delete" -> "again2"
                 [] OTHER                -> "removePart")
    /\ UNCHANGED <<upload, table, hash, job, attached, lost, troubles>>

\* try_lock: a second request is turned away, not queued.
TryLock(t) ==
    LET s == job[t].slot IN
    /\ At(t, "tryLock")
    /\ IF holder[s] = None
       THEN /\ holder' = [holder EXCEPT ![s] = t]
            /\ Goto(t, CASE job[t].op = "patch"  -> "again"
                         [] job[t].op = "delete" -> "again2"
                         [] OTHER                -> "removePart")
            /\ UNCHANGED job
       ELSE Return(t)
    /\ UNCHANGED <<upload, table, hash, attached, lost, troubles>>

\* forget_slot, while the lock is still held.
Forget(t) ==
    /\ At(t, "forget")
    /\ table' = None
    /\ Goto(t, "release")
    /\ UNCHANGED <<upload, holder, hash, job, attached, lost, troubles>>

Release(t) ==
    /\ At(t, "release")
    /\ Return(t)
    /\ UNCHANGED <<upload, table, hash, attached, lost, troubles>>

---------------------------------------------------------------------------
(* tus_patch                                                               *)

\* The session is read again under the lock.  If it is gone, has expired, or
\* cannot be read, the slot is forgotten.
SessionAgain(t) ==
    /\ At(t, "again")
    /\ \/ /\ Current /\ NoFault
          /\ IF job[t].offset = row
             THEN /\ job' = [job EXCEPT ![t].received = row, ![t].offset = 0]
                  /\ Goto(t, "space")
                  /\ UNCHANGED holder
             ELSE Return(t)
       \/ /\ (~Current /\ NoFault) \/ Fails(t)
          /\ GiveUp(t)
          /\ UNCHANGED holder
    /\ UNCHANGED <<upload, table, hash, attached, lost>>

\* The rest is promised by the request instead of the row (SpaceGuard), and
\* admitted or refused.
CheckSpace(t) ==
    /\ At(t, "space")
    /\ \/ Goto(t, "resume") /\ UNCHANGED <<holder, job>>
       \/ Return(t)
    /\ UNCHANGED <<upload, table, hash, attached, lost, troubles>>

Prefix(n) == SubSeq(part, 1, n)

\* resume_hash: the kept hash if it has seen exactly what the row records,
\* or else one of the partial file; it is taken out of the slot meanwhile.
ResumeHash(t) ==
    LET s == job[t].slot
        kept == hash[s] # None /\ Len(hash[s]) = job[t].received
        readable == part # None /\ Len(part) >= job[t].received
    IN
    /\ At(t, "resume")
    /\ IF kept \/ readable
       THEN /\ job' = [job EXCEPT ![t].seen =
                          IF kept THEN hash[s] ELSE Prefix(job[t].received)]
            /\ hash' = [hash EXCEPT ![s] = None]
            /\ Goto(t, "truncate")
            /\ UNCHANGED holder
       ELSE Return(t) /\ UNCHANGED hash
    /\ UNCHANGED <<upload, table, attached, lost, troubles>>

\* Mutant: the file is opened with truncation.
TruncateAll(t) ==
    /\ At(t, "truncate")
    /\ IF part # None
       THEN /\ part' = <<>>
            /\ Goto(t, "append")
            /\ UNCHANGED <<holder, job>>
       ELSE Return(t) /\ UNCHANGED part
    /\ UNCHANGED <<row, expired, table, hash, attached, lost, troubles>>

\* set_len cuts the file, or fills it up with zeros.
SetLen(n) == [i \in 1 .. n |-> IF i \in DOMAIN part THEN part[i] ELSE 0]

\* The file is opened (never created) and set to the recorded length.
Truncate(t) ==
    /\ At(t, "truncate")
    /\ IF part # None
       THEN /\ part' = SetLen(job[t].received)
            /\ Goto(t, "append")
            /\ UNCHANGED <<holder, job>>
       ELSE Return(t) /\ UNCHANGED part
    /\ UNCHANGED <<row, expired, table, hash, attached, lost, troubles>>

\* One byte at the request's own position in the file, if it still has its
\* name.
Written(t, c) ==
    LET i == Len(job[t].seen) + 1
        n == IF i > Len(part) THEN i ELSE Len(part)
    IN
    IF part = None THEN None
    ELSE [k \in 1 .. n |-> CASE k = i                     -> c
                             [] k \in DOMAIN part \ {i} -> part[k]
                             [] OTHER                    -> 0]

\* append_hashed: a chunk is written and then counted and hashed; one that
\* would go past Upload-Length is refused before it is written.
AppendByte(t) ==
    /\ At(t, "append") /\ Len(job[t].seen) < Length
    /\ part' = Written(t, job[t].content)
    /\ job' = [job EXCEPT ![t].seen = Append(@, job[t].content)]
    /\ UNCHANGED <<row, expired, memory, pc, attached, lost, troubles>>

BodyEnds(t, seen, clean) ==
    /\ job' = [job EXCEPT ![t].seen = seen, ![t].clean = clean, ![t].content = None]
    /\ hash' = [hash EXCEPT ![job[t].slot] = seen]
    /\ Goto(t, "record")
    /\ UNCHANGED <<row, expired, table, holder, attached>>

\* The body ends, well or badly, and what was counted is put back into the
\* slot.  write_all hands a chunk to the file's buffer: a write that fails at
\* once may leave a byte nobody counted, and one that fails later, as the next
\* chunk or the flush finds out, has been counted and hashed and is missing.
EndOfBody(t) ==
    LET seen == job[t].seen IN
    /\ At(t, "append")
    /\ \/ \E clean \in BOOLEAN : BodyEnds(t, seen, clean)
          /\ UNCHANGED <<part, lost>> /\ NoFault
       \/ /\ Fails(t) /\ Len(seen) < Length
          /\ BodyEnds(t, seen, FALSE)
          /\ part' = Written(t, job[t].content) /\ UNCHANGED lost
       \/ /\ Fails(t) /\ Len(seen) < Length
          /\ BodyEnds(t, Append(seen, job[t].content), FALSE)
          /\ lost' = TRUE /\ UNCHANGED part

\* set_upload_received: what arrived counts, and the row promises the rest
\* again.  The request that brought the last byte goes on.
Record(t) ==
    /\ At(t, "record")
    /\ row' = IF row = None THEN None ELSE Len(job[t].seen)
    /\ IF job[t].clean /\ Len(job[t].seen) = Length
       THEN Goto(t, "sync") /\ UNCHANGED <<holder, job>>
       ELSE Return(t)
    /\ UNCHANGED <<expired, part, table, hash, attached, lost, troubles>>

\* The file is synced and the hash taken; finish() runs in a task of its own.
Sync(t) ==
    /\ At(t, "sync")
    /\ hash' = [hash EXCEPT ![job[t].slot] = None]
    /\ Goto(t, "rename")
    /\ UNCHANGED <<upload, table, holder, job, attached, lost, troubles>>

\* The bytes leave the upload's name...
RenamePart(t) ==
    /\ At(t, "rename")
    /\ IF part # None
       THEN /\ part' = None
            /\ job' = [job EXCEPT ![t].file = part]
            /\ Goto(t, "deleteRow")
       ELSE GiveUp(t) /\ UNCHANGED part
    /\ UNCHANGED <<row, expired, memory, attached, lost, troubles>>

\* ... then the row goes...
DeleteUpload(t) ==
    /\ At(t, "deleteRow")
    /\ row' = None
    /\ Goto(t, "attach")
    /\ UNCHANGED <<expired, part, memory, job, attached, lost, troubles>>

\* ... and the file is attached under its hash, unless the checksum the
\* client announced or the version's state forbids it.
Attach(t) ==
    /\ At(t, "attach")
    /\ \/ attached' = [file |-> job[t].file, hash |-> job[t].seen]
       \/ UNCHANGED attached
    /\ GiveUp(t)
    /\ UNCHANGED <<upload, memory, lost, troubles>>

---------------------------------------------------------------------------
(* tus_delete and sweep_expired_uploads                                    *)

\* tus_delete reads the session again too; the sweep does not.
DeleteAgain(t) ==
    /\ At(t, "again2")
    /\ \/ Current /\ NoFault /\ Goto(t, "removePart") /\ UNCHANGED job
       \/ ((~Current /\ NoFault) \/ Fails(t)) /\ GiveUp(t)
    /\ UNCHANGED <<upload, memory, attached, lost>>

\* remove_file, whose error is ignored.
RemovePart(t) ==
    /\ At(t, "removePart")
    /\ \/ part' = None /\ NoFault
       \/ UNCHANGED part /\ Fails(t)
    /\ Goto(t, "removeRow")
    /\ UNCHANGED <<row, expired, memory, job, attached, lost>>

\* Mutant: the row of an expired upload stays.
RemoveRowNot(t) ==
    /\ At(t, "removeRow") /\ NoFault
    /\ GiveUp(t)
    /\ UNCHANGED <<upload, memory, attached, lost>>

\* delete_upload; when it fails, DELETE returns the error and the sweep
\* forgets the slot all the same.
RemoveRow(t) ==
    /\ At(t, "removeRow")
    /\ \/ row' = None /\ NoFault /\ GiveUp(t) /\ UNCHANGED holder
       \/ /\ Fails(t) /\ UNCHANGED row
          /\ IF t = Sweeper THEN GiveUp(t) /\ UNCHANGED holder ELSE Return(t)
    /\ UNCHANGED <<expired, part, table, hash, attached, lost>>

---------------------------------------------------------------------------
(* What the environment does                                               *)

\* A call fails and the handler returns the error; finish() forgets the slot
\* on its way out.
CallFails(t) ==
    /\ pc[t] \in {"insert", "space", "resume", "truncate", "record",
                   "sync", "rename", "deleteRow"}
    /\ Fails(t)
    /\ IF pc[t] \in Detached THEN GiveUp(t) /\ UNCHANGED holder ELSE Return(t)
    /\ UNCHANGED <<upload, table, hash, attached, lost>>

\* The client goes away and the request is dropped where it waits.  A write
\* still in the file's buffer lands before anybody opens the file again.
Cancel(t) ==
    /\ t \in Workers /\ pc[t] \notin Detached \cup {"idle", "slot", "tryLock"}
    /\ Trouble
    /\ Return(t)
    /\ UNCHANGED <<upload, table, hash, attached, lost>>

\* Restart: the slots and tasks are gone, the row and the partial file stay.
Crash ==
    /\ Trouble
    /\ \E t \in Tasks : ~At(t, "idle")
    /\ table' = None
    /\ holder' = [s \in Slots |-> None]
    /\ hash' = [s \in Slots |-> None]
    /\ pc' = [t \in Tasks |-> "idle"]
    /\ job' = [t \in Tasks |-> NoJob]
    /\ UNCHANGED <<upload, attached, lost>>

\* upload_expiry_hours pass.
Expire ==
    /\ row # None /\ ~expired
    /\ expired' = TRUE
    /\ UNCHANGED <<row, part, memory, pc, job, attached, lost, troubles>>

---------------------------------------------------------------------------

Step(t) ==
    \/ CreateUpload(t)
    \/ GetSlot(t) \/ TryLock(t) \/ Forget(t) \/ Release(t)
    \/ SessionAgain(t) \/ CheckSpace(t) \/ ResumeHash(t)
    \/ Truncate(t) \/ AppendByte(t) \/ EndOfBody(t) \/ Record(t)
    \/ Sync(t) \/ RenamePart(t) \/ DeleteUpload(t) \/ Attach(t)
    \/ DeleteAgain(t) \/ RemovePart(t) \/ RemoveRow(t)
    \/ CallFails(t)

Next ==
    \/ \E t \in Workers :
          \/ CreatePart(t)
          \/ \E offset \in 0 .. Length, c \in Contents : StartPatch(t, offset, c)
          \/ StartDelete(t)
          \/ Cancel(t)
    \/ StartSweep
    \/ \E t \in Tasks : Step(t)
    \/ Crash
    \/ Expire

Spec == Init /\ [][Next]_vars

\* A task that was started runs on: a body that stops arriving ends with the
\* idle timeout.  The sweep comes round every quarter of an hour.
Fairness ==
    /\ \A t \in Tasks : WF_vars(Step(t))
    /\ WF_vars(StartSweep)

FairSpec == Spec /\ Fairness

---------------------------------------------------------------------------
(* What an upload promises                                                 *)

\* The steps at which a request relies on being the only one.
Writing(t) == pc[t] \in {"resume", "truncate", "append", "record", "sync", "rename"}

\* Whatever was resumed, dropped, retried, failed or restarted in between, an
\* attached file is complete, and, unless a byte was lost that append_hashed
\* had counted, its hash is the hash of its bytes: the blob store and every
\* download URL rely on it.
AttachedIsHashed ==
    attached # None => /\ Len(attached.file) = Length
                       /\ lost \/ attached.file = attached.hash

\* What the row records has arrived: the partial file holds at least that
\* much, so no upload gets stuck with "shorter than recorded".
RecordedIsOnDisk ==
    (row # None /\ part # None /\ ~lost) => Len(part) >= row

\* What a client was told has arrived is never changed or cut off again.
RecordedBytesStay ==
    [][(row # None /\ row' # None /\ part # None /\ part' # None) =>
          /\ row' >= row
          /\ \A i \in (1 .. row) \cap DOMAIN part :
                i \in DOMAIN part' /\ part'[i] = part[i]]_vars

\* An expired upload goes away, whatever was writing it when it expired.
ExpiredGoes == (row # None /\ expired) ~> row = None

---------------------------------------------------------------------------
(* What comments say and the code does not keep                            *)

\* docs/api.md: "The bytes are stored once, under their SHA-256".
StoredUnderTheirHash == attached # None => attached.file = attached.hash

\* hosted.rs on the slot: "two requests never append to one file at once".
OneWriter == \A t, u \in Tasks : Writing(t) /\ Writing(u) => t = u

\* Bytes a session recorded are on disk under it, unless a buffered write lost
\* one, and those on disk stay as they are, through retries, crashes and
\* requests that were dropped (tus_patch, append_hashed).
UploadsKeepBytes == [](TypeOK /\ RecordedIsOnDisk) /\ RecordedBytesStay
=============================================================================
