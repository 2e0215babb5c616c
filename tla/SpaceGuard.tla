---------------------------- MODULE SpaceGuard ----------------------------
(***************************************************************************)
(* The admission of writes to the staging volume: the bytes free on it,    *)
(* the counter of bytes promised to writes in progress, the rows of        *)
(* resumable uploads that promise what they have still to receive, and the *)
(* writer that measures again while a body goes in.                        *)
(*                                                                         *)
(* A check reads three things one after the other: the free space, the     *)
(* rows, the counter.  Meanwhile other writes move bytes from the counter  *)
(* to the disk, and other requests move promises between counter and rows. *)
(***************************************************************************)
EXTENDS Integers, FiniteSets, FiniteSetsExt

CONSTANTS
    Writers,     \* request tasks
    Uploads,     \* resumable uploads, each created at most once
    Capacity,    \* bytes free at the start
    Reserve,     \* min_free_disk_bytes
    Interval,    \* RESERVE_CHECK_INTERVAL
    Length,      \* Upload-Length of the resumable uploads
    Sizes,       \* declared sizes of pushes
    MaxBody,     \* the size limit of a body that declares none
    Faults,      \* whether statvfs and the database may fail
    Kinds,       \* the kinds of write the instance exercises
    None

ASSUME SpaceAssumption ==
    /\ IsFiniteSet(Writers) /\ IsFiniteSet(Uploads)
    /\ Capacity \in Nat /\ Reserve \in Nat \ {0} /\ Capacity >= Reserve
    /\ Interval \in Nat \ {0} /\ Length \in Nat /\ MaxBody \in Nat
    /\ Sizes \subseteq Nat
    /\ Faults \in BOOLEAN
    /\ Kinds \subseteq {"push", "chunked", "create", "patch"}

VARIABLES
    free,      \* bytes free on the volume
    promised,  \* Reservations::promised
    held,      \* what each writer's Reservation holds
    rows,      \* the uploads' rows
    pc, job,   \* where each writer is, and its locals
    moved,     \* history: who measured before bytes moved, see Moved
    blind      \* history: a measurement failed

history == <<moved, blind>>
vars == <<free, promised, held, rows, pc, job, history>>

\* rest: Upload-Length - received.  hold: held_since is set and recent.  junk:
\* bytes in the partial file past what was received.
Rows == [is : {"unborn", "open", "gone"},
         rest : 0 .. Length, hold : BOOLEAN, junk : 0 .. Length]

Jobs == [kind : {"none", "push", "chunked", "create", "patch"}, upload : Uploads \cup {None},
         size : Nat, left : Nat, before : BOOLEAN, available : Nat, resumable : Nat,
         unchecked : 0 .. Interval, written : Nat]

Job(kind, upload, size, left, before) ==
    [kind |-> kind, upload |-> upload, size |-> size, left |-> left, before |-> before,
     available |-> 0, resumable |-> 0, unchecked |-> 0, written |-> 0]

NoJob == Job("none", None, 0, 0, FALSE)

PCs == {"idle", "giveUp", "measure", "rows", "decide", "refuse", "open", "write",
        "measuring", "insert", "record", "drop"}

NoRow == [is |-> "unborn", rest |-> 0, hold |-> FALSE, junk |-> 0]

Open == {u \in Uploads : rows[u].is = "open"}

\* What f promises for the members of S, unit by unit and all together.
Units(f, S) == UNION {{x} \X (1 .. f[x]) : x \in S}
Sum(f, S) == Cardinality(Units(f, S))

TypeOK ==
    /\ free \in Nat
    /\ promised \in Nat
    /\ held \in [Writers -> Nat]
    /\ rows \in [Uploads -> Rows]
    /\ pc \in [Writers -> PCs]
    /\ job \in [Writers -> Jobs]
    /\ moved \subseteq Writers /\ blind \in BOOLEAN

Init ==
    /\ free = Capacity
    /\ promised = 0
    /\ held = [w \in Writers |-> 0]
    /\ rows = [u \in Uploads |-> NoRow]
    /\ pc = [w \in Writers |-> "idle"]
    /\ job = [w \in Writers |-> NoJob]
    /\ moved = {} /\ blind = FALSE

---------------------------------------------------------------------------

At(w, p) == pc[w] = p
Goto(w, p) == pc' = [pc EXCEPT ![w] = p]

\* Reservations::reserve
ReserveBytes(w, n) ==
    /\ promised' = promised + n
    /\ held' = [held EXCEPT ![w] = n]

\* Mutant: what was reserved is released, not what is still held of it.
ReleaseAll(w) ==
    /\ promised' = promised - job[w].size
    /\ held' = [held EXCEPT ![w] = 0]

\* Reservation::drop
Release(w) ==
    /\ promised' = promised - held[w]
    /\ held' = [held EXCEPT ![w] = 0]

Return(w) ==
    /\ Goto(w, "idle")
    /\ job' = [job EXCEPT ![w] = NoJob]

---------------------------------------------------------------------------
(* Asking for space                                                        *)

\* admit for a push, a PUT of a file, a mirror download or an inbox import; a
\* body without a Content-Length promises nothing.
Admit(w, kind, n) ==
    /\ At(w, "idle") /\ kind \in Kinds
    /\ (kind = "push" /\ n \in Sizes) \/ (kind = "chunked" /\ n = 0)
    /\ ReserveBytes(w, n)
    /\ job' = [job EXCEPT ![w] = Job(kind, None, n, IF kind = "push" THEN n ELSE MaxBody, FALSE)]
    /\ Goto(w, "measure")
    /\ UNCHANGED <<free, rows, history>>

\* tus_create: one creation at a time, admitted for the whole upload.
AdmitCreate(w, u) ==
    /\ At(w, "idle") /\ "create" \in Kinds /\ rows[u].is = "unborn"
    /\ \A v \in Writers : job[v].kind # "create"
    /\ ReserveBytes(w, Length)
    /\ job' = [job EXCEPT ![w] = Job("create", u, Length, 0, FALSE)]
    /\ Goto(w, "measure")
    /\ UNCHANGED <<free, rows, history>>

\* tus_patch, the upload's slot taken: the rest is promised here first...
AdmitPatch(w, u) ==
    /\ At(w, "idle") /\ "patch" \in Kinds /\ u \in Open
    /\ \A v \in Writers : job[v].kind = "patch" => job[v].upload # u
    /\ ReserveBytes(w, rows[u].rest)
    /\ job' = [job EXCEPT ![w] = Job("patch", u, rows[u].rest, rows[u].rest, rows[u].hold)]
    /\ Goto(w, "giveUp")
    /\ UNCHANGED <<free, rows, history>>

\* ... and then no longer by the row: set_upload_held(None).
GiveUpHold(w) ==
    /\ At(w, "giveUp")
    /\ rows' = [rows EXCEPT ![job[w].upload].hold = FALSE]
    /\ Goto(w, "measure")
    /\ UNCHANGED <<free, promised, held, job, history>>

---------------------------------------------------------------------------
(* SpaceGuard::check                                                       *)

Admitted(w) ==
    CASE job[w].kind = "create" -> "insert"
      [] job[w].kind = "patch" -> "open"
      [] OTHER -> "write"

\* History: who has measured and not decided while w takes bytes off the
\* counter that the measurement still shows as free, or hands a promise to a
\* row already counted.
Moved(w, when) == moved \cup {v \in Writers \ {w} : pc[v] \in when}

Measure(w) ==
    /\ At(w, "measure")
    /\ job' = [job EXCEPT ![w].available = free]
    /\ moved' = moved \ {w}
    /\ Goto(w, "rows")
    /\ UNCHANGED <<free, promised, held, rows, blind>>

\* Space that cannot be measured is not refused.
CannotMeasure(w) ==
    /\ At(w, "measure") /\ Faults
    /\ blind' = TRUE
    /\ Goto(w, Admitted(w))
    /\ UNCHANGED <<free, promised, held, rows, job, moved>>

\* outstanding_upload_bytes
Outstanding == Sum([u \in Uploads |-> rows[u].rest], {u \in Open : rows[u].hold})

CountRows(w) ==
    /\ At(w, "rows")
    /\ job' = [job EXCEPT ![w].resumable = Outstanding]
    /\ Goto(w, "decide")
    /\ UNCHANGED <<free, promised, held, rows, history>>

\* The database does not answer, and the request is turned away.
CountFails(w) ==
    /\ At(w, "rows") /\ Faults
    /\ Goto(w, "refuse")
    /\ UNCHANGED <<free, promised, held, rows, job, history>>

Needed(w) ==
    Max({promised, job[w].size}) + job[w].resumable + Reserve

Decide(w) ==
    /\ At(w, "decide")
    /\ Goto(w, IF job[w].available < Needed(w) THEN "refuse" ELSE Admitted(w))
    /\ job' = [job EXCEPT ![w].available = 0, ![w].resumable = 0]
    /\ UNCHANGED <<free, promised, held, rows, history>>

\* Mutant: a refused upload is given a fresh hold.
RefuseHeld(w) ==
    /\ At(w, "refuse")
    /\ rows' = IF job[w].kind = "patch"
               THEN [rows EXCEPT ![job[w].upload].hold = TRUE]
               ELSE rows
    /\ moved' = IF job[w].before THEN Moved(w, {"decide"}) ELSE moved
    /\ Release(w) /\ Return(w)
    /\ UNCHANGED <<free, blind>>

\* 507; a resumable upload keeps whatever hold it had.
Refuse(w) ==
    /\ At(w, "refuse")
    /\ rows' = IF job[w].kind = "patch"
               THEN [rows EXCEPT ![job[w].upload].hold = job[w].before]
               ELSE rows
    /\ moved' = IF job[w].before THEN Moved(w, {"decide"}) ELSE moved
    /\ Release(w) /\ Return(w)
    /\ UNCHANGED <<free, blind>>

---------------------------------------------------------------------------
(* Writing through DiskReserve                                             *)

\* set_len cuts off what an earlier request left past the offset.
OpenPart(w) ==
    LET u == job[w].upload IN
    /\ At(w, "open")
    /\ free' = free + rows[u].junk
    /\ rows' = [rows EXCEPT ![u].junk = 0]
    /\ Goto(w, "write")
    /\ UNCHANGED <<promised, held, job, history>>

\* Reservation::consumed, never more than the reservation holds.
Taken(w) == IF held[w] > 0 THEN 1 ELSE 0

\* A byte goes to disk and off the promise.
WriteByte(w) ==
    /\ At(w, "write") /\ job[w].left > 0 /\ job[w].unchecked < Interval
    /\ free > 0
    /\ free' = free - 1
    /\ held' = [held EXCEPT ![w] = @ - Taken(w)]
    /\ promised' = promised - Taken(w)
    /\ job' = [job EXCEPT ![w].left = @ - 1, ![w].unchecked = @ + 1,
                          ![w].written = @ + 1]
    /\ moved' = Moved(w, {"rows", "decide"})
    /\ UNCHANGED <<rows, pc, blind>>

\* poll_check: a measurement is due...
MeasureAgain(w) ==
    /\ At(w, "write") /\ job[w].left > 0 /\ job[w].unchecked >= Interval
    /\ job' = [job EXCEPT ![w].unchecked = 0, ![w].available = free]
    /\ Goto(w, "measuring")
    /\ UNCHANGED <<free, promised, held, rows, history>>

\* What has gone into the part of a resumable upload stays there, counted or
\* not; the temp file of any other write is removed.
Abandon(w) ==
    IF job[w].kind = "patch"
    THEN /\ rows' = [rows EXCEPT ![job[w].upload].junk = @ + job[w].written]
         /\ UNCHANGED free
    ELSE /\ free' = free + job[w].written
         /\ UNCHANGED rows

\* ... and the write goes on, or fails with StorageFull: a resumable upload
\* records what it got, anything else gives its bytes back.
Measured(w) ==
    /\ At(w, "measuring")
    /\ \/ /\ job[w].available < Reserve
          /\ \/ /\ job[w].kind = "patch"
                /\ Goto(w, "record")
                /\ UNCHANGED <<free, promised, held, rows, job>>
             \/ /\ job[w].kind # "patch"
                /\ Abandon(w) /\ Release(w) /\ Return(w)
          /\ UNCHANGED blind
       \/ /\ \/ job[w].available >= Reserve /\ UNCHANGED blind
             \/ Faults /\ blind' = TRUE
          /\ Goto(w, "write")
          /\ job' = [job EXCEPT ![w].available = 0]
          /\ UNCHANGED <<free, promised, held, rows>>
    /\ UNCHANGED moved

\* The body ends; a push stays on disk.
EndOfBody(w) ==
    /\ At(w, "write")
    /\ IF job[w].kind = "patch"
       THEN Goto(w, "record") /\ UNCHANGED <<promised, held, job>>
       ELSE Release(w) /\ Return(w)
    /\ UNCHANGED <<free, rows, history>>

\* The client goes away at some await, or a call fails, and the reservation
\* is dropped; a resumable upload's row stays as it is then.
Cancel(w) ==
    /\ pc[w] \notin {"idle", "decide", "drop"}
    /\ Abandon(w) /\ Release(w) /\ Return(w)
    /\ UNCHANGED history

---------------------------------------------------------------------------
(* Resumable uploads: handing the promise back to the row                  *)

\* create_upload
InsertRow(w) ==
    /\ At(w, "insert")
    /\ rows' = [rows EXCEPT ![job[w].upload] =
                   [is |-> "open", rest |-> Length, hold |-> TRUE, junk |-> 0]]
    /\ moved' = Moved(w, {"decide"})
    /\ Goto(w, "drop")
    /\ UNCHANGED <<free, promised, held, job, blind>>

\* set_upload_received: the row counts what came, and holds the rest again.
Record(w) ==
    LET u == job[w].upload IN
    /\ At(w, "record")
    /\ rows' = [rows EXCEPT ![u].rest = @ - job[w].written, ![u].hold = TRUE]
    /\ moved' = Moved(w, {"decide"})
    /\ Goto(w, "drop")
    /\ UNCHANGED <<free, promised, held, job, blind>>

DropReservation(w) ==
    /\ At(w, "drop")
    /\ Release(w) /\ Return(w)
    /\ UNCHANGED <<free, rows, history>>

Busy(u) == \E w \in Writers : job[w].upload = u

\* RESUMABLE_HOLD passes since the last request, for the row and for who has
\* read it.
GoIdle(u) ==
    /\ u \in Open /\ rows[u].hold
    /\ rows' = [rows EXCEPT ![u].hold = FALSE]
    /\ job' = [w \in Writers |-> IF job[w].upload = u
                                 THEN [job[w] EXCEPT !.before = FALSE] ELSE job[w]]
    /\ UNCHANGED <<free, promised, held, pc, history>>

\* The upload is deleted or swept with its partial file.
DeleteUpload(u) ==
    /\ u \in Open /\ ~Busy(u)
    /\ free' = free + Length - rows[u].rest + rows[u].junk
    /\ rows' = [rows EXCEPT ![u] = [NoRow EXCEPT !.is = "gone"]]
    /\ UNCHANGED <<promised, held, pc, job, history>>

---------------------------------------------------------------------------

Next ==
    \/ \E w \in Writers :
          \/ \E kind \in {"push", "chunked"}, n \in Sizes \cup {0} : Admit(w, kind, n)
          \/ \E u \in Uploads : AdmitCreate(w, u) \/ AdmitPatch(w, u)
          \/ GiveUpHold(w)
          \/ Measure(w) \/ CannotMeasure(w) \/ CountRows(w) \/ CountFails(w)
          \/ Decide(w) \/ Refuse(w)
          \/ OpenPart(w) \/ WriteByte(w) \/ MeasureAgain(w) \/ Measured(w)
          \/ EndOfBody(w) \/ Cancel(w)
          \/ InsertRow(w) \/ Record(w) \/ DropReservation(w)
    \/ \E u \in Uploads : GoIdle(u) \/ DeleteUpload(u)

Spec == Init /\ [][Next]_vars

---------------------------------------------------------------------------
(* What the guard promises                                                 *)

\* A writer whose promise is owed: admitted, or a resumable upload that had
\* its hold when it asked.
Owed(w) ==
    \/ pc[w] \in {"open", "write", "measuring", "insert", "record"}
    \/ pc[w] \in {"measure", "rows", "decide", "refuse"} /\ job[w].before

Committed == Sum(held, {w \in Writers : Owed(w)}) + Outstanding

\* All that is committed fits above the reserve.
Room == free >= Reserve + Committed

\* Reservations::promised is what the live reservations hold: nothing leaks in
\* any of the ways a write ends, and none takes a byte of another's share.
PoolIsSum == promised = Sum(held, Writers)

\* An admission during whose check nobody moved a byte or a promise leaves
\* room for everything committed, whatever slipped through before (admit's
\* doc comment: what is promised counts as used).
AdmissionIsSound ==
    [][\A w \in Writers : At(w, "decide") /\ pc'[w] = Admitted(w) /\ w \notin moved
            => Room']_vars

\* The only steps that can take the room away: an admission whose measurement
\* others moved under, one without a measurement, and a byte nobody declared.
\* Ageing, refusing, resuming, recording and giving up never do.
RoomIsKept ==
    [][Room => \/ Room'
               \/ \E w \in Writers :
                     \/ At(w, "decide") /\ w \in moved
                     \/ At(w, "measure") /\ pc'[w] = Admitted(w)
                     \/ At(w, "write") /\ held[w] = 0 /\ free' < free]_vars

\* DiskReserve keeps the volume from filling up whatever was declared: all
\* writers together get at most one interval each below the reserve, as long as
\* free space can be measured.
FloorHolds == blind \/ free >= Reserve - Interval * Cardinality(Writers)

\* The volume never falls below the reserve by more than what is on its way,
\* an admission is sound, and no request takes away what another was promised
\* (SpaceGuard).
SpaceIsKept == [](TypeOK /\ FloorHolds) /\ AdmissionIsSound /\ RoomIsKept
=============================================================================
