------------------------------- MODULE Inbox -------------------------------
(***************************************************************************)
(* The file inbox: an uploader drops a file and, when it is complete, a    *)
(* checksum file beside it; the scanner copies the file, attaches the copy *)
(* when it has the promised checksum, and removes the drop, or leaves a    *)
(* report.                                                                 *)
(*                                                                         *)
(* One name of one version.  A file's content is a sequence of blocks, a   *)
(* checksum is the content it is of, and a name may stand for a file or    *)
(* for something else (a link, a pipe).  The uploader may change a file in *)
(* place while the scanner copies it.                                      *)
(***************************************************************************)
EXTENDS Naturals, Sequences, FiniteSets

CONSTANTS
    Contents,       \* the contents uploads have, and
    Blocks,         \* the blocks they are made of
    MaxUploads,     \* bound: steps of the uploader
    MaxCrashes      \* bound: restarts, and reports and last blocks that cannot be written

ASSUME InboxAssumption == Contents \subseteq Seq(Blocks)

VARIABLES
    drop,      \* the name: {} or {[kind, node]}
    node,      \* the files: node -> [content, links]
    marker,    \* <name>.sha256: {} or {content}; an unreadable one is {<<>>}
    report,    \* <name>.error: "missing", "file" or "other"
    attached,  \* the attached file of the version: {} or {[hash, bytes]}
    taken,     \* the files the scanner has attached, or found attached
    lost,      \* history: a block that was hashed never reached the staged copy
    scanner,   \* the scan's locals: [pc, node, size, expected, hashed, staged]
    promised,  \* the contents checksum files have named
    touched,   \* the uploader changed the drop since the scanner opened it
    uploads, crashes

inboxVars == <<drop, node, marker, report, attached, taken, lost, scanner, promised, touched, uploads, crashes>>

NoScan == [pc |-> "idle", node |-> 0, size |-> 0, expected |-> <<>>, hashed |-> <<>>,
           staged |-> <<>>]

InboxInit ==
    /\ drop = {} /\ node = <<>> /\ marker = {} /\ report = "missing" /\ attached = {} /\ taken = {}
    /\ lost = FALSE /\ scanner = NoScan /\ promised = {} /\ touched = FALSE /\ uploads = 0 /\ crashes = 0

TheOne(x) == CHOOSE e \in x : TRUE
IsFile == \E d \in drop : d.kind = "file"
ScanTo(p) == scanner' = [scanner EXCEPT !.pc = p]
Unlucky == crashes < MaxCrashes /\ crashes' = crashes + 1

---------------------------------------------------------------------------
\* The scanner


\* candidates: a regular file with a checksum file and no report.  A report is
\* a regular file; anything else under that name is not one.
FindDrop ==
    /\ scanner.pc = "idle" /\ marker # {} /\ IsFile /\ report # "file"
    /\ ScanTo("open")
    /\ UNCHANGED <<drop, node, marker, report, attached, taken, lost, promised, touched, uploads, crashes>>

\* import, up to the copy: the checksum, one handle on the file, its links and
\* its size; then the version's and the space's checks, which may refuse.
OpenDrop ==
    /\ scanner.pc = "open" /\ touched' = FALSE
    /\ \/ /\ marker \notin {{}, {<<>>}} /\ IsFile /\ node[TheOne(drop).node].links = 1
          /\ scanner' = [pc |-> "copy", node |-> TheOne(drop).node, hashed |-> <<>>, staged |-> <<>>,
                         size |-> Len(node[TheOne(drop).node].content), expected |-> TheOne(marker)]
       \/ ScanTo("fail")
    /\ UNCHANGED <<drop, node, marker, report, attached, taken, lost, promised, uploads, crashes>>

\* copy_hashed: block after block through the handle, `size` of them at most,
\* unless a read, a write or the sync fails.  A write is buffered, and the
\* next one or the sync waits for it: when the last one fails, nobody asks.
CopyBlock ==
    LET from == node[scanner.node].content
        at == Len(scanner.hashed) + 1
        more == at <= scanner.size /\ at <= Len(from)
        Ends(staged) == scanner' = [scanner EXCEPT !.pc = "verify", !.staged = staged]
    IN  /\ scanner.pc = "copy"
        /\ \/ /\ more /\ scanner' = [scanner EXCEPT !.hashed = Append(@, from[at])]
              /\ UNCHANGED <<lost, crashes>>
           \/ ~more /\ Ends(scanner.hashed) /\ UNCHANGED <<lost, crashes>>
           \/ /\ ~more /\ at > 1 /\ Unlucky /\ lost' = TRUE
              /\ Ends(SubSeq(scanner.hashed, 1, at - 2))
           \/ ScanTo("fail") /\ UNCHANGED <<lost, crashes>>
        /\ UNCHANGED <<drop, node, marker, report, attached, taken, promised, touched, uploads>>

\* The hash is of what was read.
VerifyCopy ==
    /\ scanner.pc = "verify"
    /\ ScanTo(IF scanner.hashed = scanner.expected THEN "attach" ELSE "fail")
    /\ UNCHANGED <<drop, node, marker, report, attached, taken, lost, promised, touched, uploads, crashes>>

Staged == [hash |-> scanner.hashed, bytes |-> scanner.staged]

\* Mutant: a file of that name that is already attached counts as done.
AttachCopyOrKeep ==
    /\ scanner.pc = "attach" /\ ScanTo("remove")
    /\ attached' = IF attached = {} THEN {Staged} ELSE attached
    /\ taken' = taken \cup {a \in attached' : a.hash = scanner.hashed}
    /\ UNCHANGED <<drop, node, marker, report, lost, promised, touched, uploads, crashes>>

\* attach_to: New stores the copy, Same is a file of the same hash, and other
\* bytes, an approval or no space refuse it.
AttachCopy ==
    /\ scanner.pc = "attach"
    /\ \/ /\ \/ attached = {} /\ attached' = {Staged}
             \/ (\E a \in attached : a.hash = scanner.hashed) /\ UNCHANGED attached
          /\ taken' = taken \cup attached' /\ ScanTo("remove")
       \/ ScanTo("fail") /\ UNCHANGED <<attached, taken>>
    /\ UNCHANGED <<drop, node, marker, report, lost, promised, touched, uploads, crashes>>

\* What the name stands for now, whichever file was opened; then the checksum
RemoveDrop ==
    /\ scanner.pc = "remove" /\ drop' = {} /\ ScanTo("removeMarker")
    /\ UNCHANGED <<node, marker, report, attached, taken, lost, promised, touched, uploads, crashes>>

RemoveMarker ==
    /\ scanner.pc = "removeMarker" /\ marker' = {} /\ scanner' = NoScan
    /\ UNCHANGED <<drop, node, report, attached, taken, lost, promised, touched, uploads, crashes>>

\* write_report: what is not a report makes room for one; writing may fail
WriteReport ==
    /\ scanner.pc = "fail" /\ scanner' = NoScan
    /\ \/ report' = "file" /\ UNCHANGED crashes
       \/ report' = (IF report = "other" THEN "missing" ELSE report) /\ Unlucky
    /\ UNCHANGED <<drop, node, marker, attached, taken, lost, promised, touched, uploads>>

ScanStops ==
    /\ scanner.pc # "idle" /\ Unlucky /\ scanner' = NoScan
    /\ UNCHANGED <<drop, node, marker, report, attached, taken, lost, promised, touched, uploads>>

ScanStep ==
    \/ FindDrop \/ OpenDrop \/ CopyBlock \/ VerifyCopy \/ AttachCopy \/ RemoveDrop
    \/ RemoveMarker \/ WriteReport

---------------------------------------------------------------------------
\* The uploader and the feed's other writers

Upload == uploads < MaxUploads /\ uploads' = uploads + 1

PutFile(c) ==
    LET n == Len(node) + 1
    IN  /\ Upload /\ touched' = TRUE
        /\ node' = Append(node, [content |-> c, links |-> 1])
        /\ drop' = {[kind |-> "file", node |-> n]}
        /\ UNCHANGED <<marker, report, attached, taken, lost, scanner, promised, crashes>>

WriteInPlace(at, b) ==
    /\ Upload /\ IsFile /\ touched' = TRUE
    /\ LET n == TheOne(drop).node  c == node[n].content
       IN  /\ at <= Len(c) + 1
           /\ node' = [node EXCEPT ![n].content = IF at <= Len(c) THEN [c EXCEPT ![at] = b] ELSE Append(c, b)]
    /\ UNCHANGED <<drop, marker, report, attached, taken, lost, scanner, promised, crashes>>

PutLink ==
    /\ Upload /\ touched' = TRUE
    /\ \/ drop' = {[kind |-> "other", node |-> 0]} /\ UNCHANGED <<node, report>>
       \/ report = "missing" /\ report' = "other" /\ UNCHANGED <<drop, node>>
       \/ IsFile /\ node' = [node EXCEPT ![TheOne(drop).node].links = 2] /\ UNCHANGED <<drop, report>>
    /\ UNCHANGED <<marker, attached, taken, lost, scanner, promised, crashes>>

PutMarker(c) ==
    /\ Upload /\ marker' = {c} /\ promised' = promised \cup {c} /\ touched' = TRUE
    /\ UNCHANGED <<drop, node, report, attached, taken, lost, scanner, crashes>>

RemoveReport ==
    /\ Upload /\ report # "missing" /\ report' = "missing"
    /\ UNCHANGED <<drop, node, marker, attached, taken, lost, scanner, promised, touched, crashes>>

\* Another file of that name is attached or detached through the web.
AttachElsewhere(c) ==
    /\ Upload /\ attached' = IF attached = {} THEN {[hash |-> c, bytes |-> c]} ELSE {}
    /\ UNCHANGED <<drop, node, marker, report, taken, lost, scanner, promised, touched, crashes>>

Uploader ==
    \/ \E c \in Contents : PutFile(c) \/ PutMarker(c) \/ AttachElsewhere(c)
    \/ \E at \in 1 .. 2, b \in Blocks : WriteInPlace(at, b)
    \/ PutMarker(<<>>) \/ PutLink \/ RemoveReport

InboxNext == ScanStep \/ ScanStops \/ Uploader

InboxSpec == InboxInit /\ [][InboxNext]_inboxVars

---------------------------------------------------------------------------
\* Nothing is attached under a hash no checksum promised, and, unless a block
\* was lost that copy_hashed had hashed, what is attached has that hash: not a
\* half-written file, not a mix of two uploads changed in place during the copy
\* (import, copy_hashed).
AttachedIsPromised ==
    \A a \in taken : a.hash \in promised /\ (lost \/ a.bytes = a.hash)

\* A drop the uploader left alone since it was opened is removed only once its
\* bytes are attached, or, a block lost, a copy under its hash (import, the
\* removal after attach_to).
DropIsNotLost ==
    [][scanner.pc = "remove" /\ ~touched /\ drop' = {} =>
          \E a \in taken : a.hash = node[scanner.node].content /\ (lost \/ a.bytes = a.hash)]_inboxVars

\* A complete drop the uploader leaves alone is eventually taken or reported,
\* over restarts and failures anywhere in between; nothing half-removed stays
\* behind (scan, import).
DropSettles ==
    \A n \in 0 .. MaxUploads :
        (scanner.pc = "idle" /\ marker # {} /\ IsFile /\ uploads = n)
            ~> (~IsFile \/ report = "file" \/ uploads > n)

\* Only what was promised is attached, and nothing is removed before it is,
\* whatever is dropped meanwhile and wherever the process dies (scan, import).
DropsAreKept == []AttachedIsPromised /\ DropIsNotLost
=============================================================================
