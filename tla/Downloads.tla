----------------------------- MODULE Downloads -----------------------------
(***************************************************************************)
(* Downloads of a version that is overwritten meanwhile: the row is read   *)
(* on both sides of opening the file, and what the answer says of the      *)
(* bytes lets a client resume a transfer or keep what it has.              *)
(*                                                                         *)
(* Builds are numbered in the order they are pushed; a build stands for    *)
(* its bytes, its hash and its publish time.                               *)
(***************************************************************************)
EXTENDS Naturals, FiniteSets

CONSTANTS Downloaders, LastBuild, SizeOf, SecondOf, FileKind
    \* SizeOf, SecondOf: size and publish second of each build; FileKind: "nupkg" or "nuspec"

VARIABLES
    onDisk,     \* the build of each stored file
    rowBuild,   \* the build the row describes
    pushing,    \* {} or the build an overwrite is storing, with its step
    download,   \* reader -> [pc, before, bytes, ask]
    copy,       \* reader -> {} or {[bytes, tag, date]}: what the client has of the file
    served      \* reader -> [of, bytes, tag]: the last answer

downloadVars == <<onDisk, rowBuild, pushing, download, copy, served>>

NoDownload == [pc |-> "idle", before |-> 0, bytes |-> 0, ask |-> "whole"]

DownloadInit ==
    /\ onDisk = [nupkg |-> 1, nuspec |-> 1]
    /\ rowBuild = 1
    /\ pushing = [pc |-> "idle", build |-> 1]
    /\ download = [r \in Downloaders |-> NoDownload]
    /\ copy = [r \in Downloaders |-> {}]
    /\ served = [r \in Downloaders |-> [of |-> {}, bytes |-> 1, tag |-> {}]]

---------------------------------------------------------------------------
\* overwrite: the payload is renamed into place, the sidecars follow, then the
\* row; a failure after the rename puts the previous build back if it was kept.

StorePayload ==
    /\ pushing.pc = "idle" /\ pushing.build < LastBuild
    /\ pushing' = [pc |-> "stored", build |-> pushing.build + 1]
    /\ onDisk' = [onDisk EXCEPT !.nupkg = pushing.build + 1]
    /\ UNCHANGED <<rowBuild, download, copy, served>>

StoreSidecars ==
    /\ pushing.pc = "stored"
    /\ pushing' = [pushing EXCEPT !.pc = "sidecars"]
    /\ onDisk' = [onDisk EXCEPT !.nuspec = pushing.build]
    /\ UNCHANGED <<rowBuild, download, copy, served>>

SwapRow ==
    /\ pushing.pc = "sidecars"
    /\ pushing' = [pushing EXCEPT !.pc = "idle"]
    /\ rowBuild' = pushing.build
    /\ UNCHANGED <<onDisk, download, copy, served>>

SwapFails(kept) ==
    /\ pushing.pc \in {"stored", "sidecars"}
    /\ pushing' = [pushing EXCEPT !.pc = IF kept THEN "restored" ELSE "putback"]
    /\ onDisk' = IF kept THEN [onDisk EXCEPT !.nupkg = rowBuild] ELSE onDisk
    /\ UNCHANGED <<rowBuild, download, copy, served>>

RestoreSidecars ==
    /\ pushing.pc \in {"restored", "putback"}
    /\ pushing' = [pushing EXCEPT !.pc = "idle"]
    /\ onDisk' = [onDisk EXCEPT !.nuspec = rowBuild]
    /\ UNCHANGED <<rowBuild, download, copy, served>>

---------------------------------------------------------------------------
\* download_package.  A client asks for the whole file, resumes what it has by
\* tag or by date, or asks whether its copy is current.

AskFile(r, ask) ==
    /\ download[r].pc = "idle"
    /\ ask # "whole" => \E c \in copy[r] : c.tag # {}
    /\ download' = [download EXCEPT ![r] = [pc |-> "asked", before |-> rowBuild, bytes |-> 0, ask |-> ask]]
    /\ UNCHANGED <<onDisk, rowBuild, pushing, copy, served>>

OpenFile(r) ==
    /\ download[r].pc = "asked"
    /\ download' = [download EXCEPT ![r].pc = "open", ![r].bytes = onDisk[FileKind]]
    /\ UNCHANGED <<onDisk, rowBuild, pushing, copy, served>>

\* Mutant: the row read before the file was opened is believed.
VouchingBefore(before, after, bytes) == {before}

\* The row whose validators go out, or {}
Vouching(before, after, bytes) ==
    IF before = after /\ (FileKind = "nuspec" \/ SizeOf[after] = SizeOf[bytes]) THEN {after} ELSE {}

\* if_range_holds, if_none_match_hits: whether the copy's own validator is current
ValidatorHolds(ask, c, row) ==
    CASE ask \in {"resumeTag", "revalidate"} -> c.tag = row
      [] ask = "resumeDate" -> c.date = {SecondOf[b] : b \in row}
      [] OTHER -> FALSE

\* The second read of the row and serve_open_file: 206 or 304 where the validator
\* holds, the whole file otherwise.  The client keeps what came with validators,
\* whole or in part.
ServeFile(r) ==
    LET d == download[r]
        row == Vouching(d.before, rowBuild, d.bytes)
        held == {c \in copy[r] : ValidatorHolds(d.ask, c, row)}
        got == [bytes |-> d.bytes, tag |-> row, date |-> {SecondOf[b] : b \in row}]
    IN  /\ d.pc = "open"
        /\ served' = [served EXCEPT ![r] = [of |-> {c.bytes : c \in held}, bytes |-> d.bytes, tag |-> row]]
        /\ copy' = [copy EXCEPT ![r] = IF held # {} THEN @ ELSE IF row # {} THEN {got} ELSE {}]
        /\ download' = [download EXCEPT ![r] = NoDownload]
        /\ UNCHANGED <<onDisk, rowBuild, pushing>>

DownloadNext ==
    \/ StorePayload \/ StoreSidecars \/ SwapRow \/ RestoreSidecars
    \/ \E kept \in BOOLEAN : SwapFails(kept)
    \/ \E r \in Downloaders :
          \/ \E ask \in {"whole", "resumeTag", "resumeDate", "revalidate"} : AskFile(r, ask)
          \/ OpenFile(r)
          \/ ServeFile(r)

DownloadSpec == DownloadInit /\ [][DownloadNext]_downloadVars

---------------------------------------------------------------------------
\* The validators an answer carries are those of the bytes it carries
\* (download_package: "If anything moved in between, the response goes out
\* without validators rather than with wrong ones").
ValidatorsAreTrue == \A r \in Downloaders : served[r].tag \subseteq {served[r].bytes}

\* A resumed transfer never joins the bytes of two builds, and a copy that is
\* confirmed is the file that is served (serve_local_file, if_range_holds).
NoSplice == \A r \in Downloaders : served[r].of \subseteq {served[r].bytes}

\* A client never puts two builds together, and what it caches is what the
\* validators name (download, serve_file).
DownloadsAreTrue == ValidatorsAreTrue /\ NoSplice
=============================================================================
