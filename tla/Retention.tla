----------------------------- MODULE Retention -----------------------------
(***************************************************************************)
(* Cleanups of a feed: the scheduled sweep and an admin's "delete what you *)
(* showed me", beside pushes, pins, approvals, and time passing.  One      *)
(* package; each of its versions has a row in the feed or none.            *)
(***************************************************************************)
EXTENDS RetentionRules

CONSTANTS
    AllRows,     \* the versions that may be pushed, as fresh rows
    Policy,      \* the limits
    MaxEdits     \* bound: what others do to the feed

ASSUME RetentionAssumption ==
    AllRows \subseteq [v : Nat, pre : BOOLEAN, pinned : BOOLEAN, servable : BOOLEAN, added : Nat]

VARIABLES
    feedRows,    \* the versions the feed holds
    day,         \* the day it is
    shown,       \* the versions on the page an admin looked at: {} or {set}
    running,     \* RetentionState::running: the cleanup that holds it, or "none"
    cleaner,     \* cleanup -> [pc, todo, row, page]
    withdrawn,   \* a version was deleted or disabled by others since a cleanup planned
    edits

retentionVars == <<feedRows, day, shown, running, cleaner, withdrawn, edits>>

Cleanups == {"sweep", "manual"}
NoCleanup == [pc |-> "idle", todo |-> {}, row |-> {}, page |-> {}]
LastDay == 1

RetentionInit ==
    /\ feedRows = {} /\ day = 0 /\ shown = {} /\ running = "none"
    /\ cleaner = [c \in Cleanups |-> NoCleanup]
    /\ withdrawn = FALSE /\ edits = 0

Current(v) == {r \in feedRows : r.v = v}
Fingerprint(plan) == {r.v : r \in plan}
ThePlan == PrunePlan(feedRows, Policy, day)

CleanupEnds(c) ==
    /\ cleaner' = [cleaner EXCEPT ![c] = NoCleanup]
    /\ running' = "none"

\* The admin page: the plan, and its fingerprint in the form
ShowPlan ==
    /\ shown' = {Fingerprint(ThePlan)}
    /\ UNCHANGED <<feedRows, day, running, cleaner, withdrawn, edits>>

\* sweep: waits for the other, plans the package
StartSweep ==
    /\ cleaner["sweep"].pc = "idle" /\ running = "none"
    /\ running' = "sweep" /\ withdrawn' = FALSE
    /\ cleaner' = [cleaner EXCEPT !["sweep"] =
                       [pc |-> "next", todo |-> Fingerprint(ThePlan), row |-> {}, page |-> {}]]
    /\ UNCHANGED <<feedRows, day, shown, edits>>

\* run_shown: turned away while another runs or when the plan is another now
RunShown ==
    /\ cleaner["manual"].pc = "idle" /\ running = "none"
    /\ shown = {Fingerprint(ThePlan)}
    /\ running' = "manual" /\ withdrawn' = FALSE
    /\ cleaner' = [cleaner EXCEPT !["manual"] =
                       [pc |-> "next", todo |-> Fingerprint(ThePlan), row |-> {}, page |-> shown]]
    /\ UNCHANGED <<feedRows, day, shown, edits>>

\* Mutant: a planned version is removed whatever became of it.
CheckPlannedHeld(c) ==
    /\ cleaner[c].pc = "next"
    /\ \E v \in cleaner[c].todo :
          cleaner' = [cleaner EXCEPT ![c].todo = @ \ {v}, ![c].row = Current(v),
                                     ![c].pc = IF Current(v) = {} THEN "next" ELSE "purge"]
    /\ UNCHANGED <<feedRows, day, shown, running, withdrawn, edits>>

\* purge_planned: under the version lock, the membership as it is now
CheckPlanned(c) ==
    /\ cleaner[c].pc = "next"
    /\ \E v \in cleaner[c].todo :
          LET fine == {r \in Current(v) : r.servable /\ ~r.pinned}
          IN  cleaner' = [cleaner EXCEPT ![c].todo = @ \ {v}, ![c].row = fine,
                                         ![c].pc = IF fine = {} THEN "next" ELSE "purge"]
    /\ UNCHANGED <<feedRows, day, shown, running, withdrawn, edits>>

\* purge_locked, the statement after: whatever the row says by then
Purge(c) ==
    /\ cleaner[c].pc = "purge"
    /\ feedRows' = {r \in feedRows : \A checked \in cleaner[c].row : r.v # checked.v}
    /\ cleaner' = [cleaner EXCEPT ![c].pc = "next", ![c].row = {}]
    /\ UNCHANGED <<day, shown, running, withdrawn, edits>>

\* The plan is worked through, or shutdown ends it between two versions.
Finish(c) ==
    /\ cleaner[c].pc = "next" /\ CleanupEnds(c)
    /\ UNCHANGED <<feedRows, day, shown, withdrawn, edits>>

---------------------------------------------------------------------------
\* What others do meanwhile.  A push and a delete wait for the version lock a
\* cleanup holds from its check on; set_pinned and set_enabled do not.

Unlocked(v) == \A c \in Cleanups : \A r \in cleaner[c].row : r.v # v
Edit == edits < MaxEdits /\ edits' = edits + 1

PushVersion(row) ==
    /\ Edit /\ Current(row.v) = {} /\ Unlocked(row.v)
    /\ feedRows' = feedRows \cup {[row EXCEPT !.added = day]}
    /\ UNCHANGED <<day, shown, running, cleaner, withdrawn>>

Change(r, s) == feedRows' = (feedRows \ {r}) \cup {s}

SetPinned(r) ==
    /\ Edit /\ Change(r, [r EXCEPT !.pinned = ~@])
    /\ UNCHANGED <<day, shown, running, cleaner, withdrawn>>

\* disable, or enable and approve
SetServable(r) ==
    /\ Edit /\ Change(r, [r EXCEPT !.servable = ~@])
    /\ withdrawn' = (withdrawn \/ r.servable)
    /\ UNCHANGED <<day, shown, running, cleaner>>

DeleteVersion(r) ==
    /\ Edit /\ Unlocked(r.v) /\ feedRows' = feedRows \ {r}
    /\ withdrawn' = TRUE
    /\ UNCHANGED <<day, shown, running, cleaner>>

DayPasses ==
    /\ day < LastDay /\ day' = day + 1
    /\ UNCHANGED <<feedRows, shown, running, cleaner, withdrawn, edits>>

RetentionNext ==
    \/ ShowPlan \/ StartSweep \/ RunShown \/ DayPasses
    \/ \E c \in Cleanups : CheckPlanned(c) \/ Purge(c) \/ Finish(c)
    \/ \E row \in AllRows : PushVersion(row)
    \/ \E r \in feedRows : SetPinned(r) \/ SetServable(r) \/ DeleteVersion(r)

RetentionSpec == RetentionInit /\ [][RetentionNext]_retentionVars

---------------------------------------------------------------------------
Gone == feedRows \ feedRows'
Purged(c) == cleaner[c].pc = "purge" /\ cleaner'[c].pc = "next"

\* An admin's cleanup removes only versions on the page it was clicked from,
\* whatever was pushed since (run_shown: "can never make the click delete
\* something the operator was not shown").
OnlyShownGo ==
    [][Purged("manual") => \A r \in Gone : \E page \in cleaner["manual"].page : r.v \in page]_retentionVars

\* A cleanup never takes the last version a client can get, although it plans
\* first and removes one version at a time: only when others withdrew versions
\* meanwhile can that happen (prune_plan, purge_planned).
CleanupLeavesOne ==
    [][\A c \in Cleanups : Purged(c) /\ ~withdrawn /\ Gone # {} =>
          \E r \in feedRows' : r.servable]_retentionVars

\* A version pinned or withheld by the time its turn comes stays (purge_planned).
\* A pin set between the check and the delete comes too late.
PinBeforeTurnWins ==
    [][\A c \in Cleanups : Purged(c) => \A r \in Gone : r.pinned => r \notin cleaner[c].row]_retentionVars

\* "an admin pinning a version in the meantime must win.  The check is under the
\* version lock, so it cannot go stale again before the delete" (purge_planned).
PinWins == [][\A c \in Cleanups : Purged(c) => \A r \in Gone : ~r.pinned]_retentionVars

\* A cleanup removes only what was shown or planned, never what was pinned
\* before its turn came, and leaves a package something to serve (run_shown,
\* purge_planned).
CleanupIsAsShown == OnlyShownGo /\ CleanupLeavesOne /\ PinBeforeTurnWins
=============================================================================
