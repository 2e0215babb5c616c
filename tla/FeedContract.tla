--------------------------- MODULE FeedContract ---------------------------
(***************************************************************************)
(* What a YANuget server promises about one package version, without the   *)
(* two stores, the lock, the tasks, the faults and the crashes: one build  *)
(* shared by the feeds that hold it, each feed's own state for it, and the *)
(* tombstones of the feeds it was removed from.  Every change is atomic.   *)
(***************************************************************************)
CONSTANTS Feeds, Builds, None, Memberships, Overwrite, Gated

VARIABLES build, member, tombs

cvars == <<build, member, tombs>>

Held == {f \in Feeds : member[f] # None}
Approved == {f \in Held : ~member[f].pending}

Init ==
    /\ build = None
    /\ member = [f \in Feeds |-> None]
    /\ tombs = {}

\* The version enters a feed, by a push, a mirror fetch or a transfer: as a
\* new build when no feed holds it, as the shared one otherwise; withheld
\* where the feed gates what enters it.
Enter(f, m, b) ==
    /\ member[f] = None
    /\ f \in Gated => m.pending
    /\ build' = IF Held = {} THEN b ELSE build
    /\ member' = [member EXCEPT ![f] = m]
    /\ UNCHANGED tombs

\* A push replaces the build: for everyone while nobody serves it, and
\* otherwise only in the one feed that holds it, if that feed overwrites.  A
\* gated feed withholds the new build, and what is pending stays pending.
Replace(f, m, b) ==
    /\ f \in Held
    /\ b # build =>
          /\ \/ Approved = {}
             \/ Held = {f} /\ Overwrite[f] \in {"enabled", "prerelease-only"}
          /\ f \in Gated => m.pending
    /\ member[f].pending => m.pending
    /\ build' = b
    /\ member' = [member EXCEPT ![f] = m]
    /\ UNCHANGED tombs

\* An admin or the upstream changes a flag, or an admin approves.
Adjust(f, m) ==
    /\ f \in Held
    /\ m.pending => member[f].pending
    /\ member' = [member EXCEPT ![f] = m]
    /\ UNCHANGED <<build, tombs>>

\* The version leaves a feed for good, and is gone once the last one lets go.
Withdraw(f) ==
    /\ f \in Held
    /\ member' = [member EXCEPT ![f] = None]
    /\ tombs' = tombs \cup {f}
    /\ build' = IF Held = {f} THEN None ELSE build

Undelete(f) ==
    /\ tombs' = tombs \ {f}
    /\ UNCHANGED <<build, member>>

Next ==
    \E f \in Feeds :
        \/ \E m \in Memberships, b \in Builds : Enter(f, m, b) \/ Replace(f, m, b)
        \/ \E m \in Memberships : Adjust(f, m)
        \/ Withdraw(f)
        \/ Undelete(f)

Spec == Init /\ [][Next]_cvars
=============================================================================
