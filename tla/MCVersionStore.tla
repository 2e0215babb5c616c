-------------------------- MODULE MCVersionStore --------------------------
(***************************************************************************)
(* Instances of VersionStore for TLC.                                      *)
(***************************************************************************)
EXTENDS VersionStore, TLC

CONSTANTS f1, f2, b1, b2, t1, t2, sweeper

\* f1 takes overwrites, f2 is an immutable downstream feed.
OverwriteRing == (f1 :> "enabled") @@ (f2 :> "disabled")
\* An intake feed under review, and one that overwrites pre-releases.
OverwriteIntake == (f1 :> "pending-only") @@ (f2 :> "prerelease-only")
OverwriteAll == [f \in Feeds |-> "enabled"]

NothingBlocked == [f \in Feeds |-> {}]
\* f2's license policy blocks the second build.
SecondBlocked == (f1 :> {}) @@ (f2 :> {b2})

WorkerSymmetry == Permutations({t1, t2})
=============================================================================
