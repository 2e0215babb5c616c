------------------------------ MODULE MCFeeds ------------------------------
(***************************************************************************)
(* What the users of a feed share, one machine per behaviour: writers the  *)
(* free space of the disk (SpaceGuard), readers the fetches from its       *)
(* upstream (MirrorFetch), operators its name (FeedCommands).              *)
(***************************************************************************)
EXTENDS SpaceGuard, MirrorFetch, FeedCommands, TLC

CONSTANTS t1, t2, u1, k1, k2

VARIABLE machine

MCOffered == [k \in Keys |-> IF k = k1 THEN {1, 2} ELSE {}]
MCNamed == [k \in Keys |-> IF k = k1 THEN {1} ELSE {}]

\* "fetch" starts without a version and has one event; in "again" the newer version
\* was deleted before, and two events follow, while both reads are of that package.
FeedsInit ==
    /\ Init /\ FetchInit /\ CommandInit
    /\ machine \in {"space", "fetch", "again", "commands"}
    /\ \A k \in Keys, v \in Versions : feedRows[k][v].tomb <=> machine = "again" /\ v = 2
FeedsNext ==
    \/ machine = "space" /\ Next /\ UNCHANGED <<machine, fetchVars, commandVars>>
    \/ /\ machine \in {"fetch", "again"} /\ FetchNext
       /\ IF machine = "fetch" THEN events' <= 1
          ELSE UNCHANGED feedRows[k2] /\ \A r \in Readers : read'[r].key # k2
       /\ UNCHANGED <<machine, vars, commandVars>>
    \/ machine = "commands" /\ CommandNext /\ UNCHANGED <<machine, vars, fetchVars>>
FeedsSpec == FeedsInit /\ [][FeedsNext]_<<machine, vars, fetchVars, commandVars>>

\* The two requests are the writers of one machine and the readers of another.
RequestSymmetry == Permutations({t1, t2})
=============================================================================
