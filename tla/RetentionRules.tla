--------------------------- MODULE RetentionRules ---------------------------
(***************************************************************************)
(* Which versions of a package a cleanup removes.                          *)
(*                                                                         *)
(* A version is [v, pre, pinned, servable, added]: v is its place in the   *)
(* version order, added the day it entered the feed.  A policy is          *)
(* [stable, prerelease, days], each {} or {n}: an unset limit is {}.       *)
(***************************************************************************)
EXTENDS Integers, FiniteSets, FiniteSetsExt

CONSTANT MaxDays     \* the day counts a Duration can hold: 0 .. MaxDays

HasLimits(policy) == policy.stable # {} \/ policy.prerelease # {} \/ policy.days # {}

\* The newest version that must survive: stable if there is a servable one.
Newest(versions) == {c \in versions : \A d \in versions : d.v <= c.v}
Protected(versions) ==
    LET servable == {c \in versions : c.servable}
        stable == {c \in servable : ~c.pre}
    IN  IF stable # {} THEN Newest(stable) ELSE Newest(servable)

\* The day before which a version is too old, if that day can be told
Cutoff(policy, now) == {now - d : d \in {e \in policy.days : e <= MaxDays}}

Rank(c, versions) ==
    Cardinality({d \in versions : d.servable /\ ~d.pinned /\ d.pre = c.pre /\ d.v > c.v})

PrunePlan(versions, policy, now) ==
    {c \in versions :
        /\ HasLimits(policy)
        /\ c.servable /\ ~c.pinned /\ c \notin Protected(versions)
        /\ \/ \E n \in (IF c.pre THEN policy.prerelease ELSE policy.stable) : Rank(c, versions) >= n
           \/ \E day \in Cutoff(policy, now) : c.added < day}

---------------------------------------------------------------------------
\* A cleanup leaves the newest version a client can get, whatever the limits,
\* and a version goes only for a reason the rules give: enough newer ones of its
\* channel, or its age in days, however large the configured number.
PlanKeepsPromises(versions, policy, now) ==
    LET plan == PrunePlan(versions, policy, now)
        best == {c \in versions : c.servable /\ \A d \in versions : d.servable /\ ~d.pre => d.v <= c.v /\ ~c.pre}
    IN  /\ \A c \in versions : c.servable => \E d \in versions \ plan : d.servable /\ (d.pre => c.pre)
        /\ \A c \in best : (\A d \in best : d.v <= c.v) => c \notin plan
        /\ \A c \in plan :
              \/ \E d \in policy.days : now - c.added > d
              \/ \E n \in (IF c.pre THEN policy.prerelease ELSE policy.stable) :
                    Cardinality({d \in versions : d.pre = c.pre /\ d.v > c.v}) >= n

\* A cleanup cut short at any point never removes more when it is run again,
\* and one that ran through removes nothing more.
CleanupIsStable(versions, policy, now) ==
    LET plan == PrunePlan(versions, policy, now)
    IN  /\ \A done \in SUBSET plan : PrunePlan(versions \ done, policy, now) \subseteq plan \ done
        /\ PrunePlan(versions \ plan, policy, now) = {}
=============================================================================
