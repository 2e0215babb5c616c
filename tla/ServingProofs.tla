---------------------------- MODULE ServingProofs ----------------------------
(***************************************************************************)
(* What the machines behind serving requests keep, for any number of       *)
(* tasks, clients, builds, URLs, files and interruptions.                  *)
(***************************************************************************)
EXTENDS LockRegistry, RateLimit, Downloads, UpstreamClient, DownloadCache, Backup, Schema,
        SequenceTheorems, FunctionTheorems, FiniteSetTheorems, WellFoundedInduction, TLAPS

---------------------------------------------------------------------------
\* The lock registry: one holder per key and a bounded map.  A mutex somebody waits for
\* or holds is never swept and never given to another key; the pigeonhole principle gives
\* acquire a mutex nobody uses.

\* What the registry's fields hold, a dead reference included.
LockTypeOK ==
    /\ DOMAIN lockMap \subseteq LockKeys
    /\ \A k \in DOMAIN lockMap : lockMap[k] \in Nat \ {0}
    /\ sweepAt \in Nat
    /\ lockTask \in [LockTasks -> [pc : {"idle", "waits", "holds"}, key : SUBSET LockKeys, mutex : Nat]]

\* A task that waits for a key's lock or holds it is on the mutex the map has for that
\* key, and no other key shares it.
Registered ==
    /\ \A t \in LockTasks : IF lockTask[t].pc = "idle" THEN lockTask[t].mutex = 0
                            ELSE \E k \in DOMAIN lockMap : lockTask[t].key = {k} /\ lockTask[t].mutex = lockMap[k]
    /\ \A k, l \in DOMAIN lockMap : lockMap[k] = lockMap[l] => k = l

\* A mutex has one holder.
Exclusive ==
    \A t, u \in LockTasks :
        t # u /\ lockTask[t].pc = "holds" /\ lockTask[u].pc = "holds" => lockTask[t].mutex # lockTask[u].mutex

\* The map is swept before it outgrows twice the tasks.
SweptInTime ==
    /\ sweepAt <= 2 * Cardinality(LockTasks) + SweepBase
    /\ RegistryIsBounded

RegistryInv == LockTypeOK /\ Registered /\ Exclusive /\ SweptInTime

\* The image of a finite set has no more members than the set.
LEMMA ImageBound ==
    ASSUME NEW S, IsFiniteSet(S), NEW f, DOMAIN f = S
    PROVE  /\ IsFiniteSet({f[x] : x \in S})
           /\ Cardinality({f[x] : x \in S}) <= Cardinality(S)
<1> DEFINE T == {f[x] : x \in S}
           g == [x \in S |-> f[x]]
<1>1. g \in Surjection(S, T)
  BY DEF Surjection
<1> QED BY <1>1, FS_Surjection

\* A nonempty set of naturals has a least member.
LEMMA LeastMember ==
    ASSUME NEW S \in SUBSET Nat, S # {}
    PROVE  Min(S) \in S /\ \A y \in S : Min(S) <= y
<1>1. PICK x \in S : \A y \in S : ~(<<y, x>> \in OpToRel(<, Nat))
  BY WFMin, NatLessThanWellFounded
<1>2. ASSUME NEW y \in S PROVE x <= y
  <2>1. ~(<<y, x>> \in {ss \in Nat \X Nat : ss[1] < ss[2]})
    BY <1>1 DEF OpToRel
  <2> QED BY <2>1
<1> QED BY <1>2 DEF Min

\* A finite set of numbers has a greatest: one with the fewest above it.
LEMMA GreatestMember ==
    ASSUME NEW S \in SUBSET Nat, S # {}, IsFiniteSet(S)
    PROVE  Max(S) \in S /\ \A y \in S : y <= Max(S)
<1> DEFINE Above(x) == {y \in S : y > x}
           counts == {Cardinality(Above(x)) : x \in S}
<1>1. ASSUME NEW x \in S PROVE IsFiniteSet(Above(x)) /\ Cardinality(Above(x)) \in Nat
  <2>1. IsFiniteSet(Above(x))
    BY FS_Subset
  <2> HIDE DEF Above
  <2> QED BY <2>1, FS_CardinalityType
<1>2. ASSUME NEW x \in S, NEW y \in S, y > x
      PROVE  Above(y) \in SUBSET Above(x) /\ Above(y) # Above(x)
  <2>1. x \in Nat /\ y \in Nat
    OBVIOUS
  <2>2. y \in Above(x) /\ y \notin Above(y)
    BY <1>2, <2>1
  <2>3. ASSUME NEW z \in Above(y) PROVE z \in Above(x)
    <3>1. z \in S /\ z \in Nat /\ z > y
      OBVIOUS
    <3> QED BY <1>2, <2>1, <3>1
  <2> QED BY <2>2, <2>3
<1> HIDE DEF Above
<1>3. counts \in SUBSET Nat /\ counts # {}
  BY <1>1
<1>4. Min(counts) \in counts /\ \A n \in counts : Min(counts) <= n
  BY <1>3, LeastMember
<1>5. PICK x \in S : Cardinality(Above(x)) = Min(counts)
  BY <1>4
<1>6. ASSUME NEW y \in S PROVE y <= x
  <2> SUFFICES ASSUME y > x PROVE FALSE
    BY <1>6
  <2>1. Cardinality(Above(y)) <= Cardinality(Above(x)) /\ Cardinality(Above(y)) # Cardinality(Above(x))
    BY <1>1, <1>2, FS_Subset
  <2>2. Cardinality(Above(x)) <= Cardinality(Above(y))
    BY <1>4, <1>5
  <2>3. Cardinality(Above(x)) \in Nat /\ Cardinality(Above(y)) \in Nat
    BY <1>1
  <2> QED BY <2>1, <2>2, <2>3
<1> QED BY <1>6 DEF Max

\* There are at most as many live mutexes as tasks.
LEMMA LiveBound ==
    /\ IsFiniteSet(Live) /\ Cardinality(Live) \in Nat
    /\ Cardinality(Live) <= Cardinality(LockTasks) /\ Cardinality(LockTasks) \in Nat
<1> DEFINE mutexes == [t \in LockTasks |-> lockTask[t].mutex]
<1>1. IsFiniteSet({mutexes[t] : t \in LockTasks}) /\ Cardinality({mutexes[t] : t \in LockTasks}) <= Cardinality(LockTasks)
  BY ImageBound, RegistryAssumption
<1>2. Live \subseteq {mutexes[t] : t \in LockTasks}
  BY DEF Live
<1> QED BY <1>1, <1>2, FS_Subset, FS_CardinalityType, RegistryAssumption

\* A mutex that was just made is none of those somebody uses or the map refers to.
LEMMA FreshIsUnused ==
    ASSUME LockTypeOK
    PROVE  FreshMutex \in Nat \ {0} /\ FreshMutex \notin Live /\ \A k \in DOMAIN lockMap : lockMap[k] # FreshMutex
<1> DEFINE R == {lockMap[k] : k \in DOMAIN lockMap}
           top == Cardinality(LockTasks) + Cardinality(LockKeys) + 1
           S == (1 .. top) \ (Live \cup R)
<1>1. /\ IsFiniteSet(Live) /\ Cardinality(Live) \in Nat
      /\ Cardinality(Live) <= Cardinality(LockTasks) /\ Cardinality(LockTasks) \in Nat
  BY LiveBound
<1>2. /\ IsFiniteSet(R) /\ Cardinality(R) \in Nat
      /\ Cardinality(R) <= Cardinality(LockKeys) /\ Cardinality(LockKeys) \in Nat
  <2>1. IsFiniteSet(DOMAIN lockMap) /\ Cardinality(DOMAIN lockMap) <= Cardinality(LockKeys)
    BY FS_Subset, RegistryAssumption DEF LockTypeOK
  <2>2. IsFiniteSet(R) /\ Cardinality(R) <= Cardinality(DOMAIN lockMap)
    BY <2>1, ImageBound
  <2> QED BY <2>1, <2>2, FS_CardinalityType, RegistryAssumption
<1>3. IsFiniteSet(Live \cup R) /\ Cardinality(Live \cup R) \in Nat /\ Cardinality(Live \cup R) < top
  <2> HIDE DEF R
  <2>1. IsFiniteSet(Live \cup R) /\ Cardinality(Live \cup R) = Cardinality(Live) + Cardinality(R) - Cardinality(Live \cap R)
    BY <1>1, <1>2, FS_Union
  <2>2. Cardinality(Live \cap R) \in Nat
    BY <1>1, FS_Intersection, FS_CardinalityType
  <2>3. Cardinality(Live \cup R) \in Nat
    BY <2>1, FS_CardinalityType
  <2> QED BY <1>1, <1>2, <2>1, <2>2, <2>3
<1>4. S # {}
  <2>1. SUFFICES ASSUME S = {} PROVE FALSE
    OBVIOUS
  <2>2. 1 .. top \subseteq Live \cup R
    BY <2>1
  <2>3. Cardinality(1 .. top) = top
    BY <1>1, <1>2, FS_Interval
  <2> QED BY <1>1, <1>2, <1>3, <2>2, <2>3, FS_Subset
<1>5. Min(S) \in S
  <2>1. S \in SUBSET Nat
    BY <1>1, <1>2
  <2> QED BY <1>4, <2>1, LeastMember
<1> QED BY <1>5 DEF FreshMutex

\* What acquire hands out and leaves in the map: the mutex of the key, every entry a
\* task relies on, and room within the bound.
LEMMA AcquireKeeps ==
    ASSUME RegistryInv, LockTasks # {}, NEW key \in LockKeys
    PROVE  LET got == Acquire(key) IN
           /\ DOMAIN got.map \subseteq LockKeys
           /\ \A k \in DOMAIN got.map : got.map[k] \in Nat \ {0}
           /\ key \in DOMAIN got.map /\ got.map[key] = got.mutex
           /\ \A k, l \in DOMAIN got.map : got.map[k] = got.map[l] => k = l
           /\ \A k \in DOMAIN lockMap : lockMap[k] \in Live => k \in DOMAIN got.map /\ got.map[k] = lockMap[k]
           /\ got.sweepAt \in Nat /\ got.sweepAt <= 2 * Cardinality(LockTasks) + SweepBase
           /\ Cardinality(DOMAIN got.map) <= 2 * Cardinality(LockTasks) + SweepBase
<1> DEFINE full == Cardinality(DOMAIN lockMap) >= sweepAt
           map == IF full THEN SweptMap ELSE lockMap
           at == IF full THEN 2 * Cardinality(DOMAIN map) + SweepBase ELSE sweepAt
           found == key \in DOMAIN map /\ map[key] \in Live
           made == [k \in DOMAIN map \cup {key} |-> IF k = key THEN FreshMutex ELSE map[k]]
           bound == 2 * Cardinality(LockTasks) + SweepBase
           got == Acquire(key)
<1>1. got = IF found THEN [map |-> map, sweepAt |-> at, mutex |-> map[key]]
                     ELSE [map |-> made, sweepAt |-> at, mutex |-> FreshMutex]
  BY DEF Acquire
<1>2. /\ DOMAIN map \subseteq DOMAIN lockMap
      /\ \A k \in DOMAIN map : map[k] = lockMap[k]
      /\ \A k \in DOMAIN lockMap : lockMap[k] \in Live => k \in DOMAIN map
  BY DEF SweptMap, Keep
<1>3. FreshMutex \in Nat \ {0} /\ FreshMutex \notin Live /\ \A k \in DOMAIN lockMap : lockMap[k] # FreshMutex
  BY FreshIsUnused DEF RegistryInv
<1>4. /\ Cardinality(LockTasks) \in Nat /\ Cardinality(LockTasks) >= 1
      /\ IsFiniteSet(DOMAIN lockMap) /\ Cardinality(DOMAIN lockMap) \in Nat
      /\ SweepBase \in Nat /\ sweepAt \in Nat /\ sweepAt <= bound /\ Cardinality(DOMAIN lockMap) <= bound
  <2>1. IsFiniteSet(DOMAIN lockMap)
    BY FS_Subset, RegistryAssumption DEF RegistryInv, LockTypeOK
  <2>2. Cardinality(LockTasks) # 0
    BY FS_EmptySet, RegistryAssumption
  <2> QED BY <2>1, <2>2, FS_CardinalityType, RegistryAssumption
          DEF RegistryInv, LockTypeOK, SweptInTime, RegistryIsBounded
<1>5. IsFiniteSet(DOMAIN map) /\ Cardinality(DOMAIN map) \in Nat
  BY <1>2, <1>4, FS_Subset, FS_CardinalityType
<1>6. full => Cardinality(DOMAIN map) <= Cardinality(LockTasks)
  <2>1. SUFFICES ASSUME full PROVE Cardinality(DOMAIN map) <= Cardinality(LockTasks)
    OBVIOUS
  <2>2. DOMAIN map = {k \in DOMAIN lockMap : lockMap[k] \in Live}
    BY <2>1 DEF SweptMap, Keep
  <2> DEFINE f == [k \in DOMAIN map |-> lockMap[k]]
  <2>3. f \in Injection(DOMAIN map, Live)
    <3>1. f \in [DOMAIN map -> Live]
      BY <2>2
    <3>2. \A k, l \in DOMAIN map : f[k] = f[l] => k = l
      BY <1>2 DEF RegistryInv, Registered
    <3> QED BY <3>1, <3>2 DEF Injection, IsInjective
  <2>4. Cardinality(DOMAIN map) <= Cardinality(Live)
    BY <2>3, LiveBound, FS_Injection
  <2> QED BY <1>5, <2>4, LiveBound
<1>7. at \in Nat /\ at <= bound
  BY <1>4, <1>5, <1>6
<1>8. Cardinality(DOMAIN map) + 1 <= bound
  BY <1>4, <1>5, <1>6
<1>9. Cardinality(DOMAIN map \cup {key}) <= bound
  <2> HIDE DEF map
  <2>1. Cardinality(DOMAIN map \cup {key}) \in {Cardinality(DOMAIN map), Cardinality(DOMAIN map) + 1}
    BY <1>5, FS_AddElement
  <2> QED BY <1>4, <1>5, <1>8, <2>1
<1>10. CASE found
  <2> HIDE DEF map, at, found
  <2>1. got.map = map /\ got.sweepAt = at /\ got.mutex = map[key]
    BY <1>1, <1>10
  <2>2. key \in DOMAIN map
    BY <1>10 DEF found
  <2>3. Cardinality(DOMAIN map) <= bound
    BY <1>4, <1>5, <1>8
  <2>4. /\ DOMAIN map \subseteq LockKeys /\ \A k \in DOMAIN map : map[k] \in Nat \ {0}
        /\ \A k, l \in DOMAIN map : map[k] = map[l] => k = l
    BY <1>2 DEF RegistryInv, LockTypeOK, Registered
  <2> QED BY <1>2, <1>7, <2>1, <2>2, <2>3, <2>4
<1>11. CASE ~found
  <2> HIDE DEF map, at, found
  <2>1. got.map = made /\ got.sweepAt = at /\ got.mutex = FreshMutex /\ DOMAIN made = DOMAIN map \cup {key}
    BY <1>1, <1>11
  <2>2. DOMAIN made \subseteq LockKeys /\ \A k \in DOMAIN made : made[k] \in Nat \ {0}
    BY <1>2, <1>3 DEF RegistryInv, LockTypeOK
  <2>3. \A k, l \in DOMAIN made : made[k] = made[l] => k = l
    BY <1>2, <1>3 DEF RegistryInv, Registered
  <2>4. ASSUME NEW k \in DOMAIN lockMap, lockMap[k] \in Live PROVE k \in DOMAIN made /\ made[k] = lockMap[k]
    BY <1>2, <1>11, <2>4 DEF found
  <2>5. key \in DOMAIN made /\ made[key] = FreshMutex
    OBVIOUS
  <2>6. Cardinality(DOMAIN made) <= bound
    BY <1>9, <2>1
  <2> HIDE DEF made, bound, got
  <2>7. /\ DOMAIN got.map \subseteq LockKeys /\ \A k \in DOMAIN got.map : got.map[k] \in Nat \ {0}
        /\ key \in DOMAIN got.map /\ got.map[key] = got.mutex
        /\ \A k, l \in DOMAIN got.map : got.map[k] = got.map[l] => k = l
        /\ \A k \in DOMAIN lockMap : lockMap[k] \in Live => k \in DOMAIN got.map /\ got.map[k] = lockMap[k]
    BY <2>1, <2>2, <2>3, <2>4, <2>5
  <2>8. got.sweepAt \in Nat /\ got.sweepAt <= bound /\ Cardinality(DOMAIN got.map) <= bound
    BY <1>7, <2>1, <2>6
  <2> QED BY <2>7, <2>8 DEF bound, got
<1> QED BY <1>10, <1>11

\* An empty registry satisfies the invariant.
LEMMA RegistryInit == LockInit => RegistryInv
<1>1. Cardinality(LockTasks) \in Nat /\ SweepBase \in Nat /\ Cardinality({}) = 0
  BY RegistryAssumption, FS_CardinalityType, FS_EmptySet
<1>2. DOMAIN <<>> = {}
  OBVIOUS
<1> QED BY <1>1, <1>2 DEF LockInit, IdleTask, RegistryInv, LockTypeOK, Registered, Exclusive, SweptInTime, RegistryIsBounded

\* Every step of a task keeps the invariant: what acquire may drop or replace is an entry
\* nobody refers to.
LEMMA RegistryStep == RegistryInv /\ [LockNext]_lockVars => RegistryInv'
<1> SUFFICES ASSUME RegistryInv, [LockNext]_lockVars PROVE RegistryInv'
  OBVIOUS
<1> USE DEF RegistryInv
<1>1. ASSUME NEW t \in LockTasks, NEW key \in LockKeys, lockTask[t].pc = "idle",
             NEW got, got = Acquire(key), lockMap' = got.map, sweepAt' = got.sweepAt,
             \/ lockTask' = lockTask
             \/ lockTask' = [lockTask EXCEPT ![t] = [pc |-> "waits", key |-> {key}, mutex |-> got.mutex]]
             \/ /\ got.mutex \notin Held
                /\ lockTask' = [lockTask EXCEPT ![t] = [pc |-> "holds", key |-> {key}, mutex |-> got.mutex]]
      PROVE  RegistryInv'
  <2>1. /\ DOMAIN lockMap' \subseteq LockKeys
        /\ \A k \in DOMAIN lockMap' : lockMap'[k] \in Nat \ {0}
        /\ key \in DOMAIN lockMap' /\ lockMap'[key] = got.mutex
        /\ \A k, l \in DOMAIN lockMap' : lockMap'[k] = lockMap'[l] => k = l
        /\ \A k \in DOMAIN lockMap : lockMap[k] \in Live => k \in DOMAIN lockMap' /\ lockMap'[k] = lockMap[k]
        /\ SweptInTime' /\ sweepAt' \in Nat
    BY <1>1, AcquireKeeps DEF SweptInTime, RegistryIsBounded
  <2>2. LockTypeOK'
    BY <1>1, <2>1 DEF LockTypeOK
  <2>3. ASSUME NEW u \in LockTasks, lockTask[u].pc # "idle"
        PROVE  \E k \in DOMAIN lockMap' : lockTask[u].key = {k} /\ lockTask[u].mutex = lockMap'[k]
    <3>1. PICK k \in DOMAIN lockMap : lockTask[u].key = {k} /\ lockTask[u].mutex = lockMap[k]
      BY <2>3 DEF Registered
    <3>2. lockMap[k] \in Live
      BY <3>1 DEF Live, LockTypeOK
    <3> QED BY <2>1, <3>1, <3>2
  <2>4. Registered'
    BY <1>1, <2>1, <2>3 DEF Registered, LockTypeOK
  <2>5. Exclusive'
    BY <1>1 DEF Exclusive, Held, LockTypeOK
  <2> QED BY <2>1, <2>2, <2>4, <2>5
<1>2. ASSUME NEW t \in LockTasks, NEW key \in LockKeys, AskLock(t, key) PROVE RegistryInv'
  BY <1>1, <1>2 DEF AskLock
<1>3. ASSUME NEW t \in LockTasks, NEW key \in LockKeys, TryLock(t, key) PROVE RegistryInv'
  BY <1>1, <1>3 DEF TryLock
<1>4. ASSUME NEW t \in LockTasks, TakeLock(t) PROVE RegistryInv'
  BY <1>4 DEF TakeLock, LockTypeOK, Registered, Exclusive, Held, SweptInTime, RegistryIsBounded
<1>5. ASSUME NEW t \in LockTasks, DropLock(t) PROVE RegistryInv'
  BY <1>5 DEF DropLock, IdleTask, LockTypeOK, Registered, Exclusive, SweptInTime, RegistryIsBounded
<1>6. CASE UNCHANGED lockVars
  BY <1>6 DEF lockVars, LockTypeOK, Registered, Exclusive, SweptInTime, RegistryIsBounded
<1> QED BY <1>2, <1>3, <1>4, <1>5, <1>6 DEF LockNext

\* Two tasks never hold the lock of one key, and the map stays bounded, for any number
\* of tasks and keys and whatever is swept (locks.rs acquire).
THEOREM LocksAreKeyed == LockSpec => []LocksStayKeyed
<1>1. RegistryInv => LocksStayKeyed
  BY DEF RegistryInv, Registered, Exclusive, SweptInTime, LocksStayKeyed, OneHolderPerKey
<1> QED BY <1>1, RegistryInit, RegistryStep, PTL DEF LockSpec

---------------------------------------------------------------------------
\* The throttle: what was let through since a bucket began is counted in it, up to the
\* requests in flight when it filled up; what is older than the bucket but recent was
\* counted in its predecessor, without the one that opened it, which is a window ago.

Limiters == {"requests", "failures"}

Log(l) == IF l = "requests" THEN admits ELSE guesses

\* The tasks whose answer may still be noted in net's bucket beyond its budget.
Flying(l, net) == IF l = "requests" THEN {} ELSE {t \in RequestTasks : \E c \in request[t] : Subscriber(c) = net}

\* How much more than the budget one bucket may see.
Slack(l) == IF l = "requests" THEN 0 ELSE Cardinality(RequestTasks) - 1

IsRecent(e) == clock - e.at < RateWindow
RecentOf(l, net) == {e \in Log(l) : e.net = net /\ IsRecent(e)}
Since(l, net, s) == {e \in RecentOf(l, net) : e.at >= s}
After(l, net, s) == {e \in RecentOf(l, net) : e.at > s}
Before(l, net, s) == {e \in RecentOf(l, net) : e.at < s}

\* k bounds what was let through since net's bucket began.
Counted(l, net, k) ==
    LET b == buckets[l][net] IN
    /\ Cardinality(Since(l, net, b.start)) <= k
    /\ Cardinality(After(l, net, b.start)) <= k - 1
    /\ b.count < MaxOf(l) => k <= b.count
    /\ b.count = MaxOf(l) /\ net \in Unexpired(buckets[l]) => k + Cardinality(Flying(l, net)) <= MaxOf(l) + Slack(l)

NetFits(l, net) ==
    IF net \in DOMAIN buckets[l]
    THEN /\ \E k \in 1 .. MaxOf(l) + Slack(l) : Counted(l, net, k)
         /\ Cardinality(Before(l, net, buckets[l][net].start)) <= MaxOf(l) + Slack(l) - 1
    ELSE Cardinality(RecentOf(l, net)) <= MaxOf(l) + Slack(l) - 1

RateTypeOK ==
    /\ clock \in Nat
    /\ DOMAIN buckets = Limiters /\ buckets = [l \in Limiters |-> buckets[l]]
    /\ request \in [RequestTasks -> SUBSET Clients]
    /\ \A l \in Limiters :
          /\ IsFiniteSet(Log(l)) /\ \A e \in Log(l) : e.at \in 0 .. clock
          /\ \A n \in DOMAIN buckets[l] : buckets[l][n] \in [start : 0 .. clock, count : 1 .. MaxOf(l)]

\* What was let through just now is counted in a bucket of this window.
NowIsCounted(l) == \A e \in Log(l) : e.at = clock /\ IsRecent(e) => e.net \in Unexpired(buckets[l])

RateInv ==
    /\ RateTypeOK
    /\ \A l \in Limiters : NowIsCounted(l) /\ \A net : NetFits(l, net)

\* Sizes

\* Budgets are positive, and only failures have requests in flight beyond them.
LEMMA Budgets ==
    ASSUME NEW l \in Limiters
    PROVE  /\ MaxOf(l) \in Nat \ {0} /\ Slack(l) \in Nat
           /\ l = "failures" => Slack(l) = Cardinality(RequestTasks) - 1
<1>1. Cardinality(RequestTasks) \in Nat /\ Cardinality(RequestTasks) # 0
  BY RateAssumption, FS_CardinalityType, FS_EmptySet
<1> QED BY <1>1, RateAssumption DEF MaxOf, Slack, Limiters

\* A subset is finite and no larger.
LEMMA SmallerSet ==
    ASSUME NEW S, IsFiniteSet(S), NEW T \in SUBSET S
    PROVE  IsFiniteSet(T) /\ Cardinality(T) \in Nat /\ Cardinality(S) \in Nat /\ Cardinality(T) <= Cardinality(S)
BY FS_Subset, FS_CardinalityType

\* A set with one more member is at most one larger.
LEMMA OneMore ==
    ASSUME NEW S, IsFiniteSet(S), NEW x, NEW T \in SUBSET (S \cup {x})
    PROVE  IsFiniteSet(T) /\ Cardinality(T) \in Nat /\ Cardinality(S) \in Nat /\ Cardinality(T) <= Cardinality(S) + 1
<1>1. IsFiniteSet(S \cup {x}) /\ Cardinality(S \cup {x}) <= Cardinality(S) + 1 /\ Cardinality(S) \in Nat
  BY FS_AddElement, FS_CardinalityType
<1>2. /\ IsFiniteSet(T) /\ Cardinality(T) \in Nat /\ Cardinality(S \cup {x}) \in Nat
      /\ Cardinality(T) <= Cardinality(S \cup {x})
  BY <1>1, SmallerSet
<1> QED BY <1>1, <1>2

\* The requests in flight are a number.
LEMMA FlyingSize ==
    ASSUME NEW l \in Limiters, NEW net
    PROVE  IsFiniteSet(Flying(l, net)) /\ Cardinality(Flying(l, net)) \in Nat
<1>1. Flying(l, net) \in SUBSET RequestTasks
  BY DEF Flying
<1> QED BY <1>1, RateAssumption, SmallerSet

\* What was let through lately is a number.
LEMMA RecentSize ==
    ASSUME RateTypeOK, NEW l \in Limiters, NEW net, NEW S \in SUBSET RecentOf(l, net)
    PROVE  IsFiniteSet(S) /\ Cardinality(S) \in Nat
<1>1. S \in SUBSET Log(l) /\ IsFiniteSet(Log(l))
  BY DEF RecentOf, RateTypeOK
<1> QED BY <1>1, SmallerSet

\* check_at

\* check_at counts in the bucket of the window, or opens one in place of an expired one.
LEMMA CheckAtIs ==
    ASSUME RateTypeOK, NEW l \in Limiters, NEW client
    PROVE  LET r == CheckAt(l, client)  map == buckets[l]  net == BucketKey(client) IN
           /\ net \in DOMAIN r.map
           /\ \A n \in DOMAIN r.map : n # net => n \in DOMAIN map /\ r.map[n] = map[n]
           /\ \A n \in DOMAIN map : n \notin DOMAIN r.map => n \notin Unexpired(map)
           /\ net \in Unexpired(map) =>
                 /\ (r.ok <=> map[net].count < MaxOf(l)) /\ r.map[net].start = map[net].start
                 /\ r.map[net].count = IF r.ok THEN map[net].count + 1 ELSE map[net].count
                 /\ r.map[net] \in [start : 0 .. clock, count : 1 .. MaxOf(l)]
           /\ net \notin Unexpired(map) => r.ok /\ r.map[net] = [start |-> clock, count |-> 1]
<1> DEFINE map == buckets[l]
           net == BucketKey(client)
           full == Cardinality(DOMAIN map) >= bucketSweep[l]
           kept == IF full THEN [n \in Unexpired(map) |-> map[n]] ELSE map
           fresh == [start |-> clock, count |-> 0]
           bucket == IF net \in Unexpired(kept) THEN kept[net] ELSE fresh
           ok == bucket.count < MaxOf(l)
           spent == IF ok THEN [bucket EXCEPT !.count = @ + 1] ELSE bucket
           r == CheckAt(l, client)
<1>0. MaxOf(l) \in Nat \ {0} /\ clock \in Nat
  BY Budgets DEF RateTypeOK
<1>1. /\ Unexpired(kept) = Unexpired(map) /\ DOMAIN kept \in SUBSET DOMAIN map
      /\ \A n \in DOMAIN kept : kept[n] = map[n]
      /\ \A n \in DOMAIN map : n \notin DOMAIN kept => n \notin Unexpired(map)
  BY DEF Unexpired
<1>2. (r.ok <=> ok) /\ r.map = [n \in DOMAIN kept \cup {net} |-> IF n = net THEN spent ELSE kept[n]]
  BY DEF CheckAt
<1>3. r.map[net] = spent /\ DOMAIN r.map = DOMAIN kept \cup {net} /\ \A n \in DOMAIN kept : n # net => r.map[n] = kept[n]
  BY <1>2
<1> HIDE DEF kept, r
<1>4. ASSUME net \in Unexpired(map)
      PROVE  /\ bucket = map[net] /\ map[net] \in [start : 0 .. clock, count : 1 .. MaxOf(l)]
  <2>1. net \in DOMAIN kept /\ net \in Unexpired(kept) /\ net \in DOMAIN map
    BY <1>1, <1>4 DEF Unexpired
  <2> QED BY <1>1, <2>1 DEF RateTypeOK
<1>5. ASSUME net \notin Unexpired(map) PROVE bucket = fresh
  BY <1>1, <1>5
<1>6. ASSUME net \notin Unexpired(map) PROVE r.ok /\ r.map[net] = [start |-> clock, count |-> 1]
  <2>1. bucket = fresh /\ ok
    BY <1>0, <1>5, <1>6
  <2>2. spent = [start |-> clock, count |-> 1]
    BY <2>1
  <2> HIDE DEF bucket, ok, spent
  <2> QED BY <1>2, <1>3, <2>1, <2>2
<1>7. ASSUME net \in Unexpired(map)
      PROVE  /\ (r.ok <=> map[net].count < MaxOf(l)) /\ r.map[net].start = map[net].start
             /\ r.map[net].count = IF r.ok THEN map[net].count + 1 ELSE map[net].count
             /\ r.map[net] \in [start : 0 .. clock, count : 1 .. MaxOf(l)]
  <2>1. bucket = map[net] /\ map[net] \in [start : 0 .. clock, count : 1 .. MaxOf(l)]
    BY <1>4, <1>7
  <2>2. (ok <=> map[net].count < MaxOf(l)) /\ map[net].count \in 1 .. MaxOf(l)
    BY <2>1
  <2>3. spent = IF ok THEN [map[net] EXCEPT !.count = @ + 1] ELSE map[net]
    BY <2>1
  <2> HIDE DEF bucket, ok, spent, map
  <2>4. CASE ok
    BY <1>0, <1>2, <1>3, <2>1, <2>2, <2>3, <2>4
  <2>5. CASE ~ok
    BY <1>0, <1>2, <1>3, <2>1, <2>2, <2>3, <2>5
  <2> QED BY <2>4, <2>5
<1> HIDE DEF map
<1> QED BY <1>1, <1>3, <1>6, <1>7 DEF r, map

\* A limiter whose buckets are not touched: what is recent only gets less.
LEMMA Untouched ==
    ASSUME RateInv, NEW l \in Limiters, buckets'[l] = buckets[l], Log(l)' \in SUBSET Log(l),
           clock' \in {clock, clock + 1},
           \A net : \/ Flying(l, net)' \in SUBSET Flying(l, net)
                    \/ ~(net \in Unexpired(buckets[l]) /\ buckets[l][net].count = MaxOf(l))
    PROVE  NowIsCounted(l)' /\ \A net : NetFits(l, net)'
<1> USE DEF RateInv
<1>0. clock \in Nat /\ clock' \in Nat /\ clock' >= clock /\ RateWindow \in Nat /\ \A e \in Log(l) : e.at \in 0 .. clock
  BY RateAssumption DEF RateTypeOK
<1>1. \A e \in Log(l)' : e \in Log(l) /\ (IsRecent(e)' => IsRecent(e)) /\ e.at \in 0 .. clock
  BY <1>0 DEF IsRecent
<1>2. Unexpired(buckets[l])' \in SUBSET Unexpired(buckets[l])
  <2>1. \A n \in DOMAIN buckets[l] : buckets[l][n].start \in 0 .. clock
    BY DEF RateTypeOK
  <2> QED BY <1>0, <2>1 DEF Unexpired
<1>3. NowIsCounted(l)'
  <2>1. CASE clock' = clock
    BY <1>1, <2>1 DEF NowIsCounted, Unexpired, IsRecent
  <2>2. CASE clock' = clock + 1
    BY <1>0, <1>1, <2>2 DEF NowIsCounted
  <2> QED BY <2>1, <2>2
<1>4. ASSUME NEW net PROVE NetFits(l, net)'
  <2>1. RecentOf(l, net)' \in SUBSET RecentOf(l, net)
    BY <1>1 DEF RecentOf
  <2>2. ASSUME NEW S \in SUBSET RecentOf(l, net), NEW T \in SUBSET S
        PROVE  Cardinality(T) \in Nat /\ Cardinality(S) \in Nat /\ Cardinality(T) <= Cardinality(S)
    BY RecentSize, SmallerSet
  <2>3. CASE net \notin DOMAIN buckets[l]
    BY <2>1, <2>2, <2>3, Budgets DEF NetFits
  <2>4. CASE net \in DOMAIN buckets[l]
    <3> DEFINE b == buckets[l][net]
    <3>1. /\ \A s : Since(l, net, s)' \in SUBSET Since(l, net, s) /\ After(l, net, s)' \in SUBSET After(l, net, s)
          /\ \A s : Before(l, net, s)' \in SUBSET Before(l, net, s)
      BY <2>1 DEF Since, After, Before
    <3>2. /\ \A s : Since(l, net, s) \in SUBSET RecentOf(l, net) /\ After(l, net, s) \in SUBSET RecentOf(l, net)
          /\ \A s : Before(l, net, s) \in SUBSET RecentOf(l, net)
      BY DEF Since, After, Before
    <3>3. PICK k \in 1 .. MaxOf(l) + Slack(l) : Counted(l, net, k)
      BY <2>4 DEF NetFits
    <3>4. Cardinality(Before(l, net, b.start)) <= MaxOf(l) + Slack(l) - 1
      BY <2>4 DEF NetFits
    <3>5. /\ Cardinality(Since(l, net, b.start)') <= k /\ Cardinality(After(l, net, b.start)') <= k - 1
          /\ Cardinality(Before(l, net, b.start)') <= MaxOf(l) + Slack(l) - 1
      <4>1. /\ Cardinality(Since(l, net, b.start)') <= Cardinality(Since(l, net, b.start))
            /\ Cardinality(After(l, net, b.start)') <= Cardinality(After(l, net, b.start))
            /\ Cardinality(Before(l, net, b.start)') <= Cardinality(Before(l, net, b.start))
            /\ Cardinality(Since(l, net, b.start)') \in Nat /\ Cardinality(Since(l, net, b.start)) \in Nat
            /\ Cardinality(After(l, net, b.start)') \in Nat /\ Cardinality(After(l, net, b.start)) \in Nat
            /\ Cardinality(Before(l, net, b.start)') \in Nat /\ Cardinality(Before(l, net, b.start)) \in Nat
        BY <2>2, <3>1, <3>2
      <4> QED BY <3>3, <3>4, <4>1, Budgets DEF Counted
    <3>6. b.count = MaxOf(l) /\ net \in Unexpired(buckets[l])' =>
             k + Cardinality(Flying(l, net)') <= MaxOf(l) + Slack(l)
      <4>1. SUFFICES ASSUME b.count = MaxOf(l), net \in Unexpired(buckets[l])
                     PROVE  k + Cardinality(Flying(l, net)') <= MaxOf(l) + Slack(l)
        BY <1>2
      <4>2. Flying(l, net)' \in SUBSET Flying(l, net)
        BY <4>1
      <4>3. /\ Cardinality(Flying(l, net)') <= Cardinality(Flying(l, net))
            /\ Cardinality(Flying(l, net)') \in Nat /\ Cardinality(Flying(l, net)) \in Nat
        BY <4>2, FlyingSize, SmallerSet
      <4>4. k + Cardinality(Flying(l, net)) <= MaxOf(l) + Slack(l)
        BY <3>3, <4>1 DEF Counted
      <4> QED BY <4>3, <4>4, Budgets
    <3>7. Counted(l, net, k)'
      BY <3>3, <3>5, <3>6 DEF Counted
    <3> QED BY <2>4, <3>5, <3>7 DEF NetFits
  <2> QED BY <2>3, <2>4
<1> QED BY <1>3, <1>4

\* A bucket that is not of this window, or gone: what it counted is recent except
\* for what opened it.
LEMMA OldWindow ==
    ASSUME RateInv, NEW l \in Limiters, NEW net, net \notin Unexpired(buckets[l])
    PROVE  Cardinality(RecentOf(l, net)) <= MaxOf(l) + Slack(l) - 1
<1> USE DEF RateInv
<1>1. CASE net \notin DOMAIN buckets[l]
  BY <1>1 DEF NetFits
<1>2. CASE net \in DOMAIN buckets[l]
  <2> DEFINE s == buckets[l][net].start
  <2>1. s \in 0 .. clock /\ clock \in Nat /\ RateWindow \in Nat /\ clock - s >= RateWindow
    BY <1>2, RateAssumption DEF RateTypeOK, Unexpired
  <2>2. \A e \in Log(l) : e.at \in 0 .. clock
    BY DEF RateTypeOK
  <2>3. RecentOf(l, net) = After(l, net, s)
    BY <2>1, <2>2 DEF RecentOf, After, IsRecent
  <2>4. PICK k \in 1 .. MaxOf(l) + Slack(l) : Counted(l, net, k)
    BY <1>2 DEF NetFits
  <2>5. Cardinality(After(l, net, s)) <= k - 1 /\ Cardinality(After(l, net, s)) \in Nat
    BY <2>3, <2>4, RecentSize DEF Counted
  <2> QED BY <2>3, <2>4, <2>5, Budgets
<1> QED BY <1>1, <1>2

\* check_at and the entry it lets through, or the one that was in flight when
\* the budget was used up.
LEMMA Spent ==
    ASSUME RateInv, NEW l \in Limiters, NEW client, UNCHANGED clock,
           buckets'[l] = CheckAt(l, client).map,
           \/ Log(l)' = Note(Log(l), client)
           \/ Log(l)' = Log(l) /\ ~CheckAt(l, client).ok,
           l = "requests" /\ ~CheckAt(l, client).ok => Log(l)' = Log(l),
           \A net : Flying(l, net)' \in SUBSET Flying(l, net),
           l = "failures" => \E t \in Flying(l, BucketKey(client)) : t \notin Flying(l, BucketKey(client))'
    PROVE  /\ NowIsCounted(l)' /\ (\A net : NetFits(l, net)')
           /\ IsFiniteSet(Log(l)') /\ (\A e \in Log(l)' : e.at \in 0 .. clock)
           /\ \A n \in DOMAIN buckets'[l] : buckets'[l][n] \in [start : 0 .. clock, count : 1 .. MaxOf(l)]
<1> USE DEF RateInv
<1> DEFINE r == CheckAt(l, client)
           map == buckets[l]
           net == BucketKey(client)
           max == MaxOf(l)
           slack == Slack(l)
<1>0. /\ clock \in Nat /\ clock' = clock /\ RateWindow \in Nat /\ max \in Nat \ {0} /\ slack \in Nat
      /\ (l = "failures" => slack = Cardinality(RequestTasks) - 1)
      /\ IsFiniteSet(Log(l)) /\ \A e \in Log(l) : e.at \in 0 .. clock
  BY Budgets, RateAssumption DEF RateTypeOK
<1>1. /\ net \in DOMAIN r.map
      /\ \A n \in DOMAIN r.map : n # net => n \in DOMAIN map /\ r.map[n] = map[n]
      /\ \A n \in DOMAIN map : n \notin DOMAIN r.map => n \notin Unexpired(map)
      /\ net \in Unexpired(map) =>
            /\ (r.ok <=> map[net].count < max) /\ r.map[net].start = map[net].start
            /\ r.map[net].count = IF r.ok THEN map[net].count + 1 ELSE map[net].count
            /\ r.map[net] \in [start : 0 .. clock, count : 1 .. max]
      /\ net \notin Unexpired(map) => r.ok /\ r.map[net] = [start |-> clock, count |-> 1]
  BY CheckAtIs
<1> HIDE DEF r
<1>2. PICK x : x.net = net /\ x.at = clock /\ Log(l)' \in SUBSET (Log(l) \cup {x})
  <2> DEFINE x == [net |-> Subscriber(client), at |-> clock,
                   nth |-> Cardinality({e \in Log(l) : e.net = Subscriber(client) /\ e.at = clock})]
  <2>1. Log(l)' = Log(l) \cup {x} \/ Log(l)' = Log(l)
    BY DEF Note
  <2>2. x.net = net /\ x.at = clock
    BY DEF Subscriber, BucketKey
  <2> HIDE DEF x
  <2> QED BY <2>1, <2>2
<1>3. IsFiniteSet(Log(l)') /\ \A e \in Log(l)' : e.at \in 0 .. clock
  <2>1. IsFiniteSet(Log(l)')
    BY <1>0, <1>2, OneMore
  <2> QED BY <1>0, <1>2, <2>1
<1>4. \A n \in DOMAIN buckets'[l] : buckets'[l][n] \in [start : 0 .. clock, count : 1 .. max]
  <2>1. ASSUME NEW n \in DOMAIN r.map PROVE r.map[n] \in [start : 0 .. clock, count : 1 .. max]
    <3>1. CASE n # net
      BY <1>1, <3>1 DEF RateTypeOK
    <3>2. CASE n = net
      BY <1>0, <1>1, <3>2
    <3> QED BY <3>1, <3>2
  <2> QED BY <2>1 DEF r
<1>5. net \in Unexpired(buckets[l])' \/ RateWindow = 0
  <2>1. clock - buckets'[l][net].start < RateWindow \/ RateWindow = 0
    BY <1>0, <1>1 DEF r, Unexpired
  <2> QED BY <1>1, <2>1, <1>0 DEF Unexpired, r
<1>6. \A n : n # net /\ n \in Unexpired(map) => n \in Unexpired(buckets[l])' /\ buckets'[l][n] = map[n]
  BY <1>0, <1>1 DEF Unexpired, r
<1>7. NowIsCounted(l)'
  <2>1. SUFFICES ASSUME NEW e \in Log(l)', e.at = clock, IsRecent(e)' PROVE e.net \in Unexpired(buckets[l])'
    BY <1>0 DEF NowIsCounted
  <2>2. RateWindow # 0
    BY <1>0, <2>1 DEF IsRecent
  <2>3. CASE e = x
    BY <1>2, <1>5, <2>2, <2>3
  <2>4. CASE e # x
    <3>1. e.net \in Unexpired(map)
      BY <1>0, <1>2, <2>1, <2>4 DEF NowIsCounted, IsRecent
    <3> QED BY <1>5, <1>6, <2>2, <3>1
  <2> QED BY <2>3, <2>4
<1>8. ASSUME NEW n, n # net PROVE NetFits(l, n)'
  <2>1. RecentOf(l, n)' \in SUBSET RecentOf(l, n)
    BY <1>0, <1>2, <1>8 DEF RecentOf, IsRecent
  <2>2. ASSUME NEW S \in SUBSET RecentOf(l, n), NEW T \in SUBSET S
        PROVE  Cardinality(T) \in Nat /\ Cardinality(S) \in Nat /\ Cardinality(T) <= Cardinality(S)
    BY RecentSize, SmallerSet
  <2>3. CASE n \notin DOMAIN r.map
    <3>1. n \notin Unexpired(map)
      BY <1>1, <2>3 DEF Unexpired
    <3>2. Cardinality(RecentOf(l, n)) <= max + slack - 1
      BY <3>1, OldWindow
    <3>3. Cardinality(RecentOf(l, n)') <= max + slack - 1
      BY <1>0, <2>1, <2>2, <3>2
    <3> QED BY <2>3, <3>3 DEF NetFits, r
  <2>4. CASE n \in DOMAIN r.map
    <3>1. n \in DOMAIN map /\ buckets'[l][n] = map[n] /\ n \in DOMAIN buckets'[l]
      BY <1>1, <1>8, <2>4 DEF r
    <3>2. PICK k \in 1 .. max + slack : Counted(l, n, k)
      BY <3>1 DEF NetFits
    <3> DEFINE s == map[n].start
    <3>3. Cardinality(Before(l, n, s)) <= max + slack - 1
      BY <3>1 DEF NetFits
    <3>4. /\ Since(l, n, s)' \in SUBSET Since(l, n, s) /\ After(l, n, s)' \in SUBSET After(l, n, s)
          /\ Before(l, n, s)' \in SUBSET Before(l, n, s) /\ Since(l, n, s) \in SUBSET RecentOf(l, n)
          /\ After(l, n, s) \in SUBSET RecentOf(l, n) /\ Before(l, n, s) \in SUBSET RecentOf(l, n)
      BY <2>1, <3>1 DEF Since, After, Before
    <3>5. /\ Cardinality(Since(l, n, s)') <= k /\ Cardinality(After(l, n, s)') <= k - 1
          /\ Cardinality(Before(l, n, s)') <= max + slack - 1
      <4>1. /\ Cardinality(Since(l, n, s)') <= Cardinality(Since(l, n, s))
            /\ Cardinality(After(l, n, s)') <= Cardinality(After(l, n, s))
            /\ Cardinality(Before(l, n, s)') <= Cardinality(Before(l, n, s))
            /\ Cardinality(Since(l, n, s)') \in Nat /\ Cardinality(Since(l, n, s)) \in Nat
            /\ Cardinality(After(l, n, s)') \in Nat /\ Cardinality(After(l, n, s)) \in Nat
            /\ Cardinality(Before(l, n, s)') \in Nat /\ Cardinality(Before(l, n, s)) \in Nat
        BY <2>2, <3>4
      <4> QED BY <1>0, <3>2, <3>3, <4>1 DEF Counted
    <3>6. /\ Cardinality(Flying(l, n)') <= Cardinality(Flying(l, n))
          /\ Cardinality(Flying(l, n)') \in Nat /\ Cardinality(Flying(l, n)) \in Nat
      BY FlyingSize, SmallerSet
    <3>7. n \in Unexpired(buckets[l])' => n \in Unexpired(map)
      BY <1>0, <3>1 DEF Unexpired
    <3>8. Counted(l, n, k)'
      BY <1>0, <3>1, <3>2, <3>5, <3>6, <3>7 DEF Counted
    <3> QED BY <3>1, <3>5, <3>8 DEF NetFits
  <2> QED BY <2>3, <2>4
<1>9. NetFits(l, net)'
  <2> DEFINE f == Cardinality(Flying(l, net))
  <2>1. /\ f \in Nat /\ f' \in Nat /\ f' <= f /\ f' <= slack
        /\ l = "failures" => f' <= f - 1
    <3>1. CASE l = "requests"
      <4>1. Flying(l, net) = {} /\ Flying(l, net)' = {}
        BY <3>1 DEF Flying
      <4> QED BY <1>0, <3>1, <4>1, FS_EmptySet
    <3>2. CASE l = "failures"
      <4>1. PICK t \in Flying(l, net) : t \notin Flying(l, net)'
        BY <3>2
      <4>2. Flying(l, net) \in SUBSET RequestTasks /\ Flying(l, net)' \in SUBSET (Flying(l, net) \ {t})
        BY <3>2, <4>1 DEF Flying
      <4>3. /\ IsFiniteSet(Flying(l, net)) /\ f \in Nat /\ IsFiniteSet(Flying(l, net) \ {t})
            /\ Cardinality(Flying(l, net) \ {t}) = f - 1
        BY <4>1, FlyingSize, FS_RemoveElement
      <4>4. f' <= f - 1 /\ f' \in Nat
        BY <4>2, <4>3, SmallerSet
      <4>5. f <= Cardinality(RequestTasks) /\ Cardinality(RequestTasks) \in Nat
        BY <4>2, RateAssumption, SmallerSet
      <4> QED BY <1>0, <3>2, <4>3, <4>4, <4>5
    <3> QED BY <3>1, <3>2 DEF Limiters
  <2> HIDE DEF f
  <2>2. ASSUME NEW S \in SUBSET RecentOf(l, net), NEW T \in SUBSET (S \cup {x})
        PROVE  /\ IsFiniteSet(T) /\ Cardinality(T) \in Nat /\ Cardinality(S) \in Nat
               /\ Cardinality(T) <= Cardinality(S) + 1
               /\ T \in SUBSET S => Cardinality(T) <= Cardinality(S)
    BY RecentSize, OneMore, SmallerSet
  <2>3. RecentOf(l, net)' \in SUBSET (RecentOf(l, net) \cup {x})
    BY <1>0, <1>2 DEF RecentOf, IsRecent
  <2>4. net \in DOMAIN buckets'[l] /\ buckets'[l][net] = r.map[net]
    BY <1>1 DEF r
  <2>5. CASE net \notin Unexpired(map)
    <3>1. buckets'[l][net].start = clock /\ buckets'[l][net].count = 1
      BY <1>1, <2>4, <2>5
    <3>2. \A e \in RecentOf(l, net) : e.at < clock
      <4>1. SUFFICES ASSUME NEW e \in RecentOf(l, net), e.at >= clock PROVE FALSE
        BY <1>0 DEF RecentOf
      <4>2. e \in Log(l) /\ e.at = clock /\ IsRecent(e) /\ e.net = net
        BY <1>0, <4>1 DEF RecentOf
      <4> QED BY <2>5, <4>2 DEF NowIsCounted
    <3>3. /\ Since(l, net, clock)' \in SUBSET {x} /\ After(l, net, clock)' = {}
          /\ Before(l, net, clock)' \in SUBSET RecentOf(l, net)
      <4>1. \A e \in RecentOf(l, net)' : e = x \/ (e \in RecentOf(l, net) /\ e.at < clock)
        BY <2>3, <3>2
      <4>2. \A e \in RecentOf(l, net) : e.at \in 0 .. clock
        BY <1>0 DEF RecentOf
      <4>3. Since(l, net, clock)' \in SUBSET {x}
        BY <1>0, <4>1, <4>2 DEF Since
      <4>4. After(l, net, clock)' = {}
        BY <1>0, <1>2, <4>1, <4>2 DEF After
      <4>5. Before(l, net, clock)' \in SUBSET RecentOf(l, net)
        BY <1>0, <1>2, <4>1, <4>2 DEF Before
      <4> QED BY <4>3, <4>4, <4>5
    <3>4. Cardinality(RecentOf(l, net)) <= max + slack - 1 /\ Cardinality(RecentOf(l, net)) \in Nat
      BY <2>5, OldWindow, RecentSize
    <3>5. Cardinality(Before(l, net, clock)') <= max + slack - 1
      BY <1>0, <2>2, <3>3, <3>4
    <3>6. Cardinality(Since(l, net, clock)') <= 1
      <4>1. IsFiniteSet({x}) /\ Cardinality({x}) = 1
        BY FS_Singleton
      <4> QED BY <3>3, <4>1, SmallerSet
    <3>7. Cardinality(After(l, net, clock)') <= 1 - 1
      BY <3>3, FS_EmptySet
    <3>8. Counted(l, net, 1)'
      BY <1>0, <2>1, <3>1, <3>6, <3>7 DEF Counted, f
    <3>9. 1 \in 1 .. max + slack
      BY <1>0
    <3> QED BY <1>0, <2>4, <3>1, <3>5, <3>8, <3>9 DEF NetFits
  <2>6. CASE net \in Unexpired(map)
    <3> DEFINE s == map[net].start
               n == map[net].count
    <3>1. /\ net \in DOMAIN map /\ s \in 0 .. clock /\ n \in 1 .. max /\ (r.ok <=> n < max)
          /\ buckets'[l][net].start = s /\ buckets'[l][net].count = IF r.ok THEN n + 1 ELSE n
          /\ net \in Unexpired(buckets[l])'
      <4>1. net \in DOMAIN map
        BY <2>6 DEF Unexpired
      <4>2. map[net] \in [start : 0 .. clock, count : 1 .. max]
        BY <4>1 DEF RateTypeOK
      <4> HIDE DEF map
      <4>3. s \in 0 .. clock /\ n \in 1 .. max
        BY <4>2
      <4>4. (r.ok <=> n < max) /\ r.map[net].start = s /\ r.map[net].count = IF r.ok THEN n + 1 ELSE n
        BY <1>1, <2>6
      <4>5. net \in Unexpired(buckets[l])'
        BY <1>0, <2>4, <2>6, <4>4 DEF Unexpired, map
      <4> QED BY <2>4, <4>1, <4>3, <4>4, <4>5
    <3>2. PICK k \in 1 .. max + slack : Counted(l, net, k)
      BY <3>1 DEF NetFits
    <3>3. Cardinality(Before(l, net, s)) <= max + slack - 1
      BY <3>1 DEF NetFits
    <3>4. PICK a : a = s
      OBVIOUS
    <3>5. /\ Cardinality(Since(l, net, a)) <= k /\ Cardinality(After(l, net, a)) <= k - 1
          /\ n < max => k <= n
          /\ n = max => k + f <= max + slack
      BY <2>6, <3>2, <3>4 DEF Counted, f
    <3>6. /\ Since(l, net, a) \in SUBSET RecentOf(l, net) /\ Since(l, net, a)' \in SUBSET (Since(l, net, a) \cup {x})
          /\ After(l, net, a) \in SUBSET RecentOf(l, net) /\ After(l, net, a)' \in SUBSET (After(l, net, a) \cup {x})
          /\ Before(l, net, a) \in SUBSET RecentOf(l, net) /\ Before(l, net, a)' \in SUBSET Before(l, net, a)
      BY <1>0, <1>2, <2>3, <3>1, <3>4 DEF Since, After, Before
    <3>7. Cardinality(Before(l, net, a)') <= max + slack - 1
      BY <1>0, <2>2, <3>3, <3>4, <3>6
    <3>8. ASSUME NEW m \in 1 .. max + slack,
                 Cardinality(Since(l, net, a)') <= m, Cardinality(After(l, net, a)') <= m - 1,
                 buckets'[l][net].count < max => m <= buckets'[l][net].count,
                 buckets'[l][net].count = max => m + f' <= max + slack
          PROVE  NetFits(l, net)'
      <4>1. Counted(l, net, m)'
        BY <3>1, <3>4, <3>8 DEF Counted, f
      <4> QED BY <2>4, <3>1, <3>4, <3>7, <4>1 DEF NetFits
    <3>9. CASE Log(l)' = Log(l) /\ ~r.ok
      <4>1. /\ Since(l, net, a)' \in SUBSET Since(l, net, a)
            /\ After(l, net, a)' \in SUBSET After(l, net, a)
        BY <1>0, <3>9 DEF Since, After, RecentOf, IsRecent
      <4>2. Cardinality(Since(l, net, a)') <= k /\ Cardinality(After(l, net, a)') <= k - 1
        BY <1>0, <2>2, <3>5, <3>6, <4>1
      <4> QED BY <1>0, <2>1, <3>1, <3>5, <3>8, <3>9, <4>2
    <3>10. CASE r.ok \/ l = "failures"
      <4>1. /\ Cardinality(Since(l, net, a)') <= k + 1 /\ Cardinality(After(l, net, a)') <= (k + 1) - 1
        <5>1. /\ Cardinality(Since(l, net, a)') <= Cardinality(Since(l, net, a)) + 1
              /\ Cardinality(After(l, net, a)') <= Cardinality(After(l, net, a)) + 1
              /\ Cardinality(Since(l, net, a)') \in Nat /\ Cardinality(After(l, net, a)') \in Nat
              /\ Cardinality(Since(l, net, a)) \in Nat /\ Cardinality(After(l, net, a)) \in Nat
          BY <2>2, <3>6
        <5> QED BY <1>0, <3>5, <5>1
      <4>2. CASE r.ok
        <5>1. k + 1 \in 1 .. max + slack /\ (n + 1 = max => (k + 1) + f' <= max + slack) /\ k + 1 <= n + 1
          BY <1>0, <2>1, <3>1, <3>5, <4>2
        <5> QED BY <3>1, <3>8, <4>1, <4>2, <5>1
      <4>3. CASE ~r.ok
        <5>1. n = max /\ l = "failures"
          BY <1>0, <3>1, <3>10, <4>3
        <5>2. k + 1 \in 1 .. max + slack /\ (k + 1) + f' <= max + slack
          BY <1>0, <2>1, <3>5, <5>1
        <5> QED BY <1>0, <3>1, <3>8, <4>1, <4>3, <5>1, <5>2
      <4> QED BY <4>2, <4>3
    <3> QED BY <3>9, <3>10 DEF r, Limiters
  <2> QED BY <2>5, <2>6
<1> QED BY <1>3, <1>4, <1>7, <1>8, <1>9

\* The invariant

\* The invariant holds at the start: nothing was let through.
LEMMA RateStart ==
    ASSUME RateInit
    PROVE  RateInv
<1>1. clock = 0 /\ admits = {} /\ guesses = {} /\ request \in [RequestTasks -> SUBSET Clients]
  BY DEF RateInit
<1>2. DOMAIN buckets = Limiters /\ buckets = [l \in Limiters |-> buckets[l]]
  BY DEF RateInit, Limiters
<1>3. \A l \in Limiters : DOMAIN buckets[l] = {} /\ Log(l) = {}
  BY <1>1 DEF RateInit, Limiters, Log
<1>4. RateTypeOK
  BY <1>1, <1>2, <1>3, FS_EmptySet DEF RateTypeOK
<1>5. ASSUME NEW l \in Limiters, NEW net PROVE NetFits(l, net)
  <2>1. RecentOf(l, net) = {}
    BY <1>3 DEF RecentOf
  <2> QED BY <1>3, <2>1, FS_EmptySet, Budgets DEF NetFits
<1> QED BY <1>3, <1>4, <1>5 DEF RateInv, NowIsCounted

\* A request is let through and counted in one step, or refused.
LEMMA EnforceKeeps ==
    ASSUME RateInv, NEW t \in RequestTasks, NEW client \in Clients, NEW keyed \in BOOLEAN, Enforce(t, client, keyed)
    PROVE  RateInv'
<1> USE DEF RateInv
<1> DEFINE r == CheckAt("requests", client)
<1>1. /\ request[t] = {} /\ UNCHANGED <<clock, guesses>>
      /\ buckets' = [buckets EXCEPT !.requests = r.map]
      /\ admits' = IF r.ok THEN Note(admits, client) ELSE admits
      /\ request' = request \/ (request' = [request EXCEPT ![t] = {client}] /\ ~IsExhausted(client))
  BY DEF Enforce
<1>2. "requests" \in Limiters /\ "failures" \in Limiters
  BY DEF Limiters
<1>3. /\ DOMAIN buckets' = Limiters /\ buckets' = [l \in Limiters |-> buckets'[l]]
      /\ buckets'["requests"] = r.map /\ buckets'["failures"] = buckets["failures"]
  BY <1>1, <1>2 DEF RateTypeOK, Limiters
<1>4. request' \in [RequestTasks -> SUBSET Clients]
  BY <1>1 DEF RateTypeOK
<1>5. /\ NowIsCounted("requests")' /\ (\A net : NetFits("requests", net)')
      /\ IsFiniteSet(Log("requests")') /\ (\A e \in Log("requests")' : e.at \in 0 .. clock)
      /\ \A n \in DOMAIN buckets'["requests"] :
            buckets'["requests"][n] \in [start : 0 .. clock, count : 1 .. MaxOf("requests")]
  <2>1. \A net : Flying("requests", net)' \in SUBSET Flying("requests", net)
    BY DEF Flying
  <2>2. /\ Log("requests")' = Note(Log("requests"), client) \/ (Log("requests")' = Log("requests") /\ ~r.ok)
        /\ ~r.ok => Log("requests")' = Log("requests")
    BY <1>1 DEF Log
  <2> QED BY <1>1, <1>2, <1>3, <2>1, <2>2, Spent
<1>6. NowIsCounted("failures")' /\ \A net : NetFits("failures", net)'
  <2>1. Log("failures")' = Log("failures")
    BY <1>1 DEF Log
  <2>2. ASSUME NEW net
        PROVE  \/ Flying("failures", net)' \in SUBSET Flying("failures", net)
               \/ ~(net \in Unexpired(buckets["failures"]) /\ buckets["failures"][net].count = MaxOf("failures"))
    <3>1. CASE request' = request
      BY <3>1 DEF Flying
    <3>2. CASE request' = [request EXCEPT ![t] = {client}] /\ ~IsExhausted(client)
      <4>1. CASE Subscriber(client) # net
        BY <3>2, <4>1 DEF Flying, RateTypeOK
      <4>2. CASE Subscriber(client) = net
        <5>1. BucketKey(client) = net
          BY <4>2 DEF BucketKey, Subscriber
        <5>2. MaxOf("failures") = MaxFailures /\ MaxFailures \in Nat
          BY RateAssumption DEF MaxOf
        <5> QED BY <3>2, <5>1, <5>2 DEF IsExhausted
      <4> QED BY <4>1, <4>2
    <3> QED BY <1>1, <3>1, <3>2
  <2> QED BY <1>1, <1>2, <1>3, <2>1, <2>2, Untouched
<1>7. RateTypeOK'
  <2>1. /\ IsFiniteSet(Log("failures")') /\ \A e \in Log("failures")' : e.at \in 0 .. clock
        /\ \A n \in DOMAIN buckets'["failures"] :
            buckets'["failures"][n] \in [start : 0 .. clock, count : 1 .. MaxOf("failures")]
    BY <1>1, <1>2, <1>3 DEF RateTypeOK, Log
  <2> QED BY <1>1, <1>3, <1>4, <1>5, <2>1 DEF RateTypeOK, Limiters
<1> QED BY <1>5, <1>6, <1>7 DEF Limiters

\* A wrong key is counted after it was compared; it was in flight until then.
LEMMA AnsweredKeeps ==
    ASSUME RateInv, NEW t \in RequestTasks, NEW unauthorized \in BOOLEAN, Answered(t, unauthorized)
    PROVE  RateInv'
<1> USE DEF RateInv
<1>1. request[t] # {} /\ UNCHANGED <<clock, admits>> /\ request' = [request EXCEPT ![t] = {}]
  BY DEF Answered
<1>2. "requests" \in Limiters /\ "failures" \in Limiters
  BY DEF Limiters
<1>3. request' \in [RequestTasks -> SUBSET Clients]
  BY <1>1 DEF RateTypeOK
<1>4. \A l \in Limiters : \A net : Flying(l, net)' \in SUBSET Flying(l, net)
  BY <1>1 DEF Flying, RateTypeOK
<1>5. CASE UNCHANGED <<buckets, guesses>>
  <2>1. ASSUME NEW l \in Limiters PROVE NowIsCounted(l)' /\ \A net : NetFits(l, net)'
    <3>1. Log(l)' = Log(l)
      BY <1>1, <1>5 DEF Log
    <3> QED BY <1>1, <1>4, <1>5, <3>1, Untouched
  <2>2. RateTypeOK'
    BY <1>1, <1>3, <1>5 DEF RateTypeOK, Log
  <2> QED BY <2>1, <2>2
<1>6. ASSUME NEW client \in request[t], buckets' = [buckets EXCEPT !.failures = CheckAt("failures", client).map],
             guesses' = Note(guesses, client)
      PROVE  RateInv'
  <2>1. /\ DOMAIN buckets' = Limiters /\ buckets' = [l \in Limiters |-> buckets'[l]]
        /\ buckets'["failures"] = CheckAt("failures", client).map /\ buckets'["requests"] = buckets["requests"]
    BY <1>2, <1>6 DEF RateTypeOK, Limiters
  <2>2. NowIsCounted("requests")' /\ \A net : NetFits("requests", net)'
    <3>1. Log("requests")' = Log("requests")
      BY <1>1 DEF Log
    <3> QED BY <1>1, <1>2, <1>4, <2>1, <3>1, Untouched
  <2>3. \E u \in Flying("failures", BucketKey(client)) : u \notin Flying("failures", BucketKey(client))'
    <3>1. BucketKey(client) = Subscriber(client)
      BY DEF BucketKey, Subscriber
    <3>2. t \in Flying("failures", Subscriber(client)) /\ t \notin Flying("failures", Subscriber(client))'
      BY <1>1, <1>6 DEF Flying, RateTypeOK
    <3> QED BY <3>1, <3>2
  <2>4. Log("failures")' = Note(Log("failures"), client)
    BY <1>6 DEF Log
  <2>5. /\ NowIsCounted("failures")' /\ (\A net : NetFits("failures", net)')
        /\ IsFiniteSet(Log("failures")') /\ (\A e \in Log("failures")' : e.at \in 0 .. clock)
        /\ \A n \in DOMAIN buckets'["failures"] :
              buckets'["failures"][n] \in [start : 0 .. clock, count : 1 .. MaxOf("failures")]
    BY <1>1, <1>2, <1>4, <2>1, <2>3, <2>4, Spent
  <2>6. RateTypeOK'
    <3>1. /\ IsFiniteSet(Log("requests")') /\ \A e \in Log("requests")' : e.at \in 0 .. clock
          /\ \A n \in DOMAIN buckets'["requests"] :
                buckets'["requests"][n] \in [start : 0 .. clock, count : 1 .. MaxOf("requests")]
      BY <1>1, <1>2, <2>1 DEF RateTypeOK, Log
    <3> QED BY <1>1, <1>3, <2>1, <2>5, <3>1 DEF RateTypeOK, Limiters
  <2> QED BY <2>2, <2>5, <2>6 DEF Limiters
<1> QED BY <1>5, <1>6 DEF Answered

\* As time passes logs only lose what is older than a window.
LEMMA TickKeeps ==
    ASSUME RateInv, Tick
    PROVE  RateInv'
<1> USE DEF RateInv
<1>1. clock' = clock + 1 /\ UNCHANGED <<buckets, request>> /\ admits' \in SUBSET admits /\ guesses' \in SUBSET guesses
  BY DEF Tick
<1>2. ASSUME NEW l \in Limiters PROVE Log(l)' \in SUBSET Log(l)
  BY <1>1 DEF Log
<1>3. ASSUME NEW l \in Limiters PROVE NowIsCounted(l)' /\ \A net : NetFits(l, net)'
  <2>1. \A net : Flying(l, net)' \in SUBSET Flying(l, net)
    BY <1>1 DEF Flying
  <2> QED BY <1>1, <1>2, <2>1, Untouched
<1>4. RateTypeOK'
  <2>1. ASSUME NEW l \in Limiters PROVE IsFiniteSet(Log(l)')
    BY <1>2, SmallerSet DEF RateTypeOK
  <2>2. ASSUME NEW l \in Limiters, NEW e \in Log(l)' PROVE e.at \in 0 .. clock'
    BY <1>1, <1>2 DEF RateTypeOK
  <2>3. ASSUME NEW l \in Limiters, NEW n \in DOMAIN buckets[l]
        PROVE  buckets[l][n] \in [start : 0 .. clock', count : 1 .. MaxOf(l)]
    <3>1. buckets[l][n] \in [start : 0 .. clock, count : 1 .. MaxOf(l)] /\ clock \in Nat
      BY DEF RateTypeOK
    <3> QED BY <1>1, <3>1
  <2>4. /\ clock' \in Nat /\ DOMAIN buckets = Limiters /\ buckets = [l \in Limiters |-> buckets[l]]
        /\ request \in [RequestTasks -> SUBSET Clients]
    BY <1>1 DEF RateTypeOK
  <2> QED BY <1>1, <2>1, <2>2, <2>3, <2>4 DEF RateTypeOK
<1> QED BY <1>3, <1>4

\* Every step keeps the invariant.
LEMMA RateStep ==
    ASSUME RateInv, [RateNext]_rateVars
    PROVE  RateInv'
<1>1. CASE UNCHANGED rateVars
  <2>1. UNCHANGED <<clock, buckets, request, admits, guesses>>
    BY <1>1 DEF rateVars
  <2>2. RateTypeOK'
    BY <2>1 DEF RateInv, RateTypeOK, Log
  <2>3. ASSUME NEW l \in Limiters PROVE NowIsCounted(l)' /\ \A net : NetFits(l, net)'
    <3>1. Log(l)' \in SUBSET Log(l) /\ \A net : Flying(l, net)' \in SUBSET Flying(l, net)
      BY <2>1 DEF Log, Flying
    <3> QED BY <2>1, <3>1, Untouched
  <2> QED BY <2>2, <2>3 DEF RateInv
<1> QED BY <1>1, EnforceKeeps, AnsweredKeeps, TickKeeps DEF RateNext

\* What is recent falls into two buckets at most, the older one without its opener.
LEMMA TwoWindows ==
    ASSUME RateInv, NEW l \in Limiters, NEW net
    PROVE  Cardinality(RecentOf(l, net)) <= 2 * (MaxOf(l) + Slack(l)) - 1
<1> USE DEF RateInv
<1>1. MaxOf(l) \in Nat \ {0} /\ Slack(l) \in Nat
  BY Budgets
<1>2. CASE net \notin DOMAIN buckets[l]
  <2>1. Cardinality(RecentOf(l, net)) \in Nat
    BY RecentSize
  <2> QED BY <1>1, <1>2, <2>1 DEF NetFits
<1>3. CASE net \in DOMAIN buckets[l]
  <2> DEFINE s == buckets[l][net].start
  <2>1. PICK k \in 1 .. MaxOf(l) + Slack(l) : Counted(l, net, k)
    BY <1>3 DEF NetFits
  <2>2. Cardinality(Since(l, net, s)) <= k /\ Cardinality(Before(l, net, s)) <= MaxOf(l) + Slack(l) - 1
    BY <1>3, <2>1 DEF NetFits, Counted
  <2>3. Since(l, net, s) \in SUBSET RecentOf(l, net) /\ Before(l, net, s) \in SUBSET RecentOf(l, net)
    BY DEF Since, Before
  <2>4. /\ IsFiniteSet(Since(l, net, s)) /\ IsFiniteSet(Before(l, net, s))
        /\ Cardinality(Since(l, net, s)) \in Nat /\ Cardinality(Before(l, net, s)) \in Nat
    BY <2>3, RecentSize
  <2>5. RecentOf(l, net) = Since(l, net, s) \cup Before(l, net, s)
    <3>1. s \in Nat /\ \A e \in RecentOf(l, net) : e.at \in Nat
      BY <1>3 DEF RateTypeOK, RecentOf
    <3> HIDE DEF s
    <3> QED BY <3>1 DEF Since, Before
  <2>6. Cardinality(RecentOf(l, net)) <= Cardinality(Since(l, net, s)) + Cardinality(Before(l, net, s))
    <3>1. Since(l, net, s) \cap Before(l, net, s) \in SUBSET RecentOf(l, net)
      BY <2>3
    <3>2. Cardinality(Since(l, net, s) \cap Before(l, net, s)) \in Nat
      BY <3>1, RecentSize
    <3> DEFINE A == Since(l, net, s)
               B == Before(l, net, s)
    <3>3. IsFiniteSet(A) /\ IsFiniteSet(B) /\ Cardinality(A) \in Nat /\ Cardinality(B) \in Nat /\ Cardinality(A \cap B) \in Nat
      BY <2>4, <3>2
    <3> HIDE DEF A, B
    <3>4. Cardinality(A \cup B) = Cardinality(A) + Cardinality(B) - Cardinality(A \cap B)
      BY <3>3, FS_Union
    <3>5. Cardinality(A \cup B) <= Cardinality(A) + Cardinality(B)
      BY <3>3, <3>4
    <3> QED BY <2>5, <3>5 DEF A, B
  <2>7. Cardinality(RecentOf(l, net)) \in Nat
    BY RecentSize
  <2> QED BY <1>1, <2>1, <2>2, <2>4, <2>6, <2>7
<1> QED BY <1>2, <1>3

\* No client gets two whole budgets of requests through in a stretch as long as the
\* window, nor more failed keys compared than two budgets and the requests that were
\* in flight when they ran out, whatever check_at swept (RateLimiter, enforce).
THEOREM ThrottleIsKept == RateSpec => []ThrottleHolds
<1>1. RateInit => RateInv
  BY RateStart
<1>2. RateInv /\ [RateNext]_rateVars => RateInv'
  BY RateStep
<1>3. ASSUME RateInv PROVE ThrottleHolds
  <2>1. "requests" \in Limiters /\ "failures" \in Limiters
    BY DEF Limiters
  <2>2. ASSUME NEW net PROVE /\ Recent(admits, net) = Cardinality(RecentOf("requests", net))
                             /\ Recent(guesses, net) = Cardinality(RecentOf("failures", net))
    BY DEF Recent, RecentOf, IsRecent, Log
  <2>3. MaxOf("requests") + Slack("requests") = MaxRequestsPerWindow
    BY RateAssumption DEF MaxOf, Slack
  <2>4. MaxOf("failures") + Slack("failures") = MaxFailures + Cardinality(RequestTasks) - 1
    <3>1. Cardinality(RequestTasks) \in Nat /\ MaxFailures \in Nat
      BY RateAssumption, FS_CardinalityType
    <3> QED BY <3>1 DEF MaxOf, Slack
  <2> QED BY <1>3, <2>1, <2>2, <2>3, <2>4, TwoWindows DEF ThrottleHolds, AdmitsPerWindow, GuessesPerWindow
<1> QED BY <1>1, <1>2, <1>3, PTL DEF RateSpec

---------------------------------------------------------------------------
\* Downloads beside overwrites: the row read on both sides of opening the file is of the
\* size of that file, and a client's copy keeps the validators it came with.

Builds == 1 .. LastBuild
Asks == {"whole", "resumeTag", "resumeDate", "revalidate"}

\* Two builds differ in the size of their package and in the second they were
\* published, which is what a package is told apart by (download_package, if_range_holds).
BuildsDiffer ==
    /\ FileKind = "nupkg" /\ LastBuild \in Nat \ {0}
    /\ \A a, b \in Builds : a # b => SizeOf[a] # SizeOf[b] /\ SecondOf[a] # SecondOf[b]

\* The stored files, the row and the overwrite under way are of builds that were pushed.
DiskTypeOK ==
    /\ onDisk \in [{"nupkg", "nuspec"} -> Builds] /\ rowBuild \in Builds
    /\ pushing \in [pc : {"idle", "stored", "sidecars", "restored", "putback"}, build : Builds]

\* What a client keeps came with the validators of what it is.
CopyFits(c) == c.bytes \in Builds /\ c.tag = {c.bytes} /\ c.date = {SecondOf[c.bytes]}

\* An open file is one build's; copies fit.
ReaderOK(r) ==
    /\ download[r] \in [pc : {"idle", "asked", "open"}, before : Nat, bytes : Nat, ask : Asks]
    /\ download[r].pc = "open" => download[r].bytes \in Builds
    /\ \A c \in copy[r] : CopyFits(c)

DownloadInv ==
    /\ DiskTypeOK
    /\ DOMAIN download = Downloaders /\ DOMAIN copy = Downloaders /\ DOMAIN served = Downloaders
    /\ \A r \in Downloaders : ReaderOK(r)
    /\ DownloadsAreTrue

\* Nothing has been served before the first push.
LEMMA DownloadsBegin == BuildsDiffer /\ DownloadInit => DownloadInv
  BY DEF BuildsDiffer, DownloadInit, DownloadInv, DiskTypeOK, ReaderOK, CopyFits, NoDownload, Asks, Builds,
         DownloadsAreTrue, ValidatorsAreTrue, NoSplice

\* The validators an answer carries are those of its bytes: the size tells the builds apart.
LEMMA VouchedForItself ==
    ASSUME BuildsDiffer, NEW before, NEW after \in Builds, NEW bytes \in Builds
    PROVE  Vouching(before, after, bytes) \in {{}, {bytes}}
  BY DEF BuildsDiffer, Vouching

\* A validator that holds is of a copy with the bytes being served.
LEMMA HeldIsServed ==
    ASSUME BuildsDiffer, NEW c, CopyFits(c), NEW ask, NEW bytes \in Builds, NEW row \in {{}, {bytes}},
           ValidatorHolds(ask, c, row)
    PROVE  c.bytes = bytes
<1>1. CASE ask \in {"resumeTag", "revalidate"}
  BY <1>1 DEF ValidatorHolds, CopyFits
<1>2. CASE ask = "resumeDate"
  <2>1. c.date = {SecondOf[b] : b \in row}
    BY <1>2 DEF ValidatorHolds
  <2>2. row = {bytes}
    BY <2>1 DEF CopyFits
  <2>3. SecondOf[c.bytes] = SecondOf[bytes]
    BY <2>1, <2>2 DEF CopyFits
  <2> QED BY <2>3 DEF BuildsDiffer, CopyFits
<1> QED BY <1>1, <1>2 DEF ValidatorHolds

\* Serving an open file: what goes out and what the client then has are of one build.
LEMMA ServingKeeps ==
    ASSUME BuildsDiffer, DownloadInv, NEW r \in Downloaders, ServeFile(r)
    PROVE  DownloadInv'
<1> DEFINE d == download[r]
           row == Vouching(d.before, rowBuild, d.bytes)
           kept == {c \in copy[r] : ValidatorHolds(d.ask, c, row)}
           got == [bytes |-> d.bytes, tag |-> row, date |-> {SecondOf[b] : b \in row}]
<1>1. /\ d.pc = "open"
      /\ served' = [served EXCEPT ![r] = [of |-> {c.bytes : c \in kept}, bytes |-> d.bytes, tag |-> row]]
      /\ copy' = [copy EXCEPT ![r] = IF kept # {} THEN @ ELSE IF row # {} THEN {got} ELSE {}]
      /\ download' = [download EXCEPT ![r] = NoDownload]
      /\ UNCHANGED <<onDisk, rowBuild, pushing>>
  BY DEF ServeFile
<1>2. d.bytes \in Builds /\ rowBuild \in Builds
  BY <1>1 DEF DownloadInv, ReaderOK, DiskTypeOK
<1>3. row \in {{}, {d.bytes}}
  BY <1>2, VouchedForItself
<1>4. \A c \in kept : c.bytes = d.bytes
  <2>1. ASSUME NEW c \in copy[r], ValidatorHolds(d.ask, c, row) PROVE c.bytes = d.bytes
    <3>1. CopyFits(c)
      BY DEF DownloadInv, ReaderOK
    <3> QED BY <1>2, <1>3, <2>1, <3>1, HeldIsServed
  <2> QED BY <2>1
<1>5. row # {} => CopyFits(got)
  BY <1>2, <1>3 DEF CopyFits
<1> HIDE DEF row, kept, got
<1>6. \A q \in Downloaders : ReaderOK(q)'
  BY <1>1, <1>5 DEF DownloadInv, ReaderOK, NoDownload, Asks, CopyFits
<1>7. DownloadsAreTrue'
  BY <1>1, <1>3, <1>4 DEF DownloadInv, DownloadsAreTrue, ValidatorsAreTrue, NoSplice
<1> QED BY <1>1, <1>6, <1>7 DEF DownloadInv, DiskTypeOK

\* Every step keeps the invariant.
LEMMA DownloadStep == BuildsDiffer /\ DownloadInv /\ [DownloadNext]_downloadVars => DownloadInv'
<1> SUFFICES ASSUME BuildsDiffer, DownloadInv, [DownloadNext]_downloadVars PROVE DownloadInv'
  OBVIOUS
<1> USE DEF DownloadInv
<1>1. ASSUME DiskTypeOK', UNCHANGED <<download, copy, served>> PROVE DownloadInv'
  BY <1>1 DEF ReaderOK, CopyFits, DownloadsAreTrue, ValidatorsAreTrue, NoSplice
<1>2. CASE StorePayload \/ StoreSidecars \/ SwapRow \/ RestoreSidecars \/ \E kept \in BOOLEAN : SwapFails(kept)
  <2>1. DiskTypeOK'
    BY <1>2 DEF StorePayload, StoreSidecars, SwapRow, RestoreSidecars, SwapFails, DiskTypeOK, Builds, BuildsDiffer
  <2> QED BY <1>1, <1>2, <2>1 DEF StorePayload, StoreSidecars, SwapRow, RestoreSidecars, SwapFails
<1>3. ASSUME NEW r \in Downloaders, NEW ask \in Asks, AskFile(r, ask) PROVE DownloadInv'
  <2>1. \A q \in Downloaders : ReaderOK(q)'
    BY <1>3 DEF AskFile, ReaderOK, CopyFits, DiskTypeOK, Builds, BuildsDiffer
  <2> QED BY <1>3, <2>1 DEF AskFile, DiskTypeOK, DownloadsAreTrue, ValidatorsAreTrue, NoSplice
<1>4. ASSUME NEW r \in Downloaders, OpenFile(r) PROVE DownloadInv'
  <2>1. onDisk[FileKind] \in Builds
    BY DEF DiskTypeOK, BuildsDiffer
  <2>2. ASSUME NEW q \in Downloaders, q # r PROVE ReaderOK(q)'
    BY <1>4, <2>2 DEF OpenFile, ReaderOK, CopyFits
  <2>3. download[r] \in [pc : {"idle", "asked", "open"}, before : Nat, bytes : Nat, ask : Asks]
    BY DEF ReaderOK
  <2>4. download'[r] = [download[r] EXCEPT !.pc = "open", !.bytes = onDisk[FileKind]]
    BY <1>4 DEF OpenFile
  <2>5. onDisk[FileKind] \in Nat
    BY <2>1 DEF Builds
  <2>6. /\ download'[r] \in [pc : {"idle", "asked", "open"}, before : Nat, bytes : Nat, ask : Asks]
        /\ download'[r].bytes = onDisk[FileKind]
    BY <2>3, <2>4, <2>5
  <2>7. ReaderOK(r)'
    BY <1>4, <2>1, <2>6 DEF OpenFile, ReaderOK, CopyFits
  <2>8. \A q \in Downloaders : ReaderOK(q)'
    BY <2>2, <2>7
  <2> QED BY <1>4, <2>8 DEF OpenFile, DiskTypeOK, DownloadsAreTrue, ValidatorsAreTrue, NoSplice
<1>5. CASE UNCHANGED downloadVars
  BY <1>1, <1>5 DEF downloadVars, DiskTypeOK
<1> QED BY <1>2, <1>3, <1>4, <1>5, ServingKeeps DEF DownloadNext, Asks

\* Where the size and the second tell builds apart, no answer ever vouches for bytes it does
\* not carry and no client joins or confirms those of two builds, for any number of
\* downloads beside any number of overwrites (download_package, serve_local_file).
THEOREM DownloadsKeep == BuildsDiffer /\ DownloadSpec => []DownloadsAreTrue
<1> SUFFICES ASSUME BuildsDiffer PROVE DownloadSpec => []DownloadsAreTrue
  OBVIOUS
<1>1. DownloadInit => DownloadInv
  BY DownloadsBegin
<1>2. DownloadInv /\ [DownloadNext]_downloadVars => DownloadInv'
  BY DownloadStep
<1>3. DownloadInv => DownloadsAreTrue
  BY DEF DownloadInv
<1> QED BY <1>1, <1>2, <1>3, PTL DEF DownloadSpec

---------------------------------------------------------------------------
\* The client of an upstream: the URL about to be asked was vetted against the one before
\* it, so that what was contacted last carries all that is said of the chain.

\* The record of the upstream's health: the failures in a row are what failing_since is
\* kept for.
HealthOK(h) ==
    /\ DOMAIN h = {"requests", "failures", "consecutive", "succeeded", "since"}
    /\ h.consecutive \in Nat /\ (h.since <=> h.consecutive > 0)

\* A request about to be sent goes where CheckParsed lets it, after at most as many
\* redirects as it may follow, and from https to https.
AskFits(t) ==
    upc[t] = "ask" =>
        /\ CheckParsed(url[t]) /\ trail[t].hops <= MaxRedirects
        /\ trail[t].hops > 0 => MayFollow(trail[t].last, url[t])

\* What was contacted so far, which is nothing between requests.
TrailFits(t) ==
    /\ upc[t] = "idle" => trail[t] = NoTrail
    /\ trail[t].hops \in 0 .. MaxRedirects + 1 /\ trail[t].https \in BOOLEAN
    /\ trail[t].https => trail[t].hops > 0 /\ trail[t].last.scheme = "https"
    /\ trail[t].hops > 0 =>
          /\ settings.allowPrivate \/ (~trail[t].last.literal /\ ~trail[t].last.resolves)
          /\ trail[t].credentials <=> Origin(trail[t].last) = Origin(Upstream)

ClientInv ==
    /\ upc \in [Tasks -> {"idle", "ask", "decide", "tell"}] /\ url \in [Tasks -> Urls]
    /\ trail = [t \in Tasks |-> trail[t]]
    /\ settings \in [allowPrivate : BOOLEAN, proxied : BOOLEAN]
    /\ HealthOK(health)
    /\ \A t \in Tasks : AskFits(t) /\ TrailFits(t)

LEMMA ClientBegins == UInit => ClientInv
<1> SUFFICES ASSUME UInit PROVE ClientInv
  OBVIOUS
<1>1. HealthOK(health)
  BY DEF UInit, NoHealth, HealthOK
<1>2. ASSUME NEW t \in Tasks PROVE AskFits(t) /\ TrailFits(t)
  <2>1. upc[t] = "idle" /\ trail[t] = NoTrail
    BY DEF UInit
  <2>2. NoTrail.hops = 0 /\ NoTrail.https = FALSE /\ 0 \in 0 .. MaxRedirects + 1
    BY ClientAssumption DEF NoTrail
  <2>3. AskFits(t)
    BY <2>1 DEF AskFits
  <2>4. trail[t].hops = 0 /\ trail[t].https = FALSE
    BY <2>1, <2>2
  <2>5. trail[t].hops \in 0 .. MaxRedirects + 1
    BY <2>2, <2>4
  <2>6. trail[t].https \in BOOLEAN /\ ~trail[t].https
    BY <2>4
  <2>7. ~(trail[t].hops > 0)
    BY <2>4
  <2>8. TrailFits(t)
    BY <2>1, <2>5, <2>6, <2>7, Zenon DEF TrailFits
  <2> QED BY <2>3, <2>8
<1> QED BY <1>1, <1>2, ClientAssumption DEF UInit, ClientInv

\* What record_success and record_failure make of the record.
LEMMA RecordingKeeps ==
    ASSUME NEW h, HealthOK(h)
    PROVE  HealthOK(Fail(h)) /\ HealthOK(Succeed(h)) /\ Fail(h).consecutive > 0
<1>1. DOMAIN Fail(h) = DOMAIN h /\ Fail(h).consecutive = h.consecutive + 1 /\ Fail(h).since = TRUE
  BY DEF HealthOK, Fail
<1>2. DOMAIN Succeed(h) = DOMAIN h /\ Succeed(h).consecutive = 0 /\ Succeed(h).since = FALSE
  BY DEF HealthOK, Succeed
<1> QED BY <1>1, <1>2 DEF HealthOK

\* A URL that is contacted is public or allowed, comes after https only if it is https, and
\* is sent the credentials if it is where they belong.
LEMMA ContactKeeps ==
    ASSUME ClientInv, NEW t \in Tasks, upc[t] = "ask", Contact(t)
    PROVE  /\ trail' = [trail EXCEPT ![t] = trail'[t]]
           /\ trail'[t].hops = trail[t].hops + 1 /\ trail'[t].hops \in 1 .. MaxRedirects + 1
           /\ trail'[t].last = url[t]
           /\ trail'[t].https \in BOOLEAN /\ (trail'[t].https => url[t].scheme = "https")
           /\ settings.allowPrivate \/ (~url[t].literal /\ ~url[t].resolves)
           /\ trail'[t].credentials <=> Origin(url[t]) = Origin(Upstream)
<1> DEFINE https == trail[t].https \/ (trail[t].hops > 0 /\ trail[t].last.scheme = "https")
           credentials == CarriesCredentials(url[t])
           next == [hops |-> trail[t].hops + 1, https |-> https, last |-> url[t], credentials |-> credentials]
<1>1. trail' = [trail EXCEPT ![t] = next] /\ CheckProxied(url[t]) /\ GuardedResolver(url[t])
  BY DEF Contact
<1>2. AskFits(t) /\ TrailFits(t) /\ url[t] \in Urls
  BY DEF ClientInv
<1>3. https \in BOOLEAN /\ credentials \in BOOLEAN
  BY <1>2 DEF TrailFits, CarriesCredentials
<1>4. https => url[t].scheme = "https"
  BY <1>2 DEF AskFits, TrailFits, MayFollow, CheckParsed
<1>5. credentials <=> Origin(url[t]) = Origin(Upstream)
  BY DEF CarriesCredentials
<1>6. settings.allowPrivate \/ (~url[t].literal /\ ~url[t].resolves)
  BY <1>1, <1>2 DEF AskFits, CheckParsed, CheckProxied, GuardedResolver
<1> HIDE DEF https, credentials
<1>7. trail'[t] = next /\ trail' = [trail EXCEPT ![t] = trail'[t]]
  BY <1>1 DEF ClientInv
<1>8. next.hops \in 1 .. MaxRedirects + 1
  BY <1>2, ClientAssumption DEF AskFits, TrailFits
<1> QED BY <1>3, <1>4, <1>5, <1>6, <1>7, <1>8

\* What a task leaves the others.
Alone(t) ==
    /\ upc' = [upc EXCEPT ![t] = upc'[t]] /\ url' = [url EXCEPT ![t] = url'[t]]
    /\ trail' = [trail EXCEPT ![t] = trail'[t]] /\ settings' = settings

\* A step of one task keeps what holds of the others.
LEMMA OthersKept ==
    ASSUME ClientInv, NEW t \in Tasks, Alone(t), AskFits(t)', TrailFits(t)', url'[t] \in Urls, HealthOK(health'),
           upc'[t] \in {"idle", "ask", "decide", "tell"}
    PROVE  ClientInv'
<1>0. DOMAIN trail = Tasks
  BY DEF ClientInv
<1>1. ASSUME NEW q \in Tasks, q # t PROVE AskFits(q)' /\ TrailFits(q)'
  <2>1. AskFits(q) /\ TrailFits(q) /\ trail'[q] = trail[q] /\ upc'[q] = upc[q] /\ url'[q] = url[q]
    BY <1>0, <1>1 DEF ClientInv, Alone
  <2> QED BY <2>1 DEF Alone, AskFits, TrailFits, CheckParsed, MayFollow, Origin
<1>2. url' \in [Tasks -> Urls]
  BY DEF ClientInv, Alone
<1>3. upc' \in [Tasks -> {"idle", "ask", "decide", "tell"}]
  BY DEF ClientInv, Alone
<1>4. trail' = [q \in Tasks |-> trail'[q]]
  BY <1>0 DEF Alone
<1> QED BY <1>1, <1>2, <1>3, <1>4 DEF ClientInv, Alone

\* The end of a request: its outcome is recorded, whatever it contacted.
LEMMA EndKeeps ==
    ASSUME ClientInv, NEW t \in Tasks, NEW o, Ends(t, o), settings' = settings,
           \/ upc[t] = "ask" /\ Contact(t)
           \/ trail' = trail
    PROVE  ClientInv'
<1>1. /\ upc' = [upc EXCEPT ![t] = upc'[t]] /\ upc'[t] \in {"tell", "decide"}
      /\ url' = [url EXCEPT ![t] = url'[t]] /\ url'[t] = Upstream
  BY DEF Ends, ClientInv
<1>2. HealthOK(health')
  BY RecordingKeeps DEF Ends, ClientInv
<1>3. CASE trail' = trail
  <2>1. TrailFits(t)'
    BY <1>1, <1>3 DEF ClientInv, TrailFits, Origin
  <2>2. trail' = [trail EXCEPT ![t] = trail'[t]]
    BY <1>3 DEF ClientInv
  <2>3. AskFits(t)' /\ url'[t] \in Urls
    BY <1>1, ClientAssumption DEF AskFits
  <2> QED BY <1>1, <1>2, <2>1, <2>2, <2>3, OthersKept DEF Alone
<1>4. CASE upc[t] = "ask" /\ Contact(t)
  <2>1. TrailFits(t)'
    BY <1>1, <1>4, ContactKeeps DEF TrailFits
  <2>2. trail' = [trail EXCEPT ![t] = trail'[t]]
    BY <1>4, ContactKeeps
  <2> QED BY <1>1, <1>2, <2>1, <2>2, OthersKept, ClientAssumption DEF AskFits, Alone
<1> QED BY <1>3, <1>4

\* Every step keeps the invariant.
LEMMA ClientStep == ClientInv /\ [UNext]_uvars => ClientInv'
<1> SUFFICES ASSUME ClientInv, [UNext]_uvars PROVE ClientInv'
  OBVIOUS
<1>1. ASSUME NEW t \in Tasks, NEW u \in Urls, NEW why, Start(t, u, why), settings' = settings PROVE ClientInv'
  <2>1. CASE CheckParsed(u)
    <3>1. /\ upc' = [upc EXCEPT ![t] = "ask"] /\ url' = [url EXCEPT ![t] = u]
          /\ trail' = trail /\ health' = health /\ trail[t] = NoTrail
      BY <1>1, <2>1 DEF Start, ClientInv, TrailFits
    <3>2. AskFits(t)'
      BY <1>1, <2>1, <3>1, ClientAssumption DEF AskFits, CheckParsed, NoTrail, ClientInv
    <3>3. TrailFits(t)'
      BY <1>1, <3>1, ClientAssumption DEF TrailFits, NoTrail, ClientInv
    <3>4. Alone(t) /\ url'[t] \in Urls /\ HealthOK(health') /\ upc'[t] = "ask"
      BY <1>1, <3>1 DEF Alone, ClientInv
    <3> QED BY <3>2, <3>3, <3>4, OthersKept
  <2>2. CASE ~CheckParsed(u)
    BY <1>1, <2>2, EndKeeps DEF Start
  <2> QED BY <2>1, <2>2
<1>2. ASSUME NEW t \in Tasks, Ask(t) \/ AskFails(t), settings' = settings PROVE ClientInv'
  BY <1>2, EndKeeps DEF Ask, AskFails
<1>3. ASSUME NEW t \in Tasks, Redirected(t), settings' = settings PROVE ClientInv'
  <2>1. PICK u \in Urls : MayFollow(url[t], u) /\ url' = [url EXCEPT ![t] = u]
    BY <1>3 DEF Redirected
  <2>2. /\ upc[t] = "ask" /\ trail[t].hops < MaxRedirects /\ Contact(t)
        /\ upc' = upc /\ health' = health
    BY <1>3 DEF Redirected
  <2>3. url'[t] = u
    BY <2>1 DEF ClientInv
  <2>4. AskFits(t)'
    BY <1>3, <2>1, <2>2, <2>3, ContactKeeps, ClientAssumption DEF AskFits, TrailFits, ClientInv, MayFollow, CheckParsed
  <2>5. TrailFits(t)'
    BY <1>3, <2>2, ContactKeeps DEF TrailFits
  <2>6. trail' = [trail EXCEPT ![t] = trail'[t]]
    BY <2>2, ContactKeeps
  <2>7. Alone(t) /\ url'[t] \in Urls /\ HealthOK(health') /\ upc'[t] = "ask"
    BY <1>3, <2>1, <2>2, <2>3, <2>6 DEF Alone, ClientInv
  <2> QED BY <2>4, <2>5, <2>7, OthersKept
<1>4. ASSUME NEW t \in Tasks, Return(t), HealthOK(health'), settings' = settings PROVE ClientInv'
  <2>1. /\ upc' = [upc EXCEPT ![t] = upc'[t]] /\ upc'[t] = "idle" /\ url' = url
        /\ trail' = [trail EXCEPT ![t] = trail'[t]] /\ trail'[t] = NoTrail
    BY <1>4 DEF Return, ClientInv
  <2>2. AskFits(t)' /\ TrailFits(t)'
    BY <2>1, ClientAssumption DEF AskFits, TrailFits, NoTrail
  <2> QED BY <1>4, <2>1, <2>2, OthersKept DEF Alone, ClientInv
<1>5. ASSUME NEW t \in Tasks, Decide(t) \/ ProbeAnswered(t) \/ ProbeFailed(t), settings' = settings PROVE ClientInv'
  BY <1>4, <1>5, RecordingKeeps DEF Decide, ProbeAnswered, ProbeFailed, ClientInv
<1>6. CASE UNCHANGED uvars
  BY <1>6 DEF uvars, ClientInv, AskFits, TrailFits, CheckParsed, MayFollow, Origin
<1> QED BY <1>1, <1>2, <1>3, <1>5, <1>6, ClientAssumption DEF UNext

\* What the invariant says of every chain of redirects and of the upstream's record.
LEMMA ClientSafe ==
    ClientInv => NoPrivateContact /\ NoDowngrade /\ CredentialsStayHome /\ SinceMarksRun
<1> SUFFICES ASSUME ClientInv PROVE NoPrivateContact /\ NoDowngrade /\ CredentialsStayHome /\ SinceMarksRun
  OBVIOUS
<1>1. \A t \in Tasks : TrailFits(t)
  BY DEF ClientInv
<1>2. NoPrivateContact
  BY <1>1 DEF TrailFits, NoPrivateContact
<1>3. NoDowngrade
  BY <1>1 DEF TrailFits, NoDowngrade
<1>4. CredentialsStayHome
  BY <1>1 DEF TrailFits, CredentialsStayHome, Origin
<1> QED BY <1>2, <1>3, <1>4 DEF ClientInv, HealthOK, SinceMarksRun

\* A failed probe leaves a failure in the record.
LEMMA ProbeStep == ClientInv => [\A t \in Tasks : upc[t] = "tell" /\ ProbeFailed(t) => Reachable' = "no"]_uvars
<1> SUFFICES ASSUME ClientInv, NEW t \in Tasks, ProbeFailed(t) PROVE Reachable' = "no"
  OBVIOUS
<1>1. health'.consecutive > 0
  BY RecordingKeeps DEF ProbeFailed, ClientInv, HealthOK
<1> QED BY <1>1 DEF Reachable

\* Through every chain of redirects, for any URLs and any bound on redirects, no private
\* address is contacted that is not allowed, no step leaves https, no other host is sent
\* the credentials; failing_since marks exactly a run of failures, and a failed probe
\* leaves the upstream unreachable (send_unrecorded, redirect_target, health.rs).
THEOREM ClientIsBounded == ClientSpec => ClientKeepsBounds
<1>1. UInit => ClientInv
  BY ClientBegins
<1>2. ClientInv /\ [UNext]_uvars => ClientInv'
  BY ClientStep
<1>3. ClientInv => NoPrivateContact /\ NoDowngrade /\ CredentialsStayHome /\ SinceMarksRun
  BY ClientSafe
<1>4. ClientInv => [\A t \in Tasks : upc[t] = "tell" /\ ProbeFailed(t) => Reachable' = "no"]_uvars
  BY ProbeStep
<1> QED BY <1>1, <1>2, <1>3, <1>4, PTL DEF ClientSpec, ClientKeepsBounds, ProbeTells

---------------------------------------------------------------------------
\* The internalizer's download cache: what a transfer has and what it is still sent are
\* the two ends of one file, whatever it was resumed from.

\* The first n chunks of a file and those after them.
First(v, n) == [i \in 1 .. n |-> <<v, i>>]
Rest(v, n) == [i \in 1 .. FileLen - n |-> <<v, n + i>>]

FetcherFields == {"pc", "declared", "part", "hashed", "validator", "body", "attempt"}

\* A transfer has the first chunks of one file, the checksum of just those, the validator
\* that came with them and, while it goes on, the rest of that same file to come.
FetcherOK(f) ==
    /\ DOMAIN f = FetcherFields /\ f.declared \in Sums
    /\ f.pc \in {"open", "remove"} => f.declared.kind = "sha256"
    /\ f.pc \in {"request", "body"} =>
          \E v \in HostFiles : \E n \in 0 .. FileLen :
             /\ f.part = First(v, n) /\ f.hashed = f.part
             /\ f.part # <<>> \/ f.pc = "body" => f.validator = ValidatorOf[v]
             /\ f.pc = "body" => f.body = Rest(v, n)

Names == {Chunks(v) : v \in HostFiles}

\* What a fetch returns is a file the host had, and the declared one; what the cache
\* has, but for damage, is what its name says.
Whole(r) ==
    /\ r.declared.kind # "none" => r.content = r.declared.sum
    /\ \E v \in HostFiles : r.content = Chunks(v)
TrueCache(c) == DOMAIN c \subseteq Names /\ \A name \in DOMAIN c : c[name] # name => name \in ToSet(damage)

CacheInv ==
    /\ hostFile \in HostFiles
    /\ DOMAIN cache \subseteq Names /\ damage \in Seq(Names)
    /\ fetcher = [d \in Fetchers |-> fetcher[d]] /\ delivered = [d \in Fetchers |-> delivered[d]]
    /\ \A d \in Fetchers : FetcherOK(fetcher[d])
    /\ CacheDeliversWhole

\* A function on 1 .. m is a sequence of m elements.
LEMMA SeqOfLength ==
    ASSUME NEW S, NEW m \in Nat, NEW s \in [1 .. m -> S]
    PROVE  s \in Seq(S) /\ Len(s) = m
<1>1. s \in Seq(S)
  BY SeqDef
<1> QED BY <1>1, LenProperties

\* The two ends of a file are sequences, and one is the whole when the other is empty.
LEMMA TwoEnds ==
    ASSUME FileLen \in Nat, NEW v, NEW n \in 0 .. FileLen
    PROVE  /\ First(v, n) \in Seq({v} \X Nat) /\ Len(First(v, n)) = n
           /\ Rest(v, n) \in Seq({v} \X Nat) /\ Len(Rest(v, n)) = FileLen - n
           /\ Chunks(v) = First(v, FileLen) /\ Chunks(v) = Rest(v, 0) /\ First(v, 0) = <<>>
           /\ Rest(v, n) = <<>> => n = FileLen
<1>1. First(v, n) \in [1 .. n -> {v} \X Nat] /\ n \in Nat
  BY DEF First
<1>2. Rest(v, n) \in [1 .. FileLen - n -> {v} \X Nat] /\ FileLen - n \in Nat
  BY DEF Rest
<1>3. First(v, n) \in Seq({v} \X Nat) /\ Len(First(v, n)) = n
  BY <1>1, SeqOfLength
<1>4. Rest(v, n) \in Seq({v} \X Nat) /\ Len(Rest(v, n)) = FileLen - n
  BY <1>2, SeqOfLength
<1>5. Chunks(v) = First(v, FileLen) /\ Chunks(v) = Rest(v, 0)
  BY DEF Chunks, First, Rest
<1>6. First(v, 0) = <<>>
  BY DEF First
<1>7. Rest(v, n) = <<>> => n = FileLen
  BY <1>4, EmptySeq
<1> QED BY <1>3, <1>4, <1>5, <1>6, <1>7

\* A transfer that goes on where it broke off is sent the rest of the file.
LEMMA ResumedRest ==
    ASSUME FileLen \in Nat, NEW v, NEW n \in 0 .. FileLen
    PROVE  SubSeq(Chunks(v), Len(First(v, n)) + 1, FileLen) = Rest(v, n)
<1> DEFINE s == SubSeq(Chunks(v), n + 1, FileLen)
<1>1. \A i \in n + 1 .. FileLen : Chunks(v)[i] = <<v, i>> /\ Chunks(v)[i] \in {v} \X Nat
  BY DEF Chunks
<1>2. /\ s \in Seq({v} \X Nat) /\ Len(s) = FileLen - n
      /\ \A i \in 1 .. FileLen - n : s[i] = Chunks(v)[n + 1 + i - 1]
  <2>1. n + 1 \in Int /\ FileLen \in Int /\ FileLen - (n + 1) + 1 = FileLen - n
    OBVIOUS
  <2>2. /\ s \in Seq({v} \X Nat) /\ Len(s) = IF n + 1 <= FileLen THEN FileLen - (n + 1) + 1 ELSE 0
        /\ \A i \in 1 .. FileLen - (n + 1) + 1 : s[i] = Chunks(v)[n + 1 + i - 1]
    BY <1>1, <2>1, SubSeqProperties
  <2> QED BY <2>1, <2>2
<1>3. \A i \in 1 .. FileLen - n : s[i] = <<v, n + i>>
  <2>1. ASSUME NEW i \in 1 .. FileLen - n PROVE s[i] = <<v, n + i>>
    <3>1. n + i \in n + 1 .. FileLen /\ n + 1 + i - 1 = n + i
      OBVIOUS
    <3>2. s[i] = Chunks(v)[n + i]
      BY <1>2, <3>1
    <3> QED BY <1>1, <3>1, <3>2
  <2> QED BY <2>1
<1>4. \A i \in 1 .. Len(s) : s[i] = Rest(v, n)[i]
  BY <1>2, <1>3 DEF Rest
<1>5. Rest(v, n) \in Seq({v} \X Nat) /\ Len(Rest(v, n)) = FileLen - n /\ Len(First(v, n)) = n
  BY TwoEnds
<1> HIDE DEF s
<1>6. s = Rest(v, n)
  BY <1>2, <1>4, <1>5, SeqEqual
<1> QED BY <1>5, <1>6 DEF s

\* One chunk more leaves one less to come.
LEMMA NextChunk ==
    ASSUME FileLen \in Nat, NEW v, NEW n \in 0 .. FileLen, Rest(v, n) # <<>>
    PROVE  /\ n + 1 \in 0 .. FileLen
           /\ Append(First(v, n), Head(Rest(v, n))) = First(v, n + 1) /\ Tail(Rest(v, n)) = Rest(v, n + 1)
<1>1. First(v, n) \in Seq({v} \X Nat) /\ Len(First(v, n)) = n /\ Rest(v, n) \in Seq({v} \X Nat) /\ Len(Rest(v, n)) = FileLen - n
  BY TwoEnds
<1>2. n + 1 \in 0 .. FileLen
  BY <1>1, EmptySeq
<1>3. Head(Rest(v, n)) = <<v, n + 1>>
  BY <1>1, <1>2 DEF Rest
<1>4. Append(First(v, n), <<v, n + 1>>) = First(v, n + 1)
  BY <1>1, <1>2 DEF First
<1>5. /\ Tail(Rest(v, n)) \in Seq({v} \X Nat) /\ Len(Tail(Rest(v, n))) = FileLen - n - 1
      /\ \A i \in 1 .. FileLen - n - 1 : Tail(Rest(v, n))[i] = Rest(v, n)[i + 1]
  BY <1>1, HeadTailProperties
<1>6. Rest(v, n + 1) \in Seq({v} \X Nat) /\ Len(Rest(v, n + 1)) = FileLen - (n + 1)
  BY <1>2, TwoEnds
<1>7. \A i \in 1 .. FileLen - n - 1 : Tail(Rest(v, n))[i] = Rest(v, n + 1)[i]
  <2> SUFFICES ASSUME NEW i \in 1 .. FileLen - n - 1 PROVE Tail(Rest(v, n))[i] = Rest(v, n + 1)[i]
    OBVIOUS
  <2>1. i \in Int /\ i + 1 \in 1 .. FileLen - n /\ i \in 1 .. FileLen - (n + 1)
    BY <1>2
  <2>2. Rest(v, n)[i + 1] = <<v, n + (i + 1)>> /\ Rest(v, n + 1)[i] = <<v, (n + 1) + i>>
    BY <2>1 DEF Rest
  <2>3. n + (i + 1) = (n + 1) + i
    BY <2>1
  <2> QED BY <1>5, <2>2, <2>3
<1>8. Len(Tail(Rest(v, n))) = Len(Rest(v, n + 1)) /\ \A i \in 1 .. Len(Tail(Rest(v, n))) : Tail(Rest(v, n))[i] = Rest(v, n + 1)[i]
  BY <1>2, <1>5, <1>6, <1>7
<1>9. Tail(Rest(v, n)) = Rest(v, n + 1)
  BY <1>5, <1>6, <1>8, SeqEqual
<1> QED BY <1>2, <1>3, <1>4, <1>9

\* What a fetcher does leaves the others alone: its own record, what was delivered to it
\* and whether its partial file is there are all that can break the invariant.
LEMMA FetcherStep ==
    ASSUME CacheInv, NEW d \in Fetchers, NEW f, NEW got,
           fetcher' = [fetcher EXCEPT ![d] = f], FetcherOK(f),
           delivered' = [delivered EXCEPT ![d] = got],
           \A r \in got : Whole(r),
           partials' = IF f.pc \in {"request", "body"} THEN partials \cup {d} ELSE partials \ {d},
           TrueCache(cache'),
           UNCHANGED <<hostFile, damage>>
    PROVE  CacheInv'
<1> USE DEF CacheInv
<1>1. \A e \in Fetchers : fetcher'[e] = IF e = d THEN f ELSE fetcher[e]
  OBVIOUS
<1>2. \A e \in Fetchers : delivered'[e] = IF e = d THEN got ELSE delivered[e]
  OBVIOUS
<1>3. delivered' = [e \in Fetchers |-> delivered'[e]] /\ fetcher' = [e \in Fetchers |-> fetcher'[e]]
  OBVIOUS
<1>4. \A e \in Fetchers : FetcherOK(fetcher'[e])
  BY <1>1
<1>5. DeclaredIsDelivered' /\ WholeIsDelivered'
  BY <1>2 DEF CacheDeliversWhole, DeclaredIsDelivered, WholeIsDelivered, Whole
<1>6. PartialsHaveOwner'
  BY <1>1 DEF CacheDeliversWhole, PartialsHaveOwner
<1>7. CacheIsTrue'
  BY DEF CacheIsTrue, TrueCache
<1> QED BY <1>3, <1>4, <1>5, <1>6, <1>7 DEF CacheDeliversWhole, TrueCache

\* A download that begins has nothing of the file yet.
LEMMA PartialBegins ==
    ASSUME CacheInv, NEW declared \in Sums
    PROVE  FetcherOK([IdleFetcher EXCEPT !.pc = "request", !.declared = declared])
<1> DEFINE f == [IdleFetcher EXCEPT !.pc = "request", !.declared = declared]
<1>1. /\ DOMAIN f = FetcherFields /\ f.pc = "request" /\ f.declared = declared
      /\ f.part = <<>> /\ f.hashed = <<>>
  BY DEF IdleFetcher, FetcherFields
<1>2. 0 \in 0 .. FileLen /\ First(hostFile, 0) = <<>> /\ hostFile \in HostFiles
  <2>1. FileLen \in Nat /\ 0 \in 0 .. FileLen /\ hostFile \in HostFiles
    BY HostAssumption DEF CacheInv
  <2> QED BY <2>1, TwoEnds
<1> HIDE DEF f
<1>3. FetcherOK(f)
  BY <1>1, <1>2 DEF FetcherOK
<1> QED BY <1>3 DEF f

\* An idle task has nothing to keep.
LEMMA IdleIsOK == FetcherOK(IdleFetcher) /\ IdleFetcher.pc = "idle"
  BY DEF IdleFetcher, FetcherOK, FetcherFields, Sums

\* A step that leaves the deliveries and the cache as they are.
LEMMA QuietStep ==
    ASSUME CacheInv, NEW d \in Fetchers, NEW f,
           fetcher' = [fetcher EXCEPT ![d] = f], FetcherOK(f),
           partials' = IF f.pc \in {"request", "body"} THEN partials \cup {d} ELSE partials \ {d},
           delivered' = delivered \/ delivered' = [delivered EXCEPT ![d] = {}],
           UNCHANGED <<cache, hostFile, damage>>
    PROVE  CacheInv'
<1>1. TrueCache(cache')
  BY DEF CacheInv, CacheDeliversWhole, CacheIsTrue, TrueCache
<1>2. PICK got \in {{}, delivered[d]} : delivered' = [delivered EXCEPT ![d] = got]
  BY DEF CacheInv
<1>3. \A r \in got : Whole(r)
  BY DEF CacheInv, CacheDeliversWhole, DeclaredIsDelivered, WholeIsDelivered, Whole
<1> QED BY <1>1, <1>2, <1>3, FetcherStep

\* A cached file is used only after it was hashed again.
LEMMA CachedKeeps ==
    ASSUME CacheInv, NEW d \in Fetchers, OpenCached(d) \/ RemoveCached(d)
    PROVE  CacheInv'
<1> DEFINE name == fetcher[d].declared.sum
           begun == [IdleFetcher EXCEPT !.pc = "request", !.declared = fetcher[d].declared]
<1>1. /\ FetcherOK(fetcher[d]) /\ fetcher[d].pc \in {"open", "remove"} /\ fetcher[d].declared.kind = "sha256"
      /\ fetcher[d].declared \in Sums
  BY DEF CacheInv, OpenCached, RemoveCached, FetcherAt, FetcherOK
<1>2. PICK v \in HostFiles : name = Chunks(v)
  BY <1>1 DEF Sums, NoSum
<1>3. partials = partials \ {d}
  BY <1>1 DEF CacheInv, CacheDeliversWhole, PartialsHaveOwner
<1>4. TrueCache(cache)
  BY DEF CacheInv, CacheDeliversWhole, CacheIsTrue, TrueCache
<1>5. FetcherOK(begun) /\ begun.pc = "request"
  BY <1>1, PartialBegins DEF IdleFetcher
<1> HIDE DEF begun
<1>6. CASE OpenCached(d) /\ name \in DOMAIN cache /\ cache[name] = name
  <2>1. /\ delivered' = [delivered EXCEPT ![d] = {[declared |-> fetcher[d].declared, content |-> name]}]
        /\ fetcher' = [fetcher EXCEPT ![d] = IdleFetcher]
        /\ UNCHANGED <<hostFile, cache, partials, damage>>
    BY <1>6 DEF OpenCached, Deliver
  <2>2. Whole([declared |-> fetcher[d].declared, content |-> name])
    BY <1>2 DEF Whole
  <2> QED BY <1>3, <1>4, <2>1, <2>2, FetcherStep, IdleIsOK
<1>7. CASE OpenCached(d) /\ name \notin DOMAIN cache
  BY <1>3, <1>7, QuietStep, IdleIsOK DEF OpenCached
<1>8. CASE OpenCached(d) /\ name \in DOMAIN cache /\ cache[name] # name
  <2> DEFINE f == [fetcher[d] EXCEPT !.pc = "remove"]
  <2>1. f.pc = "remove" /\ FetcherOK(f)
    BY <1>1 DEF FetcherOK, FetcherFields
  <2>2. fetcher' = [fetcher EXCEPT ![d] = f] /\ UNCHANGED <<hostFile, cache, partials, damage, delivered>>
    BY <1>8 DEF OpenCached, FetcherGoes
  <2> HIDE DEF f
  <2> QED BY <1>3, <2>1, <2>2, QuietStep
<1>9. CASE RemoveCached(d) /\ name \in DOMAIN cache
  <2>1. /\ cache' = [n \in DOMAIN cache \ {name} |-> cache[n]]
        /\ partials' = partials \cup {d} /\ fetcher' = [fetcher EXCEPT ![d] = begun]
        /\ UNCHANGED <<hostFile, delivered, damage>>
    BY <1>9 DEF RemoveCached, CreatePartial, begun
  <2>2. TrueCache(cache')
    BY <1>4, <2>1 DEF TrueCache
  <2>3. delivered' = [delivered EXCEPT ![d] = delivered[d]] /\ \A r \in delivered[d] : Whole(r)
    BY <2>1 DEF CacheInv, CacheDeliversWhole, DeclaredIsDelivered, WholeIsDelivered, Whole
  <2> QED BY <1>5, <2>1, <2>2, <2>3, FetcherStep
<1>10. CASE RemoveCached(d) /\ name \notin DOMAIN cache
  BY <1>3, <1>10, QuietStep, IdleIsOK DEF RemoveCached
<1> QED BY <1>6, <1>7, <1>8, <1>9, <1>10

\* A fetch opens the cached file of the declared SHA-256 or begins a download.
LEMMA BeginKeeps ==
    ASSUME CacheInv, NEW d \in Fetchers, NEW declared \in Sums, BeginFetch(d, declared)
    PROVE  CacheInv'
<1> DEFINE open == [IdleFetcher EXCEPT !.pc = "open", !.declared = declared]
           begun == [IdleFetcher EXCEPT !.pc = "request", !.declared = declared]
<1>1. FetcherOK(begun) /\ begun.pc = "request"
  BY PartialBegins DEF IdleFetcher
<1>2. partials = partials \ {d}
  BY DEF BeginFetch, FetcherAt, CacheInv, CacheDeliversWhole, PartialsHaveOwner
<1>3. CASE declared.kind = "sha256" /\ declared.sum \in DOMAIN cache
  <2>1. open.pc = "open" /\ FetcherOK(open)
    BY <1>3 DEF FetcherOK, FetcherFields, IdleFetcher
  <2>2. fetcher' = [fetcher EXCEPT ![d] = open] /\ UNCHANGED <<partials, hostFile, cache, damage>>
    BY <1>3 DEF BeginFetch
  <2> HIDE DEF open
  <2> QED BY <1>2, <2>1, <2>2, QuietStep DEF BeginFetch
<1>4. CASE ~(declared.kind = "sha256" /\ declared.sum \in DOMAIN cache)
  <2>1. fetcher' = [fetcher EXCEPT ![d] = begun] /\ partials' = partials \cup {d} /\ UNCHANGED <<hostFile, cache, damage>>
    BY <1>4 DEF BeginFetch, CreatePartial
  <2> HIDE DEF begun
  <2> QED BY <1>1, <2>1, QuietStep DEF BeginFetch
<1> QED BY <1>3, <1>4

\* The transfer: the host goes on with the file the chunks are of, or starts over.
LEMMA TransferKeeps ==
    ASSUME CacheInv, NEW d \in Fetchers, AskHost(d) \/ ReceiveChunk(d) \/ BreakOff(d) \/ FailFetch(d)
    PROVE  CacheInv'
<1> DEFINE f == fetcher[d]
<1>1. FetcherOK(f) /\ f.pc \in {"request", "body"}
  BY DEF CacheInv, AskHost, ReceiveChunk, BreakOff, FailFetch, FetcherAt
<1>2. PICK v \in HostFiles, n \in 0 .. FileLen :
         /\ f.part = First(v, n) /\ f.hashed = f.part
         /\ f.part # <<>> \/ f.pc = "body" => f.validator = ValidatorOf[v]
         /\ f.pc = "body" => f.body = Rest(v, n)
  BY <1>1 DEF FetcherOK
<1>3. d \in partials /\ DOMAIN f = FetcherFields /\ f.declared \in Sums /\ FileLen \in Nat /\ hostFile \in HostFiles
  BY <1>1, HostAssumption DEF CacheInv, CacheDeliversWhole, PartialsHaveOwner, FetcherOK
<1>4. CASE AskHost(d) /\ Resumes(d)
  <2> DEFINE g == [f EXCEPT !.pc = "body", !.attempt = f.attempt + 1,
                            !.body = SubSeq(Chunks(hostFile), Len(f.part) + 1, FileLen)]
  <2>1. fetcher' = [fetcher EXCEPT ![d] = g] /\ UNCHANGED <<hostFile, cache, partials, delivered, damage>>
    BY <1>4 DEF AskHost
  <2>2. hostFile = v
    BY <1>2, <1>3, <1>4, HostAssumption DEF Resumes
  <2>3. g.body = Rest(v, n)
    BY <1>2, <1>3, <2>2, ResumedRest DEF FetcherFields
  <2>4. /\ DOMAIN g = FetcherFields /\ g.pc = "body" /\ g.declared = f.declared /\ g.part = f.part
        /\ g.hashed = f.hashed /\ g.validator = f.validator
    BY <1>3 DEF FetcherFields
  <2>5. f.validator = ValidatorOf[v]
    BY <1>2, <1>4 DEF Resumes
  <2> HIDE DEF g
  <2>6. FetcherOK(g)
    BY <1>2, <1>3, <2>3, <2>4, <2>5 DEF FetcherOK
  <2> QED BY <1>3, <2>1, <2>4, <2>6, QuietStep
<1>5. CASE AskHost(d) /\ ~Resumes(d)
  <2> DEFINE g == [f EXCEPT !.pc = "body", !.attempt = f.attempt + 1, !.body = Chunks(hostFile),
                            !.part = <<>>, !.hashed = <<>>, !.validator = ValidatorOf[hostFile]]
  <2>1. fetcher' = [fetcher EXCEPT ![d] = g] /\ UNCHANGED <<hostFile, cache, partials, delivered, damage>>
    BY <1>5 DEF AskHost
  <2>2. /\ DOMAIN g = FetcherFields /\ g.pc = "body" /\ g.declared = f.declared /\ g.part = <<>>
        /\ g.hashed = <<>> /\ g.validator = ValidatorOf[hostFile] /\ g.body = Chunks(hostFile)
    BY <1>3 DEF FetcherFields
  <2>3. 0 \in 0 .. FileLen
    BY <1>3
  <2>4. First(hostFile, 0) = <<>> /\ Rest(hostFile, 0) = Chunks(hostFile)
    BY <1>3, <2>3, TwoEnds
  <2> HIDE DEF g
  <2>5. FetcherOK(g)
    BY <1>3, <2>2, <2>3, <2>4 DEF FetcherOK
  <2> QED BY <1>3, <2>1, <2>2, <2>5, QuietStep
<1>6. CASE ReceiveChunk(d)
  <2> DEFINE g == [f EXCEPT !.hashed = Append(@, Head(f.body)), !.part = Append(@, Head(f.body)), !.body = Tail(@)]
  <2>1. /\ fetcher' = [fetcher EXCEPT ![d] = g] /\ UNCHANGED <<hostFile, cache, partials, delivered, damage>>
        /\ f.pc = "body" /\ f.body # <<>>
    BY <1>6 DEF ReceiveChunk, FetcherAt, CacheInv
  <2>2. /\ DOMAIN g = FetcherFields /\ g.pc = f.pc /\ g.declared = f.declared /\ g.validator = f.validator
        /\ g.part = Append(f.part, Head(f.body)) /\ g.hashed = Append(f.hashed, Head(f.body)) /\ g.body = Tail(f.body)
    BY <1>3 DEF FetcherFields
  <2>3. n + 1 \in 0 .. FileLen /\ g.part = First(v, n + 1) /\ g.body = Rest(v, n + 1)
    BY <1>2, <1>3, <2>1, <2>2, NextChunk
  <2> HIDE DEF g
  <2>4. FetcherOK(g)
    BY <1>2, <1>3, <2>1, <2>2, <2>3 DEF FetcherOK
  <2> QED BY <1>3, <2>1, <2>2, <2>4, QuietStep
<1>7. CASE BreakOff(d)
  <2> DEFINE g == [f EXCEPT !.pc = "request"]
  <2>1. fetcher' = [fetcher EXCEPT ![d] = g] /\ UNCHANGED <<hostFile, cache, partials, delivered, damage>> /\ f.pc = "body"
    BY <1>7 DEF BreakOff, FetcherGoes, FetcherAt
  <2>2. /\ DOMAIN g = FetcherFields /\ g.pc = "request" /\ g.declared = f.declared /\ g.part = f.part
        /\ g.hashed = f.hashed /\ g.validator = f.validator
    BY <1>3 DEF FetcherFields
  <2> HIDE DEF g
  <2>3. FetcherOK(g)
    BY <1>2, <1>3, <2>1, <2>2 DEF FetcherOK
  <2> QED BY <1>3, <2>1, <2>2, <2>3, QuietStep
<1>8. CASE FailFetch(d)
  BY <1>8, QuietStep, IdleIsOK DEF FailFetch
<1> QED BY <1>4, <1>5, <1>6, <1>7, <1>8

\* The end of the body: the whole of one file, under its own name.
LEMMA KeepKeeps ==
    ASSUME CacheInv, NEW d \in Fetchers, KeepFile(d)
    PROVE  CacheInv'
<1> DEFINE f == fetcher[d]
<1>1. FetcherOK(f) /\ f.pc = "body" /\ f.body = <<>> /\ (f.declared.kind # "none" => f.hashed = f.declared.sum)
  BY DEF CacheInv, KeepFile, FetcherAt
<1>2. PICK v \in HostFiles, n \in 0 .. FileLen : f.part = First(v, n) /\ f.hashed = f.part /\ f.body = Rest(v, n)
  BY <1>1 DEF FetcherOK
<1>3. f.part = Chunks(v) /\ f.hashed = f.part
  BY <1>1, <1>2, TwoEnds, HostAssumption
<1>4. Whole([declared |-> f.declared, content |-> f.part])
  BY <1>1, <1>3 DEF Whole
<1>5. /\ delivered' = [delivered EXCEPT ![d] = {[declared |-> f.declared, content |-> f.part]}]
      /\ fetcher' = [fetcher EXCEPT ![d] = IdleFetcher] /\ partials' = partials \ {d}
      /\ cache' = [m \in DOMAIN cache \cup {f.hashed} |-> IF m = f.hashed THEN f.part ELSE cache[m]]
      /\ UNCHANGED <<hostFile, damage>>
  BY DEF KeepFile, Deliver
<1>6. TrueCache(cache')
  BY <1>3, <1>5 DEF TrueCache, Names, CacheInv, CacheDeliversWhole, CacheIsTrue
<1> QED BY <1>4, <1>5, <1>6, FetcherStep, IdleIsOK

\* Every step keeps the invariant.
LEMMA CacheStep == CacheInv /\ [CacheNext]_cacheVars => CacheInv'
<1> SUFFICES ASSUME CacheInv, [CacheNext]_cacheVars PROVE CacheInv'
  OBVIOUS
<1>1. ASSUME NEW d \in Fetchers, NEW declared \in Sums, BeginFetch(d, declared) PROVE CacheInv'
  BY <1>1, BeginKeeps
<1>2. ASSUME NEW d \in Fetchers, OpenCached(d) \/ RemoveCached(d) PROVE CacheInv'
  BY <1>2, CachedKeeps
<1>3. ASSUME NEW d \in Fetchers, AskHost(d) \/ ReceiveChunk(d) \/ BreakOff(d) \/ FailFetch(d) PROVE CacheInv'
  BY <1>3, TransferKeeps
<1>4. ASSUME NEW d \in Fetchers, KeepFile(d) PROVE CacheInv'
  BY <1>4, KeepKeeps
<1>5. CASE HostReplaces
  <2>1. hostFile' \in HostFiles
    BY <1>5, HostAssumption DEF HostReplaces, CacheInv
  <2> QED BY <1>5, <2>1 DEF HostReplaces, CacheInv, CacheDeliversWhole, DeclaredIsDelivered, WholeIsDelivered,
                            CacheIsTrue, PartialsHaveOwner
<1>6. ASSUME NEW name \in DOMAIN cache, Damage(name) PROVE CacheInv'
  <2>1. name \in Names /\ damage' = Append(damage, name) /\ damage \in Seq(Names)
    BY <1>6 DEF Damage, CacheInv
  <2>2. damage' \in Seq(Names) /\ ToSet(damage') = ToSet(damage) \cup {name}
    <3>1. damage' \in Seq(Names) /\ Len(damage') = Len(damage) + 1 /\ Len(damage) \in Nat
      BY <2>1
    <3>2. \A i \in 1 .. Len(damage) : damage'[i] = damage[i]
      BY <2>1
    <3>3. damage'[Len(damage) + 1] = name
      BY <2>1
    <3> QED BY <2>1, <3>1, <3>2, <3>3 DEF ToSet
  <2>3. DOMAIN cache' = DOMAIN cache /\ \A n \in DOMAIN cache : n # name => cache'[n] = cache[n]
    BY <1>6 DEF Damage
  <2>4. CacheIsTrue'
    BY <2>2, <2>3 DEF CacheIsTrue, CacheInv, CacheDeliversWhole
  <2> QED BY <1>6, <2>2, <2>3, <2>4 DEF Damage, CacheInv, CacheDeliversWhole, DeclaredIsDelivered, WholeIsDelivered,
                                        PartialsHaveOwner
<1>7. CASE UNCHANGED cacheVars
  BY <1>7 DEF cacheVars, CacheInv, CacheDeliversWhole, DeclaredIsDelivered, WholeIsDelivered, CacheIsTrue, PartialsHaveOwner
<1> QED BY <1>1, <1>2, <1>3, <1>4, <1>5, <1>6, <1>7 DEF CacheNext

\* Before the first fetch there is nothing.
LEMMA CacheBegins == CacheInit => CacheInv
<1> SUFFICES ASSUME CacheInit PROVE CacheInv
  OBVIOUS
<1>1. hostFile \in HostFiles
  BY HostAssumption DEF CacheInit
<1>2. DOMAIN cache = {} /\ damage \in Seq(Names)
  BY DEF CacheInit
<1>3. \A d \in Fetchers : FetcherOK(fetcher[d]) /\ fetcher[d].pc = "idle" /\ delivered[d] = {}
  BY IdleIsOK DEF CacheInit
<1>4. CacheDeliversWhole
  BY <1>2, <1>3 DEF CacheInit, CacheDeliversWhole, DeclaredIsDelivered, WholeIsDelivered, CacheIsTrue, PartialsHaveOwner
<1> QED BY <1>1, <1>2, <1>3, <1>4 DEF CacheInit, CacheInv

\* However often transfers break off, the host replaces its file and files are damaged on
\* disk, a fetch returns a whole file, the declared one, and no partial file is left
\* without its download, for files of any length and any number of fetches (download.rs fetch).
THEOREM CacheKeeps == CacheSpec => []CacheDeliversWhole
<1>1. CacheInit => CacheInv
  BY CacheBegins
<1>2. CacheInv /\ [CacheNext]_cacheVars => CacheInv'
  BY CacheStep
<1>3. CacheInv => CacheDeliversWhole
  BY DEF CacheInv
<1> QED BY <1>1, <1>2, <1>3, PTL DEF CacheSpec

---------------------------------------------------------------------------
\* Backup and restore: a file that no one disturbs is, at every step of a run, what the
\* snapshot and the rows name, and the run's copy of it is those bytes; the first run into
\* a directory has hashed whatever is there; a restore no backup overtakes reads one copy.

\* What the fields of the machine hold.
BuildNumbers == Nat
Copies == [build : BuildNumbers, mtime : BuildNumbers]
Readings == [file : Files, build : BuildNumbers \ {0}]
Snapshots == [rows : [Files -> BuildNumbers], missing : SUBSET Files, run : Nat]
BackupSteps == {"copy", "rename", "prune", "manifest"}
Backups ==
    [pc : {"idle", "snapshot"} \cup BackupSteps, pass : Nat, snap : [Files -> BuildNumbers], todo : SUBSET Files,
     seen : SUBSET Files, fresh : SUBSET Files, missing : SUBSET Files, reading : SUBSET Readings]

BackupTypeOK ==
    /\ liveRows \in [Files -> BuildNumbers] /\ liveFiles \in [Files -> BuildNumbers] /\ builds \in Nat
    /\ server \in [up : BOOLEAN, op : SUBSET [file : Files, build : BuildNumbers]]
    /\ saved \in [manifest : SUBSET SUBSET Files, db : SUBSET Snapshots, files : [Files -> Copies]]
    /\ backup \in Backups
    /\ restore \in [pc : {"idle", "files"}, todo : SUBSET Files, alone : BOOLEAN]
    /\ runs \in Nat /\ stops \in Nat

\* What a run has of a file the server leaves alone.
FileFits(f) ==
    /\ saved.files[f].build = saved.files[f].mtime
    /\ backup.pc # "idle" => liveFiles[f] = liveRows[f]
    /\ backup.pc \in BackupSteps =>
          /\ backup.snap[f] = liveFiles[f]
          /\ f \in backup.seen => saved.files[f].build = liveFiles[f]
          /\ liveFiles[f] # 0 => f \in backup.todo \cup backup.seen \/ \E r \in backup.reading : r.file = f
    /\ \A r \in backup.reading : r.file = f => r.build = liveFiles[f]

\* What a run has done at each of its steps.
RunFits ==
    /\ backup.pc # "idle" => saved.manifest = {}
    /\ \A r, q \in backup.reading : r = q
    /\ backup.pc # "copy" => backup.reading = {}
    /\ backup.pc \in {"rename", "prune", "manifest"} => backup.todo = {}
    /\ backup.pc \in {"prune", "manifest"} =>
          saved.db = {[rows |-> backup.snap, missing |-> backup.missing, run |-> runs]}

\* In the first run every file in the directory has been read by it.
FirstRunFits ==
    /\ runs = 0 => backup.pc = "idle" /\ \A f \in Files : saved.files[f].build = 0
    /\ runs = 1 /\ backup.pc # "idle" =>
          \A f \in Files :
              /\ saved.files[f].build # 0 => f \in backup.fresh
              /\ backup.pc \in {"rename", "prune", "manifest"} /\ backup.snap[f] # 0 /\ f \notin backup.missing
                    /\ saved.files[f].build # 0 => saved.files[f].build = backup.snap[f]

\* A restore has what it is through with from the backup.
RestoreFits ==
    /\ server.op # {} => server.up
    /\ restore.pc = "files" => ~server.up
    /\ restore.pc = "files" /\ restore.alone =>
          backup.pc = "idle" /\ \A f \in Files \ restore.todo : liveFiles[f] = saved.files[f].build

BackupInv ==
    /\ BackupTypeOK /\ RunFits /\ FirstRunFits /\ RestoreFits
    /\ \A f \in Files \ disturbed : FileFits(f)
    /\ UndisturbedIsWhole /\ FirstBackupIsExact

\* What the history of disturbances tells of the others after a step.
Watched ==
    \A f \in Files \ disturbed' :
        f \notin disturbed /\ (backup'.pc # "idle" => liveFiles'[f] = liveFiles[f] /\ liveFiles'[f] = liveRows'[f])

\* A step of the server or a restore leaves a backup as it was.
LEMMA LiveKeeps ==
    ASSUME BackupInv, Watched, UNCHANGED <<saved, backup, runs>>
    PROVE  /\ RunFits' /\ FirstRunFits' /\ UndisturbedIsWhole' /\ FirstBackupIsExact'
           /\ \A f \in Files \ disturbed' : FileFits(f)'
<1>1. RunFits' /\ FirstRunFits' /\ FirstBackupIsExact'
  BY DEF BackupInv, RunFits, FirstRunFits, FirstBackupIsExact, Holds
<1>2. UndisturbedIsWhole'
  BY DEF BackupInv, UndisturbedIsWhole, Holds, Watched
<1>3. ASSUME NEW f \in Files \ disturbed' PROVE FileFits(f)'
  <2>1. f \notin disturbed /\ FileFits(f) /\ RunFits
    BY DEF Watched, BackupInv
  <2>2. CASE backup.pc = "idle"
    <3>1. backup.pc \notin BackupSteps /\ backup.reading = {}
      BY <2>1, <2>2 DEF BackupSteps, RunFits
    <3> QED BY <2>1, <2>2, <3>1 DEF FileFits
  <2>3. CASE backup.pc # "idle"
    BY <2>1, <2>3 DEF FileFits, Watched
  <2> QED BY <2>2, <2>3
<1> QED BY <1>1, <1>2, <1>3

LEMMA ServerKeeps ==
    ASSUME BackupInv, Watched, UNCHANGED <<saved, backup, restore, runs>>,
           StartServer \/ StopServer \/ ChangeRow \/ \E f \in Files, b \in 0 .. MaxBuilds : ChangeFile(f, b)
    PROVE  BackupInv'
<1> USE DEF BuildNumbers
<1>1. CASE StartServer
  <2>1. BackupTypeOK'
    BY <1>1 DEF StartServer, BackupInv, BackupTypeOK, live
  <2>2. RestoreFits'
    BY <1>1 DEF StartServer, BackupInv, RestoreFits
  <2> QED BY <2>1, <2>2, LiveKeeps DEF BackupInv
<1>2. CASE StopServer
  <2>1. BackupTypeOK'
    BY <1>2 DEF StopServer, Stop, BackupInv, BackupTypeOK, live
  <2>2. RestoreFits'
    BY <1>2 DEF StopServer, BackupInv, RestoreFits
  <2> QED BY <2>1, <2>2, LiveKeeps DEF BackupInv
<1>3. CASE ChangeRow
  <2>1. PICK op \in server.op :
          /\ liveRows' = [liveRows EXCEPT ![op.file] = op.build] /\ server' = [server EXCEPT !.op = {}]
          /\ UNCHANGED <<liveFiles, builds, stops>>
    BY <1>3 DEF ChangeRow
  <2>2. server.up /\ op.build \in Nat /\ server \in [up : BOOLEAN, op : SUBSET [file : Files, build : BuildNumbers]]
    BY <2>1 DEF BackupInv, RestoreFits, BackupTypeOK
  <2>3. BackupTypeOK'
    BY <2>1, <2>2 DEF BackupInv, BackupTypeOK
  <2>4. RestoreFits'
    BY <2>1, <2>2 DEF BackupInv, RestoreFits
  <2> QED BY <2>3, <2>4, LiveKeeps DEF BackupInv
<1>4. ASSUME NEW f \in Files, NEW b \in 0 .. MaxBuilds, ChangeFile(f, b) PROVE BackupInv'
  <2>1. /\ server.up /\ liveFiles' = [liveFiles EXCEPT ![f] = b] /\ builds' = (IF b = 0 THEN builds ELSE b)
        /\ server' = [server EXCEPT !.op = {[file |-> f, build |-> b]}] /\ UNCHANGED <<liveRows, stops>>
        /\ b \in {0, builds + 1}
    BY <1>4 DEF ChangeFile
  <2>2. b \in Nat
    BY <2>1 DEF BackupInv, BackupTypeOK
  <2>3. server' = [up |-> TRUE, op |-> {[file |-> f, build |-> b]}]
    BY <2>1 DEF BackupInv, BackupTypeOK
  <2>4. BackupTypeOK'
    BY <2>1, <2>2, <2>3 DEF BackupInv, BackupTypeOK
  <2>5. RestoreFits'
    BY <2>1, <2>3 DEF BackupInv, RestoreFits
  <2> QED BY <2>4, <2>5, LiveKeeps DEF BackupInv
<1> QED BY <1>1, <1>2, <1>3, <1>4

LEMMA RestoreKeeps ==
    ASSUME BackupInv, Watched, UNCHANGED <<saved, backup, server, runs>>,
           StartRestore \/ RestoreDatabase \/ RestoreInterrupted \/ \E f \in Files : RestoreFile(f)
    PROVE  BackupInv'
<1> USE DEF BuildNumbers
<1>1. CASE StartRestore
  <2>1. restore' = [pc |-> "files", todo |-> Files, alone |-> TRUE] /\ UNCHANGED <<liveRows, liveFiles, builds, stops>>
        /\ ~server.up /\ saved.manifest # {}
    BY <1>1 DEF StartRestore, live
  <2>2. BackupTypeOK'
    BY <2>1 DEF BackupInv, BackupTypeOK
  <2>3. RestoreFits'
    BY <2>1 DEF BackupInv, RestoreFits, RunFits
  <2> QED BY <2>2, <2>3, LiveKeeps DEF BackupInv
<1>2. CASE RestoreDatabase
  <2>1. PICK copied \in saved.db : liveRows' = copied.rows
    BY <1>2 DEF RestoreDatabase
  <2>2. restore' = NoRestore /\ UNCHANGED <<liveFiles, builds, stops>>
    BY <1>2 DEF RestoreDatabase
  <2>3. liveRows' \in [Files -> BuildNumbers]
    BY <2>1 DEF BackupInv, BackupTypeOK, Snapshots
  <2>4. BackupTypeOK'
    BY <2>2, <2>3 DEF BackupInv, BackupTypeOK, NoRestore
  <2>5. RestoreFits'
    BY <2>2 DEF BackupInv, RestoreFits, NoRestore
  <2> QED BY <2>4, <2>5, LiveKeeps DEF BackupInv
<1>3. CASE RestoreInterrupted
  <2>1. restore' = NoRestore /\ UNCHANGED <<liveRows, liveFiles, builds>> /\ stops' = stops + 1
    BY <1>3 DEF RestoreInterrupted, Stop, live
  <2>2. BackupTypeOK'
    BY <2>1 DEF BackupInv, BackupTypeOK, NoRestore
  <2>3. RestoreFits'
    BY <2>1 DEF BackupInv, RestoreFits, NoRestore
  <2> QED BY <2>2, <2>3, LiveKeeps DEF BackupInv
<1>4. ASSUME NEW f \in Files, RestoreFile(f) PROVE BackupInv'
  <2>1. /\ restore.pc = "files" /\ liveFiles' = [liveFiles EXCEPT ![f] = saved.files[f].build]
        /\ restore' = [restore EXCEPT !.todo = restore.todo \ {f}] /\ UNCHANGED <<liveRows, builds, stops>>
    BY <1>4 DEF RestoreFile
  <2>2. /\ restore \in [pc : {"idle", "files"}, todo : SUBSET Files, alone : BOOLEAN]
        /\ saved.files \in [Files -> Copies] /\ liveFiles \in [Files -> BuildNumbers]
    BY DEF BackupInv, BackupTypeOK
  <2>3. saved.files[f].build \in BuildNumbers
    BY <2>2 DEF Copies
  <2>4. restore'.pc = restore.pc /\ (restore'.alone <=> restore.alone) /\ restore'.todo = restore.todo \ {f}
    BY <2>1, <2>2
  <2>5. BackupTypeOK'
    BY <2>1, <2>2, <2>3 DEF BackupInv, BackupTypeOK
  <2>6. RestoreFits'
    BY <2>1, <2>2, <2>4 DEF BackupInv, RestoreFits
  <2> QED BY <2>5, <2>6, LiveKeeps DEF BackupInv
<1> QED BY <1>1, <1>2, <1>3, <1>4

\* A step of a backup, which nothing can be restored from until it ends.
LEMMA RunMoves ==
    ASSUME BackupInv, backup.pc # "idle", UNCHANGED <<server, restore>>, saved'.manifest = {},
           BackupTypeOK', RunFits', FirstRunFits', \A f \in Files \ disturbed' : FileFits(f)'
    PROVE  BackupInv'
<1>1. UndisturbedIsWhole' /\ FirstBackupIsExact'
  BY DEF UndisturbedIsWhole, FirstBackupIsExact
<1>2. RestoreFits'
  BY DEF BackupInv, RestoreFits
<1> QED BY <1>1, <1>2 DEF BackupInv

LEMMA StartBackupKeeps ==
    ASSUME BackupInv, Watched, StartBackup
    PROVE  BackupInv'
<1> USE DEF BuildNumbers
<1>1. /\ backup.pc = "idle" /\ runs' = runs + 1 /\ saved' = [saved EXCEPT !.manifest = {}]
      /\ backup' = [backup EXCEPT !.pc = "snapshot"] /\ restore' = [restore EXCEPT !.alone = (restore.pc = "idle")]
      /\ UNCHANGED <<liveRows, liveFiles, builds, server, stops>>
  BY DEF StartBackup, To, live
<1>2. /\ backup \in Backups /\ saved \in [manifest : SUBSET SUBSET Files, db : SUBSET Snapshots, files : [Files -> Copies]]
      /\ restore \in [pc : {"idle", "files"}, todo : SUBSET Files, alone : BOOLEAN] /\ runs \in Nat
  BY DEF BackupInv, BackupTypeOK
<1>3. /\ backup' \in Backups /\ backup'.pc = "snapshot" /\ backup'.reading = backup.reading
  BY <1>1, <1>2 DEF Backups
<1>4. saved'.manifest = {} /\ saved'.files = saved.files /\ saved'.db = saved.db
  BY <1>1, <1>2
<1>5. restore'.pc = restore.pc /\ restore'.todo = restore.todo /\ (restore'.alone <=> restore.pc = "idle")
  BY <1>1, <1>2
<1>6. BackupTypeOK'
  <2>1. saved' \in [manifest : SUBSET SUBSET Files, db : SUBSET Snapshots, files : [Files -> Copies]]
    BY <1>1, <1>2
  <2>2. restore' \in [pc : {"idle", "files"}, todo : SUBSET Files, alone : BOOLEAN] /\ runs' \in Nat
    <3>1. runs' \in Nat
      BY <1>1, <1>2
    <3>2. PICK a \in BOOLEAN : restore' = [restore EXCEPT !.alone = a]
      BY <1>1
    <3> QED BY <1>2, <3>1, <3>2
  <2> QED BY <1>1, <1>3, <2>1, <2>2 DEF BackupInv, BackupTypeOK
<1>7. backup.reading = {}
  BY <1>1 DEF BackupInv, RunFits
<1>8. RunFits' /\ RestoreFits' /\ UndisturbedIsWhole' /\ FirstBackupIsExact'
  <2>1. RunFits'
    BY <1>3, <1>4, <1>7 DEF RunFits
  <2>2. RestoreFits'
    BY <1>1, <1>5 DEF BackupInv, RestoreFits
  <2> QED BY <1>4, <2>1, <2>2 DEF UndisturbedIsWhole, FirstBackupIsExact
<1>9. FirstRunFits'
  <2>1. runs' # 0 /\ (runs' = 1 => runs = 0)
    BY <1>1, <1>2
  <2> QED BY <1>3, <1>4, <2>1 DEF BackupInv, FirstRunFits
<1>10. ASSUME NEW f \in Files \ disturbed' PROVE FileFits(f)'
  <2>1. f \notin disturbed /\ FileFits(f) /\ liveFiles' = liveFiles /\ liveFiles'[f] = liveRows'[f]
    BY <1>1, <1>3 DEF Watched, BackupInv
  <2> QED BY <1>3, <1>4, <1>7, <2>1 DEF FileFits, BackupSteps
<1> QED BY <1>6, <1>8, <1>9, <1>10 DEF BackupInv

LEMMA SnapshotKeeps ==
    ASSUME BackupInv, Watched, Snapshot
    PROVE  BackupInv'
<1> USE DEF BuildNumbers
<1>1. /\ backup.pc = "snapshot" /\ UNCHANGED <<liveRows, liveFiles, builds, server, saved, restore, runs, stops>>
      /\ backup' = [backup EXCEPT !.pc = "copy", !.pass = backup.pass + 1, !.snap = liveRows, !.todo = Files, !.seen = {}]
  BY DEF Snapshot, live
<1>2. backup \in Backups /\ liveRows \in [Files -> BuildNumbers]
  BY DEF BackupInv, BackupTypeOK
<1>3. /\ backup'.pc = "copy" /\ backup'.snap = liveRows /\ backup'.todo = Files /\ backup'.seen = {}
      /\ backup'.fresh = backup.fresh /\ backup'.reading = backup.reading
  BY <1>1, <1>2 DEF Backups
<1>4. backup' \in Backups
  <2>1. PICK n \in Nat : n = backup.pass + 1
    BY <1>2 DEF Backups
  <2>2. backup' = [backup EXCEPT !.pc = "copy", !.pass = n, !.snap = liveRows, !.todo = Files, !.seen = {}]
    BY <1>1, <2>1
  <2> QED BY <1>2, <2>2 DEF Backups, BackupSteps
<1>5. BackupTypeOK'
  BY <1>1, <1>4 DEF BackupInv, BackupTypeOK
<1>6. saved.manifest = {} /\ backup.reading = {}
  BY <1>1 DEF BackupInv, RunFits
<1>7. RunFits'
  BY <1>1, <1>3, <1>6 DEF RunFits
<1>8. FirstRunFits'
  BY <1>1, <1>3 DEF BackupInv, FirstRunFits
<1>9. ASSUME NEW f \in Files \ disturbed' PROVE FileFits(f)'
  <2>1. f \notin disturbed /\ FileFits(f) /\ liveFiles'[f] = liveRows'[f]
    BY <1>1, <1>3 DEF Watched, BackupInv
  <2> QED BY <1>1, <1>3, <1>6, <2>1 DEF FileFits
<1> QED BY <1>1, <1>5, <1>6, <1>7, <1>8, <1>9, RunMoves

LEMMA CopyTreeKeeps ==
    ASSUME BackupInv, Watched, NEW g \in Files, CopyTree(g)
    PROVE  BackupInv'
<1> USE DEF BuildNumbers
<1> DEFINE looked == [backup EXCEPT !.todo = backup.todo \ {g}]
<1>1. /\ backup.pc = "copy" /\ backup.reading = {} /\ g \in backup.todo
      /\ UNCHANGED <<liveRows, liveFiles, builds, server, saved, restore, runs, stops>>
      /\ backup' = IF liveFiles[g] = 0 THEN looked
                   ELSE IF SameFile(g) THEN [looked EXCEPT !.seen = looked.seen \cup {g}]
                   ELSE [looked EXCEPT !.reading = {[file |-> g, build |-> liveFiles[g]]}]
  BY DEF CopyTree, live
<1>2. backup \in Backups /\ liveFiles \in [Files -> BuildNumbers] /\ saved.manifest = {}
  BY <1>1 DEF BackupInv, BackupTypeOK, RunFits
<1>3. /\ looked \in Backups /\ looked.pc = "copy" /\ looked.snap = backup.snap /\ looked.seen = backup.seen
      /\ looked.fresh = backup.fresh /\ looked.reading = {} /\ looked.todo = backup.todo \ {g}
  BY <1>1, <1>2 DEF Backups
<1> HIDE DEF looked
<1>4. /\ backup'.pc = "copy" /\ backup'.snap = backup.snap /\ backup'.fresh = backup.fresh /\ backup'.todo = backup.todo \ {g}
      /\ backup'.seen \in {backup.seen, backup.seen \cup {g}} /\ backup' \in Backups
      /\ g \in backup'.seen => g \in backup.seen \/ (liveFiles[g] # 0 /\ SameFile(g))
      /\ liveFiles[g] # 0 => g \in backup'.seen \/ [file |-> g, build |-> liveFiles[g]] \in backup'.reading
      /\ backup'.reading \subseteq {[file |-> g, build |-> liveFiles[g]]}
  <2>1. CASE liveFiles[g] = 0
    BY <1>1, <1>3, <2>1
  <2>2. CASE liveFiles[g] # 0 /\ SameFile(g)
    <3>1. backup' = [looked EXCEPT !.seen = looked.seen \cup {g}]
      BY <1>1, <2>2
    <3> QED BY <1>3, <2>2, <3>1 DEF Backups
  <2>3. CASE liveFiles[g] # 0 /\ ~SameFile(g)
    <3>1. backup' = [looked EXCEPT !.reading = {[file |-> g, build |-> liveFiles[g]]}]
      BY <1>1, <2>3
    <3>2. [file |-> g, build |-> liveFiles[g]] \in Readings
      BY <1>2, <2>3 DEF Readings
    <3> QED BY <1>3, <3>1, <3>2 DEF Backups
  <2> QED BY <2>1, <2>2, <2>3
<1>5. BackupTypeOK'
  BY <1>1, <1>4 DEF BackupInv, BackupTypeOK
<1>6. RunFits'
  BY <1>1, <1>2, <1>4 DEF RunFits
<1>7. FirstRunFits'
  BY <1>1, <1>4 DEF BackupInv, FirstRunFits
<1>8. ASSUME NEW f \in Files \ disturbed' PROVE FileFits(f)'
  <2>1. f \notin disturbed /\ FileFits(f) /\ liveFiles'[f] = liveRows'[f]
    BY <1>1, <1>4 DEF Watched, BackupInv
  <2>2. f \in backup'.seen => saved.files[f].build = liveFiles[f]
    <3>1. CASE f \in backup.seen
      BY <1>1, <2>1, <3>1 DEF FileFits, BackupSteps
    <3>2. CASE f \notin backup.seen /\ f \in backup'.seen
      <4>1. f = g /\ SameFile(f)
        BY <1>4, <3>2
      <4> QED BY <2>1, <4>1 DEF SameFile, FileFits
    <3> QED BY <3>1, <3>2
  <2>3. liveFiles[f] # 0 => f \in backup'.todo \cup backup'.seen \/ \E r \in backup'.reading : r.file = f
    <3>1. liveFiles[f] # 0 => f \in backup.todo \cup backup.seen
      BY <1>1, <2>1 DEF FileFits, BackupSteps
    <3> QED BY <1>4, <3>1
  <2>4. \A r \in backup'.reading : r.file = f => r.build = liveFiles[f]
    BY <1>4
  <2>5. backup.snap[f] = liveFiles[f]
    BY <1>1, <2>1 DEF FileFits, BackupSteps
  <2> QED BY <1>1, <1>4, <2>1, <2>2, <2>3, <2>4, <2>5 DEF FileFits
<1> QED BY <1>1, <1>2, <1>5, <1>6, <1>7, <1>8, RunMoves

LEMMA CopyFileKeeps ==
    ASSUME BackupInv, Watched, CopyFile
    PROVE  BackupInv'
<1> USE DEF BuildNumbers
<1>1. PICK r \in backup.reading :
          /\ UNCHANGED <<liveRows, liveFiles, builds, server, restore, runs, stops>>
          /\ backup' = [backup EXCEPT !.reading = {},
                           !.seen = IF liveFiles[r.file] = 0 THEN backup.seen ELSE backup.seen \cup {r.file},
                           !.fresh = IF liveFiles[r.file] = 0 THEN backup.fresh ELSE backup.fresh \cup {r.file}]
          /\ saved' = IF liveFiles[r.file] = 0 THEN saved
                      ELSE [saved EXCEPT !.files[r.file] = [build |-> r.build, mtime |-> liveFiles[r.file]]]
  BY DEF CopyFile, live
<1> DEFINE g == r.file
           gone == liveFiles[g] = 0
<1>2. /\ backup \in Backups /\ saved \in [manifest : SUBSET SUBSET Files, db : SUBSET Snapshots, files : [Files -> Copies]]
      /\ liveFiles \in [Files -> BuildNumbers] /\ r \in Readings /\ g \in Files /\ r.build # 0 /\ r.build \in Nat
  BY <1>1 DEF BackupInv, BackupTypeOK, Backups, Readings
<1>3. backup.pc = "copy" /\ saved.manifest = {} /\ \A q \in backup.reading : q = r
  BY <1>1 DEF BackupInv, RunFits
<1>4. /\ backup' \in Backups /\ backup'.pc = "copy" /\ backup'.snap = backup.snap /\ backup'.reading = {}
      /\ backup'.todo = backup.todo
      /\ backup'.seen = (IF gone THEN backup.seen ELSE backup.seen \cup {g})
      /\ backup'.fresh = (IF gone THEN backup.fresh ELSE backup.fresh \cup {g})
  BY <1>1, <1>2, <1>3 DEF Backups
<1>5. /\ saved' \in [manifest : SUBSET SUBSET Files, db : SUBSET Snapshots, files : [Files -> Copies]] /\ saved'.manifest = {}
      /\ \A f \in Files \ {g} : saved'.files[f] = saved.files[f]
      /\ saved'.files[g] = IF gone THEN saved.files[g] ELSE [build |-> r.build, mtime |-> liveFiles[g]]
  <2>1. CASE gone
    BY <1>1, <1>2, <1>3, <2>1
  <2>2. CASE ~gone
    <3> DEFINE c == [build |-> r.build, mtime |-> liveFiles[g]]
    <3>1. c \in Copies
      BY <1>2 DEF Copies
    <3>2. saved' = [saved EXCEPT !.files = [saved.files EXCEPT ![g] = c]]
      BY <1>1, <1>2, <2>2
    <3> HIDE DEF c
    <3>3. saved'.files = [saved.files EXCEPT ![g] = c] /\ saved'.manifest = saved.manifest
      BY <1>2, <3>2
    <3>4. saved'.files[g] = c /\ \A f \in Files \ {g} : saved'.files[f] = saved.files[f]
      BY <1>2, <3>3
    <3>5. saved' \in [manifest : SUBSET SUBSET Files, db : SUBSET Snapshots, files : [Files -> Copies]]
      BY <1>2, <3>1, <3>2
    <3> QED BY <1>3, <2>2, <3>3, <3>4, <3>5 DEF c
  <2> QED BY <2>1, <2>2
<1>6. BackupTypeOK'
  BY <1>1, <1>4, <1>5 DEF BackupInv, BackupTypeOK
<1>7. RunFits'
  BY <1>4, <1>5 DEF RunFits
<1>8. FirstRunFits'
  BY <1>1, <1>2, <1>3, <1>4, <1>5 DEF BackupInv, FirstRunFits
<1>9. ASSUME NEW f \in Files \ disturbed' PROVE FileFits(f)'
  <2>1. f \notin disturbed /\ FileFits(f) /\ liveFiles'[f] = liveRows'[f]
    BY <1>1, <1>4 DEF Watched, BackupInv
  <2>2. f = g => r.build = liveFiles[f]
    BY <1>1, <2>1 DEF FileFits
  <2>3. liveFiles[f] # 0 => f \in backup.todo \cup backup.seen \cup {g}
    BY <1>3, <2>1 DEF FileFits, BackupSteps
  <2>4. CASE f = g /\ ~gone
    <3>1. saved'.files[f].build = r.build /\ saved'.files[f].mtime = liveFiles[f]
      BY <1>5, <2>4
    <3> QED BY <1>1, <1>3, <1>4, <2>1, <2>2, <2>4, <3>1 DEF FileFits, BackupSteps
  <2>5. CASE f # g \/ gone
    <3>1. saved'.files[f] = saved.files[f] /\ (f \in backup'.seen <=> f \in backup.seen)
      BY <1>4, <1>5, <2>5
    <3>2. liveFiles[f] # 0 => f \in backup.todo \cup backup.seen
      BY <2>3, <2>5
    <3> QED BY <1>1, <1>3, <1>4, <2>1, <3>1, <3>2 DEF FileFits, BackupSteps
  <2> QED BY <2>4, <2>5
<1> QED BY <1>1, <1>3, <1>5, <1>6, <1>7, <1>8, <1>9, RunMoves

LEMMA VerifyKeeps ==
    ASSUME BackupInv, Watched, Verify
    PROVE  BackupInv'
<1> DEFINE wrong == {f \in Files : Wrong(f)}
<1>1. /\ backup.pc = "copy" /\ backup.todo = {} /\ backup.reading = {}
      /\ UNCHANGED <<liveRows, liveFiles, builds, server, saved, restore, runs, stops>>
      /\ \/ backup' = [backup EXCEPT !.pc = "rename", !.missing = wrong]
         \/ backup' = [backup EXCEPT !.pc = "snapshot"]
  BY DEF Verify, To, live
<1>2. backup \in Backups /\ saved.manifest = {}
  BY <1>1 DEF BackupInv, BackupTypeOK, RunFits
<1>3. /\ backup' \in Backups /\ backup'.snap = backup.snap /\ backup'.reading = {} /\ backup'.todo = {}
      /\ backup'.seen = backup.seen /\ backup'.fresh = backup.fresh
      /\ \/ backup'.pc = "rename" /\ backup'.missing = wrong
         \/ backup'.pc = "snapshot"
  BY <1>1, <1>2 DEF Backups, BackupSteps
<1>4. BackupTypeOK'
  BY <1>1, <1>3 DEF BackupInv, BackupTypeOK
<1>5. RunFits'
  BY <1>1, <1>2, <1>3 DEF RunFits
<1>6. FirstRunFits'
  <2>1. ASSUME NEW f \in Files, f \notin wrong, backup.snap[f] # 0, saved.files[f].build # 0, f \in backup.fresh
        PROVE  saved.files[f].build = backup.snap[f]
    BY <2>1 DEF Wrong
  <2> QED BY <1>1, <1>3, <2>1 DEF BackupInv, FirstRunFits
<1>7. ASSUME NEW f \in Files \ disturbed' PROVE FileFits(f)'
  <2>1. f \notin disturbed /\ FileFits(f) /\ liveFiles'[f] = liveRows'[f]
    BY <1>1, <1>3 DEF Watched, BackupInv
  <2> QED BY <1>1, <1>3, <2>1 DEF FileFits, BackupSteps
<1> QED BY <1>1, <1>2, <1>4, <1>5, <1>6, <1>7, RunMoves

LEMMA PlaceSnapshotKeeps ==
    ASSUME BackupInv, Watched, PlaceSnapshot
    PROVE  BackupInv'
<1> DEFINE snapshot == [rows |-> backup.snap, missing |-> backup.missing, run |-> runs]
<1>1. /\ backup.pc = "rename" /\ UNCHANGED <<liveRows, liveFiles, builds, server, restore, runs, stops>>
      /\ backup' = [backup EXCEPT !.pc = "prune"] /\ saved' = [saved EXCEPT !.db = {snapshot}]
  BY DEF PlaceSnapshot, To, live
<1>2. /\ backup \in Backups /\ saved.manifest = {} /\ backup.reading = {} /\ backup.todo = {} /\ runs \in Nat
      /\ saved \in [manifest : SUBSET SUBSET Files, db : SUBSET Snapshots, files : [Files -> Copies]]
  BY <1>1 DEF BackupInv, BackupTypeOK, RunFits
<1>3. /\ backup' \in Backups /\ backup'.snap = backup.snap /\ backup'.reading = {} /\ backup'.todo = {}
      /\ backup'.seen = backup.seen /\ backup'.fresh = backup.fresh /\ backup'.missing = backup.missing /\ backup'.pc = "prune"
  BY <1>1, <1>2 DEF Backups, BackupSteps
<1>4. snapshot \in Snapshots
  BY <1>2 DEF Snapshots, Backups
<1>5. /\ saved' \in [manifest : SUBSET SUBSET Files, db : SUBSET Snapshots, files : [Files -> Copies]]
      /\ saved'.manifest = {} /\ saved'.db = {snapshot} /\ saved'.files = saved.files
  BY <1>1, <1>2, <1>4
<1>6. BackupTypeOK'
  BY <1>1, <1>3, <1>5 DEF BackupInv, BackupTypeOK
<1>7. RunFits'
  BY <1>1, <1>3, <1>5 DEF RunFits
<1>8. FirstRunFits'
  BY <1>1, <1>3, <1>5 DEF BackupInv, FirstRunFits
<1>9. ASSUME NEW f \in Files \ disturbed' PROVE FileFits(f)'
  <2>1. f \notin disturbed /\ FileFits(f) /\ liveFiles'[f] = liveRows'[f]
    BY <1>1, <1>3 DEF Watched, BackupInv
  <2> QED BY <1>1, <1>2, <1>3, <1>5, <2>1 DEF FileFits, BackupSteps
<1> QED BY <1>1, <1>5, <1>6, <1>7, <1>8, <1>9, RunMoves

LEMMA PruneKeeps ==
    ASSUME BackupInv, Watched, Prune
    PROVE  BackupInv'
<1>1. /\ backup.pc = "prune" /\ UNCHANGED <<liveRows, liveFiles, builds, server, restore, runs, stops>>
      /\ \/ \E g \in Unseen : saved' = [saved EXCEPT !.files[g] = NoCopy] /\ UNCHANGED backup
         \/ backup' = [backup EXCEPT !.pc = "manifest"] /\ UNCHANGED saved
  BY DEF Prune, To, live
<1>2. /\ backup \in Backups /\ saved.manifest = {} /\ backup.reading = {} /\ backup.todo = {}
      /\ saved \in [manifest : SUBSET SUBSET Files, db : SUBSET Snapshots, files : [Files -> Copies]]
      /\ saved.db = {[rows |-> backup.snap, missing |-> backup.missing, run |-> runs]}
  BY <1>1 DEF BackupInv, BackupTypeOK, RunFits
<1>3. CASE backup' = [backup EXCEPT !.pc = "manifest"] /\ UNCHANGED saved
  <2>1. /\ backup' \in Backups /\ backup'.snap = backup.snap /\ backup'.reading = {} /\ backup'.todo = {}
        /\ backup'.seen = backup.seen /\ backup'.fresh = backup.fresh /\ backup'.missing = backup.missing
        /\ backup'.pc = "manifest"
    BY <1>2, <1>3 DEF Backups, BackupSteps
  <2>2. BackupTypeOK'
    BY <1>1, <1>3, <2>1 DEF BackupInv, BackupTypeOK
  <2>3. RunFits'
    BY <1>1, <1>2, <1>3, <2>1 DEF RunFits
  <2>4. FirstRunFits'
    BY <1>1, <1>3, <2>1 DEF BackupInv, FirstRunFits
  <2>5. ASSUME NEW f \in Files \ disturbed' PROVE FileFits(f)'
    <3>1. f \notin disturbed /\ FileFits(f) /\ liveFiles'[f] = liveRows'[f]
      BY <1>1, <2>1 DEF Watched, BackupInv
    <3> QED BY <1>1, <1>2, <1>3, <2>1, <3>1 DEF FileFits, BackupSteps
  <2> QED BY <1>1, <1>2, <1>3, <2>2, <2>3, <2>4, <2>5, RunMoves
<1>4. ASSUME NEW g \in Unseen, saved' = [saved EXCEPT !.files[g] = NoCopy], UNCHANGED backup PROVE BackupInv'
  <2>1. g \in Files /\ g \notin backup.seen
    BY DEF Unseen
  <2>2. NoCopy \in Copies /\ NoCopy.build = 0 /\ NoCopy.mtime = 0
    BY DEF NoCopy, Copies, BuildNumbers
  <2>3. saved' = [saved EXCEPT !.files = [saved.files EXCEPT ![g] = NoCopy]]
    BY <1>2, <1>4
  <2>4. saved'.files = [saved.files EXCEPT ![g] = NoCopy] /\ saved'.manifest = {} /\ saved'.db = saved.db
    BY <1>2, <2>3
  <2>5. saved'.files[g] = NoCopy /\ \A f \in Files \ {g} : saved'.files[f] = saved.files[f]
    BY <1>2, <2>1, <2>4
  <2>6. saved' \in [manifest : SUBSET SUBSET Files, db : SUBSET Snapshots, files : [Files -> Copies]]
    BY <1>2, <2>2, <2>3
  <2>7. BackupTypeOK'
    BY <1>1, <1>4, <2>6 DEF BackupInv, BackupTypeOK
  <2>8. RunFits'
    BY <1>1, <1>4, <2>4 DEF BackupInv, RunFits
  <2>9. FirstRunFits'
    BY <1>1, <1>4, <2>2, <2>5 DEF BackupInv, FirstRunFits
  <2>10. ASSUME NEW f \in Files \ disturbed' PROVE FileFits(f)'
    <3>1. f \notin disturbed /\ FileFits(f) /\ liveFiles'[f] = liveRows'[f]
      BY <1>1, <1>4 DEF Watched, BackupInv
    <3> QED BY <1>1, <1>2, <1>4, <2>1, <2>2, <2>5, <3>1 DEF FileFits, BackupSteps
  <2> QED BY <1>1, <1>4, <2>4, <2>7, <2>8, <2>9, <2>10, RunMoves
<1> QED BY <1>1, <1>3, <1>4

\* What a run that ends vouches for.
LEMMA WriteManifestKeeps ==
    ASSUME BackupInv, Watched, WriteManifest
    PROVE  BackupInv'
<1>1. /\ backup.pc = "manifest" /\ UNCHANGED <<liveRows, liveFiles, builds, server, restore, runs, stops>>
      /\ backup' = NoBackup /\ saved' = [saved EXCEPT !.manifest = {backup.missing}]
  BY DEF WriteManifest, live
<1>2. /\ backup \in Backups /\ backup.reading = {} /\ backup.todo = {}
      /\ saved \in [manifest : SUBSET SUBSET Files, db : SUBSET Snapshots, files : [Files -> Copies]]
      /\ saved.db = {[rows |-> backup.snap, missing |-> backup.missing, run |-> runs]}
  BY <1>1 DEF BackupInv, BackupTypeOK, RunFits
<1>3. /\ backup' \in Backups /\ backup'.pc = "idle" /\ backup'.reading = {}
  BY <1>1 DEF NoBackup, Backups, BuildNumbers
<1>4. /\ saved' \in [manifest : SUBSET SUBSET Files, db : SUBSET Snapshots, files : [Files -> Copies]]
      /\ saved'.db = saved.db /\ saved'.files = saved.files
  BY <1>1, <1>2 DEF Backups
<1>5. BackupTypeOK'
  BY <1>1, <1>3, <1>4 DEF BackupInv, BackupTypeOK
<1>6. RunFits'
  BY <1>3 DEF RunFits
<1>7. FirstRunFits'
  BY <1>1, <1>3, <1>4 DEF BackupInv, FirstRunFits
<1>8. RestoreFits'
  BY <1>1 DEF BackupInv, RestoreFits
<1>9. ASSUME NEW f \in Files \ disturbed' PROVE FileFits(f)'
  <2>1. f \notin disturbed /\ FileFits(f)
    BY DEF Watched, BackupInv
  <2> QED BY <1>3, <1>4, <2>1 DEF FileFits, BackupSteps
<1>10. UndisturbedIsWhole'
  <2>1. ASSUME NEW f \in Files \ disturbed', backup.snap[f] # 0 PROVE saved.files[f].build = backup.snap[f]
    <3>1. f \notin disturbed /\ FileFits(f)
      BY DEF Watched, BackupInv
    <3> QED BY <1>1, <1>2, <2>1, <3>1 DEF FileFits, BackupSteps
  <2> QED BY <1>2, <1>4, <2>1 DEF UndisturbedIsWhole, Holds
<1>11. FirstBackupIsExact'
  BY <1>1, <1>2, <1>4 DEF BackupInv, FirstRunFits, FirstBackupIsExact, Holds
<1> QED BY <1>5, <1>6, <1>7, <1>8, <1>9, <1>10, <1>11 DEF BackupInv

LEMMA BackupInterruptedKeeps ==
    ASSUME BackupInv, Watched, BackupInterrupted
    PROVE  BackupInv'
<1>1. /\ backup.pc # "idle" /\ UNCHANGED <<liveRows, liveFiles, builds, server, saved, restore, runs>>
      /\ backup' = NoBackup /\ stops' = stops + 1
  BY DEF BackupInterrupted, Stop, live
<1>2. /\ backup' \in Backups /\ backup'.pc = "idle" /\ backup'.reading = {}
  BY <1>1 DEF NoBackup, Backups, BuildNumbers
<1>3. BackupTypeOK'
  BY <1>1, <1>2 DEF BackupInv, BackupTypeOK
<1>4. RunFits' /\ FirstRunFits' /\ saved'.manifest = {}
  BY <1>1, <1>2 DEF BackupInv, RunFits, FirstRunFits
<1>5. ASSUME NEW f \in Files \ disturbed' PROVE FileFits(f)'
  <2>1. f \notin disturbed /\ FileFits(f)
    BY DEF Watched, BackupInv
  <2> QED BY <1>1, <1>2, <2>1 DEF FileFits, BackupSteps
<1> QED BY <1>1, <1>3, <1>4, <1>5, RunMoves

LEMMA BackupInitHolds == BackupInit => BackupInv
<1> SUFFICES ASSUME BackupInit PROVE BackupInv
  OBVIOUS
<1> USE DEF BackupInit, BuildNumbers
<1>1. BackupTypeOK
  BY DEF BackupTypeOK, NoBackup, NoRestore, NoCopy, Copies, Backups
<1>2. RunFits /\ FirstRunFits /\ RestoreFits
  BY DEF RunFits, FirstRunFits, RestoreFits, NoBackup, NoRestore, NoCopy
<1>3. \A f \in Files \ disturbed : FileFits(f)
  BY DEF FileFits, NoBackup, NoCopy, BackupSteps
<1>4. UndisturbedIsWhole /\ FirstBackupIsExact
  BY DEF UndisturbedIsWhole, FirstBackupIsExact
<1> QED BY <1>1, <1>2, <1>3, <1>4 DEF BackupInv

LEMMA BackupNextKeeps ==
    ASSUME BackupInv, [BackupNext]_backupVars
    PROVE  BackupInv'
<1>1. CASE UNCHANGED backupVars
  BY <1>1 DEF backupVars, BackupInv, BackupTypeOK, RunFits, FirstRunFits, RestoreFits, FileFits, UndisturbedIsWhole,
              FirstBackupIsExact, Holds
<1>2. CASE BackupNext
  <2>1. Watched
    BY <1>2 DEF BackupNext, Watched
  <2>2. BackupStep
    BY <1>2 DEF BackupNext
  <2>3. CASE StartServer \/ StopServer \/ ChangeRow \/ \E f \in Files, b \in 0 .. MaxBuilds : ChangeFile(f, b)
    <3>1. UNCHANGED <<saved, backup, restore, runs>>
      BY <2>3 DEF StartServer, StopServer, ChangeRow, ChangeFile
    <3> QED BY <2>1, <2>3, <3>1, ServerKeeps
  <2>4. CASE StartRestore \/ RestoreDatabase \/ RestoreInterrupted \/ \E f \in Files : RestoreFile(f)
    <3>1. UNCHANGED <<saved, backup, server, runs>>
      BY <2>4 DEF StartRestore, RestoreDatabase, RestoreInterrupted, RestoreFile
    <3> QED BY <2>1, <2>4, <3>1, RestoreKeeps
  <2> QED BY <2>1, <2>2, <2>3, <2>4, StartBackupKeeps, SnapshotKeeps, CopyTreeKeeps, CopyFileKeeps, VerifyKeeps,
             PlaceSnapshotKeeps, PruneKeeps, WriteManifestKeeps, BackupInterruptedKeeps DEF BackupStep
<1> QED BY <1>1, <1>2

\* Only pruning takes files out of a backup, and by then the snapshot is the run's.
LEMMA OnlyPruned ==
    ASSUME BackupInv, BackupNext, NEW f \in Files, saved.files[f].build # 0, saved'.files[f].build = 0
    PROVE  \E copied \in saved.db : copied.run = runs
<1>1. saved \in [manifest : SUBSET SUBSET Files, db : SUBSET Snapshots, files : [Files -> Copies]] /\ backup \in Backups
  BY DEF BackupInv, BackupTypeOK
<1>2. saved'.files # saved.files
  OBVIOUS
<1>3. CASE Prune
  <2> DEFINE copied == [rows |-> backup.snap, missing |-> backup.missing, run |-> runs]
  <2>1. backup.pc = "prune"
    BY <1>3 DEF Prune
  <2>2. saved.db = {copied}
    BY <2>1 DEF BackupInv, RunFits
  <2>3. copied \in saved.db /\ copied.run = runs
    BY <2>2
  <2> HIDE DEF copied
  <2> QED BY <2>3
<1>4. CASE CopyFile
  <2>1. PICK r \in backup.reading :
           saved' = IF liveFiles[r.file] = 0 THEN saved
                    ELSE [saved EXCEPT !.files[r.file] = [build |-> r.build, mtime |-> liveFiles[r.file]]]
    BY <1>4 DEF CopyFile
  <2>2. r.build # 0 /\ r.file \in Files
    BY <1>1 DEF Backups, Readings
  <2>3. saved' = [saved EXCEPT !.files[r.file] = [build |-> r.build, mtime |-> liveFiles[r.file]]]
    BY <1>2, <2>1
  <2>4. saved'.files = [saved.files EXCEPT ![r.file] = [build |-> r.build, mtime |-> liveFiles[r.file]]]
    BY <1>1, <2>3
  <2>5. f = r.file => saved'.files[f].build = r.build
    BY <1>1, <2>2, <2>4
  <2>6. f # r.file => saved'.files[f] = saved.files[f]
    BY <1>1, <2>4
  <2> QED BY <2>2, <2>5, <2>6
<1>5. CASE StartBackup \/ PlaceSnapshot \/ WriteManifest
  <2>1. saved'.files = saved.files
    BY <1>1, <1>5 DEF StartBackup, PlaceSnapshot, WriteManifest
  <2> QED BY <1>2, <2>1

<1>7. CASE StartServer \/ StopServer \/ ChangeRow \/ \E g \in Files, b \in 0 .. MaxBuilds : ChangeFile(g, b)
  <2>1. saved' = saved
    BY <1>7 DEF StartServer, StopServer, ChangeRow, ChangeFile
  <2> QED BY <1>2, <2>1
<1>8. CASE Snapshot \/ Verify \/ BackupInterrupted \/ \E g \in Files : CopyTree(g)
  <2>1. saved' = saved
    BY <1>8 DEF Snapshot, CopyTree, Verify, BackupInterrupted
  <2> QED BY <1>2, <2>1
<1>9. CASE StartRestore \/ RestoreDatabase \/ RestoreInterrupted \/ \E g \in Files : RestoreFile(g)
  <2>1. saved' = saved
    BY <1>9 DEF StartRestore, RestoreFile, RestoreDatabase, RestoreInterrupted
  <2> QED BY <1>2, <2>1
<1> QED BY <1>3, <1>4, <1>5, <1>7, <1>8, <1>9 DEF BackupNext, BackupStep

\* A restore that ends, not broken off, has put every file back and then the database.
LEMMA RestoreCompletes ==
    ASSUME BackupInv, BackupNext, restore.pc = "files", restore.alone, restore'.pc = "idle", stops' = stops
    PROVE  (\A f \in Files : liveFiles'[f] = saved.files[f].build) /\ \E copied \in saved.db : liveRows' = copied.rows
<1>1. restore \in [pc : {"idle", "files"}, todo : SUBSET Files, alone : BOOLEAN] /\ stops \in Nat
  BY DEF BackupInv, BackupTypeOK
<1>2. CASE RestoreDatabase
  BY <1>2 DEF RestoreDatabase, BackupInv, RestoreFits
<1>3. ~RestoreInterrupted
  <2>1. stops' # stops + 1
    BY <1>1
  <2> QED BY <2>1 DEF RestoreInterrupted, Stop
<1>4. CASE UNCHANGED restore
  BY <1>4
<1>5. CASE StartBackup \/ StartRestore
  <2>1. ~StartRestore
    BY DEF StartRestore
  <2>2. restore' = [restore EXCEPT !.alone = (restore.pc = "idle")]
    BY <1>5, <2>1 DEF StartBackup
  <2> QED BY <1>1, <2>2
<1>6. CASE \E f \in Files : RestoreFile(f)
  BY <1>1, <1>6 DEF RestoreFile
<1> QED BY <1>2, <1>3, <1>4, <1>5, <1>6 DEF BackupNext, BackupStep, StartServer, StopServer, ChangeRow, ChangeFile, Snapshot,
           CopyTree, CopyFile, Verify, PlaceSnapshot, Prune, WriteManifest, BackupInterrupted

\* A backup that has a manifest holds what its snapshot names of every file the server
\* left alone, a first one of every file it does not report; no run takes away a file
\* before its own snapshot is in place; and a restore no backup overtakes leaves what
\* the backup holds, with no server at work (run, verify, prune, restore), for any
\* number of files, builds, passes, runs and interruptions.
THEOREM BackupsAreRestorable == BackupSpec => BackupsRestore
<1>1. BackupInv => UndisturbedIsWhole /\ FirstBackupIsExact /\ NoServerDuringRestore
  BY DEF BackupInv, RestoreFits, NoServerDuringRestore, BackupTypeOK
<1>2. BackupInv /\ [BackupNext]_backupVars =>
         [(\E f \in Files : saved.files[f].build # 0 /\ saved'.files[f].build = 0)
             => \E copied \in saved.db : copied.run = runs]_backupVars
  BY OnlyPruned
<1>3. BackupInv /\ [BackupNext]_backupVars =>
         [restore.pc = "files" /\ restore.alone /\ restore'.pc = "idle" /\ stops' = stops =>
             /\ \A f \in Files : liveFiles'[f] = saved.files[f].build
             /\ \E copied \in saved.db : liveRows' = copied.rows]_backupVars
  BY RestoreCompletes
<1>4. BackupSpec => [](UndisturbedIsWhole /\ FirstBackupIsExact /\ NoServerDuringRestore)
  BY <1>1, BackupInitHolds, BackupNextKeeps, PTL DEF BackupSpec
<1>5. BackupSpec => OldSnapshotKeepsFiles
  BY <1>2, BackupInitHolds, BackupNextKeeps, PTL DEF BackupSpec, OldSnapshotKeepsFiles
<1>6. BackupSpec => RestoredIsBackup
  BY <1>3, BackupInitHolds, BackupNextKeeps, PTL DEF BackupSpec, RestoredIsBackup
<1> QED BY <1>4, <1>5, <1>6 DEF BackupsRestore

---------------------------------------------------------------------------
\* Two processes that upgrade one database.  A step is done on the database the step
\* before it left, whoever did that, and a server writes only after the last one; so the
\* database is always in the shape of its number, and until somebody writes it traces
\* back to what was there.

VersionsOf(d) == {p.v : p \in d.packages}

\* What the feeds had before: with the default feed seeded in a database without feeds.
Seeded(w) == IF w.number = 0 THEN SeedDefaultFeed(w) ELSE w
RowsOf(w, feed, v) ==
    {m \in Seeded(w).members : m.feed = feed /\ m.v = v /\ \E p \in w.packages : p.v = v}

\* A database this build works on: typed rows, one of each version once step 3 is done,
\* in the shape of its number.
Good(d) ==
    /\ IsDatabase(d) /\ d.number \in 0 .. LATEST
    /\ d.packages \subseteq PackageRows /\ IsFiniteSet(d.packages)
    /\ \A m \in d.members : m \in MembersWith({m.downloads})
    /\ d.number >= 3 => \A p, q \in d.packages : p.v = q.v => p = q
    /\ Staged(d)

\* A membership tells what the memberships it was made from told.
FromRows(w, m) ==
    LET rows == RowsOf(w, m.feed, m.v)
    IN  /\ (\E r \in rows : ~r.enabled) => ~m.enabled
        /\ (\E r \in rows : r.pending) => m.pending
        /\ m.pinned <=> \E r \in rows : r.pinned
        /\ m.downloads = TotalDownloads(rows)

\* What an upgrade has done to the database it found, before anybody writes to it.
Traced(w, d) ==
    /\ w.number <= d.number
    /\ d.number = 0 => d = w
    /\ d.number \in 1 .. 2 => d.packages = w.packages /\ d.members = Seeded(w).members
    /\ d.number >= 3 =>
          /\ VersionsOf(d) = VersionsOf(w)
          /\ \A p \in d.packages : p.at = Max({q.at : q \in {r \in w.packages : r.v = p.v}})
          /\ \A feed \in {"default", "other"}, v \in VersionsOf(w) :
                RowsOf(w, feed, v) # {} => \E m \in d.members : m.feed = feed /\ m.v = v
          /\ \A m \in d.members : m.v \in VersionsOf(w) => RowsOf(w, m.feed, m.v) # {} /\ FromRows(w, m)
    /\ w.number < 9 /\ d.number >= 9 => \A m \in d.members : ~m.listed => m.hand

\* What the processes and the database keep: nobody is further than the database is,
\* whoever has it open finds it upgraded, and only then is it written.
SchemaInv ==
    /\ was \in OldDatabases /\ writes \in Nat
    /\ opener \in [Openers -> [pc : {"off", "refused", "steps", "open"}, step : Nat]]
    /\ \A o \in Openers :
          /\ opener[o].pc = "steps" => opener[o].step \in 1 .. LATEST /\ db.number >= opener[o].step - 1
          /\ opener[o].pc = "open" => db.number = LATEST
    /\ writes > 0 => db.number = LATEST
    /\ IF was.number > LATEST THEN db = was ELSE Good(db) /\ (writes = 0 => Traced(was, db))

LEMMA DownloadsOfOne ==
    ASSUME NEW m, m.downloads \in Nat
    PROVE  TotalDownloads({m}) = m.downloads
<1> DEFINE g == [s \in SUBSET {m} |-> IF s = {} THEN 0 ELSE m.downloads]
           it == CHOOSE f : f = [s \in SUBSET {m} |-> IF s = {} THEN 0 ELSE LET x == CHOOSE x \in s : TRUE IN f[s \ {x}] + x.downloads]
<1>1. g = [s \in SUBSET {m} |-> IF s = {} THEN 0 ELSE LET x == CHOOSE x \in s : TRUE IN g[s \ {x}] + x.downloads]
  OBVIOUS
<1>2. it = [s \in SUBSET {m} |-> IF s = {} THEN 0 ELSE LET x == CHOOSE x \in s : TRUE IN it[s \ {x}] + x.downloads]
  BY <1>1
<1>3. TotalDownloads({m}) = it[{m}]
  BY DEF TotalDownloads, FoldSet, MapThenFoldSet
<1> HIDE DEF it
<1>4. it[{}] = 0 /\ it[{m}] = it[{}] + m.downloads
  <2>1. it[{m}] = it[{m} \ {CHOOSE x \in {m} : TRUE}] + (CHOOSE x \in {m} : TRUE).downloads
    BY <1>2
  <2>2. (CHOOSE x \in {m} : TRUE) = m
    OBVIOUS
  <2> QED BY <1>2, <2>1, <2>2
<1> QED BY <1>3, <1>4

\* A step's number is all that is set beside what it does.
LEMMA Numbered ==
    ASSUME NEW d, IsDatabase(d), NEW n
    PROVE  LET e == [d EXCEPT !.number = n] IN
           /\ IsDatabase(e) /\ e.number = n
           /\ e.shape = d.shape /\ e.packages = d.packages /\ e.members = d.members /\ e.tags = d.tags
           /\ e.files = d.files /\ e.symbols = d.symbols /\ e.search = d.search
BY DEF IsDatabase

\* Two keys that are spelled lower-case differ when their versions do.
LEMMA KeysDiffer ==
    ASSUME NEW d, d.packages \subseteq PackageRows, \A p \in d.packages : ~p.mixed
    PROVE  /\ \A k \in Keys(d) : ~k.mixed
           /\ \A r, p : r.v = p.v /\ r.mixed = FALSE /\ p \in d.packages => KeyOf(r) \in Keys(d)
           /\ \A r : KeyOf(r) \in Keys(d) => \E p \in d.packages : p.v = r.v
<1>1. \A p \in d.packages : p.mixed = FALSE
  BY DEF PackageRows
<1>2. \A k \in Keys(d) : ~k.mixed
  BY <1>1 DEF Keys, KeyOf
<1>3. ASSUME NEW r, NEW p \in d.packages, r.v = p.v, r.mixed = FALSE PROVE KeyOf(r) \in Keys(d)
  <2>1. KeyOf(r) = KeyOf(p)
    BY <1>1, <1>3 DEF KeyOf
  <2> QED BY <2>1 DEF Keys
<1>4. ASSUME NEW r, KeyOf(r) \in Keys(d) PROVE \E p \in d.packages : p.v = r.v
  <2>1. PICK p \in d.packages : KeyOf(r) = KeyOf(p)
    BY <1>4 DEF Keys
  <2>2. KeyOf(r).v = r.v /\ KeyOf(p).v = p.v
    BY DEF KeyOf
  <2> QED BY <2>1, <2>2
<1> QED BY <1>2, <1>3, <1>4

LEMMA GreatestIs ==
    ASSUME NEW S \in SUBSET Nat, NEW x \in S, \A y \in S : y <= x
    PROVE  x = Max(S)
<1>1. Max(S) \in S /\ x <= Max(S)
  <2>1. \A y \in S : x >= y
    OBVIOUS
  <2> QED BY <2>1 DEF Max
<1>2. Max(S) \in Nat /\ x \in Nat /\ Max(S) <= x
  BY <1>1
<1> QED BY <1>1, <1>2

LEMMA SeedKeeps ==
    ASSUME NEW w \in OldDatabases, w.number <= LATEST, NEW d, Good(d), Traced(w, d), d.number = 0
    PROVE  LET e == [SeedDefaultFeed(d) EXCEPT !.number = 1] IN Good(e) /\ Traced(w, e)
<1> DEFINE missing == {p \in d.packages : ~\E m \in d.members : m.feed = "default" /\ KeyOf(m) = KeyOf(p)}
           seeded == SeedDefaultFeed(d)
           e == [seeded EXCEPT !.number = 1]
<1>1. /\ IsDatabase(d) /\ d.packages \subseteq PackageRows /\ IsFiniteSet(d.packages)
      /\ \A m \in d.members : m \in MembersWith({m.downloads})
      /\ d.shape \subseteq LegacyColumns
  BY DEF Good, Staged
<1>2. /\ IsDatabase(seeded) /\ seeded.shape = LegacyColumns /\ seeded.packages = d.packages
      /\ seeded.members = d.members \cup {MemberOf(p) : p \in missing}
  <2> DEFINE added == {MemberOf(p) : p \in missing}
  <2>1. seeded = [LegacyShape(d) EXCEPT !.members = @ \cup added]
    BY DEF SeedDefaultFeed
  <2> HIDE DEF added
  <2>2. seeded = [d EXCEPT !.shape = d.shape \cup LegacyColumns, !.members = d.members \cup added]
    BY <1>1, <2>1 DEF LegacyShape, IsDatabase
  <2>3. d.shape \cup LegacyColumns = LegacyColumns
    BY <1>1
  <2> QED BY <1>1, <2>2, <2>3 DEF IsDatabase, added
<1> HIDE DEF seeded
<1>3. /\ IsDatabase(e) /\ e.number = 1 /\ e.shape = LegacyColumns /\ e.packages = d.packages
      /\ e.members = d.members \cup {MemberOf(p) : p \in missing}
  BY <1>2, Numbered
<1> HIDE DEF e
<1>4. \A p \in missing : MemberOf(p) \in MembersWith({MemberOf(p).downloads})
  BY <1>1 DEF MemberOf, MembersWith, PackageRows
<1>5. Good(e)
  BY <1>1, <1>3, <1>4 DEF Good, Staged, LATEST
<1>6. d = w /\ w.number = 0
  BY DEF Traced
<1>7. e.packages = w.packages /\ e.members = Seeded(w).members
  BY <1>2, <1>3, <1>6 DEF Seeded, seeded
<1>8. Traced(w, e)
  BY <1>3, <1>6, <1>7 DEF Traced
<1> QED BY <1>5, <1>8 DEF e, seeded

LEMMA TagsKeep ==
    ASSUME NEW w \in OldDatabases, w.number <= LATEST, NEW d, Good(d), Traced(w, d), d.number = 1
    PROVE  LET e == [IndexTags(d) EXCEPT !.number = 2] IN Good(e) /\ Traced(w, e)
<1> DEFINE tagged == IndexTags(d)
           e == [tagged EXCEPT !.number = 2]
<1>1. /\ IsDatabase(d) /\ d.packages \subseteq PackageRows /\ IsFiniteSet(d.packages)
      /\ \A m \in d.members : m \in MembersWith({m.downloads})
      /\ d.shape \subseteq LegacyColumns
  BY DEF Good, Staged
<1>2. IsDatabase(tagged) /\ tagged.shape = LegacyColumns /\ tagged.packages = d.packages /\ tagged.members = d.members
  <2> DEFINE added == {[v |-> p.v, mixed |-> p.mixed, tag |-> t] : p \in d.packages, t \in {"t"}}
  <2>1. tagged = [LegacyShape(d) EXCEPT !.tags = @ \cup added]
    BY DEF IndexTags
  <2> HIDE DEF added
  <2>2. tagged = [d EXCEPT !.shape = d.shape \cup LegacyColumns, !.tags = d.tags \cup added]
    BY <1>1, <2>1 DEF LegacyShape, IsDatabase
  <2>3. d.shape \cup LegacyColumns = LegacyColumns
    BY <1>1
  <2> QED BY <1>1, <2>2, <2>3 DEF IsDatabase
<1> HIDE DEF tagged
<1>3. IsDatabase(e) /\ e.number = 2 /\ e.shape = LegacyColumns /\ e.packages = d.packages /\ e.members = d.members
  BY <1>2, Numbered
<1> HIDE DEF e
<1>4. Good(e)
  BY <1>1, <1>3 DEF Good, Staged, LATEST
<1>5. w.number \in Nat /\ w.number <= 1 /\ d.packages = w.packages /\ d.members = Seeded(w).members
  BY SchemaAssumption DEF Traced
<1>6. Traced(w, e)
  BY <1>3, <1>5 DEF Traced
<1> QED BY <1>4, <1>6 DEF e, tagged

\* What merging memberships of one feed and version makes.
LEMMA MergeIs ==
    ASSUME NEW ms, NEW n \in ms, \A m \in ms : m \in MembersWith({m.downloads}),
           \A m \in ms : m.feed = n.feed /\ m.v = n.v
    PROVE  LET one == Merge(ms) IN
           /\ one \in MembersWith({one.downloads}) /\ one.feed = n.feed /\ one.v = n.v /\ one.mixed = FALSE
           /\ one.enabled = (\A m \in ms : m.enabled) /\ one.pending = (\E m \in ms : m.pending)
           /\ one.pinned = (\E m \in ms : m.pinned) /\ one.downloads = TotalDownloads(ms)
<1> DEFINE some == CHOOSE m \in ms : TRUE
           one == Merge(ms)
           li == \E m \in ms : m.listed
           en == \A m \in ms : m.enabled
           pe == \E m \in ms : m.pending
           pi == \E m \in ms : m.pinned
           total == TotalDownloads(ms)
<1>1. some \in ms
  OBVIOUS
<1>2. some \in MembersWith({some.downloads}) /\ some.feed = n.feed /\ some.v = n.v
  BY <1>1
<1>3. one = [some EXCEPT !.mixed = FALSE, !.listed = li, !.enabled = en, !.pending = pe, !.pinned = pi,
                         !.downloads = total]
  BY DEF Merge
<1>4. li \in BOOLEAN /\ en \in BOOLEAN /\ pe \in BOOLEAN /\ pi \in BOOLEAN
  OBVIOUS
<1> HIDE DEF some, one, li, en, pe, pi, total
<1>5. /\ one.feed = n.feed /\ one.v = n.v /\ one.mixed = FALSE /\ one.enabled = en /\ one.pending = pe
      /\ one.pinned = pi /\ one.downloads = total
  BY <1>2, <1>3 DEF MembersWith
<1>6. one \in MembersWith({total})
  <2>1. some = [feed |-> some.feed, v |-> some.v, mixed |-> some.mixed, listed |-> some.listed,
                enabled |-> some.enabled, pending |-> some.pending, pinned |-> some.pinned,
                downloads |-> some.downloads, hand |-> some.hand]
        /\ some.feed \in {"default", "other"} /\ some.v \in Nat /\ some.hand \in BOOLEAN
    BY <1>2 DEF MembersWith
  <2>2. one = [feed |-> some.feed, v |-> some.v, mixed |-> FALSE, listed |-> li, enabled |-> en,
               pending |-> pe, pinned |-> pi, downloads |-> total, hand |-> some.hand]
    BY <1>3, <2>1
  <2> QED BY <1>4, <2>1, <2>2 DEF MembersWith
<1> QED BY <1>5, <1>6 DEF one, en, pe, pi, total

LEMMA LowerCaseKeeps ==
    ASSUME NEW w \in OldDatabases, w.number <= LATEST, NEW d, Good(d), Traced(w, d), d.number = 2
    PROVE  LET e == [LowerCasePrereleaseKeys(d) EXCEPT !.number = 3] IN Good(e) /\ Traced(w, e)
<1> DEFINE lost == {p \in d.packages : \E q \in {r \in d.packages : r.v = p.v} : q.at > p.at}
           kept == d.packages \ lost
           ofVersion(m) == {n \in d.members : n.feed = m.feed /\ n.v = m.v}
           lowered == LowerCasePrereleaseKeys(d)
           e == [lowered EXCEPT !.number = 3]
<1>1. /\ IsDatabase(d) /\ d.packages \subseteq PackageRows /\ IsFiniteSet(d.packages)
      /\ \A m \in d.members : m \in MembersWith({m.downloads})
      /\ d.shape \subseteq LegacyColumns
  BY DEF Good, Staged
<1>2. w.number \in Nat /\ w.number <= 2 /\ d.packages = w.packages /\ d.members = Seeded(w).members
  BY SchemaAssumption DEF Traced
<1>3. \A p, q \in d.packages : p.v = q.v /\ p.at = q.at => p = q
  BY <1>2, SchemaAssumption
<1>4. /\ IsDatabase(lowered) /\ lowered.shape = LegacyColumns /\ lowered.packages = {LowerKey(p) : p \in kept}
      /\ lowered.members = {Merge(ofVersion(m)) : m \in d.members}
  <2> DEFINE lostKeys == {KeyOf(p) : p \in lost}
             names(v) == {f.name : f \in {g \in d.files : g.v = v /\ ~g.mixed}}
             tagsNow == {LowerKey(t) : t \in {u \in d.tags : KeyOf(u) \notin lostKeys}}
             filesNow == {f \in d.files : ~f.mixed}
                            \cup {LowerKey(f) : f \in {g \in d.files : g.mixed /\ g.name \notin names(g.v)}}
             packagesNow == {LowerKey(p) : p \in kept}
             membersNow == {Merge(ofVersion(m)) : m \in d.members}
             symbolsNow == {LowerKey(s) : s \in d.symbols}
             searchNow == {k \in d.search : k \notin lostKeys /\ ~k.mixed}
                            \cup {LowerKey(KeyOf(p)) : p \in {q \in kept : q.mixed}}
  <2>1. LegacyShape(d) = [d EXCEPT !.shape = d.shape \cup LegacyColumns]
    BY <1>1 DEF LegacyShape, IsDatabase
  <2>2. /\ LegacyShape(d).tags = d.tags /\ LegacyShape(d).files = d.files /\ LegacyShape(d).symbols = d.symbols
        /\ LegacyShape(d).members = d.members /\ LegacyShape(d).search = d.search
        /\ LegacyShape(d).packages = d.packages /\ LegacyShape(d).shape = LegacyColumns
        /\ IsDatabase(LegacyShape(d))
    <3>1. d.shape \cup LegacyColumns = LegacyColumns
      BY <1>1
    <3> QED BY <1>1, <2>1, <3>1 DEF IsDatabase
  <2>3. lowered = [LegacyShape(d) EXCEPT !.tags = tagsNow, !.files = filesNow, !.packages = packagesNow,
                     !.members = membersNow, !.symbols = symbolsNow, !.search = searchNow]
    BY <2>2, Zenon DEF LowerCasePrereleaseKeys
  <2> HIDE DEF tagsNow, filesNow, packagesNow, membersNow, symbolsNow, searchNow, lowered
  <2>4. /\ IsDatabase(lowered) /\ lowered.shape = LegacyColumns /\ lowered.packages = packagesNow
        /\ lowered.members = membersNow
    BY <2>2, <2>3 DEF IsDatabase
  <2> QED BY <2>4 DEF packagesNow, membersNow
<1> HIDE DEF lowered, lost, kept, ofVersion
<1>5. /\ IsDatabase(e) /\ e.number = 3 /\ e.shape = LegacyColumns /\ e.packages = {LowerKey(p) : p \in kept}
      /\ e.members = {Merge(ofVersion(m)) : m \in d.members}
  BY <1>4, Numbered
<1> HIDE DEF e
<1> USE DEF lost, kept, ofVersion
<1>6. \A p \in d.packages : /\ LowerKey(p) \in PackageRows /\ LowerKey(p).v = p.v /\ LowerKey(p).at = p.at
                           /\ LowerKey(p).mixed = FALSE
  BY <1>1 DEF LowerKey, PackageRows
<1>7. \A p, q \in kept : p.v = q.v => p = q
  <2> SUFFICES ASSUME NEW p \in kept, NEW q \in kept, p.v = q.v PROVE p = q
    OBVIOUS
  <2>1. p.at \in Nat /\ q.at \in Nat /\ ~(q.at > p.at) /\ ~(p.at > q.at)
    BY <1>1 DEF PackageRows
  <2> QED BY <1>3, <2>1
<1>8. ASSUME NEW p \in d.packages
      PROVE  \E q \in kept : q.v = p.v
  <2> DEFINE twins == {q \in d.packages : q.v = p.v}
             ats == {q.at : q \in twins}
  <2>1. IsFiniteSet(ats)
    <3>1. IsFiniteSet(twins)
      BY <1>1, FS_Subset
    <3> DEFINE at == [q \in twins |-> q.at]
    <3>2. IsFiniteSet({at[q] : q \in twins})
      <4> HIDE DEF twins
      <4> QED BY <3>1, ImageBound
    <3>3. {at[q] : q \in twins} = ats
      OBVIOUS
    <3> QED BY <3>2, <3>3
  <2>2. ats \in SUBSET Nat /\ ats # {}
    BY <1>1 DEF PackageRows
  <2> HIDE DEF ats
  <2>3. Max(ats) \in ats /\ \A n \in ats : n <= Max(ats)
    BY <2>1, <2>2, GreatestMember
  <2>4. PICK q \in twins : q.at = Max(ats)
    BY <2>3 DEF ats
  <2>5. \A r \in {r \in d.packages : r.v = q.v} : ~(r.at > q.at)
    <3> SUFFICES ASSUME NEW r \in d.packages, r.v = q.v, r.at > q.at PROVE FALSE
      OBVIOUS
    <3>1. r.at \in ats
      BY <2>4 DEF ats
    <3>2. r.at \in Nat /\ q.at \in Nat /\ r.at <= q.at
      BY <1>1, <2>3, <2>4, <3>1 DEF PackageRows
    <3> QED BY <3>2
  <2> QED BY <2>4, <2>5
<1>9. ASSUME NEW p \in kept
      PROVE  p.at = Max({q.at : q \in {r \in w.packages : r.v = p.v}})
  <2> DEFINE ats == {q.at : q \in {r \in w.packages : r.v = p.v}}
  <2>1. ats \in SUBSET Nat /\ p.at \in ats
    BY <1>1, <1>2 DEF PackageRows
  <2>2. ASSUME NEW n \in ats PROVE n <= p.at
    <3>1. PICK q \in d.packages : q.v = p.v /\ n = q.at
      BY <1>2
    <3>2. ~(q.at > p.at) /\ p.at \in Nat /\ q.at \in Nat
      BY <1>1, <3>1 DEF PackageRows
    <3> QED BY <3>1, <3>2
  <2> HIDE DEF ats
  <2>3. p.at = Max(ats)
    BY <2>1, <2>2, GreatestIs
  <2> QED BY <2>3 DEF ats
<1>10. ASSUME NEW m \in d.members
       PROVE  LET one == Merge(ofVersion(m)) IN
              /\ one \in MembersWith({one.downloads}) /\ one.feed = m.feed /\ one.v = m.v /\ one.mixed = FALSE
              /\ one.enabled = (\A n \in ofVersion(m) : n.enabled) /\ one.pending = (\E n \in ofVersion(m) : n.pending)
              /\ one.pinned = (\E n \in ofVersion(m) : n.pinned) /\ one.downloads = TotalDownloads(ofVersion(m))
  <2> DEFINE ms == ofVersion(m)
  <2>1. /\ m \in ms /\ \A n \in ms : n \in MembersWith({n.downloads})
        /\ \A n \in ms : n.feed = m.feed /\ n.v = m.v
    BY <1>1
  <2> HIDE DEF ms
  <2>2. LET one == Merge(ms) IN
        /\ one \in MembersWith({one.downloads}) /\ one.feed = m.feed /\ one.v = m.v /\ one.mixed = FALSE
        /\ one.enabled = (\A n \in ms : n.enabled) /\ one.pending = (\E n \in ms : n.pending)
        /\ one.pinned = (\E n \in ms : n.pinned) /\ one.downloads = TotalDownloads(ms)
    BY <2>1, MergeIs, Zenon
  <2> QED BY <2>2 DEF ms
<1>11. ASSUME NEW m \in d.members, m.v \in VersionsOf(w)
       PROVE  ofVersion(m) = RowsOf(w, m.feed, m.v)
  <2>1. \E p \in w.packages : p.v = m.v
    BY <1>11 DEF VersionsOf
  <2> QED BY <1>2, <2>1 DEF RowsOf
<1> HIDE DEF lost, kept
<1>12. Good(e)
  <2>1. e.packages \subseteq PackageRows /\ \A p \in e.packages : p.mixed = FALSE
    BY <1>5, <1>6 DEF kept
  <2>2. IsFiniteSet(e.packages)
    <3>1. IsFiniteSet(kept)
      BY <1>1, FS_Subset DEF kept
    <3> DEFINE low == [p \in kept |-> LowerKey(p)]
    <3>2. IsFiniteSet({low[p] : p \in kept})
      BY <3>1, ImageBound
    <3>3. {low[p] : p \in kept} = e.packages
      BY <1>5
    <3> QED BY <3>2, <3>3
  <2>3. \A p, q \in e.packages : p.v = q.v => p = q
    BY <1>5, <1>6, <1>7 DEF kept
  <2> HIDE DEF ofVersion
  <2>4. \A m \in e.members : m \in MembersWith({m.downloads}) /\ m.mixed = FALSE
    BY <1>5, <1>10
  <2>5. Staged(e)
    <3>1. \A r \in e.packages \cup e.members : ~r.mixed
      BY <2>1, <2>4
    <3>2. e.shape \subseteq LegacyColumns
      BY <1>5
    <3> QED BY <1>5, <3>1, <3>2 DEF Staged
  <2>6. \A m \in e.members : m \in MembersWith({m.downloads})
    BY <2>4
  <2> QED BY <1>5, <2>1, <2>2, <2>3, <2>5, <2>6 DEF Good, LATEST
<1>13. Traced(w, e)
  <2>1. VersionsOf(e) = VersionsOf(w)
    <3>1. ASSUME NEW v \in VersionsOf(e) PROVE v \in VersionsOf(w)
      BY <1>2, <1>5, <1>6 DEF VersionsOf, kept
    <3>2. ASSUME NEW v \in VersionsOf(w) PROVE v \in VersionsOf(e)
      <4>1. PICK p \in d.packages : p.v = v
        BY <1>2 DEF VersionsOf
      <4>2. PICK q \in kept : q.v = v
        BY <1>8, <4>1
      <4>3. LowerKey(q) \in e.packages /\ LowerKey(q).v = v
        BY <1>5, <1>6, <4>2 DEF kept
      <4> QED BY <4>3 DEF VersionsOf
    <3> QED BY <3>1, <3>2
  <2>2. \A p \in e.packages : p.at = Max({q.at : q \in {r \in w.packages : r.v = p.v}})
    <3> SUFFICES ASSUME NEW p \in e.packages
                 PROVE  p.at = Max({q.at : q \in {r \in w.packages : r.v = p.v}})
      OBVIOUS
    <3>1. PICK q \in kept : p = LowerKey(q)
      BY <1>5
    <3>2. p.v = q.v /\ p.at = q.at
      BY <1>6, <3>1 DEF kept
    <3> QED BY <1>9, <3>2
  <2>3. ASSUME NEW feed \in {"default", "other"}, NEW v \in VersionsOf(w), RowsOf(w, feed, v) # {}
        PROVE  \E m \in e.members : m.feed = feed /\ m.v = v
    <3>1. PICK m \in d.members : m.feed = feed /\ m.v = v
      BY <1>2, <2>3 DEF RowsOf
    <3> HIDE DEF ofVersion
    <3> QED BY <1>5, <1>10, <3>1
  <2>4. ASSUME NEW m \in e.members, m.v \in VersionsOf(w)
        PROVE  RowsOf(w, m.feed, m.v) # {} /\ FromRows(w, m)
    <3>1. PICK n \in d.members : m = Merge(ofVersion(n))
      BY <1>5
    <3>2. n \in ofVersion(n)
      OBVIOUS
    <3> HIDE DEF ofVersion
    <3>3. /\ m.feed = n.feed /\ m.v = n.v
          /\ m.enabled = (\A r \in ofVersion(n) : r.enabled) /\ m.pending = (\E r \in ofVersion(n) : r.pending)
          /\ m.pinned = (\E r \in ofVersion(n) : r.pinned) /\ m.downloads = TotalDownloads(ofVersion(n))
      BY <1>10, <3>1
    <3>4. ofVersion(n) = RowsOf(w, m.feed, m.v)
      BY <1>11, <2>4, <3>3
    <3> QED BY <3>2, <3>3, <3>4 DEF FromRows
  <2>5. /\ w.number <= e.number /\ e.number # 0 /\ ~(e.number \in 1 .. 2) /\ e.number >= 3
        /\ ~(w.number < 9 /\ e.number >= 9)
    BY <1>2, <1>5
  <2> HIDE DEF ofVersion, kept, lost
  <2> QED BY <2>1, <2>2, <2>3, <2>4, <2>5 DEF Traced
<1> QED BY <1>12, <1>13 DEF e, lowered

\* A later step that keeps each version, when it was published and what the feeds tell
\* of it, keeps the trace of the upgrade.
LEMMA TracedOn ==
    ASSUME NEW w, NEW d, NEW e, w.number \in Nat, Traced(w, d), d.number \in 3 .. 9, e.number = d.number + 1,
           VersionsOf(e) = VersionsOf(d),
           \A p \in e.packages : \E q \in d.packages : q.v = p.v /\ q.at = p.at,
           \A m \in d.members : m.v \in VersionsOf(d) => \E n \in e.members : n.feed = m.feed /\ n.v = m.v,
           \A n \in e.members : \E m \in d.members :
              /\ m.feed = n.feed /\ m.v = n.v /\ m.enabled = n.enabled /\ m.pending = n.pending
              /\ m.pinned = n.pinned /\ m.downloads = n.downloads,
           e.number = 9 => \A m \in e.members : ~m.listed => m.hand,
           e.number = 10 => e.members = d.members
    PROVE  Traced(w, e)
<1>1. /\ w.number <= d.number /\ VersionsOf(d) = VersionsOf(w)
      /\ \A p \in d.packages : p.at = Max({q.at : q \in {r \in w.packages : r.v = p.v}})
      /\ \A feed \in {"default", "other"}, v \in VersionsOf(w) :
            RowsOf(w, feed, v) # {} => \E m \in d.members : m.feed = feed /\ m.v = v
      /\ \A m \in d.members : m.v \in VersionsOf(w) => RowsOf(w, m.feed, m.v) # {} /\ FromRows(w, m)
      /\ w.number < 9 /\ d.number >= 9 => \A m \in d.members : ~m.listed => m.hand
  BY DEF Traced
<1>2. /\ w.number <= e.number /\ e.number # 0 /\ ~(e.number \in 1 .. 2) /\ e.number >= 3
      /\ e.number >= 9 => e.number = 9 \/ (e.number = 10 /\ d.number >= 9)
  BY <1>1
<1>3. \A p \in e.packages : p.at = Max({q.at : q \in {r \in w.packages : r.v = p.v}})
  <2> SUFFICES ASSUME NEW p \in e.packages
               PROVE  p.at = Max({q.at : q \in {r \in w.packages : r.v = p.v}})
    OBVIOUS
  <2>1. PICK q \in d.packages : q.v = p.v /\ q.at = p.at
    OBVIOUS
  <2> QED BY <1>1, <2>1
<1>4. ASSUME NEW feed \in {"default", "other"}, NEW v \in VersionsOf(w), RowsOf(w, feed, v) # {}
      PROVE  \E m \in e.members : m.feed = feed /\ m.v = v
  <2>1. PICK m \in d.members : m.feed = feed /\ m.v = v
    BY <1>1, <1>4
  <2> QED BY <1>1, <2>1
<1>5. ASSUME NEW n \in e.members, n.v \in VersionsOf(w)
      PROVE  RowsOf(w, n.feed, n.v) # {} /\ FromRows(w, n)
  <2>1. PICK m \in d.members : /\ m.feed = n.feed /\ m.v = n.v /\ m.enabled = n.enabled /\ m.pending = n.pending
                              /\ m.pinned = n.pinned /\ m.downloads = n.downloads
    OBVIOUS
  <2>2. RowsOf(w, m.feed, m.v) # {} /\ FromRows(w, m)
    BY <1>1, <1>5, <2>1
  <2> QED BY <2>1, <2>2 DEF FromRows
<1>6. w.number < 9 /\ e.number >= 9 => \A m \in e.members : ~m.listed => m.hand
  BY <1>1, <1>2
<1> QED BY <1>1, <1>2, <1>3, <1>4, <1>5, <1>6 DEF Traced

\* A step that only changes the search index, the shape or what hangs on no version.
LEMMA ShapeKeeps ==
    ASSUME NEW w \in OldDatabases, w.number <= LATEST, NEW d, Good(d), Traced(w, d), d.number \in {3, 4, 5, 9}
    PROVE  LET e == [Apply(d.number + 1, d) EXCEPT !.number = d.number + 1] IN Good(e) /\ Traced(w, e)
<1> DEFINE done == Apply(d.number + 1, d)
           e == [done EXCEPT !.number = d.number + 1]
<1>1. /\ IsDatabase(d) /\ d.packages \subseteq PackageRows /\ IsFiniteSet(d.packages)
      /\ \A m \in d.members : m \in MembersWith({m.downloads})
      /\ \A p, q \in d.packages : p.v = q.v => p = q
      /\ Staged(d)
  BY DEF Good
<1>2. w.number \in Nat
  BY SchemaAssumption
<1>3. /\ IsDatabase(done) /\ done.packages = d.packages /\ done.members = d.members
      /\ done.tags = d.tags /\ done.files = d.files /\ done.symbols = d.symbols
      /\ d.number = 3 => done.search = Keys(d)
      /\ d.number # 3 => done.search = d.search
      /\ d.number \in {3, 4} => done.shape = LegacyColumns
      /\ d.number = 5 => done.shape = d.shape \ DeadColumns
      /\ d.number = 9 => done.shape = d.shape \cup {"held_since"}
  <2>1. CASE d.number = 3
    <3>1. done = FillSearchIndex(d)
      BY <2>1 DEF Apply
    <3>2. done = [LegacyShape(d) EXCEPT !.search = Keys(d)]
      BY <3>1 DEF FillSearchIndex, Keys
    <3>3. d.shape \cup LegacyColumns = LegacyColumns
      BY <1>1, <2>1 DEF Staged
    <3> HIDE DEF done
    <3>4. done = [d EXCEPT !.shape = LegacyColumns, !.search = Keys(d)]
      BY <1>1, <3>2, <3>3 DEF LegacyShape, IsDatabase
    <3>5. /\ done.packages = d.packages /\ done.members = d.members /\ done.tags = d.tags /\ done.files = d.files
          /\ done.symbols = d.symbols /\ done.search = Keys(d) /\ done.shape = LegacyColumns /\ IsDatabase(done)
      BY <1>1, <3>4 DEF IsDatabase
    <3> QED BY <2>1, <3>5
  <2>2. CASE d.number = 4
    <3>1. done = LegacyShape(d)
      BY <2>2 DEF Apply
    <3>2. d.shape \cup LegacyColumns = LegacyColumns
      BY <1>1, <2>2 DEF Staged
    <3> HIDE DEF done
    <3>3. done = [d EXCEPT !.shape = LegacyColumns]
      BY <1>1, <3>1, <3>2 DEF LegacyShape, IsDatabase
    <3> QED BY <1>1, <2>2, <3>3 DEF IsDatabase
  <2>3. CASE d.number = 5
    <3>1. done = DropDeadColumns(d)
      BY <2>3 DEF Apply
    <3> HIDE DEF done
    <3>2. done = [d EXCEPT !.shape = d.shape \ DeadColumns]
      BY <1>1, <3>1 DEF DropDeadColumns, IsDatabase
    <3> QED BY <1>1, <2>3, <3>2 DEF IsDatabase
  <2>4. CASE d.number = 9
    <3>1. done = UploadHeld(d)
      BY <2>4 DEF Apply
    <3> HIDE DEF done
    <3>2. done = [d EXCEPT !.shape = d.shape \cup {"held_since"}]
      BY <1>1, <3>1 DEF UploadHeld, IsDatabase
    <3> QED BY <1>1, <2>4, <3>2 DEF IsDatabase
  <2> QED BY <2>1, <2>2, <2>3, <2>4
<1> HIDE DEF done
<1>4. /\ IsDatabase(e) /\ e.number = d.number + 1 /\ e.shape = done.shape
      /\ e.packages = d.packages /\ e.members = d.members /\ e.search = done.search
      /\ e.tags = d.tags /\ e.files = d.files /\ e.symbols = d.symbols
  BY <1>3, Numbered
<1> HIDE DEF e
<1>5. Keys(e) = Keys(d)
  BY <1>4 DEF Keys
<1>6. Staged(e)
  <2>1. CASE d.number = 3
    BY <1>1, <1>3, <1>4, <1>5, <2>1 DEF Staged
  <2>2. CASE d.number = 4
    BY <1>1, <1>3, <1>4, <1>5, <2>2 DEF Staged
  <2>3. CASE d.number = 5
    <3>1. LegacyColumns \ DeadColumns = {"pinned", "license_acceptance"}
      BY DEF LegacyColumns, DeadColumns
    <3> QED BY <1>1, <1>3, <1>4, <1>5, <2>3, <3>1 DEF Staged
  <2>4. CASE d.number = 9
    BY <1>1, <1>3, <1>4, <1>5, <2>4 DEF Staged
  <2> QED BY <2>1, <2>2, <2>3, <2>4
<1>7. Good(e)
  BY <1>1, <1>4, <1>6 DEF Good, LATEST
<1>8. Traced(w, e)
  <2>1. VersionsOf(e) = VersionsOf(d)
    BY <1>4 DEF VersionsOf
  <2>2. e.number # 9 /\ d.number \in 3 .. 9
    BY <1>4
  <2> QED BY <1>2, <1>4, <2>1, <2>2, TracedOn
<1> QED BY <1>7, <1>8 DEF e, done

\* Step 7 leaves out the rows of no version, and nothing else.
LEMMA ForeignKeysKeep ==
    ASSUME NEW w \in OldDatabases, w.number <= LATEST, NEW d, Good(d), Traced(w, d), d.number = 6
    PROVE  LET e == [AddForeignKeys(d) EXCEPT !.number = 7] IN Good(e) /\ Traced(w, e)
<1> DEFINE owned(rows) == {r \in rows : KeyOf(r) \in Keys(d)}
           done == AddForeignKeys(d)
           e == [done EXCEPT !.number = 7]
<1>1. /\ IsDatabase(d) /\ d.packages \subseteq PackageRows /\ IsFiniteSet(d.packages)
      /\ \A m \in d.members : m \in MembersWith({m.downloads})
      /\ \A p, q \in d.packages : p.v = q.v => p = q
      /\ Staged(d)
  BY DEF Good
<1>2. w.number \in Nat
  BY SchemaAssumption
<1>3. done = [d EXCEPT !.shape = d.shape \cup {"foreign_keys"}, !.members = owned(d.members),
                       !.tags = owned(d.tags), !.files = owned(d.files), !.symbols = owned(d.symbols)]
  BY <1>1, Zenon DEF AddForeignKeys, Keys, IsDatabase
<1> HIDE DEF done, owned
<1>4. /\ IsDatabase(done) /\ done.shape = d.shape \cup {"foreign_keys"} /\ done.packages = d.packages
      /\ done.members = owned(d.members) /\ done.tags = owned(d.tags) /\ done.files = owned(d.files)
      /\ done.symbols = owned(d.symbols) /\ done.search = d.search
  BY <1>1, <1>3 DEF IsDatabase
<1>5. /\ IsDatabase(e) /\ e.number = 7 /\ e.shape = d.shape \cup {"foreign_keys"} /\ e.packages = d.packages
      /\ e.members = owned(d.members) /\ e.tags = owned(d.tags) /\ e.files = owned(d.files)
      /\ e.symbols = owned(d.symbols) /\ e.search = d.search
  BY <1>4, Numbered
<1> HIDE DEF e
<1>6. Keys(e) = Keys(d)
  BY <1>5 DEF Keys
<1>7. \A r \in e.members \cup e.tags \cup e.files \cup e.symbols : KeyOf(r) \in Keys(e)
  BY <1>5, <1>6 DEF owned
<1>8. e.members \subseteq d.members
  BY <1>5 DEF owned
<1>9. Good(e)
  <2>1. Staged(e)
    BY <1>1, <1>5, <1>6, <1>7, <1>8 DEF Staged
  <2> QED BY <1>1, <1>5, <1>8, <2>1 DEF Good, LATEST
<1>10. Traced(w, e)
  <2>1. VersionsOf(e) = VersionsOf(d)
    BY <1>5 DEF VersionsOf
  <2>2. ASSUME NEW m \in d.members, m.v \in VersionsOf(d) PROVE m \in e.members
    <3>1. PICK p \in d.packages : p.v = m.v
      BY <2>2 DEF VersionsOf
    <3>2. m.mixed = FALSE
      BY <1>1 DEF Staged, MembersWith
    <3>3. KeyOf(m) \in Keys(d)
      <4>1. \A q \in d.packages : ~q.mixed
        BY <1>1 DEF Staged
      <4> QED BY <1>1, <3>1, <3>2, <4>1, KeysDiffer
    <3> QED BY <1>5, <3>3 DEF owned
  <2> QED BY <1>2, <1>5, <1>8, <2>1, <2>2, TracedOn
<1> QED BY <1>9, <1>10 DEF e, done

\* Step 8 marks versions and changes nothing else of them.
LEMMA SemVer2Keeps ==
    ASSUME NEW w \in OldDatabases, w.number <= LATEST, NEW d, Good(d), Traced(w, d), d.number = 7
    PROVE  LET e == [SemVer2Dependencies(d) EXCEPT !.number = 8] IN Good(e) /\ Traced(w, e)
<1> DEFINE Marked(p) == [p EXCEPT !.semver2 = @ \/ p.dep2]
           done == SemVer2Dependencies(d)
           e == [done EXCEPT !.number = 8]
<1>1. /\ IsDatabase(d) /\ d.packages \subseteq PackageRows /\ IsFiniteSet(d.packages)
      /\ \A m \in d.members : m \in MembersWith({m.downloads})
      /\ \A p, q \in d.packages : p.v = q.v => p = q
      /\ Staged(d)
  BY DEF Good
<1>2. w.number \in Nat
  BY SchemaAssumption
<1>3. ASSUME NEW p \in d.packages
      PROVE  /\ Marked(p) \in PackageRows /\ Marked(p).v = p.v /\ Marked(p).at = p.at /\ Marked(p).mixed = p.mixed
             /\ KeyOf(Marked(p)) = KeyOf(p) /\ (Marked(p).dep2 => Marked(p).semver2)
  <2>1. p \in PackageRows
    BY <1>1

  <2>3. Marked(p) \in PackageRows
    BY <2>1 DEF PackageRows
  <2>4. Marked(p).v = p.v /\ Marked(p).at = p.at /\ Marked(p).mixed = p.mixed /\ Marked(p).dep2 = p.dep2
    BY <2>1 DEF PackageRows
  <2>5. p.dep2 => Marked(p).semver2
    BY <2>1 DEF PackageRows
  <2> QED BY <2>3, <2>4, <2>5 DEF KeyOf
<1> HIDE DEF Marked
<1>4. done = [d EXCEPT !.packages = {Marked(p) : p \in d.packages}]
  BY <1>1, Zenon DEF SemVer2Dependencies, IsDatabase, Marked
<1> HIDE DEF done
<1>5. /\ IsDatabase(done) /\ done.shape = d.shape /\ done.packages = {Marked(p) : p \in d.packages}
      /\ done.members = d.members /\ done.tags = d.tags /\ done.files = d.files
      /\ done.symbols = d.symbols /\ done.search = d.search
  BY <1>1, <1>4 DEF IsDatabase
<1>6. /\ IsDatabase(e) /\ e.number = 8 /\ e.shape = d.shape /\ e.packages = {Marked(p) : p \in d.packages}
      /\ e.members = d.members /\ e.tags = d.tags /\ e.files = d.files
      /\ e.symbols = d.symbols /\ e.search = d.search
  BY <1>5, Numbered
<1> HIDE DEF e
<1>7. Keys(e) = Keys(d)
  BY <1>3, <1>6 DEF Keys
<1>8. VersionsOf(e) = VersionsOf(d)
  BY <1>3, <1>6 DEF VersionsOf
<1>9. Good(e)
  <2>1. Staged(e)
    <3>1. \A r \in e.packages \cup e.members : ~r.mixed
      BY <1>1, <1>3, <1>6 DEF Staged
    <3>2. \A p \in e.packages : p.dep2 => p.semver2
      BY <1>3, <1>6
    <3> QED BY <1>1, <1>6, <1>7, <3>1, <3>2 DEF Staged
  <2>2. IsFiniteSet(e.packages)
    <3> DEFINE mark == [p \in d.packages |-> Marked(p)]
    <3>1. IsFiniteSet({mark[p] : p \in d.packages})
      BY <1>1, ImageBound
    <3>2. {mark[p] : p \in d.packages} = e.packages
      BY <1>6
    <3> QED BY <3>1, <3>2
  <2>3. \A p, q \in e.packages : p.v = q.v => p = q
    BY <1>1, <1>3, <1>6
  <2>4. e.packages \subseteq PackageRows
    BY <1>3, <1>6
  <2> QED BY <1>1, <1>6, <2>1, <2>2, <2>3, <2>4 DEF Good, LATEST
<1>10. Traced(w, e)
  <2>1. \A p \in e.packages : \E q \in d.packages : q.v = p.v /\ q.at = p.at
    BY <1>3, <1>6
  <2> QED BY <1>2, <1>6, <1>8, <2>1, TracedOn
<1> QED BY <1>9, <1>10 DEF e, done

\* Step 9 takes every version that is not listed for one a person unlisted.
LEMMA ListingSetKeeps ==
    ASSUME NEW w \in OldDatabases, w.number <= LATEST, NEW d, Good(d), Traced(w, d), d.number = 8
    PROVE  LET e == [ListingSet(d) EXCEPT !.number = 9] IN Good(e) /\ Traced(w, e)
<1> DEFINE Set(m) == [m EXCEPT !.hand = ~m.listed]
           done == ListingSet(d)
           e == [done EXCEPT !.number = 9]
<1>1. /\ IsDatabase(d) /\ d.packages \subseteq PackageRows /\ IsFiniteSet(d.packages)
      /\ \A m \in d.members : m \in MembersWith({m.downloads})
      /\ \A p, q \in d.packages : p.v = q.v => p = q
      /\ Staged(d)
  BY DEF Good
<1>2. w.number \in Nat
  BY SchemaAssumption
<1>3. ASSUME NEW m \in d.members
      PROVE  /\ Set(m) \in MembersWith({Set(m).downloads}) /\ Set(m).feed = m.feed /\ Set(m).v = m.v
             /\ Set(m).mixed = m.mixed /\ Set(m).enabled = m.enabled /\ Set(m).pending = m.pending
             /\ Set(m).pinned = m.pinned /\ Set(m).downloads = m.downloads
             /\ KeyOf(Set(m)) = KeyOf(m) /\ (~Set(m).listed => Set(m).hand)
  <2>1. m \in MembersWith({m.downloads})
    BY <1>1
  <2>2. /\ Set(m).feed = m.feed /\ Set(m).v = m.v
        /\ Set(m).mixed = m.mixed /\ Set(m).enabled = m.enabled /\ Set(m).pending = m.pending
        /\ Set(m).pinned = m.pinned /\ Set(m).downloads = m.downloads /\ Set(m).listed = m.listed
    BY <2>1 DEF MembersWith
  <2>3. ~m.listed => Set(m).hand
    BY <2>1 DEF MembersWith
  <2>4. Set(m) \in MembersWith({m.downloads})
    BY <2>1 DEF MembersWith
  <2> HIDE DEF Set
  <2> QED BY <2>2, <2>3, <2>4 DEF KeyOf
<1> HIDE DEF Set
<1>4. done = [d EXCEPT !.shape = d.shape \cup {"listing_set"}, !.members = {Set(m) : m \in d.members}]
  <2>1. "listing_set" \notin d.shape
    BY <1>1 DEF Staged
  <2>2. done = [d EXCEPT !.shape = @ \cup {"listing_set"},
                         !.members = {[m EXCEPT !.hand = ~m.listed] : m \in @}]
    BY <2>1 DEF ListingSet
  <2> QED BY <1>1, <2>2, Zenon DEF IsDatabase, Set
<1> HIDE DEF done
<1>5. /\ IsDatabase(done) /\ done.shape = d.shape \cup {"listing_set"} /\ done.packages = d.packages
      /\ done.members = {Set(m) : m \in d.members} /\ done.tags = d.tags /\ done.files = d.files
      /\ done.symbols = d.symbols /\ done.search = d.search
  BY <1>1, <1>4 DEF IsDatabase
<1>6. /\ IsDatabase(e) /\ e.number = 9 /\ e.shape = d.shape \cup {"listing_set"} /\ e.packages = d.packages
      /\ e.members = {Set(m) : m \in d.members} /\ e.tags = d.tags /\ e.files = d.files
      /\ e.symbols = d.symbols /\ e.search = d.search
  BY <1>5, Numbered
<1> HIDE DEF e
<1>7. Keys(e) = Keys(d) /\ VersionsOf(e) = VersionsOf(d)
  BY <1>6 DEF Keys, VersionsOf
<1>8. Good(e)
  <2>1. Staged(e)
    <3>1. \A r \in e.packages \cup e.members : ~r.mixed
      <4>1. \A r \in d.packages \cup d.members : ~r.mixed
        BY <1>1 DEF Staged
      <4>2. ASSUME NEW n \in e.members PROVE ~n.mixed
        <5>1. PICK m \in d.members : n = Set(m)
          BY <1>6
        <5> QED BY <1>3, <4>1, <5>1
      <4> QED BY <1>6, <4>1, <4>2
    <3>2. \A r \in e.members \cup e.tags \cup e.files \cup e.symbols : KeyOf(r) \in Keys(e)
      <4>1. \A r \in d.members \cup d.tags \cup d.files \cup d.symbols : KeyOf(r) \in Keys(d)
        BY <1>1 DEF Staged
      <4>2. ASSUME NEW n \in e.members PROVE KeyOf(n) \in Keys(e)
        <5>1. PICK m \in d.members : n = Set(m)
          BY <1>6
        <5>2. KeyOf(n) = KeyOf(m)
          BY <1>3, <5>1
        <5> QED BY <1>7, <4>1, <5>2
      <4> QED BY <1>6, <1>7, <4>1, <4>2
    <3> QED BY <1>1, <1>6, <1>7, <3>1, <3>2 DEF Staged
  <2>2. \A m \in e.members : m \in MembersWith({m.downloads})
    BY <1>3, <1>6
  <2> QED BY <1>1, <1>6, <2>1, <2>2 DEF Good, LATEST
<1>9. Traced(w, e)
  <2>1. \A m \in d.members : \E n \in e.members : n.feed = m.feed /\ n.v = m.v
    BY <1>3, <1>6
  <2>2. \A n \in e.members : \E m \in d.members :
              /\ m.feed = n.feed /\ m.v = n.v /\ m.enabled = n.enabled /\ m.pending = n.pending
              /\ m.pinned = n.pinned /\ m.downloads = n.downloads
    <3> SUFFICES ASSUME NEW n \in e.members
                 PROVE  \E m \in d.members :
                           /\ m.feed = n.feed /\ m.v = n.v /\ m.enabled = n.enabled /\ m.pending = n.pending
                           /\ m.pinned = n.pinned /\ m.downloads = n.downloads
      OBVIOUS
    <3>1. PICK m \in d.members : n = Set(m)
      BY <1>6
    <3> QED BY <1>3, <3>1
  <2>3. \A m \in e.members : ~m.listed => m.hand
    BY <1>3, <1>6
  <2>4. \A p \in e.packages : \E q \in d.packages : q.v = p.v /\ q.at = p.at
    BY <1>6
  <2>5. d.number \in 3 .. 9 /\ e.number = d.number + 1 /\ e.number # 10
    BY <1>6
  <2> QED BY <1>2, <1>7, <2>1, <2>2, <2>3, <2>4, <2>5, TracedOn
<1> QED BY <1>8, <1>9 DEF e, done

\* Every step keeps the database sound and the trace of the upgrade.
LEMMA StepKeepsTrace ==
    ASSUME NEW w \in OldDatabases, w.number <= LATEST, NEW d, Good(d), Traced(w, d), d.number < LATEST
    PROVE  LET e == [Apply(d.number + 1, d) EXCEPT !.number = d.number + 1]
           IN  Good(e) /\ Traced(w, e) /\ e.number = d.number + 1
<1> DEFINE e == [Apply(d.number + 1, d) EXCEPT !.number = d.number + 1]
<1>1. d.number \in 0 .. 9
  BY DEF Good, LATEST
<1>2. Good(e) /\ Traced(w, e)
  <2>1. CASE d.number = 0
    BY <2>1, SeedKeeps DEF Apply
  <2>2. CASE d.number = 1
    BY <2>2, TagsKeep DEF Apply
  <2>3. CASE d.number = 2
    BY <2>3, LowerCaseKeeps DEF Apply
  <2>4. CASE d.number \in {3, 4, 5, 9}
    BY <2>4, ShapeKeeps
  <2>5. CASE d.number = 6
    BY <2>5, ForeignKeysKeep DEF Apply
  <2>6. CASE d.number = 7
    BY <2>6, SemVer2Keeps DEF Apply
  <2>7. CASE d.number = 8
    BY <2>7, ListingSetKeeps DEF Apply
  <2> QED BY <1>1, <2>1, <2>2, <2>3, <2>4, <2>5, <2>6, <2>7
<1>3. e.number = d.number + 1
  BY <1>2 DEF Good, IsDatabase
<1> QED BY <1>2, <1>3

\* What some build left is sound, and nothing of it is lost yet.
LEMMA OldIsGood ==
    ASSUME NEW w \in OldDatabases, w.number <= LATEST
    PROVE  Good(w) /\ Traced(w, w)
<1>1. /\ IsDatabase(w) /\ w.number \in Nat /\ Staged(w)
      /\ w.packages \subseteq PackageRows /\ IsFiniteSet(w.packages) /\ w.members \subseteq MembersWith(Nat)
      /\ \A p, q \in w.packages : p.v = q.v /\ (p.mixed = q.mixed \/ p.at = q.at) => p = q
      /\ \A m, n \in w.members : m.feed = n.feed /\ KeyOf(m) = KeyOf(n) => m = n
  BY SchemaAssumption
<1>2. w.number >= 3 => /\ \A p \in w.packages : p.mixed = FALSE
                       /\ \A m \in w.members : m.mixed = FALSE
  BY <1>1 DEF Staged, PackageRows, MembersWith
<1>3. w.number >= 3 => \A p, q \in w.packages : p.v = q.v => p = q
  BY <1>1, <1>2
<1>4. \A m \in w.members : m \in MembersWith({m.downloads}) /\ m.downloads \in Nat
  BY <1>1 DEF MembersWith
<1>5. Good(w)
  BY <1>1, <1>3, <1>4 DEF Good, LATEST
<1>6. w.number # 0 => Seeded(w).members = w.members
  BY DEF Seeded
<1>7. ASSUME w.number >= 3, NEW p \in w.packages
      PROVE  p.at = Max({q.at : q \in {r \in w.packages : r.v = p.v}})
  <2> DEFINE ats == {q.at : q \in {r \in w.packages : r.v = p.v}}
  <2>1. ats = {p.at} /\ p.at \in Nat
    BY <1>1, <1>3, <1>7 DEF PackageRows
  <2> HIDE DEF ats
  <2>2. ats \in SUBSET Nat /\ p.at \in ats /\ \A n \in ats : n <= p.at
    BY <2>1
  <2>3. p.at = Max(ats)
    BY <2>2, GreatestIs
  <2> QED BY <2>3 DEF ats
<1>8. ASSUME w.number >= 3, NEW m \in w.members, m.v \in VersionsOf(w)
      PROVE  RowsOf(w, m.feed, m.v) = {m}
  <2>1. \E p \in w.packages : p.v = m.v
    BY <1>8 DEF VersionsOf
  <2>2. w.number # 0
    BY <1>8
  <2>3. m \in RowsOf(w, m.feed, m.v)
    BY <1>6, <2>1, <2>2 DEF RowsOf
  <2>4. ASSUME NEW n \in RowsOf(w, m.feed, m.v) PROVE n = m
    <3>1. n \in w.members /\ n.feed = m.feed /\ n.v = m.v
      BY <1>6, <2>2 DEF RowsOf
    <3>2. n.mixed = m.mixed
      <4>1. n.mixed = FALSE /\ m.mixed = FALSE
        BY <1>2, <1>8, <3>1
      <4> QED BY <4>1
    <3>3. KeyOf(n) = KeyOf(m)
      BY <3>1, <3>2 DEF KeyOf
    <3> QED BY <1>1, <3>1, <3>3
  <2> QED BY <2>3, <2>4
<1>9. ASSUME w.number >= 3, NEW m \in w.members, m.v \in VersionsOf(w)
      PROVE  RowsOf(w, m.feed, m.v) # {} /\ FromRows(w, m)
  <2>1. RowsOf(w, m.feed, m.v) = {m}
    BY <1>8, <1>9
  <2>2. TotalDownloads({m}) = m.downloads
    BY <1>4, DownloadsOfOne
  <2> QED BY <2>1, <2>2 DEF FromRows
<1>10. ASSUME w.number >= 3, NEW feed, NEW v, RowsOf(w, feed, v) # {}
       PROVE  \E m \in w.members : m.feed = feed /\ m.v = v
  <2>1. Seeded(w).members = w.members
    BY <1>6, <1>10
  <2> QED BY <1>10, <2>1 DEF RowsOf
<1>11. Traced(w, w)
  <2>1. w.number <= w.number /\ ~(w.number < 9 /\ w.number >= 9)
    BY <1>1
  <2>2. w.number \in 1 .. 2 => Seeded(w).members = w.members
    BY <1>6
  <2> QED BY <1>7, <1>9, <1>10, <2>1, <2>2 DEF Traced
<1> QED BY <1>5, <1>11

LEMMA SchemaBegins == SchemaInit => SchemaInv
<1> SUFFICES ASSUME SchemaInit PROVE SchemaInv
  OBVIOUS
<1> USE DEF SchemaInit
<1>1. was \in OldDatabases /\ was.number \in Nat
  BY SchemaAssumption
<1>2. was.number <= LATEST => Good(db) /\ Traced(was, db)
  BY <1>1, OldIsGood
<1>3. opener \in [Openers -> [pc : {"off", "refused", "steps", "open"}, step : Nat]]
  OBVIOUS
<1>4. \A o \in Openers : opener[o].pc = "off"
  OBVIOUS
<1>5. IF was.number > LATEST THEN db = was ELSE Good(db) /\ (writes = 0 => Traced(was, db))
  BY <1>1, <1>2 DEF LATEST
<1> QED BY <1>1, <1>3, <1>4, <1>5 DEF SchemaInv

\* The number of the database is one this build knows, unless a later one wrote it.
LEMMA NumberKnown ==
    ASSUME SchemaInv
    PROVE  /\ db.number \in Nat
           /\ db.number <= LATEST <=> was.number <= LATEST
           /\ was.number <= LATEST <=> ~(was.number > LATEST)
           /\ was.number <= LATEST => Good(db) /\ (writes = 0 => Traced(was, db))
<1>1. was \in OldDatabases /\ was.number \in Nat
  BY SchemaAssumption DEF SchemaInv
<1>2. CASE was.number > LATEST
  BY <1>1, <1>2 DEF SchemaInv, LATEST
<1>3. CASE ~(was.number > LATEST)
  <2>1. Good(db) /\ (writes = 0 => Traced(was, db))
    BY <1>3 DEF SchemaInv
  <2>2. db.number \in 0 .. 10
    BY <2>1 DEF Good, LATEST
  <2> QED BY <1>1, <1>3, <2>1, <2>2 DEF LATEST
<1> QED BY <1>2, <1>3

LEMMA MigrateStepKeeps ==
    ASSUME SchemaInv, NEW o \in Openers, MigrateStep(o)
    PROVE  SchemaInv'
<1> DEFINE step == opener[o].step
<1>1. opener[o].pc = "steps" /\ step \in 1 .. LATEST /\ db.number >= step - 1 /\ db.number \in Nat
  BY NumberKnown DEF MigrateStep, SchemaInv
<1>2. opener \in [Openers -> [pc : {"off", "refused", "steps", "open"}, step : Nat]]
  BY DEF SchemaInv
<1>3. UNCHANGED <<was, writes, stopped>>
  BY DEF MigrateStep
<1>4. CASE db.number > LATEST
  <2>1. opener' = [opener EXCEPT ![o].pc = "refused"] /\ db' = db
    BY <1>4 DEF MigrateStep
  <2>2. opener' \in [Openers -> [pc : {"off", "refused", "steps", "open"}, step : Nat]]
    BY <1>2, <2>1
  <2>3. \A t \in Openers : opener'[t].pc = "refused" \/ opener'[t] = opener[t]
    BY <1>2, <2>1
  <2>4. \A t \in Openers :
           /\ opener'[t].pc = "steps" => opener'[t].step \in 1 .. LATEST /\ db.number >= opener'[t].step - 1
           /\ opener'[t].pc = "open" => db.number = LATEST
    BY <2>3 DEF SchemaInv
  <2> QED BY <1>3, <2>1, <2>2, <2>4 DEF SchemaInv
<1>5. CASE ~(db.number > LATEST)
  <2>1. was.number <= LATEST /\ Good(db) /\ (writes = 0 => Traced(was, db)) /\ was \in OldDatabases
    BY <1>1, <1>5, NumberKnown DEF SchemaInv, LATEST
  <2>2. /\ opener' = [opener EXCEPT ![o] = [pc |-> IF step = LATEST THEN "open" ELSE "steps", step |-> step + 1]]
        /\ db' = IF db.number >= step THEN db ELSE [Apply(step, db) EXCEPT !.number = step]
    BY <1>2, <1>5 DEF MigrateStep, Stepped
  <2>3. /\ Good(db') /\ (writes = 0 => Traced(was, db'))
        /\ db'.number >= db.number /\ db'.number >= step /\ (writes > 0 => db'.number = LATEST)
        /\ db.number = LATEST => db'.number = LATEST
    <3>1. CASE db.number >= step
      BY <1>1, <2>1, <2>2, <3>1 DEF SchemaInv
    <3>2. CASE ~(db.number >= step)
      <4>1. step = db.number + 1 /\ db.number < LATEST
        BY <1>1, <3>2 DEF LATEST
      <4>2. writes = 0
        BY <4>1 DEF SchemaInv, LATEST
      <4>3. db' = [Apply(db.number + 1, db) EXCEPT !.number = db.number + 1]
        BY <2>2, <3>2, <4>1
      <4>4. Good(db') /\ Traced(was, db') /\ db'.number = db.number + 1
        BY <2>1, <4>1, <4>2, <4>3, StepKeepsTrace
      <4> QED BY <1>1, <4>1, <4>2, <4>4
    <3> QED BY <3>1, <3>2
  <2>4. opener' \in [Openers -> [pc : {"off", "refused", "steps", "open"}, step : Nat]]
    BY <1>1, <1>2, <2>2
  <2>5. db'.number \in 0 .. LATEST
    BY <2>3 DEF Good
  <2>6. ASSUME NEW t \in Openers
        PROVE  /\ opener'[t].pc = "steps" => opener'[t].step \in 1 .. LATEST /\ db'.number >= opener'[t].step - 1
               /\ opener'[t].pc = "open" => db'.number = LATEST
    <3>1. CASE t = o
      <4>1. opener'[t] = [pc |-> IF step = LATEST THEN "open" ELSE "steps", step |-> step + 1]
        BY <1>2, <2>2, <3>1
      <4> QED BY <1>1, <2>3, <2>5, <4>1 DEF LATEST
    <3>2. CASE t # o
      <4>1. opener'[t] = opener[t] /\ opener[t].step \in Nat
        BY <1>2, <2>2, <3>2
      <4>2. /\ opener[t].pc = "steps" => opener[t].step \in 1 .. LATEST /\ db.number >= opener[t].step - 1
            /\ opener[t].pc = "open" => db.number = LATEST
        BY DEF SchemaInv
      <4> QED BY <1>1, <2>3, <2>5, <4>1, <4>2 DEF LATEST
    <3> QED BY <3>1, <3>2
  <2>7. was'.number <= LATEST /\ was' = was /\ writes' = writes /\ writes \in Nat /\ ~(was'.number > LATEST)
    BY <1>3, <2>1, NumberKnown DEF SchemaInv
  <2> QED BY <2>1, <2>3, <2>4, <2>6, <2>7 DEF SchemaInv
<1> QED BY <1>4, <1>5

\* A server's write keeps the shape it found: it writes at the last number only.
LEMMA WriteKeeps ==
    ASSUME SchemaInv, NEW o \in Openers, Serving(o), UNCHANGED <<was, opener, stopped>>,
           IsDatabase(db'), db'.number = db.number, db'.shape = db.shape,
           db'.packages \subseteq db.packages,
           \A m \in db'.members : m \in MembersWith({m.downloads}) /\ ~m.mixed,
           db'.search = Keys(db'),
           \A r \in db'.members \cup db'.tags \cup db'.files \cup db'.symbols : KeyOf(r) \in Keys(db')
    PROVE  SchemaInv'
<1>1. db.number = LATEST /\ writes \in Nat /\ writes' = writes + 1
  BY DEF Serving, SchemaInv
<1>2. was.number <= LATEST /\ ~(was.number > LATEST) /\ Good(db)
  BY <1>1, NumberKnown DEF LATEST
<1>3. Good(db')
  <2>1. /\ db.packages \subseteq PackageRows /\ IsFiniteSet(db.packages)
        /\ \A p, q \in db.packages : p.v = q.v => p = q
        /\ \A p \in db.packages : p.dep2 => p.semver2
        /\ \A r \in db.packages : ~r.mixed
    BY <1>1, <1>2 DEF Good, Staged, LATEST
  <2>2. IsFiniteSet(db'.packages)
    BY <2>1, FS_Subset
  <2>3. Staged(db')
    <3>1. Staged(db)
      BY <1>2 DEF Good
    <3>2. \A r \in db'.packages \cup db'.members : ~r.mixed
      BY <2>1
    <3>3. \A p \in db'.packages : p.dep2 => p.semver2
      BY <2>1
    <3>4. db'.shape = {"pinned", "license_acceptance"} \cup {"foreign_keys"} \cup {"listing_set"} \cup {"held_since"}
      BY <1>1, <3>1 DEF Staged, LATEST
    <3>5. db'.number = 10
      BY <1>1 DEF LATEST
    <3> QED BY <3>2, <3>3, <3>4, <3>5 DEF Staged
  <2> QED BY <1>1, <2>1, <2>2, <2>3 DEF Good, LATEST
<1>4. writes' > 0 /\ writes' # 0 /\ writes' \in Nat
  BY <1>1
<1> QED BY <1>1, <1>2, <1>3, <1>4 DEF SchemaInv

LEMMA MoveKeeps ==
    ASSUME SchemaInv, NEW o \in Openers, NEW m \in db.members, MoveVersion(o, m)
    PROVE  SchemaInv'
<1> DEFINE now == {n \in db.members \ {m} : n.feed # "other" \/ n.v # m.v} \cup {[m EXCEPT !.feed = "other"]}
<1>1. Serving(o) /\ UNCHANGED <<was, opener, stopped>>
  BY DEF MoveVersion
<1>2. db.number = LATEST
  BY <1>1 DEF Serving, SchemaInv
<1>3. Good(db)
  BY <1>2, NumberKnown DEF LATEST
<1>4. IsDatabase(db)
  BY <1>3 DEF Good
<1>5. /\ db.search = Keys(db) /\ \A r \in db.members \cup db.tags \cup db.files \cup db.symbols : KeyOf(r) \in Keys(db)
      /\ \A r \in db.members : r \in MembersWith({r.downloads}) /\ ~r.mixed
  BY <1>2, <1>3 DEF Good, Staged, LATEST
<1>6. db' = [db EXCEPT !.members = now]
  BY <1>4 DEF MoveVersion, IsDatabase
<1>7. \A n \in now : n \in MembersWith({n.downloads}) /\ ~n.mixed /\ KeyOf(n) \in Keys(db)
  <2> DEFINE moved == [m EXCEPT !.feed = "other"]
  <2>1. moved \in MembersWith({m.downloads}) /\ moved.downloads = m.downloads
        /\ moved.v = m.v /\ moved.mixed = m.mixed
    BY <1>5 DEF MembersWith
  <2>2. KeyOf(moved) = KeyOf(m)
    BY <2>1 DEF KeyOf
  <2> HIDE DEF moved
  <2>3. \A n \in now : n = moved \/ n \in db.members
    BY DEF moved
  <2> QED BY <1>5, <2>1, <2>2, <2>3
<1> HIDE DEF now
<1>8. /\ IsDatabase(db') /\ db'.number = db.number /\ db'.shape = db.shape /\ db'.packages = db.packages
      /\ db'.members = now /\ db'.tags = db.tags /\ db'.files = db.files /\ db'.symbols = db.symbols
      /\ db'.search = db.search
  BY <1>4, <1>6 DEF IsDatabase
<1>9. Keys(db') = Keys(db)
  BY <1>8 DEF Keys
<1> QED BY <1>1, <1>5, <1>7, <1>8, <1>9, WriteKeeps

LEMMA DeleteKeeps ==
    ASSUME SchemaInv, NEW o \in Openers, NEW p \in db.packages, DeleteVersion(o, p)
    PROVE  SchemaInv'
<1> DEFINE kept(rows) == {r \in rows : KeyOf(r) # KeyOf(p)}
<1>1. Serving(o) /\ UNCHANGED <<was, opener, stopped>>
  BY DEF DeleteVersion
<1>2. db.number = LATEST
  BY <1>1 DEF Serving, SchemaInv
<1>3. Good(db)
  BY <1>2, NumberKnown DEF LATEST
<1>4. IsDatabase(db)
  BY <1>3 DEF Good
<1>5. /\ db.search = Keys(db) /\ \A r \in db.members \cup db.tags \cup db.files \cup db.symbols : KeyOf(r) \in Keys(db)
      /\ \A r \in db.members : r \in MembersWith({r.downloads}) /\ ~r.mixed
      /\ \A q \in db.packages : q.v = p.v => q = p
  BY <1>2, <1>3 DEF Good, Staged, LATEST
<1>6. db' = [db EXCEPT !.packages = db.packages \ {p}, !.members = kept(db.members), !.tags = kept(db.tags),
                       !.files = kept(db.files), !.symbols = kept(db.symbols), !.search = db.search \ {KeyOf(p)}]
  BY <1>4, Zenon DEF DeleteVersion, IsDatabase
<1>7. Keys(db) \ {KeyOf(p)} = {KeyOf(q) : q \in db.packages \ {p}}
  BY <1>5 DEF Keys, KeyOf
<1> HIDE DEF kept
<1>8. /\ IsDatabase(db') /\ db'.number = db.number /\ db'.shape = db.shape /\ db'.packages = db.packages \ {p}
      /\ db'.members = kept(db.members) /\ db'.tags = kept(db.tags) /\ db'.files = kept(db.files)
      /\ db'.symbols = kept(db.symbols) /\ db'.search = db.search \ {KeyOf(p)}
  BY <1>4, <1>6 DEF IsDatabase
<1>9. Keys(db') = Keys(db) \ {KeyOf(p)}
  BY <1>7, <1>8 DEF Keys
<1>10. \A r \in db'.members \cup db'.tags \cup db'.files \cup db'.symbols : KeyOf(r) \in Keys(db')
  BY <1>5, <1>8, <1>9 DEF kept
<1>11. db'.members \subseteq db.members /\ db'.packages \subseteq db.packages
  BY <1>8 DEF kept
<1>12. db'.search = Keys(db')
  BY <1>5, <1>8, <1>9
<1>13. \A m \in db'.members : m \in MembersWith({m.downloads}) /\ ~m.mixed
  BY <1>5, <1>11
<1> QED BY <1>1, <1>8, <1>10, <1>11, <1>12, <1>13, WriteKeeps

LEMMA SchemaStep == SchemaInv /\ [SchemaNext]_schemaVars => SchemaInv'
<1> SUFFICES ASSUME SchemaInv, [SchemaNext]_schemaVars PROVE SchemaInv'
  OBVIOUS
<1>1. /\ opener \in [Openers -> [pc : {"off", "refused", "steps", "open"}, step : Nat]]
      /\ db.number \in Nat
  BY NumberKnown DEF SchemaInv
<1>2. CASE UNCHANGED schemaVars
  BY <1>2 DEF SchemaInv, schemaVars
<1>3. ASSUME NEW o \in Openers, OpenDatabase(o) PROVE SchemaInv'
  <2> DEFINE pc == IF db.number > LATEST THEN "refused" ELSE IF db.number = LATEST THEN "open" ELSE "steps"
  <2>1. opener' = [opener EXCEPT ![o] = [pc |-> pc, step |-> 1]] /\ UNCHANGED <<was, db, writes, stopped>>
    BY <1>3 DEF OpenDatabase
  <2>2. pc \in {"refused", "open", "steps"} /\ (pc = "open" => db.number = LATEST)
    OBVIOUS
  <2> HIDE DEF pc
  <2>3. opener' \in [Openers -> [pc : {"off", "refused", "steps", "open"}, step : Nat]]
    BY <1>1, <2>1, <2>2
  <2>4. ASSUME NEW t \in Openers
        PROVE  /\ opener'[t].pc = "steps" => opener'[t].step \in 1 .. LATEST /\ db.number >= opener'[t].step - 1
               /\ opener'[t].pc = "open" => db.number = LATEST
    <3>1. CASE t = o
      <4>1. opener'[t].pc = pc /\ opener'[t].step = 1
        BY <1>1, <2>1, <3>1
      <4> QED BY <1>1, <2>2, <4>1 DEF LATEST
    <3>2. CASE t # o
      <4>1. opener'[t] = opener[t]
        BY <1>1, <2>1, <3>2
      <4> QED BY <4>1 DEF SchemaInv
    <3> QED BY <3>1, <3>2
  <2> QED BY <2>1, <2>3, <2>4 DEF SchemaInv
<1>4. ASSUME NEW o \in Openers, StopOpener(o) PROVE SchemaInv'
  <2>1. opener' = [opener EXCEPT ![o] = [pc |-> "off", step |-> 1]] /\ UNCHANGED <<was, db, writes>>
    BY <1>4 DEF StopOpener
  <2>2. opener' \in [Openers -> [pc : {"off", "refused", "steps", "open"}, step : Nat]]
    BY <1>1, <2>1
  <2>3. \A t \in Openers : opener'[t].pc = "off" \/ opener'[t] = opener[t]
    BY <1>1, <2>1
  <2>4. \A t \in Openers :
           /\ opener'[t].pc = "steps" => opener'[t].step \in 1 .. LATEST /\ db.number >= opener'[t].step - 1
           /\ opener'[t].pc = "open" => db.number = LATEST
    BY <2>3 DEF SchemaInv
  <2> QED BY <2>1, <2>2, <2>4 DEF SchemaInv
<1>5. ASSUME NEW o \in Openers, MigrateStep(o) PROVE SchemaInv'
  BY <1>5, MigrateStepKeeps
<1>6. ASSUME NEW o \in Openers, NEW m \in db.members, MoveVersion(o, m) PROVE SchemaInv'
  BY <1>6, MoveKeeps
<1>7. ASSUME NEW o \in Openers, NEW p \in db.packages, DeleteVersion(o, p) PROVE SchemaInv'
  BY <1>7, DeleteKeeps
<1> QED BY <1>2, <1>3, <1>4, <1>5, <1>6, <1>7 DEF SchemaNext

\* What somebody who has the database open finds.
LEMMA OpenFinds == SchemaInv => OpenIsCurrent
<1> SUFFICES ASSUME SchemaInv, NEW o \in Openers, opener[o].pc = "open" PROVE OpenIsCurrent
  BY DEF OpenIsCurrent
<1>1. db.number = 10
  BY DEF SchemaInv, LATEST
<1>2. Good(db)
  BY <1>1, NumberKnown DEF LATEST
<1>3. /\ db.packages \subseteq PackageRows /\ IsFiniteSet(db.packages) /\ Staged(db)
      /\ \A p, q \in db.packages : p.v = q.v => p = q
  BY <1>1, <1>2 DEF Good
<1>4. db.shape = FreshShape
  BY <1>1, <1>3 DEF Staged, FreshShape
<1>5. \A k \in Keys(db) : ~k.mixed
  <2>1. \A p \in db.packages : ~p.mixed
    BY <1>1, <1>3 DEF Staged
  <2> QED BY <1>3, <2>1, KeysDiffer
<1>6. Cardinality(Keys(db)) = Cardinality(db.packages)
  <2> DEFINE key == [p \in db.packages |-> KeyOf(p)]
  <2>1. \A p, q \in db.packages : KeyOf(p) = KeyOf(q) => p = q
    BY <1>3 DEF KeyOf
  <2>2. key \in [db.packages -> Keys(db)] /\ \A k \in Keys(db) : \E p \in db.packages : key[p] = k
    BY DEF Keys
  <2>3. \A p, q \in db.packages : key[p] = key[q] => p = q
    BY <2>1
  <2> HIDE DEF key
  <2>4. key \in Bijection(db.packages, Keys(db))
    BY <2>2, <2>3 DEF Bijection, Injection, Surjection, IsInjective
  <2>5. ExistsBijection(db.packages, Keys(db))
    BY <2>4 DEF ExistsBijection
  <2> QED BY <1>3, <2>5, FS_Bijection
<1>7. /\ \A r \in db.members \cup db.tags \cup db.files \cup db.symbols : KeyOf(r) \in Keys(db)
      /\ db.search = Keys(db) /\ \A p \in db.packages : p.dep2 => p.semver2
  BY <1>1, <1>3 DEF Staged
<1> QED BY <1>4, <1>5, <1>6, <1>7 DEF OpenIsCurrent, Keys

\* What the trace says once the last step is done.
LEMMA TraceTells == SchemaInv => UpgradeKeepsFeeds
<1> SUFFICES ASSUME SchemaInv, db.number = LATEST, writes = 0 PROVE UpgradeKeepsFeeds
  BY DEF UpgradeKeepsFeeds
<1>1. was.number <= LATEST /\ Good(db) /\ Traced(was, db)
  BY NumberKnown DEF LATEST
<1>2. /\ VersionsOf(db) = VersionsOf(was)
      /\ \A p \in db.packages : p.at = Max({q.at : q \in {r \in was.packages : r.v = p.v}})
      /\ \A feed \in {"default", "other"}, v \in VersionsOf(was) :
            RowsOf(was, feed, v) # {} => \E m \in db.members : m.feed = feed /\ m.v = v
      /\ \A m \in db.members : m.v \in VersionsOf(was) => RowsOf(was, m.feed, m.v) # {} /\ FromRows(was, m)
      /\ was.number < 9 => \A m \in db.members : ~m.listed => m.hand
  BY <1>1 DEF Traced, LATEST
<1>3. ASSUME NEW feed \in {"default", "other"}, NEW v \in VersionsOf(was)
      PROVE  LET now == {m \in db.members : m.feed = feed /\ m.v = v}
                 before == RowsOf(was, feed, v)
             IN  /\ (now = {}) <=> (before = {})
                 /\ \A m \in now :
                       /\ (\E r \in before : ~r.enabled) => ~m.enabled
                       /\ (\E r \in before : r.pending) => m.pending
                       /\ m.pinned <=> \E r \in before : r.pinned
                       /\ m.downloads = TotalDownloads(before)
                       /\ (was.number < 9 /\ ~m.listed) => m.hand
  <2> DEFINE now == {m \in db.members : m.feed = feed /\ m.v = v}
             before == RowsOf(was, feed, v)
  <2>1. before # {} => now # {}
    BY <1>2
  <2>2. ASSUME NEW m \in now
        PROVE  before # {} /\ FromRows(was, m) /\ m.feed = feed /\ m.v = v /\ m \in db.members
    BY <1>2
  <2>3. ASSUME NEW m \in now
        PROVE  /\ (\E r \in before : ~r.enabled) => ~m.enabled
               /\ (\E r \in before : r.pending) => m.pending
               /\ m.pinned <=> \E r \in before : r.pinned
               /\ m.downloads = TotalDownloads(before)
               /\ (was.number < 9 /\ ~m.listed) => m.hand
    BY <1>2, <2>2 DEF FromRows
  <2>4. now # {} => before # {}
    BY <2>2
  <2> QED BY <2>1, <2>3, <2>4
<1>4. \A feed \in {"default", "other"}, v \in {p.v : p \in was.packages} :
         LET now == {m \in db.members : m.feed = feed /\ m.v = v}
             before == {m \in (IF was.number = 0 THEN SeedDefaultFeed(was) ELSE was).members :
                           m.feed = feed /\ m.v = v /\ \E p \in was.packages : p.v = v}
         IN  /\ (now = {}) <=> (before = {})
             /\ \A m \in now :
                   /\ (\E r \in before : ~r.enabled) => ~m.enabled
                   /\ (\E r \in before : r.pending) => m.pending
                   /\ m.pinned <=> \E r \in before : r.pinned
                   /\ m.downloads = TotalDownloads(before)
                   /\ (was.number < 9 /\ ~m.listed) => m.hand
  BY <1>3 DEF RowsOf, Seeded, VersionsOf
<1> QED BY <1>2, <1>4 DEF UpgradeKeepsFeeds

\* A step another process takes after a server wrote changes nothing: the number is the
\* last one, whatever the process saw when it opened the database.
LEMMA NothingReturns == SchemaInv => [\A o \in Openers : writes > 0 /\ MigrateStep(o) => db'.members = db.members]_schemaVars
<1> SUFFICES ASSUME SchemaInv, NEW o \in Openers, writes > 0, MigrateStep(o) PROVE db'.members = db.members
  OBVIOUS
<1>1. db.number = LATEST /\ opener[o].step \in 1 .. LATEST
  BY DEF SchemaInv, MigrateStep
<1>2. ~(db.number > LATEST) /\ db.number >= opener[o].step
  BY <1>1 DEF LATEST
<1> QED BY <1>2 DEF MigrateStep

\* Two processes that open one database leave it upgraded once (migrate_to).
THEOREM UpgradesAreSound == SchemaSpec => UpgradesKeepFeeds
<1>1. SchemaInv => OpenIsCurrent /\ UpgradeKeepsFeeds
  BY OpenFinds, TraceTells
<1> QED BY <1>1, SchemaBegins, SchemaStep, NothingReturns, PTL DEF SchemaSpec, UpgradesKeepFeeds, NothingComesBack
=============================================================================
