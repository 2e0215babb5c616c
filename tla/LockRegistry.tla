---------------------------- MODULE LockRegistry ----------------------------
(***************************************************************************)
(* The registry of locks behind lock_version, lock_symbol and lock_blob: a *)
(* map from keys to weak references, swept when it has grown, and the      *)
(* mutexes the tasks share through it.                                     *)
(*                                                                         *)
(* A mutex is a number; it lives as long as some task refers to it, as the *)
(* Arc does, and a map entry of a dead one can no longer be upgraded.      *)
(***************************************************************************)
EXTENDS Naturals, FiniteSets, FiniteSetsExt

CONSTANTS LockTasks, LockKeys, SweepBase    \* SweepBase: 16 in the code

ASSUME RegistryAssumption ==
    /\ IsFiniteSet(LockTasks) /\ IsFiniteSet(LockKeys)
    /\ SweepBase \in Nat

VARIABLES
    lockMap,     \* the keys of the map and the mutex each refers to
    sweepAt,
    lockTask     \* task -> [pc, key, mutex]

lockVars == <<lockMap, sweepAt, lockTask>>

IdleTask == [pc |-> "idle", key |-> {}, mutex |-> 0]

LockInit ==
    /\ lockMap = <<>>
    /\ sweepAt = 0
    /\ lockTask = [t \in LockTasks |-> IdleTask]

Live == {lockTask[t].mutex : t \in LockTasks} \ {0}
Held == {lockTask[t].mutex : t \in {u \in LockTasks : lockTask[u].pc = "holds"}}

Keep(map, keys) == [k \in keys |-> map[k]]
FreshMutex == Min((1 .. Cardinality(LockTasks) + Cardinality(LockKeys) + 1)
                      \ (Live \cup {lockMap[k] : k \in DOMAIN lockMap}))

\* Mutant: a sweep keeps the locks somebody holds, not those somebody waits for.
SweptUnlocked == Keep(lockMap, {k \in DOMAIN lockMap : lockMap[k] \in Held})

\* The entries a sweep keeps: those of a live mutex
SweptMap == Keep(lockMap, {k \in DOMAIN lockMap : lockMap[k] \in Live})

\* acquire: [map, sweepAt, mutex] for a key
Acquire(key) ==
    LET full == Cardinality(DOMAIN lockMap) >= sweepAt
        map == IF full THEN SweptMap ELSE lockMap
        at == IF full THEN 2 * Cardinality(DOMAIN map) + SweepBase ELSE sweepAt
    IN  IF key \in DOMAIN map /\ map[key] \in Live
        THEN [map |-> map, sweepAt |-> at, mutex |-> map[key]]
        ELSE [map |-> [k \in DOMAIN map \cup {key} |-> IF k = key THEN FreshMutex ELSE map[k]],
              sweepAt |-> at, mutex |-> FreshMutex]

\* lock_version, lock_symbol, lock_blob up to lock_owned
AskLock(t, key) ==
    /\ lockTask[t].pc = "idle"
    /\ LET got == Acquire(key)
       IN  /\ lockMap' = got.map /\ sweepAt' = got.sweepAt
           /\ lockTask' = [lockTask EXCEPT ![t] = [pc |-> "waits", key |-> {key}, mutex |-> got.mutex]]

\* lock_owned
TakeLock(t) ==
    /\ lockTask[t].pc = "waits"
    /\ lockTask[t].mutex \notin Held
    /\ lockTask' = [lockTask EXCEPT ![t].pc = "holds"]
    /\ UNCHANGED <<lockMap, sweepAt>>

\* try_lock_version: the guard, or nothing when another task has it
TryLock(t, key) ==
    /\ lockTask[t].pc = "idle"
    /\ LET got == Acquire(key)
       IN  /\ lockMap' = got.map /\ sweepAt' = got.sweepAt
           /\ lockTask' = IF got.mutex \in Held THEN lockTask
                          ELSE [lockTask EXCEPT ![t] = [pc |-> "holds", key |-> {key}, mutex |-> got.mutex]]

\* The guard, or the future that waits for it, is dropped.
DropLock(t) ==
    /\ lockTask[t].pc # "idle"
    /\ lockTask' = [lockTask EXCEPT ![t] = IdleTask]
    /\ UNCHANGED <<lockMap, sweepAt>>

LockNext ==
    \E t \in LockTasks :
        \/ \E key \in LockKeys : AskLock(t, key) \/ TryLock(t, key)
        \/ TakeLock(t)
        \/ DropLock(t)

LockSpec == LockInit /\ [][LockNext]_lockVars

---------------------------------------------------------------------------
\* Two tasks never hold the lock of one key, whatever was swept while one of
\* them was about to take it (acquire, locked).
OneHolderPerKey ==
    \A t, u \in LockTasks :
        t # u /\ lockTask[t].pc = "holds" /\ lockTask[u].pc = "holds" => lockTask[t].key # lockTask[u].key

\* The registry stays near the number of versions in flight, however many keys
\* were ever locked (acquire: "bounding the map at roughly twice the set of
\* in-flight versions").
RegistryIsBounded == Cardinality(DOMAIN lockMap) <= 2 * Cardinality(LockTasks) + SweepBase

\* A key has one holder, and the registry only the keys in flight, through
\* every sweep (acquire).
LocksStayKeyed == OneHolderPerKey /\ RegistryIsBounded
=============================================================================
