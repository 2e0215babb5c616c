------------------------------ MODULE Symbols ------------------------------
(***************************************************************************)
(* Symbol packages: pushes claim the keys of their PDBs and store the      *)
(* files, beside other pushes that share keys and beside purges and        *)
(* replacements of the versions the symbols belong to.                     *)
(*                                                                         *)
(* A push is what its archive holds: the version, the build its PDBs were  *)
(* verified against, and the bytes of each key (key and file name are one  *)
(* key here; the number is its place in the sorted list).  A call that     *)
(* fails, a request that is dropped and a restart of one task are faults,  *)
(* counted by symFaults.                                                   *)
(***************************************************************************)
EXTENDS Naturals, FiniteSets, FiniteSetsExt

CONSTANTS
    SymTasks, SymPushes,  \* pushes: [ver, build, bytes], bytes a function of its keys
    SymVersions, IdOf,    \* versions and the package id of each
    SymKeys,              \* naturals, in the order the list of PDBs is sorted in
    MoveFails,            \* whether storing the .snupkg itself may fail
    MaxSymFaults, MaxBuild

ASSUME SymbolsAssumption ==
    /\ SymKeys \subseteq Nat /\ 0 \notin SymVersions
    /\ \A p \in SymPushes : /\ p.ver \in SymVersions /\ DOMAIN p.bytes \subseteq SymKeys
                            /\ \A k \in DOMAIN p.bytes : p.bytes[k] # 0

VARIABLES
    symRow,     \* symbols: key -> the version that claimed it
    symFile,    \* the files of the store: key -> bytes
    member,     \* the versions some feed holds
    data,       \* the versions with package data
    build,      \* the build stored for each version
    verLock, keyLock,   \* locks: the tasks that hold them
    symTask,    \* each task's locals
    published,  \* key -> bytes a push that succeeded left under its own claim
    symFaults

symVars == <<symRow, symFile, member, data, build, verLock, keyLock, symTask, published, symFaults>>
symStore == <<symRow, symFile, published>>
symOwners == <<member, data, build>>
symLocks == <<verLock, keyLock>>

Nothing == 0
IdleSym == [pc |-> "idle", push |-> {}, ver |-> {}, todo |-> {}, plan |-> [k \in SymKeys |-> "none"],
            owner |-> Nothing, claimed |-> {}, replace |-> FALSE]

SymInit ==
    /\ symRow = [k \in SymKeys |-> Nothing]
    /\ symFile = [k \in SymKeys |-> Nothing]
    /\ member = SymVersions /\ data = SymVersions
    /\ build = [v \in SymVersions |-> 1]
    /\ verLock = [v \in SymVersions |-> {}]
    /\ keyLock = [k \in SymKeys |-> {}]
    /\ symTask = [t \in SymTasks |-> IdleSym]
    /\ published = [k \in SymKeys |-> Nothing]
    /\ symFaults = 0

SymPush(t) == CHOOSE p \in symTask[t].push : TRUE
Ver(t) == CHOOSE v \in symTask[t].ver : TRUE
KeysOf(t) == DOMAIN SymPush(t).bytes
\* todo and claimed are gone through in the order of the keys.
Key(t) == Min(symTask[t].todo)

SymGoto(t, p) == symTask' = [symTask EXCEPT ![t].pc = p]
SymFault == symFaults < MaxSymFaults /\ symFaults' = symFaults + 1
SymFine == UNCHANGED symFaults

FreeKeys(t) == [k \in SymKeys |-> keyLock[k] \ {t}]
FreeVersion(t) == [v \in SymVersions |-> verLock[v] \ {t}]

\* The task ends; its guards drop.
SymEnd(t) ==
    /\ symTask' = [symTask EXCEPT ![t] = IdleSym]
    /\ verLock' = FreeVersion(t) /\ keyLock' = FreeKeys(t)

---------------------------------------------------------------------------
\* index_inner

\* Up to the version lock: a version the feed does not hold is refused.
StartSymbols(t, p) ==
    /\ symTask[t].pc = "idle" /\ p.ver \in member
    /\ symTask' = [symTask EXCEPT ![t] = [IdleSym EXCEPT !.pc = "version", !.push = {p}, !.ver = {p.ver}]]
    /\ UNCHANGED <<symStore, symOwners, symLocks, symFaults>>

\* The lock, the second look, and verify: every PDB belongs to the stored build.
LockOwner(t) ==
    LET p == SymPush(t)
    IN  /\ symTask[t].pc = "version" /\ verLock[p.ver] = {}
        /\ IF p.ver \in member /\ build[p.ver] = p.build
           THEN /\ verLock' = [verLock EXCEPT ![p.ver] = {t}]
                /\ symTask' = [symTask EXCEPT ![t].pc = IF KeysOf(t) = {} THEN "package" ELSE "keys", ![t].todo = KeysOf(t)]
                /\ UNCHANGED keyLock
           ELSE SymEnd(t)
        /\ UNCHANGED <<symStore, symOwners, symFaults>>

\* Mutant: the locks of the keys do not exclude.
LockKeyShared(t) ==
    /\ symTask[t].pc = "keys"
    /\ LET rest == symTask[t].todo \ {Key(t)}
       IN  symTask' = [symTask EXCEPT ![t].todo = IF rest = {} THEN KeysOf(t) ELSE rest,
                                      ![t].pc = IF rest = {} THEN "find" ELSE "keys"]
    /\ UNCHANGED <<symStore, symOwners, symLocks, symFaults>>

\* store_all: the keys' locks in one global order, all of them before any look
LockKey(t) ==
    /\ symTask[t].pc = "keys" /\ keyLock[Key(t)] = {}
    /\ keyLock' = [keyLock EXCEPT ![Key(t)] = {t}]
    /\ LET rest == symTask[t].todo \ {Key(t)}
       IN  symTask' = [symTask EXCEPT ![t].todo = IF rest = {} THEN KeysOf(t) ELSE rest,
                                      ![t].pc = IF rest = {} THEN "find" ELSE "keys"]
    /\ UNCHANGED <<symStore, symOwners, verLock, symFaults>>

\* What storing one PDB comes to, decided for one key after the other.
Plan(t, plan) ==
    LET rest == symTask[t].todo \ {Key(t)}
    IN  symTask' = [symTask EXCEPT ![t].plan[Key(t)] = plan, ![t].owner = Nothing,
                                   ![t].todo = IF rest = {} THEN KeysOf(t) ELSE rest,
                                   ![t].pc = IF rest = {} THEN "claim" ELSE "find"]

FindSymbol(t) ==
    LET owner == symRow[Key(t)]
    IN  /\ symTask[t].pc = "find"
        /\ \/ /\ SymFine
              /\ \/ owner = Nothing /\ Plan(t, "claim") /\ UNCHANGED symLocks
                 \/ /\ owner # Nothing /\ IdOf[owner] # IdOf[Ver(t)] /\ SymEnd(t)
                 \/ /\ owner # Nothing /\ IdOf[owner] = IdOf[Ver(t)]
                    /\ symTask' = [symTask EXCEPT ![t].owner = owner, ![t].pc = "hash"]
                    /\ UNCHANGED symLocks
           \/ SymFault /\ SymEnd(t)
        /\ UNCHANGED <<symStore, symOwners>>

\* stored_sha256 and what it means
HashStored(t) ==
    LET stored == symFile[Key(t)]
    IN  /\ symTask[t].pc = "hash"
        /\ \/ stored = SymPush(t).bytes[Key(t)] /\ Plan(t, "unchanged") /\ UNCHANGED symLocks
           \/ stored = Nothing /\ symTask[t].owner = Ver(t) /\ Plan(t, "restore") /\ UNCHANGED symLocks
           \/ stored = Nothing /\ symTask[t].owner # Ver(t) /\ SymEnd(t)
           \/ stored \notin {Nothing, SymPush(t).bytes[Key(t)]} /\ SymEnd(t)
        /\ UNCHANGED <<symStore, symOwners, symFaults>>

\* The key is done; after the last one store_all returns and its guards drop.
KeyDone(t) ==
    LET rest == symTask[t].todo \ {Key(t)}
    IN  /\ symTask' = [symTask EXCEPT ![t].todo = rest,
                                      ![t].pc = IF rest = {} THEN "package" ELSE "claim"]
        /\ keyLock' = IF rest = {} THEN FreeKeys(t) ELSE keyLock
        /\ UNCHANGED verLock

Undo(t) ==
    IF symTask[t].claimed = {} THEN SymEnd(t) ELSE SymGoto(t, "release") /\ UNCHANGED symLocks

\* add_symbol, a claim and not an upsert
Claim(t) ==
    LET k == Key(t)  plan == symTask[t].plan[Key(t)]
    IN  /\ symTask[t].pc = "claim"
        /\ \/ plan = "unchanged" /\ SymFine /\ KeyDone(t) /\ UNCHANGED symRow
           \/ plan = "restore" /\ SymFine /\ SymGoto(t, "store") /\ UNCHANGED <<symRow, symLocks>>
           \/ /\ plan = "claim" /\ symRow[k] = Nothing /\ SymFine
              /\ symRow' = [symRow EXCEPT ![k] = Ver(t)]
              /\ symTask' = [symTask EXCEPT ![t].claimed = @ \cup {k}, ![t].pc = "store"]
              /\ UNCHANGED symLocks
           \/ plan = "claim" /\ ((symRow[k] # Nothing /\ SymFine) \/ SymFault) /\ Undo(t) /\ UNCHANGED symRow
        /\ UNCHANGED <<symFile, published, symOwners>>

StoreFile(t) ==
    /\ symTask[t].pc = "store"
    /\ \/ /\ SymFine /\ KeyDone(t)
          /\ symFile' = [symFile EXCEPT ![Key(t)] = SymPush(t).bytes[Key(t)]]
       \/ SymFault /\ Undo(t) /\ UNCHANGED symFile
    /\ UNCHANGED <<symRow, published, symOwners>>

\* release: the row, and whether or not that worked, the file
ReleaseRow(t) ==
    LET k == Min(symTask[t].claimed)
    IN  /\ symTask[t].pc = "release"
        /\ \/ SymFine /\ symRow' = [symRow EXCEPT ![k] = Nothing]
           \/ SymFault /\ UNCHANGED symRow
        /\ SymGoto(t, "releaseFile")
        /\ UNCHANGED <<symFile, published, symOwners, symLocks>>

ReleaseFile(t) ==
    LET k == Min(symTask[t].claimed)
        left == symTask[t].claimed \ {k}
    IN  /\ symTask[t].pc = "releaseFile"
        /\ symFile' = [symFile EXCEPT ![k] = Nothing]
        /\ IF left = {} THEN SymEnd(t)
           ELSE symTask' = [symTask EXCEPT ![t].claimed = left, ![t].pc = "release"] /\ UNCHANGED symLocks
        /\ UNCHANGED <<symRow, published, symOwners, symFaults>>

\* store_symbol_package, after the keys' guards are gone
StorePackage(t) ==
    /\ symTask[t].pc = "package"
    /\ \/ /\ SymFine /\ SymEnd(t)
          /\ published' = [k \in SymKeys |->
                 IF k \in DOMAIN SymPush(t).bytes /\ symRow[k] = Ver(t) THEN SymPush(t).bytes[k] ELSE published[k]]
       \/ MoveFails /\ SymFault /\ Undo(t) /\ UNCHANGED published
    /\ UNCHANGED <<symRow, symFile, symOwners>>

---------------------------------------------------------------------------
\* purge_symbols, in a purge of the version (purge_global_data, or the sweep that
\* finishes one) and after a replacement of its build; under the version lock.

StartOwnerPurge(t, v) ==
    /\ symTask[t].pc = "idle" /\ v \in data /\ verLock[v] = {}
    /\ member' = member \ {v}
    /\ verLock' = [verLock EXCEPT ![v] = {t}]
    /\ symTask' = [symTask EXCEPT ![t] = [IdleSym EXCEPT !.pc = "list", !.ver = {v}]]
    /\ UNCHANGED <<symStore, data, build, keyLock, symFaults>>

StartReplace(t, v) ==
    /\ symTask[t].pc = "idle" /\ v \in member /\ verLock[v] = {} /\ build[v] < MaxBuild
    /\ build' = [build EXCEPT ![v] = @ + 1]
    /\ verLock' = [verLock EXCEPT ![v] = {t}]
    /\ symTask' = [symTask EXCEPT ![t] = [IdleSym EXCEPT !.pc = "list", !.ver = {v}, !.replace = TRUE]]
    /\ UNCHANGED <<symStore, member, data, keyLock, symFaults>>

FindSymbols(t) ==
    /\ symTask[t].pc = "list"
    /\ \/ /\ SymFine /\ UNCHANGED symLocks
          /\ symTask' = [symTask EXCEPT ![t].pc = "files", ![t].todo = {k \in SymKeys : symRow[k] = Ver(t)}]
       \/ SymFault /\ SymEnd(t)
    /\ UNCHANGED <<symStore, symOwners>>

PurgeFile(t) ==
    /\ symTask[t].pc = "files" /\ symTask[t].todo # {}
    /\ symFile' = [symFile EXCEPT ![Key(t)] = Nothing]
    /\ published' = [published EXCEPT ![Key(t)] = Nothing]
    /\ symTask' = [symTask EXCEPT ![t].todo = @ \ {Key(t)}]
    /\ UNCHANGED <<symRow, symOwners, symLocks, symFaults>>

\* delete_symbols, and for a purge the rest of the version's data
PurgeRows(t) ==
    /\ symTask[t].pc = "files" /\ symTask[t].todo = {}
    /\ \/ /\ SymFine
          /\ symRow' = [k \in SymKeys |-> IF symRow[k] = Ver(t) THEN Nothing ELSE symRow[k]]
          /\ data' = IF symTask[t].replace THEN data ELSE data \ {Ver(t)}
       \/ SymFault /\ UNCHANGED <<symRow, data>>
    /\ SymEnd(t)
    /\ UNCHANGED <<symFile, published, member, build>>

\* The version is pushed again; how is VersionStore's.
PushAgain(v) ==
    /\ v \notin member /\ verLock[v] = {} /\ build[v] < MaxBuild
    /\ member' = member \cup {v} /\ data' = data \cup {v}
    /\ build' = [build EXCEPT ![v] = @ + 1]
    /\ UNCHANGED <<symStore, symLocks, symTask, symFaults>>

\* The request is dropped where it waits, or the server restarts.
Cancelled(t) ==
    /\ symTask[t].pc # "idle" /\ SymFault /\ SymEnd(t)
    /\ UNCHANGED <<symStore, symOwners>>

SymStep(t) ==
    \/ LockOwner(t) \/ LockKey(t) \/ FindSymbol(t) \/ HashStored(t) \/ Claim(t) \/ StoreFile(t)
    \/ ReleaseRow(t) \/ ReleaseFile(t) \/ StorePackage(t)
    \/ FindSymbols(t) \/ PurgeFile(t) \/ PurgeRows(t)

SymNext ==
    \/ \E t \in SymTasks : SymStep(t) \/ Cancelled(t)
    \/ \E t \in SymTasks, p \in SymPushes : StartSymbols(t, p)
    \/ \E t \in SymTasks, v \in SymVersions : StartOwnerPurge(t, v) \/ StartReplace(t, v)
    \/ \E v \in SymVersions : PushAgain(v)

SymSpec == SymInit /\ [][SymNext]_symVars

---------------------------------------------------------------------------
\* What a push that succeeded stored under its claim is served until its own
\* version is purged or replaced, whatever other pushes that share the key do
\* and however they fail (store_all, release).
SymbolsStay ==
    \A k \in SymKeys : published[k] # Nothing => symRow[k] # Nothing /\ symFile[k] = published[k]

\* Symbols are claimed for versions that are there: none are left behind by a
\* purge, and none are claimed after it (index_inner, step 4; purge_global_data).
SymbolsHaveOwner == \A k \in SymKeys : symRow[k] # Nothing => symRow[k] \in data

\* Two pushes that share keys never wait for each other (store_all: "in one
\* global order (the list is sorted)").
NoSymbolDeadlock ==
    \A t, u \in SymTasks :
        symTask[t].pc = "keys" /\ symTask[u].pc = "keys" =>
            ~(u \in keyLock[Key(t)] /\ t \in keyLock[Key(u)])

\* Symbols of a held version stay, the others have an owner that takes them
\* along, and pushes that claim the same keys never wait for each other
\* (store_all, purge_symbols).
SymbolsAreKept == SymbolsStay /\ SymbolsHaveOwner /\ NoSymbolDeadlock
=============================================================================
