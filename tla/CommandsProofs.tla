--------------------------- MODULE CommandsProofs ---------------------------
(***************************************************************************)
(* What the commands beside the server promise: feeds rename and feeds     *)
(* remove, an import from another feed, and a sync of the internalizer,    *)
(* for any feeds and versions, wherever a command is interrupted.          *)
(*                                                                         *)
(* feeds: a command that runs has the data lock, so nothing but its own    *)
(* steps changes the memberships meanwhile; what is left to remove and     *)
(* what was removed always add up to what a dry run would have told.       *)
(*                                                                         *)
(* migrate: a version that is not in the target and was not deleted from   *)
(* it is still on its way through the run, or the run has a failure to     *)
(* tell of.                                                                *)
(*                                                                         *)
(* sync: the state in memory and the one on disk are both true of the      *)
(* target, they differ only where the feed was found to serve a version,   *)
(* and the version being tried was never saved as pushed.                  *)
(***************************************************************************)
EXTENDS FeedCommands, Migrate, SyncState, FiniteSetTheorems, SequenceTheorems, WellFoundedInduction, TLAPS

\* Renaming and removing feeds

Rows == [feed : FeedNames, v : StoredVersions, pending : BOOLEAN]

Tolds == [versions : Nat, exclusive : Nat, pending : Nat, tombstones : Nat]
Commands == [pc : {"idle", "next", "count", "files", "row"}, feed : SUBSET FeedNames,
             left : SUBSET StoredVersions, v : SUBSET StoredVersions, told : SUBSET Tolds,
             versions : Nat, purged : Nat]

\* A feed has a version once.
HeldOnce == \A m, n \in memberships : m.feed = n.feed /\ m.v = n.v => m = n

\* What goes with a removal of f: the versions no other feed has.
Exclusive(f) == {m \in Members(f) : FeedCount(m.v) = 1}

\* The version at hand is counted as purged once it is certain that it will be.
InHand == IF command.pc \in {"files", "row"} \/ (command.pc = "count" /\ \A v \in command.v : FeedCount(v) = 0)
          THEN 1 ELSE 0

\* The command that runs has the lock; its counts and what is left add up.
Removal(f, told) ==
    /\ command.feed = {f} /\ command.told = {told}
    /\ command.left = {m.v : m \in Members(f)}
    /\ command.versions \in Nat /\ command.purged \in Nat
    /\ command.versions + Cardinality(Members(f)) = told.versions
    /\ command.purged + Cardinality(Exclusive(f)) + InHand = told.exclusive
    /\ command.pc # "next" => \E v \in StoredVersions : /\ command.v = {v} /\ v \in packages
                                                        /\ command.pc # "count" => FeedCount(v) = 0

CommandOK ==
    /\ command \in Commands
    /\ command.pc # "idle" => dataLock = "command" /\ \E f \in FeedNames : \E told \in command.told : Removal(f, told)

CommandInv ==
    /\ memberships \in SUBSET Rows /\ IsFiniteSet(memberships) /\ IsFiniteSet(tombstones)
    /\ HeldOnce /\ HeldHasData /\ ShownWithConsent /\ CommandOK

---------------------------------------------------------------------------
\* Counting memberships

\* The memberships of a set are a number.
LEMMA FiniteRows ==
    ASSUME IsFiniteSet(memberships), NEW S \in SUBSET memberships
    PROVE  IsFiniteSet(S) /\ Cardinality(S) \in Nat
BY FS_Subset, FS_CardinalityType

\* A version is counted in no feed exactly if none has it.
LEMMA CountIsZero ==
    ASSUME IsFiniteSet(memberships), NEW v
    PROVE  FeedCount(v) \in Nat /\ (FeedCount(v) = 0 <=> \A m \in memberships : m.v # v)
<1> DEFINE S == {m \in memberships : m.v = v}
<1>1. IsFiniteSet(S) /\ Cardinality(S) \in Nat
  BY FiniteRows
<1>2. Cardinality(S) = 0 <=> S = {}
  BY <1>1, FS_EmptySet
<1> QED BY <1>1, <1>2 DEF FeedCount

\* Without one of its memberships a version has one less.
LEMMA CountDrops ==
    ASSUME IsFiniteSet(memberships), NEW m \in memberships, memberships' = memberships \ {m}, NEW v
    PROVE  FeedCount(v)' = IF v = m.v THEN FeedCount(v) - 1 ELSE FeedCount(v)
<1> DEFINE S == {n \in memberships : n.v = v}
<1>1. IsFiniteSet(S) /\ Cardinality(S) \in Nat
  BY FiniteRows
<1>2. CASE v = m.v
  <2>1. {n \in memberships' : n.v = v} = S \ {m} /\ m \in S
    BY <1>2
  <2> HIDE DEF S
  <2>2. Cardinality(S \ {m}) = Cardinality(S) - 1
    BY <1>1, <2>1, FS_RemoveElement
  <2> QED BY <1>2, <2>1, <2>2 DEF FeedCount, S
<1>3. CASE v # m.v
  <2>1. {n \in memberships' : n.v = v} = S
    BY <1>3
  <2> QED BY <1>3, <2>1 DEF FeedCount
<1> QED BY <1>2, <1>3

\* The lock keeps everyone else away from a command that runs.
LEMMA Undisturbed ==
    ASSUME CommandInv, dataLock # "command"
    PROVE  command.pc = "idle"
BY DEF CommandInv, CommandOK

---------------------------------------------------------------------------
\* The server

\* No command runs beside a server, so good memberships are all there is to keep.
LEMMA ServerKeeps ==
    ASSUME CommandInv, dataLock # "command", UNCHANGED command,
           memberships' \in SUBSET Rows, IsFiniteSet(memberships'), IsFiniteSet(tombstones'),
           HeldOnce', HeldHasData', ShownWithConsent'
    PROVE  CommandInv'
BY Undisturbed DEF CommandInv, CommandOK

\* A push to a running server brings a version with its data, pending where it must be.
LEMMA PushKeeps ==
    ASSUME CommandInv, NEW f \in FeedNames, NEW v \in StoredVersions, ServePush(f, v)
    PROVE  CommandInv'
<1> USE DEF CommandInv
<1> DEFINE m == [feed |-> f, v |-> v, pending |-> f \in GatedNames]
<1>1. /\ dataLock = "server" /\ Membership(f, v) = {} /\ memberships' = memberships \cup {m}
      /\ packages' = packages \cup {v} /\ payloads' = payloads \cup {v}
      /\ UNCHANGED <<tombstones, consented, dataLock, command>>
  BY DEF ServePush, Serves
<1>2. m \in Rows /\ m.feed = f /\ m.v = v /\ m.pending = (f \in GatedNames)
  BY DEF Rows
<1> HIDE DEF m
<1>3. memberships' \in SUBSET Rows /\ IsFiniteSet(memberships')
  BY <1>1, <1>2, FS_AddElement
<1>4. HeldOnce' /\ HeldHasData'
  BY <1>1, <1>2 DEF HeldOnce, HeldHasData, Membership
<1>5. ShownWithConsent'
  BY <1>1, <1>2 DEF ShownWithConsent
<1> QED BY <1>1, <1>3, <1>4, <1>5, ServerKeeps

\* A delete on a running server takes the data with the last membership.
LEMMA DeleteKeeps ==
    ASSUME CommandInv, NEW f \in FeedNames, NEW v \in StoredVersions, ServeDelete(f, v)
    PROVE  CommandInv'
<1> USE DEF CommandInv
<1>1. /\ dataLock = "server" /\ Membership(f, v) # {} /\ memberships' = memberships \ Membership(f, v)
      /\ tombstones' = tombstones \cup {<<f, v>>} /\ consented' = consented \ {<<f, v>>}
      /\ packages' = (IF FeedCount(v) = 1 THEN packages \ {v} ELSE packages)
      /\ payloads' = (IF FeedCount(v) = 1 THEN payloads \ {v} ELSE payloads)
      /\ UNCHANGED <<dataLock, command>>
  BY DEF ServeDelete, Serves
<1>2. /\ memberships' \in SUBSET memberships /\ IsFiniteSet(memberships') /\ IsFiniteSet(tombstones')
  BY <1>1, FiniteRows, FS_AddElement
<1>3. PICK m \in memberships : m.feed = f /\ m.v = v
  BY <1>1 DEF Membership
<1>4. Membership(f, v) = {m}
  BY <1>3 DEF Membership, HeldOnce
<1>5. FeedCount(v) = 1 => \A n \in memberships' : n.v # v
  <2>1. FeedCount(v)' = FeedCount(v) - 1
    BY <1>1, <1>3, <1>4, CountDrops
  <2>2. FeedCount(v)' = 0 => \A n \in memberships' : n.v # v
    <3> DEFINE S == {n \in memberships' : n.v = v}
    <3>1. IsFiniteSet(S)
      BY <1>2, FS_Subset
    <3> QED BY <3>1, FS_EmptySet DEF FeedCount
  <2> QED BY <2>1, <2>2
<1>6. HeldOnce' /\ HeldHasData'
  BY <1>1, <1>2, <1>5 DEF HeldOnce, HeldHasData
<1>7. ShownWithConsent'
  <2>1. SUFFICES ASSUME NEW n \in memberships', n.feed \in GatedNames, ~n.pending
                 PROVE  <<n.feed, n.v>> \in consented'
    BY DEF ShownWithConsent
  <2>2. <<n.feed, n.v>> \in consented /\ ~(n.feed = f /\ n.v = v)
    BY <1>1, <2>1 DEF ShownWithConsent, Membership
  <2> QED BY <1>1, <2>2
<1> QED BY <1>1, <1>2, <1>6, <1>7, ServerKeeps

\* An approval is the consent a gated feed asks for.
LEMMA ApproveKeeps ==
    ASSUME CommandInv, NEW f \in FeedNames, NEW v \in StoredVersions, ServeApprove(f, v)
    PROVE  CommandInv'
<1> USE DEF CommandInv
<1> DEFINE m == [feed |-> f, v |-> v, pending |-> FALSE]
<1>1. /\ dataLock = "server" /\ Membership(f, v) # {}
      /\ memberships' = (memberships \ Membership(f, v)) \cup {m} /\ consented' = consented \cup {<<f, v>>}
      /\ UNCHANGED <<tombstones, packages, payloads, dataLock, command>>
  BY DEF ServeApprove, Serves
<1>2. m \in Rows /\ m.feed = f /\ m.v = v
  BY DEF Rows
<1> HIDE DEF m
<1>3. memberships' \in SUBSET Rows /\ IsFiniteSet(memberships')
  BY <1>1, <1>2, FS_AddElement, FiniteRows
<1>4. HeldOnce' /\ HeldHasData' /\ ShownWithConsent'
  BY <1>1, <1>2 DEF HeldOnce, HeldHasData, Membership, ShownWithConsent
<1> QED BY <1>1, <1>3, <1>4, ServerKeeps

\* What else a server does changes no membership.
LEMMA OtherServingKeeps ==
    ASSUME CommandInv,
           \/ StartServing \/ StopServing \/ ServeSweep
           \/ \E t \in clearing : ServeClear(t)
           \/ \E names \in SUBSET FeedNames : Reconfigure(names)
           \/ \E f \in FeedNames : ServeUpload(f)
    PROVE  CommandInv'
<1> USE DEF CommandInv
<1>1. dataLock # "command" /\ UNCHANGED <<memberships, consented, command>>
  BY DEF StartServing, StopServing, ServeSweep, ServeClear, Reconfigure, ServeUpload, Serves, dataVars
<1>2. tombstones' \in SUBSET tombstones
  BY DEF StartServing, StopServing, ServeSweep, ServeClear, Reconfigure, ServeUpload, Serves, dataVars
<1>3. \A m \in memberships : (m.v \in packages => m.v \in packages') /\ (m.v \in payloads => m.v \in payloads')
  <2>1. CASE UNCHANGED <<packages, payloads>>
    BY <2>1
  <2>2. CASE ServeSweep
    <3>1. \A m \in memberships : FeedCount(m.v) \in Nat /\ FeedCount(m.v) # 0
      BY CountIsZero
    <3> QED BY <2>2, <3>1 DEF ServeSweep
  <2> QED BY <2>1, <2>2 DEF StartServing, StopServing, ServeClear, Reconfigure, ServeUpload, Serves, dataVars
<1>4. HeldOnce' /\ HeldHasData' /\ ShownWithConsent' /\ IsFiniteSet(tombstones')
  BY <1>1, <1>2, <1>3, FS_Subset DEF HeldOnce, HeldHasData, ShownWithConsent
<1> QED BY <1>1, <1>4, ServerKeeps

---------------------------------------------------------------------------
\* The commands

\* What a dry run tells are numbers.
LEMMA CountsAreNumbers ==
    ASSUME CommandInv, NEW f
    PROVE  /\ StoredFeed(f) \in Tolds
           /\ IsFiniteSet(Members(f)) /\ Cardinality(Members(f)) \in Nat
           /\ IsFiniteSet(Exclusive(f)) /\ Cardinality(Exclusive(f)) \in Nat
           /\ StoredFeed(f).versions = Cardinality(Members(f)) /\ StoredFeed(f).exclusive = Cardinality(Exclusive(f))
<1> USE DEF CommandInv
<1> DEFINE P == {m \in Members(f) : m.pending}
           T == {t \in tombstones : t[1] = f}
<1>1. /\ IsFiniteSet(Members(f)) /\ Cardinality(Members(f)) \in Nat
      /\ IsFiniteSet(Exclusive(f)) /\ Cardinality(Exclusive(f)) \in Nat /\ Cardinality(P) \in Nat
  BY FiniteRows DEF Members, Exclusive
<1>2. Cardinality(T) \in Nat
  BY FS_Subset, FS_CardinalityType
<1>3. StoredFeed(f) = [versions |-> Cardinality(Members(f)), exclusive |-> Cardinality(Exclusive(f)),
                       pending |-> Cardinality(P), tombstones |-> Cardinality(T)]
  BY DEF StoredFeed, Exclusive
<1> HIDE DEF P, T
<1> QED BY <1>1, <1>2, <1>3 DEF Tolds

\* A rename moves each membership once, and approves none.
LEMMA RenameKeeps ==
    ASSUME CommandInv, NEW from \in FeedNames, NEW to \in FeedNames, NEW hold \in BOOLEAN, NEW keep \in BOOLEAN,
           Rename(from, to, hold, keep)
    PROVE  CommandInv'
<1> USE DEF CommandInv
<1> DEFINE R(m) == IF m.feed = from THEN [feed |-> to, v |-> m.v, pending |-> m.pending \/ hold] ELSE m
           TR(t) == IF t[1] = from THEN <<to, t[2]>> ELSE t
<1>1. /\ dataLock = "free" /\ from # to /\ SharedVersions(from, to) = {} /\ UNCHANGED <<packages, payloads, command>>
      /\ memberships' = {R(m) : m \in memberships} /\ tombstones' \in SUBSET {TR(t) : t \in tombstones}
      /\ consented' = {c \in consented : c[1] # from}
                         \cup {<<to, m.v>> : m \in {n \in Members(from) : keep /\ ~n.pending}}
  BY DEF Rename, MayStart, RefuseWhileServing, Renamed, RenamedTombstones
<1>2. \A m \in memberships : R(m) \in Rows /\ R(m).v = m.v /\ R(m).feed = (IF m.feed = from THEN to ELSE m.feed)
  BY DEF Rows
<1>3. memberships' \in SUBSET Rows /\ IsFiniteSet(memberships') /\ IsFiniteSet(tombstones')
  <2>1. IsFiniteSet({R(m) : m \in memberships}) /\ IsFiniteSet({TR(t) : t \in tombstones})
    <3> DEFINE fm == [m \in memberships |-> R(m)]
               ft == [t \in tombstones |-> TR(t)]
               M == {R(m) : m \in memberships}
               T == {TR(t) : t \in tombstones}
    <3> HIDE DEF R, TR
    <3>1. fm \in Surjection(memberships, M) /\ ft \in Surjection(tombstones, T)
      BY DEF Surjection
    <3> HIDE DEF fm, ft, M, T
    <3>2. IsFiniteSet(M) /\ IsFiniteSet(T)
      BY <3>1, FS_Surjection
    <3> QED BY <3>2 DEF M, T
  <2> HIDE DEF R, TR
  <2> QED BY <1>1, <1>2, <2>1, FS_Subset
<1>4. HeldOnce'
  <2>1. ASSUME NEW m \in memberships, NEW n \in memberships, R(m).feed = R(n).feed, R(m).v = R(n).v
        PROVE  R(m) = R(n)
    <3>1. m.v = n.v
      BY <1>2, <2>1
    <3>2. m.feed = n.feed
      BY <1>1, <1>2, <2>1, <3>1 DEF SharedVersions, Members
    <3> QED BY <3>1, <3>2 DEF HeldOnce
  <2> HIDE DEF R
  <2> QED BY <1>1, <2>1 DEF HeldOnce
<1>5. HeldHasData'
  <2> HIDE DEF R
  <2> QED BY <1>1, <1>2 DEF HeldHasData
<1>6. ShownWithConsent'
  <2>1. SUFFICES ASSUME NEW m \in memberships, R(m).feed \in GatedNames, ~R(m).pending
                 PROVE  <<R(m).feed, R(m).v>> \in consented'
    BY <1>1 DEF ShownWithConsent
  <2>2. CASE m.feed # from
    BY <1>1, <2>1, <2>2 DEF ShownWithConsent
  <2>3. CASE m.feed = from
    <3>1. ~m.pending /\ ~hold /\ R(m).feed = to /\ R(m).v = m.v /\ m \in Members(from) /\ to \in GatedNames
      BY <2>1, <2>3 DEF Members
    <3> DEFINE P == {n \in Members(from) : n.pending}
    <3>2. StoredFeed(from).versions - StoredFeed(from).pending > 0
      <4>1. IsFiniteSet(Members(from)) /\ Cardinality(Members(from)) \in Nat
        BY FiniteRows DEF Members
      <4>2. P \in SUBSET (Members(from) \ {m})
        BY <3>1
      <4>3. /\ IsFiniteSet(Members(from) \ {m}) /\ Cardinality(Members(from) \ {m}) = Cardinality(Members(from)) - 1
        BY <3>1, <4>1, FS_RemoveElement
      <4>4. Cardinality(P) <= Cardinality(Members(from)) - 1 /\ Cardinality(P) \in Nat
        BY <4>2, <4>3, FS_Subset, FS_CardinalityType
      <4> QED BY <4>1, <4>4 DEF StoredFeed
    <3>3. keep
      BY <3>1, <3>2 DEF Rename
    <3> QED BY <1>1, <3>1, <3>3
  <2> QED BY <2>2, <2>3
<1> QED BY <1>1, <1>3, <1>4, <1>5, <1>6, ServerKeeps

\* A removal starts with all that the dry run told still to remove.
LEMMA StartRemoveKeeps ==
    ASSUME CommandInv, NEW f \in FeedNames, StartRemove(f)
    PROVE  CommandInv'
<1> USE DEF CommandInv
<1> DEFINE told == StoredFeed(f)
           c == [IdleCommand EXCEPT !.pc = "next", !.feed = {f}, !.left = {m.v : m \in Members(f)}, !.told = {told}]
<1>1. /\ dataLock' = "command" /\ command' = c
      /\ UNCHANGED <<memberships, tombstones, packages, payloads, consented>>
  BY DEF StartRemove, MayStart, RefuseWhileServing, dataVars
<1>2. /\ told \in Tolds
      /\ told.versions = Cardinality(Members(f)) /\ told.exclusive = Cardinality(Exclusive(f))
      /\ Cardinality(Members(f)) \in Nat /\ Cardinality(Exclusive(f)) \in Nat
  BY CountsAreNumbers
<1> HIDE DEF told
<1>3. {m.v : m \in Members(f)} \in SUBSET StoredVersions
  BY DEF Members, Rows
<1>4. /\ c \in Commands
      /\ c.pc = "next" /\ c.feed = {f} /\ c.left = {m.v : m \in Members(f)} /\ c.told = {told}
      /\ c.versions = 0 /\ c.purged = 0
  BY <1>2, <1>3 DEF IdleCommand, Commands, Tolds
<1> HIDE DEF c
<1>5. Members(f)' = Members(f) /\ Exclusive(f)' = Exclusive(f) /\ InHand' = 0
  BY <1>1, <1>4 DEF Members, Exclusive, FeedCount, InHand
<1>6. told' = told
  BY <1>1 DEF told, StoredFeed, Members, FeedCount
<1>7. Removal(f, told)'
  BY <1>1, <1>2, <1>4, <1>5, <1>6 DEF Removal
<1>8. CommandOK'
  BY <1>1, <1>4, <1>6, <1>7 DEF CommandOK
<1> QED BY <1>1, <1>8 DEF HeldOnce, HeldHasData, ShownWithConsent

\* The command and what it removes, at any of its steps.
LEMMA Running ==
    ASSUME CommandInv, command.pc # "idle"
    PROVE  /\ dataLock = "command"
           /\ \E f \in FeedNames : \E told \in Tolds :
                 Removal(f, told)
BY DEF CommandInv, CommandOK, Commands

\* A step of the command that keeps the lock.
LEMMA RunsOn ==
    ASSUME CommandInv, NEW f \in FeedNames,
           NEW told \in Tolds,
           dataLock = "command", UNCHANGED <<dataLock, tombstones>>, memberships' \in SUBSET memberships,
           command' \in Commands,
           Removal(f, told)', HeldHasData', ShownWithConsent'
    PROVE  CommandInv'
<1> USE DEF CommandInv
<1>1. memberships' \in SUBSET Rows /\ IsFiniteSet(memberships') /\ IsFiniteSet(tombstones')
  BY FiniteRows
<1>2. HeldOnce'
  BY DEF HeldOnce
<1>3. told \in command'.told
  BY DEF Removal
<1>4. CommandOK'
  BY <1>3 DEF CommandOK
<1> QED BY <1>1, <1>2, <1>4

\* A version removed from the feed is counted, and one less is left.
LEMMA RemoveMembershipKeeps ==
    ASSUME CommandInv, NEW f \in FeedNames, NEW v \in StoredVersions, RemoveMembership(f, v)
    PROVE  CommandInv'
<1> USE DEF CommandInv
<1>1. /\ command.pc = "next" /\ f \in command.feed /\ v \in command.left
      /\ memberships' = memberships \ Membership(f, v) /\ consented' = consented \ {<<f, v>>}
      /\ command' = [command EXCEPT !.pc = "count", !.v = {v}, !.left = @ \ {v},
                                    !.versions = @ + Cardinality(Membership(f, v))]
      /\ UNCHANGED <<dataLock, tombstones, packages, payloads>>
  BY DEF RemoveMembership
<1>2. PICK told \in Tolds : Removal(f, told)
  BY <1>1, Running DEF Removal
<1>3. PICK m \in memberships : m.feed = f /\ m.v = v
  BY <1>1, <1>2 DEF Removal, Members
<1>4. Membership(f, v) = {m} /\ Cardinality({m}) = 1 /\ memberships' = memberships \ {m}
  BY <1>1, <1>3, FS_Singleton DEF Membership, HeldOnce
<1>5. /\ command.versions \in Nat /\ command.purged \in Nat /\ command.told = {told} /\ command.feed = {f}
      /\ command.left = {n.v : n \in Members(f)} /\ InHand = 0
      /\ command.versions + Cardinality(Members(f)) = told.versions
      /\ command.purged + Cardinality(Exclusive(f)) = told.exclusive
  <2>1. InHand = 0
    BY <1>1 DEF InHand
  <2> QED BY <1>2, <2>1, CountsAreNumbers DEF Removal
<1>6. /\ command' \in Commands
      /\ command'.pc = "count" /\ command'.v = {v} /\ command'.left = command.left \ {v}
      /\ command'.versions = command.versions + 1 /\ command'.purged = command.purged
      /\ command'.feed = {f} /\ command'.told = {told}
  <2>1. command \in Commands
    BY DEF CommandOK
  <2>2. command' = [command EXCEPT !.pc = "count", !.v = {v}, !.left = @ \ {v}, !.versions = @ + 1]
    BY <1>1, <1>4
  <2>3. /\ command'.pc = "count" /\ command'.v = {v} /\ command'.left = command.left \ {v}
        /\ command'.versions = command.versions + 1 /\ command'.purged = command.purged
        /\ command'.feed = {f} /\ command'.told = {told}
    BY <1>5, <2>1, <2>2 DEF Commands
  <2>4. command' \in Commands
    <3> DEFINE n == command.versions + 1
               left == command.left \ {v}
    <3>1. n \in Nat /\ left \in SUBSET StoredVersions /\ {v} \in SUBSET StoredVersions
      BY <1>5, <2>1 DEF Commands
    <3>2. command' = [command EXCEPT !.pc = "count", !.v = {v}, !.left = left, !.versions = n]
      BY <2>2
    <3> HIDE DEF n, left
    <3> QED BY <2>1, <3>1, <3>2 DEF Commands
  <2> QED BY <2>3, <2>4
<1>7. Members(f)' = Members(f) \ {m} /\ m \in Members(f)
  BY <1>3, <1>4 DEF Members
<1>8. command'.left = {n.v : n \in Members(f)'}
  <2>1. \A n \in Members(f) : n # m => n.v # v
    BY <1>3 DEF Members, HeldOnce
  <2> QED BY <1>3, <1>5, <1>6, <1>7, <2>1
<1>9. /\ Cardinality(Members(f)') = Cardinality(Members(f)) - 1
      /\ IsFiniteSet(Members(f)) /\ Cardinality(Members(f)) \in Nat
      /\ IsFiniteSet(Exclusive(f)) /\ Cardinality(Exclusive(f)) \in Nat
  BY <1>7, CountsAreNumbers, FS_RemoveElement
<1>10. \A w : FeedCount(w)' = IF w = v THEN FeedCount(w) - 1 ELSE FeedCount(w)
  BY <1>3, <1>4, CountDrops
<1>11. FeedCount(v) \in Nat /\ FeedCount(v) # 0
  BY <1>3, CountIsZero
<1>12. Exclusive(f)' = Exclusive(f) \ {m}
  <2>1. \A n \in Members(f) : n # m => n.v # v
    BY <1>3 DEF Members, HeldOnce
  <2>2. \A n \in Members(f)' : FeedCount(n.v)' = FeedCount(n.v)
    BY <1>7, <1>10, <2>1
  <2>3. Exclusive(f)' = {n \in Members(f)' : FeedCount(n.v)' = 1}
    BY DEF Exclusive
  <2> QED BY <1>7, <2>2, <2>3 DEF Exclusive
<1>13. Cardinality(Exclusive(f)') + InHand' = Cardinality(Exclusive(f)) /\ Cardinality(Exclusive(f)') \in Nat /\ InHand' \in {0, 1}
  <2>0. InHand' = IF FeedCount(v)' = 0 THEN 1 ELSE 0
    BY <1>6 DEF InHand
  <2>1. CASE FeedCount(v) = 1
    <3>1. m \in Exclusive(f)
      BY <1>3, <1>7, <2>1 DEF Exclusive
    <3>2. Cardinality(Exclusive(f)') = Cardinality(Exclusive(f)) - 1 /\ Cardinality(Exclusive(f)') \in Nat
      BY <1>9, <1>12, <3>1, FS_RemoveElement, FS_CardinalityType
    <3>3. InHand' = 1
      BY <1>10, <2>0, <2>1
    <3> QED BY <1>9, <3>2, <3>3
  <2>2. CASE FeedCount(v) # 1
    <3>1. m \notin Exclusive(f)
      BY <1>3, <2>2 DEF Exclusive
    <3>2. Exclusive(f)' = Exclusive(f)
      BY <1>12, <3>1
    <3>3. InHand' = 0
      BY <1>10, <1>11, <2>0, <2>2
    <3> QED BY <1>9, <3>2, <3>3
  <2> QED BY <2>1, <2>2
<1>14. v \in packages
  BY <1>3 DEF HeldHasData
<1>15. Removal(f, told)'
  <2>1. command'.versions + Cardinality(Members(f)') = told.versions
    BY <1>5, <1>6, <1>9
  <2>2. command'.purged + Cardinality(Exclusive(f)') + InHand' = told.exclusive
    BY <1>5, <1>6, <1>9, <1>13
  <2>3. command'.versions \in Nat /\ command'.purged \in Nat
    BY <1>5, <1>6
  <2> QED BY <1>1, <1>6, <1>8, <1>14, <2>1, <2>2, <2>3 DEF Removal
<1>16. HeldHasData' /\ ShownWithConsent'
  <2>1. \A n \in memberships' : n \in memberships /\ ~(n.feed = f /\ n.v = v)
    BY <1>1 DEF Membership
  <2>2. HeldHasData'
    BY <1>1, <2>1 DEF HeldHasData
  <2>3. ASSUME NEW n \in memberships', n.feed \in GatedNames, ~n.pending PROVE <<n.feed, n.v>> \in consented'
    BY <1>1, <2>1, <2>3 DEF ShownWithConsent
  <2> QED BY <2>2, <2>3 DEF ShownWithConsent
<1>17. dataLock = "command"
  BY <1>1, Running
<1> QED BY <1>1, <1>6, <1>15, <1>16, <1>17, RunsOn

\* Nothing is held of a version at hand that no feed has, so a step that changes
\* only the data of that version leaves every count as it is.
LEMMA CountFeedsKeeps ==
    ASSUME CommandInv, NEW v \in StoredVersions, CountFeeds(v)
    PROVE  CommandInv'
<1> USE DEF CommandInv
<1> DEFINE p == IF FeedCount(v) = 0 /\ v \in packages THEN "files" ELSE "next"
<1>1. /\ command.pc = "count" /\ v \in command.v /\ command' = [command EXCEPT !.pc = p]
      /\ UNCHANGED <<dataLock, memberships, tombstones, packages, payloads, consented>>
  BY DEF CountFeeds, dataVars
<1>2. PICK f \in FeedNames, told \in Tolds : Removal(f, told)
  BY <1>1, Running
<1>3. command.v = {v} /\ v \in packages
  BY <1>1, <1>2 DEF Removal
<1>4. /\ command' \in Commands /\ command'.pc = (IF FeedCount(v) = 0 THEN "files" ELSE "next") /\ command'.v = command.v
      /\ command'.feed = command.feed /\ command'.told = command.told /\ command'.left = command.left
      /\ command'.versions = command.versions /\ command'.purged = command.purged
  BY <1>1, <1>3 DEF CommandOK, Commands
<1>5. Members(f)' = Members(f) /\ Exclusive(f)' = Exclusive(f) /\ \A w : FeedCount(w)' = FeedCount(w)
  BY <1>1 DEF Members, Exclusive, FeedCount
<1>6. InHand' = InHand
  BY <1>1, <1>3, <1>4, <1>5 DEF InHand
<1>7. Removal(f, told)'
  BY <1>1, <1>2, <1>3, <1>4, <1>5, <1>6 DEF Removal
<1>8. HeldHasData' /\ ShownWithConsent' /\ dataLock = "command"
  BY <1>1, Running DEF HeldHasData, ShownWithConsent
<1> QED BY <1>1, <1>4, <1>7, <1>8, RunsOn

\* Only the files of a version no feed has are purged.
LEMMA PurgeFilesKeeps ==
    ASSUME CommandInv, NEW v \in StoredVersions, PurgeFiles(v)
    PROVE  CommandInv'
<1> USE DEF CommandInv
<1>1. /\ command.pc = "files" /\ v \in command.v /\ command' = [command EXCEPT !.pc = "row"]
      /\ payloads' = payloads \ {v}
      /\ UNCHANGED <<dataLock, memberships, tombstones, packages, consented>>
  BY DEF PurgeFiles
<1>2. PICK f \in FeedNames, told \in Tolds : Removal(f, told)
  BY <1>1, Running
<1>3. command.v = {v} /\ v \in packages /\ FeedCount(v) = 0
  BY <1>1, <1>2 DEF Removal
<1>4. /\ command' \in Commands /\ command'.pc = "row" /\ command'.v = command.v
      /\ command'.feed = command.feed /\ command'.told = command.told /\ command'.left = command.left
      /\ command'.versions = command.versions /\ command'.purged = command.purged
  BY <1>1, <1>3 DEF CommandOK, Commands
<1>5. Members(f)' = Members(f) /\ Exclusive(f)' = Exclusive(f) /\ \A w : FeedCount(w)' = FeedCount(w)
  BY <1>1 DEF Members, Exclusive, FeedCount
<1>6. InHand' = InHand
  BY <1>1, <1>3, <1>4, <1>5 DEF InHand
<1>7. Removal(f, told)'
  BY <1>1, <1>2, <1>3, <1>4, <1>5, <1>6 DEF Removal
<1>8. HeldHasData' /\ ShownWithConsent' /\ dataLock = "command"
  <2>1. \A m \in memberships : m.v # v
    BY <1>3, CountIsZero
  <2> QED BY <1>1, <2>1, Running DEF HeldHasData, ShownWithConsent
<1> QED BY <1>1, <1>4, <1>7, <1>8, RunsOn

\* Only the row of a version no feed has is purged.
LEMMA PurgeRowKeeps ==
    ASSUME CommandInv, NEW v \in StoredVersions, PurgeRow(v)
    PROVE  CommandInv'
<1> USE DEF CommandInv
<1>1. /\ command.pc = "row" /\ v \in command.v /\ command' = [command EXCEPT !.pc = "next", !.purged = @ + 1]
      /\ packages' = packages \ {v} /\ memberships' = {m \in memberships : m.v # v}
      /\ UNCHANGED <<dataLock, tombstones, payloads, consented>>
  BY DEF PurgeRow
<1>2. PICK f \in FeedNames, told \in Tolds : Removal(f, told)
  BY <1>1, Running
<1>3. command.v = {v} /\ FeedCount(v) = 0 /\ command.purged \in Nat
  BY <1>1, <1>2 DEF Removal
<1>4. /\ command' \in Commands /\ command'.pc = "next"
      /\ command'.feed = command.feed /\ command'.told = command.told /\ command'.left = command.left
      /\ command'.versions = command.versions /\ command'.purged = command.purged + 1
  <2>1. command \in Commands /\ command.purged + 1 \in Nat
    BY <1>3 DEF CommandOK
  <2> QED BY <1>1, <2>1 DEF Commands
<1>5. memberships' = memberships /\ \A m \in memberships : m.v # v
  BY <1>1, <1>3, CountIsZero
<1>6. Members(f)' = Members(f) /\ Exclusive(f)' = Exclusive(f) /\ InHand = 1 /\ InHand' = 0
  BY <1>1, <1>4, <1>5 DEF Members, Exclusive, FeedCount, InHand
<1>7. Removal(f, told)'
  <2>1. /\ command.versions \in Nat /\ command.purged + Cardinality(Exclusive(f)) + 1 = told.exclusive
        /\ Cardinality(Exclusive(f)) \in Nat
    BY <1>2, <1>6, CountsAreNumbers DEF Removal
  <2>2. command'.purged + Cardinality(Exclusive(f)') + InHand' = told.exclusive /\ command'.purged \in Nat
    BY <1>3, <1>4, <1>6, <2>1
  <2> QED BY <1>2, <1>4, <1>6, <2>2 DEF Removal
<1>8. HeldHasData' /\ ShownWithConsent' /\ dataLock = "command"
  BY <1>1, <1>5, Running DEF HeldHasData, ShownWithConsent
<1> QED BY <1>1, <1>4, <1>5, <1>7, <1>8, RunsOn

\* The command ends, done or not.
LEMMA EndKeeps ==
    ASSUME CommandInv, CommandDies \/ \E f \in FeedNames : FinishRemove(f)
    PROVE  CommandInv'
<1> USE DEF CommandInv
<1>1. command' = IdleCommand /\ UNCHANGED <<memberships, packages, payloads, consented>> /\ tombstones' \in SUBSET tombstones
  BY DEF CommandDies, FinishRemove, dataVars
<1>2. CommandOK' /\ IsFiniteSet(tombstones')
  BY <1>1, FS_Subset DEF CommandOK, IdleCommand, Commands
<1> QED BY <1>1, <1>2 DEF HeldOnce, HeldHasData, ShownWithConsent

---------------------------------------------------------------------------
\* The invariant

\* The invariant holds at the start.
LEMMA CommandStart ==
    ASSUME CommandInit
    PROVE  CommandInv
BY FS_EmptySet DEF CommandInit, CommandInv, HeldOnce, HeldHasData, ShownWithConsent, CommandOK, IdleCommand, Commands

\* Every step keeps the invariant.
LEMMA CommandStep ==
    ASSUME CommandInv, [CommandNext]_commandVars
    PROVE  CommandInv'
<1>1. CASE UNCHANGED commandVars
  <2>1. UNCHANGED <<dataLock, memberships, tombstones, packages, payloads, command, consented>>
    BY <1>1 DEF commandVars
  <2>2. InHand' = InHand /\ \A f : Members(f)' = Members(f) /\ Exclusive(f)' = Exclusive(f)
    BY <2>1 DEF InHand, Members, Exclusive, FeedCount
  <2>3. \A f, told : Removal(f, told) => Removal(f, told)'
    BY <2>1, <2>2 DEF Removal, FeedCount
  <2> QED BY <2>1, <2>3 DEF CommandInv, HeldOnce, HeldHasData, ShownWithConsent, CommandOK
<1> QED BY <1>1, PushKeeps, DeleteKeeps, ApproveKeeps, OtherServingKeeps, RenameKeeps, StartRemoveKeeps,
           RemoveMembershipKeeps, CountFeedsKeeps, PurgeFilesKeeps, PurgeRowKeeps, EndKeeps, Zenon DEF CommandNext

\* A rename decides what is deleted in its own transaction.
LEMMA RenameDecides ==
    ASSUME NEW from \in FeedNames, NEW to \in FeedNames, NEW hold \in BOOLEAN, NEW keep \in BOOLEAN,
           NEW v \in StoredVersions, Rename(from, to, hold, keep)
    PROVE  LET there == \E m \in memberships' : m.feed = to /\ m.v = v IN
           /\ ~(<<to, v>> \in tombstones' /\ there)
           /\ (<<from, v>> \in tombstones \/ <<to, v>> \in tombstones) /\ ~there => <<to, v>> \in tombstones'
<1> DEFINE T == {IF t[1] = from THEN <<to, t[2]>> ELSE t : t \in tombstones}
<1>1. from # to /\ tombstones' = {t \in T : ~\E m \in memberships' : t[1] = to /\ m.feed = to /\ m.v = t[2]}
  BY DEF Rename, MayStart, RenamedTombstones
<1>2. <<to, v>>[1] = to /\ <<to, v>>[2] = v /\ <<from, v>>[1] = from /\ <<from, v>>[2] = v
  OBVIOUS
<1>3. <<from, v>> \in tombstones \/ <<to, v>> \in tombstones => <<to, v>> \in T
  BY <1>1, <1>2
<1> HIDE DEF T
<1> QED BY <1>1, <1>2, <1>3

\* A removal that runs through has removed what was told.
LEMMA FinishIsAsTold ==
    ASSUME CommandInv, NEW f \in FeedNames, FinishRemove(f)
    PROVE  /\ \A told \in command.told : command.versions = told.versions /\ command.purged = told.exclusive
           /\ Members(f) = {}
<1>1. command.pc = "next" /\ command.left = {} /\ f \in command.feed
  BY DEF FinishRemove
<1>2. PICK told \in Tolds : Removal(f, told)
  BY <1>1, Running DEF Removal
<1>3. Members(f) = {}
  <2>1. command.left = {m.v : m \in Members(f)}
    BY <1>2 DEF Removal
  <2>2. \A m \in Members(f) : m.v \in command.left
    BY <2>1
  <2> QED BY <1>1, <2>2
<1>4. Cardinality(Members(f)) = 0 /\ Cardinality(Exclusive(f)) = 0 /\ InHand = 0
  BY <1>1, <1>3, FS_EmptySet DEF Exclusive, InHand
<1> QED BY <1>2, <1>3, <1>4 DEF Removal

---------------------------------------------------------------------------

\* The offline commands do to feeds what they say: no version a feed holds loses its
\* row or file wherever a removal stops, a rename approves nothing and brings back
\* nothing that was deleted, and a removal removes what stored_feeds told.
THEOREM CommandsKeep == CommandSpec => CommandsKeepFeeds
<1>1. CommandInit => CommandInv
  BY CommandStart
<1>2. CommandInv /\ [CommandNext]_commandVars => CommandInv'
  BY CommandStep
<1>3. CommandInv => HeldHasData /\ ShownWithConsent
  BY DEF CommandInv
<1> DEFINE Decides ==
        spent'.commands # spent.commands =>
          \A from, to \in FeedNames, hold, keep \in BOOLEAN, v \in StoredVersions : Rename(from, to, hold, keep) =>
              LET there == \E m \in memberships' : m.feed = to /\ m.v = v IN
              /\ ~(<<to, v>> \in tombstones' /\ there)
              /\ (<<from, v>> \in tombstones \/ <<to, v>> \in tombstones) /\ ~there => <<to, v>> \in tombstones'
           AsTold ==
        command' # command => \A f \in FeedNames : FinishRemove(f) =>
          /\ \A told \in command.told : command.versions = told.versions /\ command.purged = told.exclusive
          /\ Members(f) = {}
<1>4. CommandInv /\ [CommandNext]_commandVars => [Decides]_commandVars
  BY RenameDecides
<1>5. CommandInv /\ [CommandNext]_commandVars => [AsTold]_commandVars
  BY FinishIsAsTold
<1>6. RenameKeepsDeletions <=> [][Decides]_commandVars
  BY DEF RenameKeepsDeletions
<1>7. RemovesAsTold <=> [][AsTold]_commandVars
  BY DEF RemovesAsTold
<1> HIDE DEF Decides, AsTold
<1> QED BY <1>1, <1>2, <1>3, <1>4, <1>5, <1>6, <1>7, PTL DEF CommandSpec, CommandsKeepFeeds

---------------------------------------------------------------------------
\* Importing from another feed

Failures == ({"page"} \X {0}) \cup ({"id"} \X Ids) \cup ({"version"} \X Versions)
Items == [v : Versions, at : {"index", "unlist"}]
Runs ==
    [pc : {"none", "list", "transfer", "ended"}, todo : SUBSET Ids, work : SUBSET Versions, flight : SUBSET Items,
     failed : SUBSET Failures, imported : SUBSET Versions, skipped : SUBSET Versions, workers : Concurrencies \cup {1}]

MigrateTypeOK ==
    /\ copies \in [Versions -> SUBSET [listed : BOOLEAN, by : {"run", "push"}]]
    /\ run \in Runs
    /\ run.pc \in {"transfer", "ended"} => run.todo = {}
    /\ run.pc = "ended" => run.work = {} /\ run.flight = {}

\* A version the run has not copied and nobody deleted is on its way, or the run has
\* something to report.
OnItsWay(v) ==
    run.pc # "none" /\ run.failed = {} /\ Source[v].parses =>
        \/ copies[v] # {} \/ v \in deleted
        \/ Source[v].id \in run.todo \/ v \in run.work \/ [v |-> v, at |-> "index"] \in run.flight

\* A version the run stored is unlisted as at the source, is about to be, or is reported.
UnlistedSoon(v) ==
    v \in run.imported /\ Source[v].unlisted /\ <<"version", v>> \notin run.failed =>
        [v |-> v, at |-> "unlist"] \in run.flight \/ \A m \in copies[v] : m.by = "run" => ~m.listed

MigrateInv == MigrateTypeOK /\ \A v \in Versions : OnItsWay(v) /\ UnlistedSoon(v)

---------------------------------------------------------------------------
LEMMA NoRunIs == NoRun \in Runs
  BY DEF NoRun, Runs

LEMMA MigrateBegins == MigrateInit => MigrateInv
  BY NoRunIs DEF MigrateInit, MigrateInv, MigrateTypeOK, OnItsWay, UnlistedSoon, NoRun

\* A run begins with every id to list, or with a page to report (run).
LEMMA DiscoverKeeps ==
    ASSUME MigrateInv, Discover
    PROVE  MigrateInv'
<1>1. PICK n \in Concurrencies, missing \in SUBSET Ids :
         run' = [NoRun EXCEPT !.pc = "list", !.todo = Ids \ missing, !.workers = Workers(n),
                              !.failed = IF missing = {} THEN {} ELSE {<<"page", 0>>}]
  BY DEF Discover
<1> DEFINE told == IF missing = {} THEN {} ELSE {<<"page", 0>>}
<1>2. told \in SUBSET Failures /\ Workers(n) \in Concurrencies \cup {1}
  BY DEF Failures, Workers
<1>3. run' = [pc |-> "list", todo |-> Ids \ missing, work |-> {}, flight |-> {}, failed |-> told, imported |-> {},
              skipped |-> {}, workers |-> Workers(n)]
  BY <1>1 DEF NoRun
<1>4. missing # {} => told # {}
  OBVIOUS
<1> HIDE DEF told
<1>5. run' \in Runs
  BY <1>2, <1>3 DEF Runs
<1>6. UNCHANGED <<copies, deleted>>
  BY DEF Discover, Target
<1>7. MigrateTypeOK'
  BY <1>3, <1>5, <1>6 DEF MigrateInv, MigrateTypeOK
<1>8. ASSUME NEW v \in Versions PROVE OnItsWay(v)' /\ UnlistedSoon(v)'
  <2>1. Source[v].id \in Ids
    BY DEF Ids
  <2> QED BY <1>3, <1>4, <2>1 DEF OnItsWay, UnlistedSoon
<1> QED BY <1>7, <1>8 DEF MigrateInv

\* What the run lists is work, passed over for a reason, or reported (Lister::list).
LEMMA ListKeeps ==
    ASSUME MigrateInv, NEW id \in Ids, ListId(id)
    PROVE  MigrateInv'
<1> DEFINE good == {v \in OfId(id) : Source[v].parses}
           present == {v \in good : v \in deleted \/ (~Overwriting /\ copies[v] # {})}
<1>1. run \in Runs /\ run.pc = "list" /\ UNCHANGED <<copies, deleted>>
  BY DEF MigrateInv, MigrateTypeOK, ListId, Target
<1>2. good \subseteq Versions /\ present \subseteq Versions
  BY DEF OfId
<1>4. \A v \in Versions : Source[v].id = id /\ Source[v].parses => v \in good
  BY DEF OfId
<1>3. PICK seen \in SUBSET present :
      \/ run' = [run EXCEPT !.todo = run.todo \ {id}, !.work = run.work \cup (good \ seen), !.skipped = run.skipped \cup seen]
      \/ run' = [run EXCEPT !.todo = run.todo \ {id}, !.failed = run.failed \cup {<<"id", id>>}]
  BY DEF ListId
<1>5. seen \subseteq Versions /\ \A v \in seen : copies[v] # {} \/ v \in deleted
  BY <1>2, <1>3
<1> HIDE DEF good, present
<1>6. <<"id", id>> \in Failures
  BY DEF Failures
<1>7. /\ run' \in Runs /\ run'.pc = "list" /\ run'.todo = run.todo \ {id} /\ run.work \subseteq run'.work
      /\ UNCHANGED <<run.flight, run.imported>>
      /\ run.failed \subseteq run'.failed
      /\ good \ seen \subseteq run'.work \/ run'.failed # {}
  <2>1. CASE run' = [run EXCEPT !.todo = run.todo \ {id}, !.work = run.work \cup (good \ seen), !.skipped = run.skipped \cup seen]
    BY <1>1, <1>2, <1>5, <2>1 DEF Runs
  <2>2. CASE run' = [run EXCEPT !.todo = run.todo \ {id}, !.failed = run.failed \cup {<<"id", id>>}]
    <3> DEFINE told == run.failed \cup {<<"id", id>>}
    <3>1. told \in SUBSET Failures /\ told # {} /\ run.failed \subseteq told
      BY <1>1, <1>6 DEF Runs
    <3>2. run' = [run EXCEPT !.todo = run.todo \ {id}, !.failed = told]
      BY <2>2
    <3> HIDE DEF told
    <3> QED BY <1>1, <3>1, <3>2 DEF Runs
  <2> QED BY <1>3, <2>1, <2>2
<1>8. MigrateTypeOK'
  BY <1>1, <1>7 DEF MigrateInv, MigrateTypeOK
<1>9. ASSUME NEW v \in Versions PROVE OnItsWay(v)' /\ UnlistedSoon(v)'
  <2>1. OnItsWay(v) /\ UnlistedSoon(v)
    BY DEF MigrateInv
  <2>2. OnItsWay(v)'
    BY <1>1, <1>4, <1>5, <1>7, <2>1 DEF OnItsWay
  <2>3. UnlistedSoon(v)'
    BY <1>1, <1>7, <2>1 DEF UnlistedSoon
  <2> QED BY <2>2, <2>3
<1> QED BY <1>8, <1>9 DEF MigrateInv

\* Listing ends, a run ends or dies.
LEMMA RunMovesOn ==
    ASSUME MigrateInv, StartCopying \/ EndRun \/ InterruptRun
    PROVE  MigrateInv'
<1>1. run \in Runs /\ UNCHANGED <<copies, deleted>>
  BY DEF MigrateInv, MigrateTypeOK, StartCopying, EndRun, InterruptRun, Target
<1>2. CASE run' = NoRun
  BY <1>1, <1>2, NoRunIs DEF MigrateInv, MigrateTypeOK, OnItsWay, UnlistedSoon, NoRun
<1>3. CASE StartCopying \/ EndRun
  <2>1. PICK p \in {"transfer", "ended"} : run' = [run EXCEPT !.pc = p] /\ run.pc # "none"
    BY <1>3 DEF StartCopying, EndRun
  <2>2. /\ run' \in Runs /\ run'.pc = p
        /\ UNCHANGED <<run.todo, run.work, run.flight, run.failed, run.imported>>
    BY <1>1, <2>1 DEF Runs
  <2>3. run.todo = {} /\ (p = "ended" => run.work = {} /\ run.flight = {})
    BY <1>1, <1>3, <2>2 DEF StartCopying, EndRun, MigrateInv, MigrateTypeOK, Runs
  <2> QED BY <1>1, <2>1, <2>2, <2>3 DEF MigrateInv, MigrateTypeOK, OnItsWay, UnlistedSoon
<1> QED BY <1>2, <1>3 DEF InterruptRun

\* An item is downloaded, stored, unlisted, or reported (migrate_one).
LEMMA ItemKeeps ==
    ASSUME MigrateInv, NEW v \in Versions, Download(v) \/ IndexItem(v) \/ UnlistItem(v)
    PROVE  MigrateInv'
<1> DEFINE here == [v |-> v, at |-> "index"]
           then == [v |-> v, at |-> "unlist"]
           flies == IF Source[v].unlisted THEN {then} ELSE {}
           told == run.failed \cup {<<"version", v>>}
<1>0. here \in Items /\ then \in Items /\ flies \in SUBSET Items /\ <<"version", v>> \in Failures /\ here # then
  BY DEF Items, Failures
<1>1. run \in Runs /\ copies \in [Versions -> SUBSET [listed : BOOLEAN, by : {"run", "push"}]] /\ UNCHANGED deleted
  BY DEF MigrateInv, MigrateTypeOK, Download, IndexItem, UnlistItem, Target
<1>2. ASSUME NEW w \in Versions PROVE OnItsWay(w) /\ UnlistedSoon(w)
  BY DEF MigrateInv
<1>3. run.pc = "transfer" \/ run.pc # "ended"
  BY <1>0, <1>1 DEF Download, IndexItem, UnlistItem, MigrateInv, MigrateTypeOK, Runs
<1>4. run.pc # "ended"
  BY <1>0, <1>1 DEF Download, IndexItem, UnlistItem, MigrateInv, MigrateTypeOK
<1>5. CASE Download(v)
  <2>1. \/ run' = [run EXCEPT !.work = run.work \ {v}, !.flight = run.flight \cup {here}]
        \/ run' = [run EXCEPT !.work = run.work \ {v}, !.failed = run.failed \cup {<<"version", v>>}]
    BY <1>5 DEF Download
  <2>2. UNCHANGED copies
    BY <1>5 DEF Download, Target
  <2> HIDE DEF here, then, flies
  <2>3. /\ run' \in Runs /\ UNCHANGED <<run.pc, run.todo, run.imported>> /\ run'.work = run.work \ {v}
        /\ run.failed \subseteq run'.failed /\ run.flight \subseteq run'.flight
        /\ here \in run'.flight \/ run'.failed # {}
    <3>1. CASE run' = [run EXCEPT !.work = run.work \ {v}, !.flight = run.flight \cup {here}]
      BY <1>0, <1>1, <3>1 DEF Runs
    <3>2. CASE run' = [run EXCEPT !.work = run.work \ {v}, !.failed = run.failed \cup {<<"version", v>>}]
      <4>1. told \in SUBSET Failures /\ told # {} /\ run.failed \subseteq told
        BY <1>0, <1>1 DEF Runs
      <4>2. run' = [run EXCEPT !.work = run.work \ {v}, !.failed = told]
        BY <3>2
      <4> HIDE DEF told
      <4> QED BY <1>1, <4>1, <4>2 DEF Runs
    <3> QED BY <2>1, <3>1, <3>2
  <2>4. MigrateTypeOK'
    BY <1>4, <2>2, <2>3 DEF MigrateInv, MigrateTypeOK
  <2>5. ASSUME NEW w \in Versions PROVE OnItsWay(w)'
    BY <1>1, <1>2, <2>2, <2>3 DEF OnItsWay, here
  <2>6. ASSUME NEW w \in Versions PROVE UnlistedSoon(w)'
    BY <1>2, <2>2, <2>3 DEF UnlistedSoon
  <2> QED BY <2>4, <2>5, <2>6 DEF MigrateInv
<1>6. CASE IndexItem(v)
  <2>1. CASE copies' = [copies EXCEPT ![v] = {[listed |-> TRUE, by |-> "run"]}]
             /\ run' = [run EXCEPT !.imported = run.imported \cup {v}, !.flight = Landed(v, flies)]
    <3>1. run' = [run EXCEPT !.imported = run.imported \cup {v}, !.flight = (run.flight \ {here}) \cup flies]
      BY <2>1 DEF Landed
    <3>2. Source[v].unlisted => then \in flies
      OBVIOUS
    <3> HIDE DEF here, then, flies
    <3>3. /\ run' \in Runs /\ UNCHANGED <<run.pc, run.todo, run.work, run.failed>>
          /\ run'.imported = run.imported \cup {v} /\ run'.flight = (run.flight \ {here}) \cup flies
      BY <1>0, <1>1, <3>1 DEF Runs
    <3>4. copies' \in [Versions -> SUBSET [listed : BOOLEAN, by : {"run", "push"}]] /\ copies'[v] # {}
          /\ \A w \in Versions : w # v => copies'[w] = copies[w]
      <4>1. {[listed |-> TRUE, by |-> "run"]} \in SUBSET [listed : BOOLEAN, by : {"run", "push"}]
        OBVIOUS
      <4> QED BY <1>1, <2>1, <4>1
    <3>5. MigrateTypeOK'
      BY <1>4, <3>3, <3>4 DEF MigrateInv, MigrateTypeOK
    <3>6. ASSUME NEW w \in Versions PROVE OnItsWay(w)'
      <4>1. w # v => [v |-> w, at |-> "index"] # here
        BY DEF here
      <4> QED BY <1>1, <1>2, <3>3, <3>4, <4>1 DEF OnItsWay
    <3>7. ASSUME NEW w \in Versions PROVE UnlistedSoon(w)'
      <4>1. [v |-> w, at |-> "unlist"] # here /\ (w = v => [v |-> w, at |-> "unlist"] = then)
        BY DEF here, then
      <4> QED BY <1>2, <3>2, <3>3, <3>4, <4>1 DEF UnlistedSoon
    <3> QED BY <3>5, <3>6, <3>7 DEF MigrateInv
  <2>2. CASE /\ UNCHANGED copies
             /\ \/ copies[v] # {} /\ run' = [run EXCEPT !.skipped = run.skipped \cup {v}, !.flight = Landed(v, {})]
                \/ run' = [run EXCEPT !.failed = run.failed \cup {<<"version", v>>}, !.flight = Landed(v, {})]
    <3>1. Landed(v, {}) = run.flight \ {here}
      BY DEF Landed
    <3> HIDE DEF here, then, flies
    <3>2. /\ run' \in Runs /\ UNCHANGED <<run.pc, run.todo, run.work, run.imported>>
          /\ run'.flight = run.flight \ {here} /\ run.failed \subseteq run'.failed
          /\ copies[v] # {} \/ run'.failed # {}
      <4>1. CASE copies[v] # {} /\ run' = [run EXCEPT !.skipped = run.skipped \cup {v}, !.flight = run.flight \ {here}]
        BY <1>1, <4>1 DEF Runs
      <4>2. CASE run' = [run EXCEPT !.failed = told, !.flight = run.flight \ {here}]
        <5>1. told \in SUBSET Failures /\ told # {} /\ run.failed \subseteq told
          BY <1>0, <1>1 DEF Runs
        <5> HIDE DEF told
        <5> QED BY <1>1, <4>2, <5>1 DEF Runs
      <4> QED BY <2>2, <3>1, <4>1, <4>2
    <3>3. MigrateTypeOK'
      BY <1>4, <2>2, <3>2 DEF MigrateInv, MigrateTypeOK
    <3>4. ASSUME NEW w \in Versions PROVE OnItsWay(w)'
      <4>1. w # v => [v |-> w, at |-> "index"] # here
        BY DEF here
      <4> QED BY <1>1, <1>2, <2>2, <3>2, <4>1 DEF OnItsWay
    <3>5. ASSUME NEW w \in Versions PROVE UnlistedSoon(w)'
      <4>1. [v |-> w, at |-> "unlist"] # here
        BY DEF here
      <4> QED BY <1>2, <2>2, <3>2, <4>1 DEF UnlistedSoon
    <3> QED BY <3>3, <3>4, <3>5 DEF MigrateInv
  <2> QED BY <1>6, <2>1, <2>2 DEF IndexItem
<1>7. CASE UnlistItem(v)
  <2>1. CASE /\ copies' = [copies EXCEPT ![v] = {[m EXCEPT !.listed = FALSE] : m \in copies[v]}]
             /\ run' = [run EXCEPT !.flight = run.flight \ {then}]
    <3> HIDE DEF here, then, flies
    <3>1. /\ run' \in Runs /\ UNCHANGED <<run.pc, run.todo, run.work, run.failed, run.imported>>
          /\ run'.flight = run.flight \ {then}
      BY <1>0, <1>1, <2>1 DEF Runs
    <3>2. \A m \in [listed : BOOLEAN, by : {"run", "push"}] :
             [m EXCEPT !.listed = FALSE] \in [listed : BOOLEAN, by : {"run", "push"}] /\ ~[m EXCEPT !.listed = FALSE].listed
      OBVIOUS
    <3> DEFINE off == {[m EXCEPT !.listed = FALSE] : m \in copies[v]}
    <3>3. copies' \in [Versions -> SUBSET [listed : BOOLEAN, by : {"run", "push"}]]
          /\ (copies'[v] = {} <=> copies[v] = {}) /\ (\A m \in copies'[v] : ~m.listed)
          /\ \A w \in Versions : w # v => copies'[w] = copies[w]
      <4>1. copies[v] \subseteq [listed : BOOLEAN, by : {"run", "push"}]
        BY <1>1
      <4>2. off \in SUBSET [listed : BOOLEAN, by : {"run", "push"}] /\ \A m \in off : ~m.listed
        BY <3>2, <4>1
      <4>3. off = {} <=> copies[v] = {}
        OBVIOUS
      <4>4. copies' = [copies EXCEPT ![v] = off]
        BY <2>1
      <4> HIDE DEF off
      <4> QED BY <1>1, <4>2, <4>3, <4>4
    <3>4. MigrateTypeOK'
      BY <1>4, <3>1, <3>3 DEF MigrateInv, MigrateTypeOK
    <3>5. ASSUME NEW w \in Versions PROVE OnItsWay(w)'
      <4>1. [v |-> w, at |-> "index"] # then
        BY DEF then
      <4> QED BY <1>1, <1>2, <3>1, <3>3, <4>1 DEF OnItsWay
    <3>6. ASSUME NEW w \in Versions PROVE UnlistedSoon(w)'
      <4>1. w # v => [v |-> w, at |-> "unlist"] # then
        BY DEF then
      <4> QED BY <1>2, <3>1, <3>3, <4>1 DEF UnlistedSoon
    <3> QED BY <3>4, <3>5, <3>6 DEF MigrateInv
  <2>2. CASE /\ UNCHANGED copies
             /\ run' = [run EXCEPT !.flight = run.flight \ {then}, !.failed = run.failed \cup {<<"version", v>>}]
    <3> HIDE DEF here, then, flies
    <3>1. /\ run' \in Runs /\ UNCHANGED <<run.pc, run.todo, run.work, run.imported>>
          /\ run'.flight = run.flight \ {then} /\ run'.failed = run.failed \cup {<<"version", v>>}
      BY <1>0, <1>1, <2>2 DEF Runs
    <3>2. MigrateTypeOK'
      BY <1>4, <2>2, <3>1 DEF MigrateInv, MigrateTypeOK
    <3>3. ASSUME NEW w \in Versions PROVE OnItsWay(w)'
      BY <3>1 DEF OnItsWay
    <3>4. ASSUME NEW w \in Versions PROVE UnlistedSoon(w)'
      <4>1. w # v => [v |-> w, at |-> "unlist"] # then
        BY DEF then
      <4> QED BY <1>2, <2>2, <3>1, <4>1 DEF UnlistedSoon
    <3> QED BY <3>2, <3>3, <3>4 DEF MigrateInv
  <2> QED BY <1>7, <2>1, <2>2 DEF UnlistItem
<1> QED BY <1>5, <1>6, <1>7

\* A push beside the run brings a version, a delete leaves its tombstone.
LEMMA BesideKeeps ==
    ASSUME MigrateInv, NEW v \in Versions, PushBeside(v) \/ DeleteBeside(v)
    PROVE  MigrateInv'
<1>1. run \in Runs /\ copies \in [Versions -> SUBSET [listed : BOOLEAN, by : {"run", "push"}]] /\ UNCHANGED run
  BY DEF MigrateInv, MigrateTypeOK, PushBeside, DeleteBeside
<1>2. /\ copies' \in [Versions -> SUBSET [listed : BOOLEAN, by : {"run", "push"}]]
      /\ \A w \in Versions : w # v => copies'[w] = copies[w] /\ (w \in deleted => w \in deleted')
      /\ copies'[v] # {} \/ v \in deleted'
      /\ \A m \in copies'[v] : m.by = "push"
  <2>1. CASE PushBeside(v)
    <3> DEFINE new == {[listed |-> TRUE, by |-> "push"]}
    <3>1. new \in SUBSET [listed : BOOLEAN, by : {"run", "push"}] /\ new # {} /\ \A m \in new : m.by = "push"
      OBVIOUS
    <3>2. copies' = [copies EXCEPT ![v] = new] /\ deleted' = deleted \ {v}
      BY <2>1 DEF PushBeside
    <3> HIDE DEF new
    <3> QED BY <1>1, <3>1, <3>2
  <2>2. CASE DeleteBeside(v)
    BY <1>1, <2>2 DEF DeleteBeside
  <2> QED BY <2>1, <2>2
<1>3. ASSUME NEW w \in Versions PROVE OnItsWay(w)' /\ UnlistedSoon(w)'
  <2>1. OnItsWay(w) /\ UnlistedSoon(w)
    BY DEF MigrateInv
  <2> QED BY <1>1, <1>2, <2>1 DEF OnItsWay, UnlistedSoon
<1> QED BY <1>1, <1>2, <1>3 DEF MigrateInv, MigrateTypeOK

LEMMA MigrateStep == MigrateInv /\ [MigrateNext]_migrateVars => MigrateInv'
<1> SUFFICES ASSUME MigrateInv, [MigrateNext]_migrateVars PROVE MigrateInv'
  OBVIOUS
<1>1. CASE UNCHANGED migrateVars
  BY <1>1 DEF migrateVars, MigrateInv, MigrateTypeOK, OnItsWay, UnlistedSoon
<1>2. CASE MigrateNext
  BY <1>2, DiscoverKeeps, ListKeeps, RunMovesOn, ItemKeeps, BesideKeeps DEF MigrateNext, RunStep
<1> QED BY <1>1, <1>2

\* A run that ends with nothing to report has copied every version that can be copied or
\* found it deleted on purpose, and a version it stored is unlisted as at the source or
\* reported (is_complete, Lister::list, migrate_one), for any source, any concurrency and
\* whatever the server does beside it.
THEOREM ImportsTrue == MigrateSpec => []ImportsAreTrue
<1>1. MigrateInv => ImportsAreTrue
  <2> SUFFICES ASSUME MigrateInv PROVE CompleteIsWhole /\ UnlistedOrReported
    BY DEF ImportsAreTrue
  <2>1. ASSUME Complete, NEW v \in Versions, Source[v].parses PROVE copies[v] # {} \/ v \in deleted
    BY <2>1 DEF Complete, MigrateInv, MigrateTypeOK, OnItsWay
  <2>2. ASSUME run.pc = "ended", NEW v \in run.imported, Source[v].unlisted, <<"version", v>> \notin run.failed
        PROVE  \A m \in copies[v] : m.by = "run" => ~m.listed
    <3>1. v \in Versions /\ run.flight = {}
      BY <2>2 DEF MigrateInv, MigrateTypeOK, Runs
    <3> QED BY <2>2, <3>1 DEF MigrateInv, UnlistedSoon
  <2> QED BY <2>1, <2>2 DEF CompleteIsWhole, UnlistedOrReported
<1> QED BY <1>1, MigrateBegins, MigrateStep, PTL DEF MigrateSpec

---------------------------------------------------------------------------
\* Syncs of the internalizer

LEMMA LeastMember ==
    ASSUME NEW S \in SUBSET Nat, S # {}
    PROVE  Min(S) \in S /\ \A y \in S : Min(S) <= y
<1>1. PICK x \in S : \A y \in S : ~(<<y, x>> \in OpToRel(<, Nat))
  BY WFMin, NatLessThanWellFounded
<1>2. ASSUME NEW y \in S PROVE x <= y
  <2>1. ~(<<y, x>> \in {ss \in Nat \X Nat : ss[1] < ss[2]})
    BY <1>1 DEF OpToRel
  <2> QED BY <2>1
<1> QED BY <1>2 DEF Min

\* A finite set of numbers has a greatest: one with the fewest above it.
LEMMA GreatestMember ==
    ASSUME NEW S \in SUBSET Nat, S # {}, IsFiniteSet(S)
    PROVE  Max(S) \in S /\ \A y \in S : y <= Max(S)
<1> DEFINE Above(x) == {y \in S : y > x}
           counts == {Cardinality(Above(x)) : x \in S}
<1>1. ASSUME NEW x \in S PROVE IsFiniteSet(Above(x)) /\ Cardinality(Above(x)) \in Nat
  <2>1. IsFiniteSet(Above(x))
    BY FS_Subset
  <2> HIDE DEF Above
  <2> QED BY <2>1, FS_CardinalityType
<1>2. ASSUME NEW x \in S, NEW y \in S, y > x
      PROVE  Above(y) \in SUBSET Above(x) /\ Above(y) # Above(x)
  <2>1. x \in Nat /\ y \in Nat
    OBVIOUS
  <2>2. y \in Above(x) /\ y \notin Above(y)
    BY <1>2, <2>1
  <2>3. ASSUME NEW z \in Above(y) PROVE z \in Above(x)
    <3>1. z \in S /\ z \in Nat /\ z > y
      OBVIOUS
    <3> QED BY <1>2, <2>1, <3>1
  <2> QED BY <2>2, <2>3
<1> HIDE DEF Above
<1>3. counts \in SUBSET Nat /\ counts # {}
  BY <1>1
<1>4. Min(counts) \in counts /\ \A n \in counts : Min(counts) <= n
  BY <1>3, LeastMember
<1>5. PICK x \in S : Cardinality(Above(x)) = Min(counts)
  BY <1>4
<1>6. ASSUME NEW y \in S PROVE y <= x
  <2> SUFFICES ASSUME y > x PROVE FALSE
    BY <1>6
  <2>1. Cardinality(Above(y)) <= Cardinality(Above(x)) /\ Cardinality(Above(y)) # Cardinality(Above(x))
    BY <1>1, <1>2, FS_Subset
  <2>2. Cardinality(Above(x)) <= Cardinality(Above(y))
    BY <1>4, <1>5
  <2>3. Cardinality(Above(x)) \in Nat /\ Cardinality(Above(y)) \in Nat
    BY <1>1
  <2> QED BY <2>1, <2>2, <2>3
<1> QED BY <1>6 DEF Max

---------------------------------------------------------------------------
Statuses == {"none", "failed", "needs-override", "pending", "approved"}
Entries == [status : Statuses, print : Nat]
Books == [SyncVersions -> Entries]
Overs == [skip : SUBSET SyncVersions, print : Nat]
Trying == {"pipeline", "push", "look", "attach", "record"}
Syncs ==
    [pc : {"idle", "entry", "finish"} \cup Trying, state : Books, listed : SUBSET SyncVersions,
     served : SUBSET SUBSET SyncVersions, over : Overs, next : Nat \ {0}, handled : SUBSET SyncVersions,
     v : SyncVersions \cup {0}, pushed : {"none", "new", "there"}, ended : Statuses]

SyncTypeOK ==
    /\ listedUp \subseteq SyncVersions /\ overrides \in Overs
    /\ feed \in [gated : BOOLEAN, readable : BOOLEAN]
    /\ target \in [SyncVersions -> {"none", "pending", "served"}]
    /\ stateFile \in Books /\ syncer \in Syncs /\ syncEvents \in Nat

\* What the target's history says of it; nothing is pushed before upstream lists something,
\* so a feed that does not gate has nothing pending.
TargetFits ==
    /\ \A v \in SyncVersions : target[v] # "none" => v \in everHeld
    /\ \A v \in SyncVersions : target[v] = "served" => v \in everServed
    /\ ~feed.gated => \A v \in SyncVersions : target[v] # "pending"
    /\ syncEvents = 0 => /\ listedUp = {} /\ syncer.listed = {} /\ syncer.pc \notin Trying
                         /\ \A v \in SyncVersions : target[v] = "none"

\* A state of the sync, in memory or on disk, is true of the target.
TrueOf(state) ==
    \A v \in SyncVersions :
        /\ state[v].status = "approved" => v \in everServed
        /\ state[v].status = "pending" => v \in everHeld
        /\ state[v].status = "pending" /\ target[v] = "pending" /\ v \notin unsure => v \in targetFiles

\* The file is the state in memory but for what the feed was found to serve, and it has what
\* was saved as pushed.
FileFits ==
    /\ TrueOf(stateFile)
    /\ \A v \in settled : v \in SyncVersions /\ stateFile[v].status \in {"pending", "approved"}
    /\ syncer.pc # "idle" =>
          /\ TrueOf(syncer.state)
          /\ UNION syncer.served \subseteq everServed
          /\ \A v \in SyncVersions : syncer.state[v].status # "approved" => stateFile[v] = syncer.state[v]

\* What is so of the version being tried.
TriedFits ==
    LET v == syncer.v
    IN  /\ syncer.pc \in Trying => v \in SyncVersions /\ syncer.state[v].status \notin {"pending", "approved"}
        /\ syncer.pc \in {"look", "attach"} => v \in everHeld
        /\ syncer.pc = "attach" => syncer.pushed = "new" \/ feed.gated \/ target[v] = "none"
        /\ syncer.pc = "record" => syncer.ended \in {"failed", "needs-override", "pending"}
        /\ syncer.pc = "record" /\ syncer.ended = "pending" =>
              v \in everHeld /\ (target[v] # "pending" \/ v \in unsure \/ v \in targetFiles)

SyncInv == SyncTypeOK /\ TargetFits /\ FileFits /\ TriedFits

---------------------------------------------------------------------------
LEMMA NoSyncIs == NoSync \in Syncs /\ NoSync.pc = "idle" /\ NoSync.listed = {}
  <1>1. NoEntry \in Entries
    BY DEF NoEntry, Entries, Statuses
  <1>2. [v \in SyncVersions |-> NoEntry] \in Books
    BY <1>1 DEF Books
  <1>3. [skip |-> {}, print |-> 0] \in Overs
    BY DEF Overs
  <1> QED BY <1>2, <1>3 DEF NoSync, Syncs, Statuses

LEMMA SyncBegins == SyncInit => SyncInv
<1> SUFFICES ASSUME SyncInit PROVE SyncInv
  OBVIOUS
<1>1. [v \in SyncVersions |-> NoEntry] \in Books /\ \A v \in SyncVersions : [u \in SyncVersions |-> NoEntry][v].status = "none"
  BY DEF Books, Entries, NoEntry, Statuses
<1>2. [skip |-> {}, print |-> 0] \in Overs
  BY DEF Overs
<1>3. SyncTypeOK
  BY <1>1, <1>2, NoSyncIs DEF SyncInit, SyncTypeOK
<1>4. TargetFits /\ TriedFits
  BY NoSyncIs DEF SyncInit, TargetFits, TriedFits, Trying
<1>5. TrueOf(stateFile)
  BY <1>1 DEF SyncInit, TrueOf
<1>6. FileFits
  BY <1>5, NoSyncIs DEF SyncInit, FileFits
<1> QED BY <1>3, <1>4, <1>6 DEF SyncInv

\* What others do: the admin of the target withdraws and approves, upstream and the
\* overrides change.
LEMMA EventsKeep ==
    ASSUME SyncInv, SetUpFeed \/ UpstreamEvent \/ Overridden \/ TargetAdmin
    PROVE  SyncInv'
<1>1. SyncTypeOK /\ TargetFits /\ FileFits /\ TriedFits
  BY DEF SyncInv
<1>2. UNCHANGED <<stateFile, syncer, settled, unsure>> /\ syncEvents' = syncEvents + 1 /\ syncEvents' \in Nat /\ syncEvents' # 0
      /\ everHeld' = everHeld /\ everServed \subseteq everServed'
  BY <1>1 DEF SetUpFeed, UpstreamEvent, Overridden, TargetAdmin, SyncEvent, SyncTypeOK, targetVars
<1>3. /\ target' \in [SyncVersions -> {"none", "pending", "served"}]
      /\ \A v \in SyncVersions :
            /\ target'[v] = target[v] \/ target'[v] = "none" \/ (target[v] = "pending" /\ target'[v] = "served" /\ v \in everServed')
            /\ v \in targetFiles /\ v \notin targetFiles' => target'[v] = "none"
  <2>1. CASE UNCHANGED targetVars
    BY <1>1, <2>1 DEF targetVars, SyncTypeOK
  <2>2. CASE TargetAdmin
    BY <1>1, <2>2 DEF TargetAdmin, SyncTypeOK
  <2> QED BY <2>1, <2>2 DEF SetUpFeed, UpstreamEvent, Overridden
<1>4. feed' \in [gated : BOOLEAN, readable : BOOLEAN] /\ (feed' = feed \/ \A v \in SyncVersions : target'[v] = "none")
      /\ (syncer.pc \in Trying => feed' = feed)
  <2>1. CASE SetUpFeed
    BY <1>1, <2>1 DEF SetUpFeed, TargetFits, targetVars
  <2>2. CASE UNCHANGED feed
    BY <1>1, <2>2 DEF SyncTypeOK
  <2> QED BY <2>1, <2>2 DEF UpstreamEvent, Overridden, TargetAdmin
<1>5. listedUp' \subseteq SyncVersions /\ overrides' \in Overs
  <2>1. CASE Overridden
    <3>1. PICK skip \in SUBSET SyncVersions : overrides' = [skip |-> skip, print |-> overrides.print + 1]
      BY <2>1 DEF Overridden
    <3>2. overrides.print + 1 \in Nat
      BY <1>1 DEF SyncTypeOK, Overs
    <3> QED BY <1>1, <2>1, <3>1, <3>2 DEF Overs, SyncTypeOK, Overridden
  <2>2. CASE UNCHANGED overrides
    BY <1>1, <2>2 DEF SetUpFeed, UpstreamEvent, Overridden, TargetAdmin, SyncTypeOK
  <2> QED BY <2>1, <2>2 DEF SetUpFeed, UpstreamEvent, TargetAdmin
<1>6. SyncTypeOK'
  BY <1>1, <1>2, <1>3, <1>4, <1>5 DEF SyncTypeOK
<1>7. TargetFits'
  BY <1>1, <1>2, <1>3, <1>4 DEF TargetFits
<1>8. FileFits'
  <2>1. TrueOf(stateFile)'
    BY <1>1, <1>2, <1>3 DEF FileFits, TrueOf
  <2>2. syncer.pc # "idle" => TrueOf(syncer.state)'
    BY <1>1, <1>2, <1>3 DEF FileFits, TrueOf
  <2> QED BY <1>1, <1>2, <2>1, <2>2 DEF FileFits
<1>9. TriedFits'
  BY <1>1, <1>2, <1>3, <1>4 DEF TriedFits, Trying
<1> QED BY <1>6, <1>7, <1>8, <1>9 DEF SyncInv

LEMMA StartKeeps == ASSUME SyncAssumption, SyncInv, StartSync PROVE SyncInv'
<1>1. SyncTypeOK /\ TargetFits /\ FileFits /\ TriedFits
  BY DEF SyncInv
<1>2. UNCHANGED <<upVars, targetVars, stateFile, settled, unsure>> /\ syncer.pc = "idle"
  BY DEF StartSync
<1>3. PICK served \in {{}, {Serving}}, asked \in BOOLEAN :
        syncer' = [NoSync EXCEPT
            !.pc = IF asked THEN "entry" ELSE "finish",
            !.state = IF asked THEN ServedApproved(stateFile, served) ELSE stateFile,
            !.listed = listedUp, !.served = served, !.over = overrides]
  BY DEF StartSync
<1>4. /\ syncer' \in Syncs /\ syncer'.pc \in {"entry", "finish"} /\ syncer'.listed = listedUp
      /\ syncer'.served = served
      /\ syncer'.state = IF asked THEN ServedApproved(stateFile, served) ELSE stateFile
  <2>1. ServedApproved(stateFile, served) \in Books
    BY <1>1 DEF ServedApproved, SyncTypeOK, Books, Entries, Statuses
  <2>2. served \in SUBSET SUBSET SyncVersions
    BY DEF Serving
  <2>3. /\ listedUp \subseteq SyncVersions /\ overrides \in Overs /\ stateFile \in Books
        /\ (IF asked THEN ServedApproved(stateFile, served) ELSE stateFile) \in Books
    BY <1>1, <2>1 DEF SyncTypeOK
  <2> DEFINE state == IF asked THEN ServedApproved(stateFile, served) ELSE stateFile
  <2>4. state \in Books
    BY <2>3
  <2>5. syncer' = [NoSync EXCEPT
            !.pc = IF asked THEN "entry" ELSE "finish", !.state = state,
            !.listed = listedUp, !.served = served, !.over = overrides]
    BY <1>3
  <2>6. syncer'.state = state
    BY <2>5 DEF NoSync
  <2>7. syncer' \in Syncs /\ syncer'.pc \in {"entry", "finish"} /\ syncer'.listed = listedUp /\ syncer'.served = served
    <3> HIDE DEF state
    <3> QED BY <2>2, <2>3, <2>4, <2>5, NoSyncIs DEF Syncs
  <2> QED BY <2>6, <2>7
<1>5. ASSUME NEW v \in SyncVersions
      PROVE  \/ syncer'.state[v] = stateFile[v]
             \/ syncer'.state[v].status = "approved" /\ v \in everServed
  BY <1>1, <1>4 DEF ServedApproved, SyncTypeOK, Books, Entries, Serving, TargetFits
<1>6. UNION served \subseteq everServed
  BY <1>1 DEF Serving, TargetFits
<1>7. SyncTypeOK' /\ TargetFits' /\ TriedFits'
  BY <1>1, <1>2, <1>4 DEF SyncTypeOK, TargetFits, TriedFits, Trying, upVars, targetVars
<1>8. TrueOf(stateFile)' /\ TrueOf(syncer.state)'
  BY <1>1, <1>2, <1>5 DEF FileFits, TrueOf, targetVars
<1>9. FileFits'
  BY <1>1, <1>2, <1>4, <1>5, <1>6, <1>8 DEF FileFits, targetVars
<1> QED BY <1>7, <1>9 DEF SyncInv

\* The newest listed version an entry follows is one of the versions.
LEMMA NewestIsVersion ==
    ASSUME SyncAssumption, NEW followed \in SUBSET SyncVersions, NEW listed \in SUBSET SyncVersions
    PROVE  NewestOf(followed, listed) \subseteq followed \cap listed
<1>1. followed \cap listed \in SUBSET Nat /\ IsFiniteSet(followed \cap listed)
  BY FS_Subset DEF SyncAssumption
<1> QED BY <1>1, GreatestMember DEF NewestOf

LEMMA WatchEntryKeeps == ASSUME SyncAssumption, SyncInv, WatchEntry PROVE SyncInv'
<1> DEFINE newest == NewestOf(Watches[syncer.next], syncer.listed)
           fresh == newest \ (syncer.handled \cup syncer.over.skip)
           served == fresh \cap UNION syncer.served
           tried == {v \in fresh \ served : Retried(syncer.state[v], syncer.over.print)}
           v == IF tried = {} THEN 0 ELSE CHOOSE u \in tried : TRUE
           state == [u \in SyncVersions |->
                        IF u \in served /\ syncer.state[u].status = "none"
                        THEN [status |-> "approved", print |-> 0] ELSE syncer.state[u]]
<1>1. SyncTypeOK /\ TargetFits /\ FileFits /\ TriedFits
  BY DEF SyncInv
<1>2. UNCHANGED <<upVars, targetVars, stateFile, settled, unsure, syncFaults>>
      /\ syncer.pc = "entry" /\ syncer.next <= Len(Watches) /\ syncer.next + 1 \in Nat \ {0}
  BY <1>1 DEF WatchEntry, SyncTypeOK, Syncs
<1>3. newest \subseteq SyncVersions \cap syncer.listed
  <2>1. syncer.next \in 1..Len(Watches)
    BY <1>1, <1>2 DEF SyncAssumption, SyncTypeOK, Syncs
  <2>2. Watches[syncer.next] \in SUBSET SyncVersions
    BY <2>1, ElementOfSeq DEF SyncAssumption
  <2>3. syncer.listed \in SUBSET SyncVersions
    BY <1>1 DEF SyncTypeOK, Syncs
  <2> QED BY <2>2, <2>3, NewestIsVersion
<1>4. served \subseteq SyncVersions /\ served \subseteq everServed
  BY <1>1, <1>2, <1>3 DEF FileFits
<1>5. tried # {} => v \in tried
  OBVIOUS
<1>6. \A u \in tried : u \in SyncVersions /\ u \notin served
        /\ syncer.state[u].status \notin {"pending", "approved"} /\ u \in syncer.listed
  BY <1>3 DEF Retried
<1>7. \A u \in SyncVersions :
        \/ state[u] = syncer.state[u]
        \/ state[u].status = "approved" /\ u \in served
  OBVIOUS
<1>8. state \in Books
  BY <1>1 DEF SyncTypeOK, Syncs, Books, Entries, Statuses
<1>9. \A u \in tried : state[u] = syncer.state[u]
  BY <1>6
<1>10. syncer' = [syncer EXCEPT
          !.next = syncer.next + 1, !.handled = syncer.handled \cup newest, !.state = state,
          !.pc = IF tried = {} THEN "entry" ELSE "pipeline",
          !.v = v, !.pushed = "none", !.ended = "none"]
  <2>1. syncer' = [syncer EXCEPT
          !.next = @ + 1, !.handled = @ \cup newest,
          !.state = [u \in SyncVersions |->
                        IF u \in served /\ @[u].status = "none"
                        THEN [status |-> "approved", print |-> 0] ELSE @[u]],
          !.pc = IF tried = {} THEN "entry" ELSE "pipeline",
          !.v = v, !.pushed = "none", !.ended = "none"]
    BY DEF WatchEntry
  <2> HIDE DEF served, tried, newest, v
  <2> QED BY <2>1
<1>11. v \in SyncVersions \cup {0} /\ newest \subseteq SyncVersions
  BY <1>3, <1>5, <1>6
<1> HIDE DEF newest, fresh, served, tried, v, state
<1>12. /\ syncer' \in Syncs /\ syncer'.pc = (IF tried = {} THEN "entry" ELSE "pipeline")
       /\ syncer'.state = state /\ syncer'.v = v /\ syncer'.listed = syncer.listed
       /\ syncer'.served = syncer.served
  BY <1>1, <1>2, <1>8, <1>10, <1>11 DEF SyncTypeOK, Syncs, Trying, Statuses
<1>13. SyncTypeOK' /\ TargetFits' /\ TriedFits'
  BY <1>1, <1>2, <1>5, <1>6, <1>9, <1>12 DEF SyncTypeOK, TargetFits, TriedFits, Trying, upVars, targetVars
<1>14. TrueOf(stateFile)' /\ TrueOf(syncer.state)'
  BY <1>1, <1>2, <1>4, <1>7, <1>12 DEF FileFits, TrueOf, targetVars
<1>15. FileFits'
  BY <1>1, <1>2, <1>7, <1>12, <1>14 DEF FileFits, targetVars
<1> QED BY <1>13, <1>15 DEF SyncInv

LEMMA InterruptedKeeps == ASSUME SyncInv, Interrupted PROVE SyncInv'
<1>1. SyncTypeOK /\ TargetFits /\ FileFits /\ TriedFits
  BY DEF SyncInv
<1>2. UNCHANGED <<upVars, targetVars, stateFile, settled, unsure>> /\ syncer' = NoSync
  BY DEF Interrupted
<1>3. SyncTypeOK' /\ TargetFits' /\ TriedFits' /\ TrueOf(stateFile)'
  BY <1>1, <1>2, NoSyncIs DEF SyncTypeOK, TargetFits, TriedFits, FileFits, TrueOf, Trying, upVars, targetVars
<1>4. FileFits'
  BY <1>1, <1>2, <1>3, NoSyncIs DEF FileFits, upVars, targetVars
<1> QED BY <1>3, <1>4 DEF SyncInv

LEMMA PipelineKeeps == ASSUME SyncInv, Pipeline PROVE SyncInv'
<1>1. SyncTypeOK /\ TargetFits /\ FileFits /\ TriedFits
  BY DEF SyncInv
<1>2. UNCHANGED <<upVars, targetVars, stateFile, settled, unsure>> /\ syncer.pc = "pipeline"
  BY DEF Pipeline
<1>3. /\ syncer' \in Syncs /\ syncer'.state = syncer.state /\ syncer'.v = syncer.v
      /\ syncer'.listed = syncer.listed /\ syncer'.served = syncer.served
      /\ \/ syncer'.pc = "push"
         \/ syncer'.pc = "record" /\ syncer'.ended \in {"failed", "needs-override"}
  <2>1. CASE syncer' = [syncer EXCEPT !.pc = "push"]
    BY <1>1, <2>1 DEF SyncTypeOK, Syncs, Trying
  <2>2. CASE \E e \in {"failed", "needs-override"} : syncer' = [syncer EXCEPT !.pc = "record", !.ended = e]
    <3>1. PICK e \in {"failed", "needs-override"} : syncer' = [syncer EXCEPT !.pc = "record", !.ended = e]
      BY <2>2
    <3>2. syncer \in Syncs /\ e \in Statuses
      BY <1>1 DEF SyncTypeOK, Statuses
    <3> QED BY <3>1, <3>2 DEF Syncs, Trying
  <2> QED BY <2>1, <2>2 DEF Pipeline
<1>4. SyncTypeOK' /\ TargetFits' /\ TriedFits'
  BY <1>1, <1>2, <1>3 DEF SyncTypeOK, TargetFits, TriedFits, Trying, upVars, targetVars
<1>5. TrueOf(stateFile)' /\ TrueOf(syncer.state)'
  BY <1>1, <1>2, <1>3 DEF FileFits, TrueOf, targetVars
<1>6. FileFits'
  BY <1>1, <1>2, <1>3, <1>5 DEF FileFits, targetVars
<1> QED BY <1>4, <1>6 DEF SyncInv

\* A version being tried is not saved as pushed; a push makes it one the target held.
LEMMA PushReleaseKeeps ==
    ASSUME SyncInv, PushRelease
    PROVE  SyncInv' /\ syncer.v \notin settled
<1>1. SyncTypeOK /\ TargetFits /\ FileFits /\ TriedFits
  BY DEF SyncInv
<1> DEFINE u == syncer.v
<1>2. /\ UNCHANGED <<upVars, targetFiles, stateFile, settled, unsure>> /\ syncer.pc = "push"
      /\ target' = [target EXCEPT ![u] = IF target[u] = "none" THEN IF feed.gated THEN "pending" ELSE "served" ELSE @]
      /\ everHeld' = everHeld \cup {u}
      /\ everServed' = everServed \cup {x \in {u} : target'[x] = "served"}
  BY DEF PushRelease
<1>3. u \in SyncVersions /\ syncer.state[u].status \notin {"pending", "approved"} /\ stateFile[u] = syncer.state[u] /\ u \notin settled
  BY <1>1, <1>2 DEF TriedFits, FileFits, Trying
<1>4. /\ syncer' \in Syncs /\ syncer'.state = syncer.state /\ syncer'.v = u
      /\ syncer'.listed = syncer.listed /\ syncer'.served = syncer.served
      /\ \/ syncer'.pc = "look"
         \/ syncer'.pc = "record" /\ syncer'.ended = "failed"
  <2>1. CASE \E p \in {"new", "there"} : syncer' = [syncer EXCEPT !.pc = "look", !.pushed = p]
    <3>1. PICK p \in {"new", "there"} : syncer' = [syncer EXCEPT !.pc = "look", !.pushed = p]
      BY <2>1
    <3> QED BY <1>1, <3>1 DEF SyncTypeOK, Syncs, Trying
  <2>2. CASE syncer' = [syncer EXCEPT !.pc = "record", !.ended = "failed"]
    BY <1>1, <2>2 DEF SyncTypeOK, Syncs, Trying, Statuses
  <2> QED BY <2>1, <2>2 DEF PushRelease
<1>5. /\ target' \in [SyncVersions -> {"none", "pending", "served"}]
      /\ \A x \in SyncVersions : x # u => target'[x] = target[x]
      /\ target'[u] # "none" /\ (target'[u] = "served" => u \in everServed')
      /\ target'[u] = "pending" => target[u] = "pending" \/ feed.gated
  BY <1>1, <1>2, <1>3 DEF SyncTypeOK, TargetFits
<1>6. SyncTypeOK' /\ TriedFits'
  BY <1>1, <1>2, <1>3, <1>4, <1>5 DEF SyncTypeOK, TriedFits, Trying, upVars
<1>7. TargetFits'
  BY <1>1, <1>2, <1>3, <1>4, <1>5 DEF TargetFits, Trying, upVars
<1>8. TrueOf(stateFile)' /\ TrueOf(syncer.state)'
  BY <1>1, <1>2, <1>3, <1>4, <1>5 DEF FileFits, TrueOf
<1>9. FileFits'
  BY <1>1, <1>2, <1>4, <1>8 DEF FileFits
<1> QED BY <1>3, <1>6, <1>7, <1>8, <1>9 DEF SyncInv

LEMMA LookKeeps == ASSUME SyncInv, LookUp PROVE SyncInv'
<1>1. SyncTypeOK /\ TargetFits /\ FileFits /\ TriedFits
  BY DEF SyncInv
<1>2. UNCHANGED <<upVars, targetVars, stateFile, settled>> /\ syncer.pc = "look"
  BY DEF LookUp
<1>3. PICK visibility \in {"withheld", "served", "unknown"} :
        /\ visibility # "unknown" => (visibility = "served" <=> target[syncer.v] = "served")
        /\ unsure' = unsure \cup {v \in {syncer.v} : visibility = "unknown"}
        /\ syncer' = IF MayAttach(syncer.pushed, visibility)
                     THEN [syncer EXCEPT !.pc = "attach"]
                     ELSE [syncer EXCEPT !.pc = "record", !.ended = "pending"]
  BY DEF LookUp
<1>4. syncer.v \in SyncVersions /\ syncer.v \in everHeld /\ target[syncer.v] \in {"none", "pending", "served"}
  BY <1>1, <1>2 DEF TriedFits, Trying, SyncTypeOK
<1>5. /\ syncer' \in Syncs /\ syncer'.state = syncer.state /\ syncer'.v = syncer.v
      /\ syncer'.listed = syncer.listed /\ syncer'.served = syncer.served
      /\ \/ syncer'.pc = "attach" /\ syncer'.pushed = syncer.pushed /\ MayAttach(syncer.pushed, visibility)
         \/ /\ syncer'.pc = "record" /\ syncer'.ended = "pending"
            /\ ~MayAttach(syncer.pushed, visibility)
  <2>1. CASE MayAttach(syncer.pushed, visibility)
    BY <1>1, <1>3, <2>1 DEF SyncTypeOK, Syncs, Trying
  <2>2. CASE ~MayAttach(syncer.pushed, visibility)
    BY <1>1, <1>3, <2>2 DEF SyncTypeOK, Syncs, Trying, Statuses
  <2> QED BY <2>1, <2>2
<1>6. SyncTypeOK' /\ TargetFits'
  BY <1>1, <1>2, <1>4, <1>5 DEF SyncTypeOK, TargetFits, Trying, upVars, targetVars, TriedFits
<1>7. TriedFits'
  BY <1>1, <1>2, <1>3, <1>4, <1>5 DEF TriedFits, TargetFits, MayAttach, Trying, upVars, targetVars
<1>8. TrueOf(stateFile)' /\ TrueOf(syncer.state)'
  BY <1>1, <1>2, <1>3, <1>5 DEF FileFits, TrueOf, targetVars
<1>9. FileFits'
  BY <1>1, <1>2, <1>5, <1>8 DEF FileFits, targetVars
<1> QED BY <1>6, <1>7, <1>9 DEF SyncInv

\* Where approval is not required nothing is pending, so what is taken there is of the run
\* that pushed it.
LEMMA AttachKeeps ==
    ASSUME SyncInv, AttachFiles
    PROVE  SyncInv' /\ \A v \in targetFiles' \ targetFiles :
                          target[v] = "pending" \/ (syncer.pushed = "new" /\ ~feed.gated)
<1>1. SyncTypeOK /\ TargetFits /\ FileFits /\ TriedFits
  BY DEF SyncInv
<1> DEFINE u == syncer.v
           taken == target[u] = "pending" \/ (~feed.gated /\ target[u] = "served")
<1>2. /\ UNCHANGED <<upVars, target, everHeld, everServed, stateFile, settled, unsure>> /\ syncer.pc = "attach"
      /\ \/ /\ taken /\ targetFiles' = targetFiles \cup {u}
            /\ syncer' = [syncer EXCEPT !.pc = "record", !.ended = "pending"]
         \/ /\ targetFiles' = targetFiles
            /\ syncer' = [syncer EXCEPT !.pc = "record", !.ended = "failed"]
  BY DEF AttachFiles
<1>3. u \in SyncVersions /\ u \in everHeld /\ (syncer.pushed = "new" \/ feed.gated \/ target[u] = "none")
  BY <1>1, <1>2 DEF TriedFits, Trying
<1>4. /\ syncer' \in Syncs /\ syncer'.state = syncer.state /\ syncer'.v = u
      /\ syncer'.listed = syncer.listed /\ syncer'.served = syncer.served /\ syncer'.pc = "record"
      /\ syncer'.ended = "failed" \/ (syncer'.ended = "pending" /\ u \in targetFiles')
  <2>1. CASE syncer' = [syncer EXCEPT !.pc = "record", !.ended = "pending"] /\ u \in targetFiles'
    BY <1>1, <2>1 DEF SyncTypeOK, Syncs, Trying, Statuses
  <2>2. CASE syncer' = [syncer EXCEPT !.pc = "record", !.ended = "failed"]
    BY <1>1, <2>2 DEF SyncTypeOK, Syncs, Trying, Statuses
  <2> QED BY <1>2, <2>1, <2>2
<1>5. targetFiles \subseteq targetFiles'
  BY <1>2
<1>6. SyncTypeOK' /\ TargetFits' /\ TriedFits'
  BY <1>1, <1>2, <1>3, <1>4 DEF SyncTypeOK, TargetFits, TriedFits, Trying, upVars
<1>7. TrueOf(stateFile)' /\ TrueOf(syncer.state)'
  BY <1>1, <1>2, <1>4, <1>5 DEF FileFits, TrueOf
<1>8. FileFits'
  BY <1>1, <1>2, <1>4, <1>7 DEF FileFits
<1>9. \A v \in targetFiles' \ targetFiles : target[v] = "pending" \/ (syncer.pushed = "new" /\ ~feed.gated)
  BY <1>1, <1>2, <1>3 DEF TargetFits
<1> QED BY <1>6, <1>8, <1>9 DEF SyncInv

LEMMA RecordKeeps == ASSUME SyncInv, RecordEntry PROVE SyncInv'
<1>1. SyncTypeOK /\ TargetFits /\ FileFits /\ TriedFits
  BY DEF SyncInv
<1> DEFINE u == syncer.v
           entry == [status |-> syncer.ended, print |-> syncer.over.print]
           state == [syncer.state EXCEPT ![u] = entry]
<1>2. UNCHANGED <<upVars, targetVars, unsure>> /\ syncer.pc = "record"
  BY DEF RecordEntry
<1>3. u \in SyncVersions /\ syncer.state[u].status \notin {"pending", "approved"} /\ stateFile[u] = syncer.state[u] /\ u \notin settled
  BY <1>1, <1>2 DEF TriedFits, FileFits, Trying
<1>4. entry \in Entries /\ entry.status = syncer.ended /\ syncer.ended \in {"failed", "needs-override", "pending"}
  BY <1>1, <1>2 DEF SyncTypeOK, Syncs, Entries, Overs, TriedFits
<1>5. state \in Books /\ state[u] = entry /\ \A x \in SyncVersions : x # u => state[x] = syncer.state[x]
  <2> HIDE DEF entry
  <2> QED BY <1>1, <1>3, <1>4 DEF SyncTypeOK, Syncs, Books
<1>6. CASE UNCHANGED <<stateFile, settled>> /\ syncer' = NoSync
  <2>1. SyncTypeOK' /\ TargetFits' /\ TriedFits' /\ TrueOf(stateFile)'
    BY <1>1, <1>2, <1>6, NoSyncIs DEF SyncTypeOK, TargetFits, TriedFits, FileFits, TrueOf, Trying, upVars, targetVars
  <2>2. FileFits'
    BY <1>1, <1>2, <1>6, <2>1, NoSyncIs DEF FileFits, upVars, targetVars
  <2> QED BY <2>1, <2>2 DEF SyncInv
<1>7. CASE SaveState(state, {}) /\ syncer' = [syncer EXCEPT !.pc = "entry", !.state = state]
  <2>1. stateFile' = state /\ settled' = settled \cup {v \in SyncVersions : state[v].status \in {"pending", "approved"}}
    BY <1>7 DEF SaveState
  <2>2. TrueOf(state)
    BY <1>1, <1>2, <1>3, <1>4, <1>5 DEF TrueOf, FileFits, TriedFits
  <2> HIDE DEF state, entry
  <2>3. /\ syncer' \in Syncs /\ syncer'.pc = "entry" /\ syncer'.state = state
        /\ syncer'.listed = syncer.listed /\ syncer'.served = syncer.served
    BY <1>1, <1>5, <1>7 DEF SyncTypeOK, Syncs
  <2>4. SyncTypeOK' /\ TargetFits' /\ TriedFits'
    BY <1>1, <1>2, <1>5, <2>1, <2>3 DEF SyncTypeOK, TargetFits, TriedFits, Trying, upVars, targetVars
  <2>5. TrueOf(stateFile)' /\ TrueOf(syncer.state)'
    BY <1>2, <2>1, <2>2, <2>3 DEF TrueOf, targetVars
  <2>6. ASSUME NEW x \in settled PROVE x \in SyncVersions /\ state[x].status \in {"pending", "approved"}
    BY <1>1, <1>2, <1>3, <1>5 DEF FileFits
  <2>7. FileFits'
    BY <1>1, <1>2, <2>1, <2>3, <2>5, <2>6 DEF FileFits, targetVars
  <2> QED BY <2>4, <2>7 DEF SyncInv
<1> QED BY <1>6, <1>7 DEF RecordEntry

\* A prune forgets no version saved as pushed that it is not excused to forget.
LEMMA PruneKeeps ==
    ASSUME SyncAssumption, NEW state \in Books, NEW skip \in SUBSET SyncVersions
    PROVE  /\ Prune(state, skip) \in Books
           /\ \A v \in SyncVersions : Prune(state, skip)[v] \in {state[v], NoEntry}
           /\ \A v \in SyncVersions \ Excused(state, skip) : Prune(state, skip)[v] = state[v]
<1> DEFINE kept == {v \in SyncVersions : v \notin skip /\ \E w \in DOMAIN Watches : v \in Watches[w]}
           held(w) == {v \in kept \cap Watches[w] : state[v].status # "none"}
           approved(w) == {v \in held(w) : state[v].status = "approved"}
           old == UNION {{v \in held(w) : approved(w) # {} /\ v < Max(approved(w))} : w \in DOMAIN Watches}
<1>1. Prune(state, skip) = [v \in SyncVersions |-> IF v \in kept \ old THEN state[v] ELSE NoEntry]
  BY DEF Prune
<1>2. ASSUME NEW v \in SyncVersions \ Excused(state, skip) PROVE v \in kept \ old
  <2>1. v \in kept
    BY DEF Excused
  <2>2. ASSUME NEW w \in DOMAIN Watches, v \in held(w), approved(w) # {}, v < Max(approved(w))
        PROVE  FALSE
    <3>1. approved(w) \in SUBSET SyncVersions /\ approved(w) \in SUBSET Nat /\ IsFiniteSet(approved(w))
      BY FS_Subset DEF SyncAssumption
    <3>2. Max(approved(w)) \in approved(w)
      BY <2>2, <3>1, GreatestMember
    <3>3. Max(approved(w)) \in Watches[w] /\ state[Max(approved(w))].status = "approved" /\ v \in Watches[w]
      BY <2>2, <3>2
    <3>4. Max(approved(w)) > v
      BY <2>2, <3>1, <3>2 DEF SyncAssumption
    <3> QED BY <3>3, <3>4 DEF Excused
  <2> QED BY <2>1, <2>2
<1> HIDE DEF kept, old
<1>3. NoEntry \in Entries
  BY DEF NoEntry, Entries, Statuses
<1>4. Prune(state, skip) \in Books
  BY <1>1, <1>3 DEF Books
<1> QED BY <1>1, <1>2, <1>4

LEMMA FinishKeeps == ASSUME SyncAssumption, SyncInv, FinishSync PROVE SyncInv'
<1>1. SyncTypeOK /\ TargetFits /\ FileFits /\ TriedFits
  BY DEF SyncInv
<1> DEFINE state == Prune(syncer.state, syncer.over.skip)
           excused == Excused(syncer.state, syncer.over.skip)
<1>2. UNCHANGED <<upVars, targetVars, unsure>> /\ syncer' = NoSync /\ syncer.pc # "idle"
  BY DEF FinishSync
<1>3. syncer.state \in Books /\ syncer.over.skip \in SUBSET SyncVersions
  BY <1>1 DEF SyncTypeOK, Syncs, Overs
<1>4. /\ state \in Books /\ \A v \in SyncVersions : state[v] \in {syncer.state[v], NoEntry}
      /\ \A v \in SyncVersions \ excused : state[v] = syncer.state[v]
  BY <1>3, PruneKeeps
<1>5. SyncTypeOK' /\ TargetFits' /\ TriedFits' /\ TrueOf(stateFile)'
  <2>1. CASE SaveState(state, excused)
    <3>1. stateFile' = state
      BY <2>1 DEF SaveState
    <3> HIDE DEF state
    <3>2. TrueOf(stateFile)'
      BY <1>1, <1>2, <1>4, <3>1 DEF FileFits, TrueOf, targetVars, NoEntry
    <3> QED BY <1>1, <1>2, <1>4, <3>1, <3>2, NoSyncIs DEF SyncTypeOK, TargetFits, TriedFits, Trying, upVars, targetVars
  <2>2. CASE UNCHANGED <<stateFile, settled>>
    BY <1>1, <1>2, <2>2, NoSyncIs DEF SyncTypeOK, TargetFits, TriedFits, FileFits, TrueOf, Trying, upVars, targetVars
  <2> QED BY <2>1, <2>2 DEF FinishSync
<1>6. ASSUME NEW v \in settled' PROVE v \in SyncVersions /\ stateFile'[v].status \in {"pending", "approved"}
  <2>1. CASE SaveState(state, excused)
    <3>1. /\ stateFile' = state
          /\ settled' = (settled \cup {x \in SyncVersions : state[x].status \in {"pending", "approved"}}) \ excused
      BY <2>1 DEF SaveState
    <3>2. CASE v \in settled
      <4>1. v \in SyncVersions /\ stateFile[v].status \in {"pending", "approved"}
        BY <1>1, <3>2 DEF FileFits
      <4>2. syncer.state[v].status \in {"pending", "approved"}
        BY <1>1, <1>2, <4>1 DEF FileFits
      <4> HIDE DEF state, excused
      <4> QED BY <1>4, <3>1, <4>1, <4>2
    <3> QED BY <3>1, <3>2
  <2>2. CASE UNCHANGED <<stateFile, settled>>
    BY <1>1, <2>2 DEF FileFits
  <2> QED BY <2>1, <2>2 DEF FinishSync
<1>7. FileFits'
  BY <1>2, <1>5, <1>6, NoSyncIs DEF FileFits
<1> QED BY <1>5, <1>7 DEF SyncInv

LEMMA SyncKeeps ==
    ASSUME SyncAssumption, SyncInv, [SyncNext]_syncVars
    PROVE  SyncInv'
<1>1. CASE UNCHANGED syncVars
  BY <1>1 DEF SyncInv, SyncTypeOK, TargetFits, FileFits, TriedFits, TrueOf, syncVars, upVars, targetVars
<1>2. CASE SyncStep
  BY <1>2, StartKeeps, WatchEntryKeeps, PipelineKeeps, PushReleaseKeeps, LookKeeps, AttachKeeps, RecordKeeps, FinishKeeps
  DEF SyncStep
<1>3. CASE Interrupted
  BY <1>3, InterruptedKeeps
<1> QED BY <1>1, <1>2, <1>3, EventsKeep DEF SyncNext

\* What a step may never do: push what was saved as pushed, attach to what may be served.
LEMMA SyncStepIsSound ==
    ASSUME SyncInv, [SyncNext]_syncVars
    PROVE  /\ \A v \in SyncVersions : target[v] = "none" /\ target'[v] # "none" => v \notin settled
           /\ \A v \in targetFiles' \ targetFiles :
                 target[v] = "pending" \/ (syncer.pushed = "new" /\ ~feed.gated)
<1>1. target \in [SyncVersions -> {"none", "pending", "served"}]
  BY DEF SyncInv, SyncTypeOK
<1>2. CASE PushRelease
  BY <1>1, <1>2, PushReleaseKeeps DEF PushRelease
<1>3. CASE AttachFiles
  BY <1>3, AttachKeeps DEF AttachFiles
<1>4. CASE TargetAdmin
  BY <1>1, <1>4 DEF TargetAdmin
<1>5. CASE UNCHANGED <<target, targetFiles>>
  BY <1>5
<1> QED BY <1>2, <1>3, <1>4, <1>5
    DEF SyncNext, SyncStep, StartSync, WatchEntry, Pipeline, LookUp, RecordEntry, FinishSync, Interrupted,
        SetUpFeed, UpstreamEvent, Overridden, syncVars, targetVars

\* However often syncs are interrupted and whatever the admin of the target does meanwhile,
\* the state file claims nothing that did not happen, the next run completes one that
\* stopped before its last attach, a version saved as pushed is not pushed again
\* (sync.rs), and nothing is attached to what may be served (publish.rs): for any number
\* of versions and watch entries.
THEOREM SyncsTrue ==
    ASSUME SyncAssumption
    PROVE  SyncSpec => SyncsAreTrue
<1>1. SyncInv => StateIsTrue /\ CompletedByNext
  BY DEF SyncInv, FileFits, TrueOf, StateIsTrue, CompletedByNext
<1>2. SyncSpec => []SyncInv
  BY SyncBegins, SyncKeeps, SyncAssumption, PTL DEF SyncSpec
<1>3. SyncInv /\ [SyncNext]_syncVars =>
        [\A v \in SyncVersions : target[v] = "none" /\ target'[v] # "none" => v \notin settled]_syncVars
  BY SyncStepIsSound
<1>4. SyncInv /\ [SyncNext]_syncVars =>
        [\A v \in targetFiles' \ targetFiles :
            target[v] = "pending" \/ (syncer.pushed = "new" /\ ~feed.gated)]_syncVars
  BY SyncStepIsSound
<1> QED BY <1>1, <1>2, <1>3, <1>4, PTL DEF SyncSpec, SyncsAreTrue, NotPushedAgain, AttachedUnserved
=============================================================================
