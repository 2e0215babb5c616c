---------------------------- MODULE FeedCommands ----------------------------
(***************************************************************************)
(* yanuget feeds rename and yanuget feeds remove (cli.rs, feed_data.rs,    *)
(* rename_feed) on the data a server leaves behind when a feed changes its *)
(* name or goes from the configuration.  The server's own operations are   *)
(* single steps here; VersionStore has them in detail.                     *)
(***************************************************************************)
EXTENDS Naturals, FiniteSets

CONSTANTS FeedNames, GatedNames, StoredVersions,
          MaxConfigs,      \* bound on changes of the configuration
          MaxCommands,     \* bound on the commands started
          MaxServed        \* bound on the server's operations

VARIABLES configured,  \* the feeds of the configuration
          dataLock,    \* who holds the data lock: "free", "server" or "command"
          memberships, \* feed, version, pending
          tombstones,  \* <<feed, version>>
          packages,    \* versions with a row
          payloads,    \* versions with a file
          uploading,   \* feeds with an unfinished upload
          clearing,    \* pushes whose tombstone is cleared in a later statement
          command,     \* the command that runs
          consented,   \* <<feed, version>> an administrator or operator approved
          spent        \* what the bounds have been used up to

commandVars == <<configured, dataLock, memberships, tombstones, packages, payloads, uploading, clearing, command,
                 consented, spent>>
dataVars == <<memberships, tombstones, packages, payloads, uploading, clearing, consented>>

Membership(f, v) == {m \in memberships : m.feed = f /\ m.v = v}
Members(f) == {m \in memberships : m.feed = f}
FeedCount(v) == Cardinality({m \in memberships : m.v = v})

\* stored_feeds, for one name: what dry runs and refusals are told.
StoredFeed(f) ==
    [versions   |-> Cardinality(Members(f)),
     exclusive  |-> Cardinality({m \in Members(f) : FeedCount(m.v) = 1}),
     pending    |-> Cardinality({m \in Members(f) : m.pending}),
     tombstones |-> Cardinality({t \in tombstones : t[1] = f})]
IsStored(f) == StoredFeed(f).versions + StoredFeed(f).tombstones > 0
SharedVersions(a, b) == {m.v : m \in Members(a)} \cap {m.v : m \in Members(b)}
\* unconfigured: what the server warns of when it starts.
Unconfigured == {f \in FeedNames \ configured : StoredFeed(f).versions > 0}

IdleCommand == [pc |-> "idle", feed |-> {}, left |-> {}, v |-> {}, told |-> {}, versions |-> 0, purged |-> 0]

CommandInit ==
    /\ configured = FeedNames /\ dataLock = "free"
    /\ memberships = {} /\ tombstones = {} /\ packages = {} /\ payloads = {} /\ uploading = {} /\ clearing = {}
    /\ command = IdleCommand /\ consented = {}
    /\ spent = [configs |-> 0, commands |-> 0, served |-> 0]

---------------------------------------------------------------------------
\* The server.  It starts only with the data lock, and lets go of it however
\* it ends; an unfinished push ends with it.

StartServing ==
    /\ dataLock = "free" /\ dataLock' = "server"
    /\ UNCHANGED <<configured, dataVars, command, spent>>

StopServing ==
    /\ dataLock = "server" /\ dataLock' = "free" /\ clearing' = {}
    /\ UNCHANGED <<configured, memberships, tombstones, packages, payloads, uploading, consented, command, spent>>

Serves(f) ==
    /\ dataLock = "server" /\ f \in configured /\ spent.served < MaxServed
    /\ spent' = [spent EXCEPT !.served = @ + 1]
    /\ UNCHANGED <<configured, dataLock, command>>

\* A push: what a purge left of the version goes first.
ServePush(f, v) ==
    /\ Serves(f) /\ Membership(f, v) = {}
    /\ memberships' = memberships \cup {[feed |-> f, v |-> v, pending |-> f \in GatedNames]}
    /\ packages' = packages \cup {v} /\ payloads' = payloads \cup {v}
    /\ clearing' = clearing \cup {<<f, v>>}
    /\ UNCHANGED <<tombstones, uploading, consented>>

ServeClear(t) ==
    /\ dataLock = "server" /\ t \in clearing
    /\ tombstones' = tombstones \ {t} /\ clearing' = clearing \ {t}
    /\ UNCHANGED <<configured, dataLock, memberships, packages, payloads, uploading, consented, command, spent>>

ServeDelete(f, v) ==
    /\ Serves(f) /\ Membership(f, v) # {}
    /\ memberships' = memberships \ Membership(f, v)
    /\ tombstones' = tombstones \cup {<<f, v>>} /\ consented' = consented \ {<<f, v>>}
    /\ packages' = IF FeedCount(v) = 1 THEN packages \ {v} ELSE packages
    /\ payloads' = IF FeedCount(v) = 1 THEN payloads \ {v} ELSE payloads
    /\ UNCHANGED <<uploading, clearing>>

ServeApprove(f, v) ==
    /\ Serves(f) /\ \E m \in Membership(f, v) : m.pending
    /\ memberships' = (memberships \ Membership(f, v)) \cup {[feed |-> f, v |-> v, pending |-> FALSE]}
    /\ consented' = consented \cup {<<f, v>>}
    /\ UNCHANGED <<tombstones, packages, payloads, uploading, clearing>>

ServeUpload(f) ==
    /\ Serves(f) /\ uploading' = IF f \in uploading THEN uploading \ {f} ELSE uploading \cup {f}
    /\ UNCHANGED <<memberships, tombstones, packages, payloads, clearing, consented>>

\* sweep_orphans
ServeSweep ==
    /\ dataLock = "server" /\ \E v \in packages : FeedCount(v) = 0
    /\ packages' = {v \in packages : FeedCount(v) > 0}
    /\ payloads' = payloads \ {v \in packages : FeedCount(v) = 0}
    /\ UNCHANGED <<configured, dataLock, memberships, tombstones, uploading, clearing, consented, command, spent>>

\* The operator changes the configuration while nothing runs.
Reconfigure(names) ==
    /\ dataLock = "free" /\ names # configured /\ spent.configs < MaxConfigs
    /\ configured' = names /\ spent' = [spent EXCEPT !.configs = @ + 1]
    /\ UNCHANGED <<dataLock, dataVars, command>>

---------------------------------------------------------------------------
\* The commands.

\* Mutant: the data lock is not asked for.
RefuseNothing == TRUE

\* refuse_while_serving, and a second command
RefuseWhileServing == dataLock = "free"

MayStart(f) ==
    /\ command.pc = "idle" /\ spent.commands < MaxCommands
    /\ f \notin configured /\ RefuseWhileServing /\ IsStored(f)
    /\ spent' = [spent EXCEPT !.commands = @ + 1]

\* What the target has after the rename, what is deleted from it, and who
\* agreed to what it serves now.
Renamed(from, to, hold) ==
    {IF m.feed = from THEN [feed |-> to, v |-> m.v, pending |-> m.pending \/ hold] ELSE m : m \in memberships}
RenamedTombstones(from, to, members) ==
    {t \in {IF t[1] = from THEN <<to, t[2]>> ELSE t : t \in tombstones} :
        ~\E m \in members : t[1] = to /\ m.feed = to /\ m.v = t[2]}

\* feeds rename: one transaction.  Approvals that come along into a gated feed
\* have to be confirmed.
Rename(from, to, hold, keep) ==
    LET approved == IF hold THEN 0 ELSE StoredFeed(from).versions - StoredFeed(from).pending IN
    /\ MayStart(from) /\ to \in configured /\ ~(hold /\ keep)
    /\ SharedVersions(from, to) = {}
    /\ to \in GatedNames /\ approved > 0 => keep
    /\ memberships' = Renamed(from, to, hold)
    /\ tombstones' = RenamedTombstones(from, to, memberships')
    /\ uploading' = IF from \in uploading THEN (uploading \ {from}) \cup {to} ELSE uploading
    /\ consented' = {c \in consented : c[1] # from}
                       \cup {<<to, m.v>> : m \in {n \in Members(from) : keep /\ ~n.pending}}
    /\ UNCHANGED <<configured, dataLock, packages, payloads, clearing, command>>

\* feeds remove --yes: the lock is taken, then the members are listed.
StartRemove(f) ==
    /\ MayStart(f)
    /\ dataLock' = IF dataLock = "free" THEN "command" ELSE dataLock
    /\ command' = [IdleCommand EXCEPT !.pc = "next", !.feed = {f}, !.left = {m.v : m \in Members(f)},
                                      !.told = {StoredFeed(f)}]
    /\ UNCHANGED <<configured, dataVars>>

\* The membership of the next version.
RemoveMembership(f, v) ==
    /\ command.pc = "next" /\ f \in command.feed /\ v \in command.left
    /\ memberships' = memberships \ Membership(f, v) /\ consented' = consented \ {<<f, v>>}
    /\ command' = [command EXCEPT !.pc = "count", !.v = {v}, !.left = @ \ {v},
                                  !.versions = @ + Cardinality(Membership(f, v))]
    /\ UNCHANGED <<configured, dataLock, tombstones, packages, payloads, uploading, clearing, spent>>

\* feed_count and package_data_exists
CountFeeds(v) ==
    /\ command.pc = "count" /\ v \in command.v
    /\ command' = [command EXCEPT !.pc = IF FeedCount(v) = 0 /\ v \in packages THEN "files" ELSE "next"]
    /\ UNCHANGED <<configured, dataLock, dataVars, spent>>

\* purge_global_data: the files, then the row, and with it by cascade whatever
\* membership has come meanwhile.
PurgeFiles(v) ==
    /\ command.pc = "files" /\ v \in command.v
    /\ payloads' = payloads \ {v} /\ command' = [command EXCEPT !.pc = "row"]
    /\ UNCHANGED <<configured, dataLock, memberships, tombstones, packages, uploading, clearing, consented, spent>>

PurgeRow(v) ==
    /\ command.pc = "row" /\ v \in command.v
    /\ packages' = packages \ {v} /\ memberships' = {m \in memberships : m.v # v}
    /\ command' = [command EXCEPT !.pc = "next", !.purged = @ + 1]
    /\ UNCHANGED <<configured, dataLock, tombstones, payloads, uploading, clearing, consented, spent>>

LetGo == dataLock' = IF dataLock = "command" THEN "free" ELSE dataLock

\* clear_tombstones, and the command is done.
FinishRemove(f) ==
    /\ command.pc = "next" /\ command.left = {} /\ f \in command.feed
    /\ tombstones' = {t \in tombstones : t[1] # f}
    /\ command' = IdleCommand /\ LetGo
    /\ UNCHANGED <<configured, memberships, packages, payloads, uploading, clearing, consented, spent>>

\* A call fails, or the process is killed: the system lets go of the lock.
CommandDies ==
    /\ command.pc # "idle" /\ command' = IdleCommand /\ LetGo
    /\ UNCHANGED <<configured, dataVars, spent>>

CommandNext ==
    \/ StartServing \/ StopServing \/ ServeSweep
    \/ \E t \in clearing : ServeClear(t)
    \/ \E names \in SUBSET FeedNames : Reconfigure(names)
    \/ \E f \in FeedNames :
          \/ ServeUpload(f) \/ StartRemove(f) \/ FinishRemove(f)
          \/ \E to \in FeedNames, hold, keep \in BOOLEAN : Rename(f, to, hold, keep)
          \/ \E v \in StoredVersions :
                ServePush(f, v) \/ ServeDelete(f, v) \/ ServeApprove(f, v) \/ RemoveMembership(f, v)
    \/ \E v \in StoredVersions : CountFeeds(v) \/ PurgeFiles(v) \/ PurgeRow(v)
    \/ CommandDies

CommandSpec == CommandInit /\ [][CommandNext]_commandVars

---------------------------------------------------------------------------
\* A version some feed holds has its row and its file, whatever was removed and
\* wherever a removal stopped (remove: "membership first").
HeldHasData == \A m \in memberships : m.v \in packages /\ m.v \in payloads

\* A feed that requires approval shows what one of its administrators approved,
\* or what an operator said to keep approved; a rename releases nothing and
\* takes no approval back (run_feeds, rename_feed).
ShownWithConsent == \A m \in memberships : m.feed \in GatedNames /\ ~m.pending => <<m.feed, m.v>> \in consented

\* A rename leaves no version both held and deleted, and brings back none that was
\* deleted under either name (rename_feed: "which a membership and a tombstone
\* together never say").
RenameKeepsDeletions ==
    [][spent'.commands # spent.commands =>
          \A from, to \in FeedNames, hold, keep \in BOOLEAN, v \in StoredVersions : Rename(from, to, hold, keep) =>
              LET there == \E m \in memberships' : m.feed = to /\ m.v = v IN
              /\ ~(<<to, v>> \in tombstones' /\ there)
              /\ (<<from, v>> \in tombstones \/ <<to, v>> \in tombstones) /\ ~there => <<to, v>> \in tombstones']_commandVars

\* A removal that runs through removes what a dry run would have told, and what
\* only that feed held goes with it (stored_feeds, remove).
RemovesAsTold ==
    [][command' # command => \A f \in FeedNames : FinishRemove(f) =>
          /\ \A told \in command.told : command.versions = told.versions /\ command.purged = told.exclusive
          /\ Members(f) = {}]_commandVars

\* What the offline commands do to feeds is what they say: no held version loses
\* its data, nothing is approved or deleted by a rename, and a removal removes
\* what it told.
CommandsKeepFeeds == [](HeldHasData /\ ShownWithConsent) /\ RenameKeepsDeletions /\ RemovesAsTold
=============================================================================
