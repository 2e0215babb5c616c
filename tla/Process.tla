------------------------------ MODULE Process ------------------------------
(***************************************************************************)
(* The server process: the certificate it makes for itself, its connection *)
(* slots, the work requests leave behind when their client goes, and the   *)
(* way it stops.  Opening the store and the data lock are in Backup.       *)
(***************************************************************************)
EXTENDS Naturals, Sequences, FiniteSets

CONSTANTS
    Conns,                            \* clients that connect
    MaxConnections,                   \* max_connections, here a real cap
    MaxStarts, MaxKills, MaxRemovals  \* bounds

ASSUME ProcessAssumption == IsFiniteSet(Conns) /\ MaxConnections \in Nat

VARIABLES
    proc,       \* where run_server is; "off" when no process runs
    pair,       \* {data_dir}/tls: the number of the pair each file is of
    loaded,     \* the pair the last server served with
    conns, slots,
    work,       \* per client: the detached work its request left
    sweep,      \* a background task, between two steps of a pass ("half") or not
    signalled, deadline,
    starts, kills, removals

processVars == <<proc, pair, loaded, conns, slots, work, sweep, signalled, deadline, starts, kills,
                 removals>>
tlsVars == <<pair, loaded>>
connVars == <<conns, slots>>
taskVars == <<work, sweep>>
stopVars == <<signalled, deadline>>
counted == <<starts, kills, removals>>

Missing == 0
Torn == 99      \* a file that was created and not written
Starting == {"start", "cert", "cert begun", "key", "key begun", "load", "bind"}
NoWork == [c \in Conns |-> "none"]
Closed == [c \in Conns |-> "closed"]

ProcessInit ==
    /\ proc = "off" /\ pair = [cert |-> Missing, key |-> Missing] /\ loaded = Missing
    /\ conns = Closed /\ slots = MaxConnections
    /\ work = NoWork /\ sweep = "ended"
    /\ signalled = FALSE /\ deadline = "unset"
    /\ starts = 0 /\ kills = 0 /\ removals = 0

\* The process is gone, and what it held in memory with it.
ProcessGone ==
    /\ proc' = "off" /\ conns' = Closed /\ slots' = MaxConnections
    /\ work' = NoWork /\ sweep' = "ended"
    /\ signalled' = FALSE /\ deadline' = "unset"

---------------------------------------------------------------------------
\* Starting: the background tasks are spawned before the certificate is looked at.

StartProcess ==
    /\ proc = "off" /\ starts < MaxStarts
    /\ proc' = "start" /\ sweep' = "idle" /\ starts' = starts + 1
    /\ UNCHANGED <<tlsVars, connVars, work, stopVars, kills, removals>>

\* ensure_certificate, none being configured
EnsureCertificate ==
    /\ proc = "start"
    /\ proc' = IF Missing \in {pair.cert, pair.key} THEN "cert" ELSE "load"
    /\ UNCHANGED <<tlsVars, connVars, taskVars, stopVars, counted>>

\* fs::write and write_private: the file is created empty, then written.
WriteFile(file, begun, next) ==
    \/ /\ proc = file
       /\ pair' = [pair EXCEPT ![file] = Torn] /\ proc' = begun
       /\ UNCHANGED <<loaded, connVars, taskVars, stopVars, counted>>
    \/ /\ proc = begun
       /\ pair' = [pair EXCEPT ![file] = starts] /\ proc' = next
       /\ UNCHANGED <<loaded, connVars, taskVars, stopVars, counted>>

\* RustlsConfig::from_pem_file: files that are no pair end the start.
LoadPair ==
    /\ proc = "load" /\ pair.cert = pair.key /\ pair.cert # Torn
    /\ proc' = "bind" /\ loaded' = pair.cert
    /\ UNCHANGED <<pair, connVars, taskVars, stopVars, counted>>

Bind ==
    /\ proc = "bind"
    /\ proc' = "serve"
    /\ UNCHANGED <<tlsVars, connVars, taskVars, stopVars, counted>>

\* A bad pair, or an address in use: run_server returns at once.
StartFails ==
    /\ \/ proc = "load" /\ (pair.cert # pair.key \/ pair.cert = Torn)
       \/ proc = "bind"
    /\ ProcessGone
    /\ UNCHANGED <<tlsVars, counted>>

\* A crash, or an operator removing a file while nothing runs.
Kill ==
    /\ proc # "off" /\ kills < MaxKills
    /\ kills' = kills + 1 /\ ProcessGone
    /\ UNCHANGED <<tlsVars, starts, removals>>

RemoveFile(file) ==
    /\ proc = "off" /\ removals < MaxRemovals
    /\ removals' = removals + 1 /\ pair' = [pair EXCEPT ![file] = Missing]
    /\ UNCHANGED <<proc, loaded, connVars, taskVars, stopVars, starts, kills>>

---------------------------------------------------------------------------
\* Connections: ConnectionLimit::accept takes a permit, Limited gives it back.

Drop(c) == conns' = [conns EXCEPT ![c] = "closed"] /\ slots' = slots + 1

\* Over the cap the stream is dropped at once.
Accept(c) ==
    /\ proc = "serve" /\ deadline = "unset" /\ conns[c] = "closed" /\ slots > 0
    /\ conns' = [conns EXCEPT ![c] = "new"] /\ slots' = slots - 1
    /\ UNCHANGED <<proc, tlsVars, taskVars, stopVars, counted>>

FirstBytes(c) ==
    /\ conns[c] = "new"
    /\ conns' = [conns EXCEPT ![c] = "open"]
    /\ UNCHANGED <<proc, tlsVars, slots, taskVars, stopVars, counted>>

\* poll_read past the first-bytes deadline, or the handshake failing.
FirstBytesTimeout(c) ==
    /\ conns[c] = "new"
    /\ Drop(c)
    /\ UNCHANGED <<proc, tlsVars, taskVars, stopVars, counted>>

\* A handler runs its work detached and waits for it.
Request(c) ==
    /\ conns[c] = "open" /\ work[c] = "none" /\ deadline = "unset"
    /\ conns' = [conns EXCEPT ![c] = "busy"] /\ work' = [work EXCEPT ![c] = "begun"]
    /\ UNCHANGED <<proc, tlsVars, slots, sweep, stopVars, counted>>

\* The client goes; its work does not.
Disconnect(c) ==
    /\ conns[c] \in {"open", "busy"}
    /\ Drop(c)
    /\ UNCHANGED <<proc, tlsVars, taskVars, stopVars, counted>>

WorkStep(c) ==
    \/ /\ work[c] = "begun"
       /\ work' = [work EXCEPT ![c] = "half"]
       /\ UNCHANGED <<proc, tlsVars, connVars, sweep, stopVars, counted>>
    \/ /\ work[c] = "half"
       /\ work' = [work EXCEPT ![c] = "none"]
       /\ IF conns[c] = "busy" THEN conns' = [conns EXCEPT ![c] = "open"] ELSE UNCHANGED conns
       /\ UNCHANGED <<proc, tlsVars, slots, sweep, stopVars, counted>>

---------------------------------------------------------------------------
\* Background tasks: a pass that began is finished, then the signal is looked at.

BeginSweep ==
    /\ sweep = "idle" /\ ~signalled
    /\ sweep' = "half"
    /\ UNCHANGED <<proc, tlsVars, connVars, work, stopVars, counted>>

FinishSweep ==
    /\ sweep = "half" \/ (sweep = "idle" /\ signalled)
    /\ sweep' = IF signalled THEN "ended" ELSE "idle"
    /\ UNCHANGED <<proc, tlsVars, connVars, work, stopVars, counted>>

---------------------------------------------------------------------------
\* Stopping

\* shutdown_signal
Signal ==
    /\ proc # "off" /\ ~signalled
    /\ signalled' = TRUE
    /\ UNCHANGED <<proc, tlsVars, connVars, taskVars, deadline, counted>>

\* One deadline for requests and background work alike.
GracefulShutdown ==
    /\ signalled /\ deadline = "unset"
    /\ deadline' = "running"
    /\ UNCHANGED <<proc, tlsVars, connVars, taskVars, signalled, counted>>

DeadlinePasses ==
    /\ deadline = "running"
    /\ deadline' = "passed"
    /\ UNCHANGED <<proc, tlsVars, connVars, taskVars, signalled, counted>>

\* While it drains, a connection without a request is closed.
CloseIdle(c) ==
    /\ deadline # "unset" /\ conns[c] = "open"
    /\ Drop(c)
    /\ UNCHANGED <<proc, tlsVars, taskVars, stopVars, counted>>

\* serve returns: every connection is closed, or the deadline closes them.
ServerStops ==
    /\ proc = "serve" /\ deadline # "unset"
    /\ conns = Closed \/ deadline = "passed"
    /\ proc' = "drain" /\ conns' = Closed /\ slots' = MaxConnections
    /\ UNCHANGED <<tlsVars, taskVars, stopVars, counted>>

\* Mutant: the background tasks are waited for, detached work is not.
ExitWithoutDetached ==
    /\ proc = "drain"
    /\ sweep = "ended" \/ deadline = "passed"
    /\ ProcessGone
    /\ UNCHANGED <<tlsVars, counted>>

\* join_all(background) and detached.wait(), by the deadline.
Exit ==
    /\ proc = "drain"
    /\ (sweep = "ended" /\ work = NoWork) \/ deadline = "passed"
    /\ ProcessGone
    /\ UNCHANGED <<tlsVars, counted>>

---------------------------------------------------------------------------
ProcessNext ==
    \/ StartProcess \/ EnsureCertificate
    \/ WriteFile("cert", "cert begun", "key") \/ WriteFile("key", "key begun", "load")
    \/ LoadPair \/ Bind \/ StartFails \/ Kill \/ (\E f \in {"cert", "key"} : RemoveFile(f))
    \/ \E c \in Conns : \/ Accept(c) \/ FirstBytes(c) \/ FirstBytesTimeout(c) \/ Request(c)
                        \/ Disconnect(c) \/ WorkStep(c) \/ CloseIdle(c)
    \/ BeginSweep \/ FinishSweep
    \/ Signal \/ GracefulShutdown \/ DeadlinePasses \/ ServerStops \/ Exit

ProcessSpec == ProcessInit /\ [][ProcessNext]_processVars

\* The start runs on, timers fire, and an awaited future that is ready is polled.  No
\* client and no work is assumed to get anywhere.
ProcessFairness ==
    /\ WF_processVars(EnsureCertificate \/ WriteFile("cert", "cert begun", "key")
                      \/ WriteFile("key", "key begun", "load") \/ LoadPair \/ Bind \/ StartFails)
    /\ \A c \in Conns : WF_processVars(FirstBytesTimeout(c))
    /\ WF_processVars(GracefulShutdown) /\ WF_processVars(DeadlinePasses)
    /\ WF_processVars(ServerStops) /\ WF_processVars(Exit)

---------------------------------------------------------------------------
\* Every permit is with one open connection or free, whichever way connections end
\* (ConnectionLimit::accept, Limited).
SlotsComeBack == slots + Cardinality({c \in Conns : conns[c] # "closed"}) = MaxConnections

\* A stop leaves no pass and no detached work half done, unless the deadline passed
\* (run_server, detached).
StopCutsNothing ==
    [][proc = "drain" /\ proc' = "off" /\ kills' = kills =>
           deadline = "passed" \/ (sweep # "half" /\ \A c \in Conns : work[c] = "none")]_processVars

\* The server keeps the certificate clients were told to trust until an operator
\* removes it, whenever it is killed (ensure_certificate).
PairIsStable == [][loaded' # loaded /\ loaded # Missing => removals > 0]_processVars

\* Whatever clients and tasks do, a stop ends (SHUTDOWN_GRACE).
StopEnds == signalled ~> proc = "off"

\* A client that connects and says nothing does not keep its slot (first_bytes).
SilentIsClosed == \A c \in Conns : conns[c] = "new" ~> conns[c] # "new"

\* The process gives connection slots back, keeps its certificate from start
\* to start, and stops without cutting off what it promised to finish (serve,
\* main).
ProcessIsSound == []SlotsComeBack /\ StopCutsNothing /\ PairIsStable
=============================================================================
