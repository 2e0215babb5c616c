------------------------------- MODULE MCJobs -------------------------------
(***************************************************************************)
(* The jobs beside serving, one of them per behaviour: symbol packages,    *)
(* the inbox for large files, retention, and the process that runs them.   *)
(***************************************************************************)
EXTENDS Symbols, Inbox, Retention, Process

VARIABLE machine

vars == <<machine, symVars, inboxVars, retentionVars, processVars>>

\* Versions 1 and 2 of one package, 3 of another; two share a symbol with the
\* same bytes, two claim one key with different bytes.
MCIdOf == [v \in SymVersions |-> IF v = 3 THEN 2 ELSE 1]
MCPushes == {[ver |-> 1, build |-> 1, bytes |-> [k \in {1, 2} |-> 1]],
             [ver |-> 2, build |-> 1, bytes |-> [k \in {1, 2} |-> IF k = 1 THEN 1 ELSE 2]],
             [ver |-> 3, build |-> 1, bytes |-> [k \in {2} |-> 3]],
             [ver |-> 1, build |-> 2, bytes |-> [k \in {1} |-> 4]]}
MCContents == {<<1>>, <<1, 1>>, <<2, 2>>}
MCRow(v, pre, servable) == [v |-> v, pre |-> pre, pinned |-> FALSE, servable |-> servable, added |-> 0]
MCRows == {MCRow(1, FALSE, TRUE), MCRow(2, FALSE, TRUE), MCRow(3, FALSE, FALSE), MCRow(4, TRUE, TRUE)}
MCPolicy == [stable |-> {1}, prerelease |-> {0}, days |-> {0}]

Init ==
    /\ machine \in {"symbols", "inbox", "retention", "process"}
    /\ SymInit /\ InboxInit /\ RetentionInit /\ ProcessInit

InboxAlone(A) == machine = "inbox" /\ A /\ UNCHANGED <<machine, symVars, retentionVars, processVars>>

Next ==
    \/ machine = "symbols" /\ SymNext /\ UNCHANGED <<machine, inboxVars, retentionVars, processVars>>
    \/ machine = "retention" /\ RetentionNext /\ UNCHANGED <<machine, symVars, inboxVars, processVars>>
    \/ machine = "process" /\ ProcessNext /\ UNCHANGED <<machine, symVars, inboxVars, retentionVars>>
    \/ InboxAlone(InboxNext)

\* The scan of the inbox runs on a timer that never stops (spawn_file_tasks).
Spec == Init /\ [][Next]_vars /\ WF_vars(InboxAlone(ScanStep)) /\ ProcessFairness

=============================================================================
