---------------------------- MODULE MCMcpSessions ----------------------------
EXTENDS McpSessions

\* Session 1 is open at the start; 2 is where it is forked to.
Ask(op) == [op |-> op, id |-> 1, other |-> 2, shelf |-> "k", replace |-> TRUE, checked |-> FALSE]
Guarded(op) == [Ask(op) EXCEPT !.checked = TRUE]

MCRequests ==
    {Ask(op) : op \in Ops}
    \cup {Guarded(op) : op \in {"set", "restore", "fork"}}
    \cup {[Ask(op) EXCEPT !.replace = FALSE] : op \in {"open", "fork"}}
    \cup {[Ask(op) EXCEPT !.id = 2, !.other = 1] : op \in {"compare", "think", "restore"}}

\* The way to a stale epoch through a restore.
MCStaleRequests ==
    {Ask("checkpoint"), Ask("set"), Ask("read"), Ask("restore"), Guarded("set")}

\* A write while a restore or a bootstrap is on its way with the head.
MCGapRequests == {Ask(op) : op \in {"checkpoint", "restore", "bootstrap", "set"}}
=============================================================================
