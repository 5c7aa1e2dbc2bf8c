---------------------------- MODULE MCPlanSearch ----------------------------
EXTENDS PlanSearch

\* The states a plan can lead to from S in at most N steps.
From(next, S) ==
    LET reach[n \in 0..N] == IF n = 0 THEN S ELSE reach[n - 1] \cup UNION {next[s] : s \in reach[n - 1]}
    IN reach[N]

\* State N is the goal and leads nowhere, and nothing leads back to the start:
\* every such graph.
Graphs == {[s \in States |-> IF s = N THEN {} ELSE f[s] \ {s}] :
              f \in [1..(N - 1) -> SUBSET (2..N)]}

Doomed(next) == {s \in States : N \notin From(next, {s})}

Plain(caller, next, helpful, dead, h) ==
    [next |-> next, helpful |-> helpful, goal |-> {N}, dead |-> dead, h |-> h,
     cost |-> [s \in States |-> [t \in States |-> 0]], first |-> 1, caller |-> caller]

\* Heights that lie flat, and heights that lead on where dead ends are seen.
Flat == [s \in States |-> IF s = N THEN 0 ELSE 1]
Ladders == UNION {
    {Plain("plan", n, n, {}, Flat),
     Plain("plan", n, n, Doomed(n), [s \in States |-> N - s]),
     Plain("length", n, [s \in States |-> {}], {}, Flat)} : n \in Graphs}

\* The direct step to a state may cost more than the way round to it.
Costs == [s \in States |-> [t \in States |->
             IF t < s \/ (s = 1 /\ t = 2) THEN 0
             ELSE IF s = 1 THEN t - 1 ELSE 1]]

\* The caller's plan costs N; in one problem nothing.
Sweeps ==
    {[Plain("improve", n, n, {}, Flat) EXCEPT !.first = N, !.cost = Costs] : n \in Graphs}
    \cup {[Plain("improve", [s \in States |-> {}], [s \in States |-> {}], States \ {N}, Flat)
              EXCEPT !.first = b, !.cost = Costs] : b \in {0, N}}

MCProblems == Ladders \cup Sweeps
=============================================================================
