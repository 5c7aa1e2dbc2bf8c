----------------------------- MODULE MCFondPolicy -----------------------------
EXTENDS FondPolicy, FiniteSetsExt

\* State 1 is initial and 4 the goal (acting in a goal state does not matter).
\* Action 1 leads to at most two states, action 2 to at most one; state 1 has
\* action 1, state 3 only that, and state 3 may be unsafe.
Fans == UNION {kSubset(k, States) : k \in 0..2}
Steps == UNION {kSubset(k, States) : k \in 0..1}

ProblemOf(f, g, u) ==
    [out |-> << <<f[1], g[1]>>, <<f[2], g[2]>>, <<f[3], {}>>, <<{}, {}>> >>,
     goal |-> {4}, unsafe |-> u, initial |-> {1}]

MCProblems ==
    {ProblemOf(f, g, {}) : f \in {h \in [1..3 -> Fans] : h[1] # {}}, g \in [1..2 -> Steps]}
    \cup {ProblemOf(f, g, {3}) : f \in {h \in [1..3 -> Fans] : h[1] # {} /\ h[3] # {}},
                                 g \in {[i \in 1..2 |-> {}]}}
=============================================================================
