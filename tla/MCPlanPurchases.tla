--------------------------- MODULE MCPlanPurchases ---------------------------
\* Model values for TLC; requests are interchangeable.
EXTENDS PlanPurchases, TLC

CONSTANTS p1, b1, k1, w1, w2, w3

Symmetry == Permutations(Worker)

MCPrices == {0, 2}

\* The wallet may owe one unit.
MCLimit == -1

=============================================================================
