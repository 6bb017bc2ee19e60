----------------------------- MODULE MCSessions -----------------------------
\* Model values for TLC; handlers are interchangeable.
EXTENDS Sessions, TLC

CONSTANTS u1, w1, w2, c1

Symmetry == Permutations(Handler)

=============================================================================
