--------------------------- MODULE MCUserAccounts ---------------------------
\* Model values for TLC.
EXTENDS UserAccounts

CONSTANTS u1, u2, e1, p1, w1, w2

=============================================================================
