---------------------------- MODULE MCPgCapture ----------------------------
\* Model-checking instance of PgCapture.
EXTENDS PgCapture, TLC

CONSTANTS t1, t2, t3

Txns == {t1, t2, t3}
TwoTxns == {t1, t2}
Symmetric == Permutations({t1, t2, t3})
=============================================================================
