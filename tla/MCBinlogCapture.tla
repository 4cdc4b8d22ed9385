-------------------------- MODULE MCBinlogCapture --------------------------
\* Model-checking instance of BinlogCapture.
EXTENDS BinlogCapture, TLC

CONSTANTS t1, t2, t3

Txns == {t1, t2, t3}
TwoTxns == {t1, t2}
NoTxns == {}
OneSystemTxn == {t3}
AppSymmetry == Permutations({t1, t2})
AllSymmetry == Permutations({t1, t2, t3})
=============================================================================
