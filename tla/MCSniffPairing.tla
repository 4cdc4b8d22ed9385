-------------------------- MODULE MCSniffPairing ---------------------------
\* Model-checking instance of SniffPairing.
EXTENDS SniffPairing

CONSTANTS c1, c2

Connections == {c1, c2}

\* 0.25 and 0.5 seconds: ".25Z" and ".5Z".
Times == [n \in 0..N |-> <<0, <<<<0, 0>>, <<2, 5>>, <<5, 0>>>>[n + 1]>>]
=============================================================================
