---------------------------- MODULE MCRecorder -----------------------------
\* Model-checking instance of Recorder.
EXTENDS Recorder, TLC

CONSTANTS r1, r2, r3

Requests == {r1, r2, r3}
TwoRequests == {r1, r2}
Symmetric == Permutations({r1, r2, r3})
=============================================================================
