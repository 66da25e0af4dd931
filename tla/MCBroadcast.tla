----------------------------- MODULE MCBroadcast -----------------------------
EXTENDS Broadcast

CONSTANTS r1, r2, p1, f1

MCFingerprintOf == [p \in Plans |-> f1]
=============================================================================
