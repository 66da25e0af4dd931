---------------------------- MODULE ClaimRegistry ----------------------------
(* What duplicate protection promises, without the requests that use it: an   *)
(* opportunity is claimed, at that moment it is or is not sent, and it cannot  *)
(* be sent again before the claim is released.                                *)
EXTENDS Integers

CONSTANT Fingerprints

VARIABLES
    claims,     \* the opportunities claimed now
    sends       \* how often each was sent under its present claim

Init == claims = {} /\ sends = [f \in Fingerprints |-> 0]

Take(f, n) ==
    /\ f \notin claims
    /\ claims' = claims \union {f}
    /\ sends' = [sends EXCEPT ![f] = n]

Release(S) ==
    /\ claims' = claims \ S
    /\ sends' = [f \in Fingerprints |-> IF f \in S THEN 0 ELSE sends[f]]

Next ==
    \/ \E f \in Fingerprints, n \in {0, 1} : Take(f, n)
    \/ \E S \in SUBSET Fingerprints : Release(S)

Spec == Init /\ [][Next]_<<claims, sends>>
=============================================================================
