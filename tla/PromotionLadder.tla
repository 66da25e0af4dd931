--------------------------- MODULE PromotionLadder ---------------------------
(* What the mode ladder promises of a strategy's history, whoever moves it   *)
(* and in whatever order: a rung on which transactions may be sent is         *)
(* reached only by a strategy that has stood on the rung below it.            *)
EXTENDS Modes

CONSTANT Strategies

VARIABLE held      \* held[s]: every mode strategy s has ever been in

Init == held = [s \in Strategies |-> {}]

Earned(m, past) == IsBroadcastAllowed(m) => (m - 1) \in past

Reach(s, m) ==
    /\ Earned(m, held[s])
    /\ held' = [held EXCEPT ![s] = @ \union {m}]

Next == \E s \in Strategies, m \in MODES : Reach(s, m)

Spec == Init /\ [][Next]_held
=============================================================================
