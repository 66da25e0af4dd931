------------------------------- MODULE Modes -------------------------------
(* The five execution modes of a trading strategy and the two pure helpers  *)
(* over them, from arbicore/execution/mode.py.  A mode is its rung number,   *)
(* which is what _idx computes from the name.                                *)
EXTENDS Integers

OBSERVE == 0
PAPER == 1
SHADOW == 2
LIMITED_LIVE == 3
FULL_LIVE == 4

MODES == OBSERVE..FULL_LIVE

(* Faulty variant: a promotion may skip one rung.                            *)
ValidTransitionOffByOne(current, proposed) == proposed - current <= 2

(* validate_transition: a no-op, any number of rungs down, or one rung up.   *)
ValidTransition(current, proposed) ==
    \/ proposed = current
    \/ proposed < current
    \/ proposed - current <= 1

(* is_broadcast_allowed: the rungs on which a transaction may be sent.       *)
IsBroadcastAllowed(m) == m \in {LIMITED_LIVE, FULL_LIVE}
=============================================================================
