--------------------------- MODULE MCCapitalPolicy ---------------------------
EXTENDS CapitalPolicy, TLC

CONSTANTS p1, p2

(* A configuration file has no negative numbers.                             *)
SignedAmounts == {-1, 1, 2, 3}

(* Plans differ in nothing but their ids.                                    *)
PlanSymmetry == Permutations(Plans)
=============================================================================
