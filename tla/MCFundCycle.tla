------------------------------ MODULE MCFundCycle ------------------------------
EXTENDS FundCycle

(* One cycle of each mode, or one alone.                                     *)
CONSTANTS c1, c2, o1, o2
=============================================================================
