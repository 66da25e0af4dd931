--------------------------- MODULE MCExecutionMode ---------------------------
EXTENDS ExecutionMode

CONSTANTS s1, s2, o1, o2

(* flash_loan_arbitrage starts in SHADOW, every other strategy in PAPER.     *)
MCDefaultMode == [s \in Strategies |-> IF s = s1 THEN SHADOW ELSE PAPER]
=============================================================================
