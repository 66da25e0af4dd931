--------------------------- MODULE MCDiscoveryQueue ---------------------------
EXTENDS DiscoveryQueue, TLC

CONSTANTS flash, dex, c1, c2

(* c1 is a flash-loan candidate, c2 one of the dex scanner.                  *)
MCKindOf == (flash :> "flash_loan") @@ (dex :> "dex") @@ (c1 :> "flash_loan") @@ (c2 :> "dex")
=============================================================================
