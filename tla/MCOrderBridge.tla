---------------------------- MODULE MCOrderBridge ----------------------------
(***************************************************************************)
(* A small instance of OrderBridge.  With the environment at level 1       *)
(* (500 USDT) the loop has an order exactly at the threshold and one that  *)
(* is within it but critical; a client has an order one dollar above the   *)
(* threshold (automatic at level 2) and one the guardrails refuse.         *)
(***************************************************************************)
EXTENDS OrderBridge

MCLoopOrders == {"l500", "lcritical"}
MCApiOrders  == {"a501", "aunsafe"}
MCNotional   == [o \in MCLoopOrders \cup MCApiOrders |-> IF o = "a501" THEN 501 ELSE 500]
MCCritical   == {"lcritical"}
MCUnsafe     == {"aunsafe"}

=============================================================================
