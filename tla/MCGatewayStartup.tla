--------------------------- MODULE MCGatewayStartup ---------------------------
(* Two overlapping inits.  The clock just reaches the first moment at which   *)
(* an init that starts at 0 or 1 would be overdue; one that starts later is   *)
(* followed that far and no further.                                          *)
EXTENDS GatewayStartup

CONSTANTS i1, i2

MCInits == {i1, i2}
=============================================================================
