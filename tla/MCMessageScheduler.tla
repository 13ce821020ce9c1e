------------------------- MODULE MCMessageScheduler -------------------------
(* Two handlers: one every 2 ms and always active, which a signal also     *)
(* sends; one every 3 ms that its generator can switch off.                *)
EXTENDS MessageScheduler, TLC

CONSTANTS reverse, roadsign

MCHandlers == <<reverse, roadsign>>
MCPeriod == (reverse :> 2) @@ (roadsign :> 3)
MCOffset == (reverse :> 0) @@ (roadsign :> 1)
=============================================================================
