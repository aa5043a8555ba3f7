--------------------------- MODULE MCDemoMonitor ---------------------------
(* Three targets worth 1, 1 and 2 steps (RUNNER); 
   prices below, at and beyond them, the first target further than the second. *)
EXTENDS DemoMonitor
CONSTANTS r1, r2
MCMonitors == {r1, r2}
MCTargets == 1..3
MCAlloc == <<1, 1, 2>>
MCTarget == <<3, 2, 4>>
MCPrices == {0, 2, 3, 4}
=============================================================================
