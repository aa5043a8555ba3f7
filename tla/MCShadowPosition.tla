-------------------------- MODULE MCShadowPosition --------------------------
EXTENDS ShadowPosition

CONSTANTS w1, h1, h2, worker, server, u1, u2
MCSessions == {w1, h1, h2}
MCHandlers == {h1, h2}
MCProc == [s \in MCSessions |-> IF s \in MCHandlers THEN server ELSE worker]
MCUpdates == {u1, u2}
PartialAndTarget ==
  [u \in MCUpdates |-> IF u = u1 THEN [action |-> "PARTIAL_CLOSE_AND_BREAK_EVEN", percent |-> 50]
                                 ELSE [action |-> "TARGET_HIT", target |-> 1]]
MCTargets == 1..2
MCAlloc == <<2, 2>>
MCTarget == <<2, 3>>
MCPrices == {2, 3}
MCStops == {1, 2}
MCPercents == {50}
=============================================================================
