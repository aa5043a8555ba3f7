---------------------------- MODULE MCDailyGuard ----------------------------
(* Two signals: a loss that reaches the limit, and a win. *)
EXTENDS DailyGuard, TLC
CONSTANTS w1, w2, s1, s2
MCWorkers == {w1, w2}
MCSignals == {s1, s2}
MCFinal == (s1 :> -2) @@ (s2 :> 1)
MCWins == (s1 :> 1) @@ (s2 :> 1)
=============================================================================
