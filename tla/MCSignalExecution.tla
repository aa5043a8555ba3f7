------------------------- MODULE MCSignalExecution -------------------------
(* A signal, its edit to a different entry, and a repost of one of them.   *)
EXTENDS SignalExecution, TLC
CONSTANTS w1, w2, m1, m2, a1, a2
MCWorkers == {w1, w2}
MCMsgs == {m1, m2}
TwoAccounts == {a1, a2}
First == {a1}
Second == {a2}
NoAccount == {}
MCFeed == << [msg |-> m1, body |-> "sell", edited |-> FALSE],
             [msg |-> m1, body |-> "buy", edited |-> TRUE],
             [msg |-> m2, body |-> "buy with other targets", edited |-> FALSE] >>
MCFingerprint == [b \in {MCFeed[j].body : j \in DOMAIN MCFeed} |->
                    IF b = "sell" THEN "sell" ELSE "buy"]
(* On one account the repost has more targets than the list of percentages.*)
MCShortLists == {<<"buy with other targets", a2>>}
MCCloses == {<<m2, a1>>}
MCLimits == (a1 :> 1) @@ (a2 :> 1)
=============================================================================
