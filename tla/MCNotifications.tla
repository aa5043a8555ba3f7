-------------------------- MODULE MCNotifications --------------------------
(* One event and a daily report, which two workers may file twice. *)
EXTENDS Notifications
CONSTANTS w1, w2, e1
MCWorkers == {w1, w2}
MCEvents == {e1}
============================================================================
