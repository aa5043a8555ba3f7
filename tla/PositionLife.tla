---------------------------- MODULE PositionLife ----------------------------
(***************************************************************************)
(* What a position's row promises its readers (the consistency checker,    *)
(* the risk checks, the dashboard): volume is only taken out, the stop is  *)
(* only tightened, and the row is CLOSED exactly when nothing remains,     *)
(* which is final.                                                         *)
(***************************************************************************)
EXTENDS Integers

CONSTANTS Volume, Stop  \* what was opened, with which stop (of a BUY)

VARIABLES status, remaining, stop

life == <<status, remaining, stop>>

Init == status = "OPEN" /\ remaining = Volume /\ stop = Stop

(* A commit of any writer: a partial close, a close, a stop move or several*)
(* of them at once.                                                        *)
Next ==
  /\ status = "OPEN"
  /\ remaining' \in 0..remaining
  /\ stop' >= stop
  /\ status' = IF remaining' = 0 THEN "CLOSED" ELSE "OPEN"

Spec == Init /\ [][Next]_life
=============================================================================
