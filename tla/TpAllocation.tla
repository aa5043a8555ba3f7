---------------------------- MODULE TpAllocation ----------------------------
(***************************************************************************)
(* positions/tp_allocation.py: how a position's volume is split over the   *)
(* signal's take-profits, which is what DemoMonitor and the SHADOW path    *)
(* then sell target by target.  Volumes are converted to whole steps of    *)
(* the broker first; a percentage is a weight over the sum of the weights, *)
(* and what Decimal rounds away (a quotient or product has Digits          *)
(* significant digits, 28 in the code) is rounded away here too.           *)
(***************************************************************************)
EXTENDS Integers, Sequences

CONSTANTS Digits,   \* decimal precision
          Volumes,  \* a position's volume,
          Minima,   \* the broker's minimum
          Steps,    \* and its volume step, in hundredths of a lot
          Counts,   \* how many take-profits a signal has
          Customs   \* tp_custom_allocations

Presets == {"EQUAL", "PROTECT", "RUNNER", "CUSTOM"}
Least(a, b) == IF a <= b THEN a ELSE b
Most(a, b) == IF a <= b THEN b ELSE a
(* total_units and min_units, by ROUND_DOWN: a minimum that is no multiple *)
(* of the step becomes the multiple below it.                              *)
Units(volume, step) == volume \div step
MinUnits(minimum, step) == Most(1, minimum \div step)
Inputs ==
  {[total |-> Units(v, s), min |-> MinUnits(m, s), n |-> n, preset |-> p, custom |-> c] :
     v \in Volumes, m \in Minima, s \in Steps, n \in Counts, p \in Presets, c \in Customs}
ASSUME InputsAssumption ==
  /\ Digits \in Nat \ {0} /\ Volumes \subseteq Nat /\ Minima \subseteq Nat \ {0}
  /\ Steps \subseteq Nat \ {0} /\ Counts \subseteq Nat /\ Customs \subseteq Seq(Int)

VARIABLES in,     \* the call's arguments
          pc, k,  \* where it is: the k-th kept target
          left,   \* remaining_units
          share   \* allocations: the units of each target
vars == <<in, pc, k, left, share>>

-----------------------------------------------------------------------------
(* _requested_percentages: the weights.  A preset is cut to the targets    *)
(* there are or padded with zeros, a custom list only cut.  EQUAL's 1/n is *)
(* divided by the sum of all once more, which can change its last digit    *)
(* from 11 targets on and is left out.                                     *)
Template == [EQUAL |-> <<>>, PROTECT |-> <<40, 20, 20, 20>>,
             RUNNER |-> <<20, 20, 20, 40>>, CUSTOM |-> <<>>]
Total(w) ==
  LET sum[i \in 0..Len(w)] == IF i = 0 THEN 0 ELSE w[i] + sum[i - 1] IN sum[Len(w)]
Listed(c) ==
  IF c.preset = "CUSTOM" /\ c.custom # <<>>
  THEN [i \in 1..Least(c.n, Len(c.custom)) |-> Most(0, c.custom[i])]
  ELSE IF Template[c.preset] # <<>>
  THEN [i \in 1..c.n |-> IF i <= Len(Template[c.preset]) THEN Template[c.preset][i] ELSE 0]
  ELSE [i \in 1..c.n |-> 1]
Weights(c) == IF Total(Listed(c)) > 0 THEN Listed(c) ELSE [i \in 1..c.n |-> 1]

(* Decimal arithmetic: a/b and a*b to Digits significant digits, half even.*)
Ten[n \in Nat] == IF n = 0 THEN 1 ELSE 10 * Ten[n - 1]
RoundHalfEven(a, b) ==
  LET q == a \div b
      r == 2 * (a % b)
  IN IF r > b \/ (r = b /\ q % 2 = 1) THEN q + 1 ELSE q
Places(a, b) == CHOOSE s \in 0..(Digits + b) : \* decimals of a/b, 0 < a <= b
  /\ a * Ten[s] >= b * Ten[Digits - 1]
  /\ \A t \in 0..(s - 1) : a * Ten[t] < b * Ten[Digits - 1]
Surplus(a) == CHOOSE s \in 0..(a \div Ten[Digits - 1]) : \* digits of a beyond the precision
  a < Ten[Digits + s] /\ (s = 0 \/ a >= Ten[Digits + s - 1])
Significant(a) == RoundHalfEven(a, Ten[Surplus(a)]) * Ten[Surplus(a)]

(* The units of target t out of a volume.                                  *)
UnitsOf(volume, t) ==
  LET w == Weights(in)[t]
      whole == Total(Weights(in))
      s == Places(w, whole)
  IN IF w = 0 THEN 0 ELSE Significant(volume * RoundHalfEven(w * Ten[s], whole)) \div Ten[s]
RequestedOfRest(t) == UnitsOf(left, t)
Requested(t) == UnitsOf(in.total, t)

(* The precision exceeds what is multiplied: 28 digits against lots and    *)
(* percentages.                                                            *)
ASSUME PrecisionAssumption ==
  \A c \in Inputs : \A t \in DOMAIN Weights(c) : c.total * Weights(c)[t] < Ten[Digits - 1]

-----------------------------------------------------------------------------
(* As many targets as the volume has minima are kept: the first ones and   *)
(* the last.                                                               *)
Fit == Least(in.n, in.total \div in.min)
Kept(i) == IF i < Fit THEN i ELSE in.n
IsKept(t) == t < Fit \/ t = in.n

Init ==
  /\ in \in Inputs
  /\ pc = "start" /\ k = 1 /\ left = in.total
  /\ share = [t \in 1..in.n |-> 0]

Begin ==
  /\ pc = "start"
  /\ pc' = IF in.total < in.min THEN "ValueError" ELSE IF in.n = 0 THEN "planned" ELSE "share"
  /\ UNCHANGED <<in, k, left, share>>

(* Every kept target but the last gets what is requested, at least the     *)
(* minimum, leaving a minimum for each kept target after it.               *)
Reserved == (Fit - k) * in.min
ShareUnreserved ==
  /\ pc = "share" /\ k < Fit /\ Kept(k) <= Len(Weights(in))
  /\ LET units == Most(in.min, Requested(Kept(k))) IN
       share' = [share EXCEPT ![Kept(k)] = units] /\ left' = left - units
  /\ k' = k + 1
  /\ UNCHANGED <<in, pc>>
Share ==
  /\ pc = "share" /\ k < Fit /\ Kept(k) <= Len(Weights(in))
  /\ LET units == Least(Most(in.min, Requested(Kept(k))), left - Reserved) IN
       share' = [share EXCEPT ![Kept(k)] = units] /\ left' = left - units
  /\ k' = k + 1
  /\ UNCHANGED <<in, pc>>

(* The last one gets the rest.                                             *)
LastAsRequested ==
  /\ pc = "share" /\ k = Fit
  /\ share' = [share EXCEPT ![in.n] = Most(in.min, in.total \div Fit)]
  /\ left' = 0 /\ k' = k + 1
  /\ UNCHANGED <<in, pc>>
Last ==
  /\ pc = "share" /\ k = Fit
  /\ share' = [share EXCEPT ![in.n] = left]
  /\ left' = 0 /\ k' = k + 1
  /\ UNCHANGED <<in, pc>>

(* percentages[index], for the share or for the plan's rows.               *)
Unlisted ==
  /\ pc = "share"
  /\ \/ k < Fit /\ Kept(k) > Len(Weights(in))
     \/ k > Fit /\ in.n > Len(Weights(in))
  /\ pc' = "IndexError"
  /\ UNCHANGED <<in, k, left, share>>
Plan ==
  /\ pc = "share" /\ k > Fit /\ in.n <= Len(Weights(in))
  /\ pc' = "planned"
  /\ UNCHANGED <<in, k, left, share>>

Next == Begin \/ Share \/ Last \/ Unlisted \/ Plan
Spec == Init /\ [][Next]_vars

-----------------------------------------------------------------------------
(* Nothing is lost to rounding or merging: the targets of a plan sum to    *)
(* the whole steps of the position's volume.                               *)
PlanWhole == pc = "planned" /\ in.n > 0 => Total(share) = in.total

(* No target is planned that the broker would refuse: it gets at least the *)
(* minimum, in whole steps, or nothing and is merged.                      *)
NoCrumbs ==
  pc = "planned" =>
    \A t \in 1..in.n : IF IsKept(t) THEN share[t] >= in.min ELSE share[t] = 0

(* Against exact arithmetic: an early target never gets more than its      *)
(* weight asks for, minimum aside, and one step less at most, unless the   *)
(* minima of later targets need it.                                        *)
RequestHonoured ==
  pc = "planned" =>
    \A t \in 1..(Fit - 1) :
      LET exact == (in.total * Weights(in)[t]) \div Total(Weights(in)) IN
      /\ share[t] <= Most(in.min, exact)
      /\ \/ share[t] >= exact - 1
         \/ \A u \in (t + 1)..in.n : IsKept(u) => share[u] = in.min
=============================================================================
