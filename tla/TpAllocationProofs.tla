------------------------- MODULE TpAllocationProofs -------------------------
(***************************************************************************)
(* TpAllocation for every volume, minimum, number of targets, list of      *)
(* percentages and precision: plans are whole, leave no target the broker  *)
(* would refuse, and give what was requested as far as minima allow.       *)
(***************************************************************************)
EXTENDS TpAllocation, WellFoundedInduction, TLAPS

LEMMA LeastNat ==
  ASSUME NEW B \in SUBSET Nat, B # {}
  PROVE \E n \in B : \A m \in B : n <= m
  <1>1. PICK n \in B : \A m \in B : ~(<<m, n>> \in OpToRel(<, Nat))
    BY Zenon, WFMin, NatLessThanWellFounded
  <1>2. \A m \in B : ~(m < n)
    BY <1>1 DEF OpToRel
  <1> QED BY <1>2

-----------------------------------------------------------------------------
(* Powers of ten: what the recursive function is, from the finite parts it *)
(* can be computed on.                                                     *)
Positive == Nat \ {0}
Powers(F, n) == F[0] = 1 /\ \A i \in 1..n : F[i] = 10 * F[i - 1]

LEMMA PowersExist == ASSUME NEW k0 \in Nat PROVE \E F \in [0..k0 -> Positive] : Powers(F, k0)
  <1> DEFINE B == {n \in Nat : ~(\E F \in [0..n -> Positive] : Powers(F, n))}
  <1> SUFFICES ASSUME B # {} PROVE FALSE
    OBVIOUS
  <1>1. PICK n \in B : \A m \in B : n <= m
    BY LeastNat
  <1>2. n \in Nat /\ ~(\E F \in [0..n -> Positive] : Powers(F, n))
    BY <1>1
  <1>3. CASE n = 0
    <2>1. [i \in 0..0 |-> 1] \in [0..0 -> Positive] /\ Powers([i \in 0..0 |-> 1], 0)
      BY DEF Powers, Positive
    <2> QED BY <1>2, <1>3, <2>1
  <1>4. CASE n # 0
    <2>1. n - 1 \in Nat /\ n - 1 \notin B
      BY <1>1, <1>2, <1>4
    <2>2. PICK F \in [0..(n - 1) -> Positive] : Powers(F, n - 1)
      BY <2>1
    <2> DEFINE G == [i \in 0..n |-> IF i = n THEN 10 * F[n - 1] ELSE F[i]]
    <2>3. n - 1 \in 0..(n - 1) /\ F[n - 1] \in Positive /\ 10 * F[n - 1] \in Positive
      BY <2>1 DEF Positive
    <2>4. G \in [0..n -> Positive]
      BY <1>2, <2>3
    <2>5. G[0] = 1 /\ \A i \in 1..n : G[i] = 10 * G[i - 1]
      <3>1. G[0] = 1
        BY <1>2, <1>4, <2>2 DEF Powers
      <3>2. ASSUME NEW i \in 1..n PROVE G[i] = 10 * G[i - 1]
        <4>1. G[i - 1] = F[i - 1]
          BY <1>2
        <4>2. CASE i = n
          BY <1>2, <4>1, <4>2
        <4>3. CASE i # n
          BY <1>2, <2>2, <4>1, <4>3 DEF Powers
        <4> QED BY <4>2, <4>3
      <3> QED BY <3>1, <3>2
    <2> QED BY <1>2, <2>4, <2>5 DEF Powers
  <1> QED BY <1>3, <1>4

LEMMA PowersAgree ==
  ASSUME NEW n \in Nat, NEW F, NEW G, Powers(F, n), Powers(G, n)
  PROVE  F[n] = G[n]
  <1> DEFINE B == {i \in 0..n : F[i] # G[i]}
  <1> SUFFICES ASSUME B # {} PROVE FALSE
    BY DEF B
  <1>1. PICK i \in B : \A j \in B : i <= j
    <2>1. B \in SUBSET Nat
      OBVIOUS
    <2> QED BY <2>1, LeastNat
  <1>2. i # 0
    BY <1>1 DEF Powers
  <1>3. F[i - 1] = G[i - 1]
    BY <1>1, <1>2
  <1> QED BY <1>1, <1>2, <1>3 DEF Powers

LEMMA TenIs == Ten \in [Nat -> Positive] /\ Ten[0] = 1 /\ \A n \in Nat : Ten[n + 1] = 10 * Ten[n]
  <1> DEFINE Part(n) == CHOOSE F \in [0..n -> Positive] : Powers(F, n)
             H == [n \in Nat |-> Part(n)[n]]
  <1>1. ASSUME NEW n \in Nat PROVE Part(n) \in [0..n -> Positive] /\ Powers(Part(n), n)
    BY PowersExist
  <1> HIDE DEF Part
  <1>2. H \in [Nat -> Positive]
    BY <1>1
  <1>3. H[0] = 1
    BY <1>1 DEF Powers
  <1>4. ASSUME NEW n \in Nat PROVE H[n + 1] = 10 * H[n]
    <2>1. Powers(Part(n + 1), n) /\ Powers(Part(n), n)
      BY <1>1 DEF Powers
    <2>2. Part(n + 1)[n] = Part(n)[n]
      BY <2>1, PowersAgree
    <2>3. Part(n + 1)[n + 1] = 10 * Part(n + 1)[n]
      <3>1. Powers(Part(n + 1), n + 1) /\ n + 1 \in 1..(n + 1) /\ (n + 1) - 1 = n
        BY <1>1
      <3> QED BY <3>1 DEF Powers
    <2> QED BY <2>2, <2>3
  <1> HIDE DEF H
  <1>5. H = [n \in Nat |-> IF n = 0 THEN 1 ELSE 10 * H[n - 1]]
    <2>1. ASSUME NEW n \in Nat PROVE H[n] = IF n = 0 THEN 1 ELSE 10 * H[n - 1]
      <3>1. CASE n = 0
        BY <1>3, <3>1
      <3>2. CASE n # 0
        <4>1. n - 1 \in Nat /\ (n - 1) + 1 = n
          BY <3>2
        <4> QED BY <1>4, <3>2, <4>1
      <3> QED BY <3>1, <3>2
    <2> QED BY <1>2, <2>1
  <1>6. Ten = [n \in Nat |-> IF n = 0 THEN 1 ELSE 10 * Ten[n - 1]]
    <2>1. Ten = CHOOSE T : T = [n \in Nat |-> IF n = 0 THEN 1 ELSE 10 * T[n - 1]]
      BY Zenon DEF Ten
    <2> QED BY <1>5, <2>1
  <1>7. \A n \in Nat : Ten[n + 1] = 10 * Ten[n]
    BY <1>6
  <1>8. Ten[0] = 1
    BY <1>6
  <1>9. ASSUME NEW n \in Nat PROVE Ten[n] = H[n]
    <2>1. Powers(Ten, n) /\ Powers(H, n)
      <3>1. \A i \in 1..n : i - 1 \in Nat /\ (i - 1) + 1 = i
        OBVIOUS
      <3> QED BY <1>3, <1>4, <1>7, <1>8, <3>1 DEF Powers
    <2> QED BY <2>1, PowersAgree
  <1>10. Ten \in [Nat -> Positive]
    <2>1. Ten = [n \in Nat |-> Ten[n]]
      BY <1>6
    <2> QED BY <1>2, <1>9, <2>1
  <1> QED BY <1>7, <1>8, <1>10

LEMMA TenGrows == \A n \in Nat : Ten[n] \in Positive /\ Ten[n] > n
  <1> DEFINE B == {n \in Nat : ~(Ten[n] > n)}
  <1>1. B = {}
    <2> SUFFICES ASSUME B # {} PROVE FALSE
      OBVIOUS
    <2>1. PICK n \in B : \A m \in B : n <= m
      BY LeastNat
    <2>2. n # 0
      BY <2>1, TenIs
    <2>3. n - 1 \in Nat /\ (n - 1) + 1 = n /\ Ten[n - 1] > n - 1
      BY <2>1, <2>2
    <2>4. Ten[n] = 10 * Ten[n - 1] /\ Ten[n - 1] \in Nat
      BY <2>3, TenIs DEF Positive
    <2> QED BY <2>1, <2>3, <2>4
  <1> QED BY <1>1, TenIs

LEMMA TenAdds == ASSUME NEW m \in Nat, NEW k0 \in Nat PROVE Ten[m + k0] = Ten[m] * Ten[k0]
  <1> DEFINE B == {n \in Nat : Ten[m + n] # Ten[m] * Ten[n]}
  <1> SUFFICES ASSUME B # {} PROVE FALSE
    OBVIOUS
  <1>1. PICK n \in B : \A i \in B : n <= i
    BY LeastNat
  <1>2. n # 0
    BY <1>1, TenIs DEF Positive
  <1>3. n - 1 \in Nat /\ (n - 1) + 1 = n /\ Ten[m + (n - 1)] = Ten[m] * Ten[n - 1]
    BY <1>1, <1>2
  <1>4. Ten[n] = 10 * Ten[n - 1] /\ Ten[m + n] = 10 * Ten[m + (n - 1)]
    <2>1. m + (n - 1) \in Nat /\ (m + (n - 1)) + 1 = m + n
      BY <1>3
    <2>2. Ten[(m + (n - 1)) + 1] = 10 * Ten[m + (n - 1)]
      BY <2>1, TenIs
    <2>3. Ten[(n - 1) + 1] = 10 * Ten[n - 1]
      BY <1>3, TenIs
    <2> QED BY <1>3, <2>1, <2>2, <2>3
  <1>5. Ten[m] \in Int /\ Ten[n - 1] \in Int
    BY <1>3, TenIs DEF Positive
  <1>6. 10 * (Ten[m] * Ten[n - 1]) = Ten[m] * (10 * Ten[n - 1])
    BY <1>5
  <1>7. Ten[m + n] = Ten[m] * Ten[n]
    BY <1>3, <1>4, <1>6
  <1> QED BY <1>1, <1>7

-----------------------------------------------------------------------------
(* Sums of sequences: a list of prefix sums determines the total.          *)
Summed(w, F) == [i \in 0..Len(w) |-> IF i = 0 THEN 0 ELSE w[i] + F[i - 1]]
Prefix(w, n, F) == F[0] = 0 /\ \A i \in 1..n : F[i] = w[i] + F[i - 1]

LEMMA TotalUnfolds == ASSUME NEW w PROVE Total(w) = (CHOOSE F : F = Summed(w, F))[Len(w)]
  BY Zenon DEF Total, Summed

LEMMA PrefixAgree ==
  ASSUME NEW n \in Nat, NEW w, NEW F, NEW G, Prefix(w, n, F), Prefix(w, n, G)
  PROVE  F[n] = G[n]
  <1> DEFINE B == {i \in 0..n : F[i] # G[i]}
  <1> SUFFICES ASSUME B # {} PROVE FALSE
    BY DEF B
  <1>1. PICK i \in B : \A j \in B : i <= j
    <2>1. B \in SUBSET Nat
      OBVIOUS
    <2> QED BY <2>1, LeastNat
  <1>2. i # 0
    BY <1>1 DEF Prefix
  <1>3. F[i - 1] = G[i - 1]
    BY <1>1, <1>2
  <1> QED BY <1>1, <1>2, <1>3 DEF Prefix

LEMMA TotalIs ==
  ASSUME NEW n \in Nat, NEW w, Len(w) = n, NEW F, Prefix(w, n, F)
  PROVE  Total(w) = F[n]
  <1> DEFINE G == [i \in 0..n |-> F[i]]
  <1>1. G = Summed(w, G)
    <2>1. \A i \in 0..n : G[i] = IF i = 0 THEN 0 ELSE w[i] + G[i - 1]
      BY DEF Prefix
    <2> QED BY <2>1 DEF Summed
  <1> HIDE DEF G
  <1>2. PICK it : it = (CHOOSE H : H = Summed(w, H))
    OBVIOUS
  <1>3. it = Summed(w, it)
    BY <1>1, <1>2
  <1>4. Prefix(w, n, it)
    BY <1>3 DEF Prefix, Summed
  <1>5. it[n] = F[n]
    BY <1>4, PrefixAgree
  <1> QED BY <1>2, <1>5, TotalUnfolds

LEMMA PrefixExist ==
  ASSUME NEW w, NEW k0 \in Nat, \A i \in 1..k0 : w[i] \in Int
  PROVE \E F \in [0..k0 -> Int] : Prefix(w, k0, F)
  <1> DEFINE B == {n \in 0..k0 : ~(\E F \in [0..n -> Int] : Prefix(w, n, F))}
  <1> SUFFICES ASSUME B # {} PROVE FALSE
    OBVIOUS
  <1>1. PICK n \in B : \A m \in B : n <= m
    <2>1. B \in SUBSET Nat
      OBVIOUS
    <2> QED BY <2>1, LeastNat
  <1>2. n \in 0..k0 /\ ~(\E F \in [0..n -> Int] : Prefix(w, n, F))
    BY <1>1
  <1>3. CASE n = 0
    <2>1. [i \in 0..0 |-> 0] \in [0..0 -> Int] /\ Prefix(w, 0, [i \in 0..0 |-> 0])
      BY DEF Prefix
    <2> QED BY <1>2, <1>3, <2>1
  <1>4. CASE n # 0
    <2>1. n - 1 \in 0..k0 /\ n - 1 \notin B
      BY <1>1, <1>2, <1>4
    <2>2. PICK F \in [0..(n - 1) -> Int] : Prefix(w, n - 1, F)
      BY <2>1
    <2> DEFINE G == [i \in 0..n |-> IF i = n THEN w[n] + F[n - 1] ELSE F[i]]
    <2>3. F[n - 1] \in Int /\ w[n] \in Int
      BY <1>2, <1>4
    <2>4. G \in [0..n -> Int]
      BY <1>2, <2>3
    <2>5. G[0] = 0
      BY <1>2, <1>4, <2>2 DEF Prefix
    <2>6. ASSUME NEW i \in 1..n PROVE G[i] = w[i] + G[i - 1]
      <3>1. G[i - 1] = F[i - 1]
        BY <1>2
      <3>2. CASE i = n
        BY <1>2, <3>1, <3>2
      <3>3. CASE i # n
        BY <1>2, <2>2, <3>1, <3>3 DEF Prefix
      <3> QED BY <3>2, <3>3
    <2> QED BY <1>2, <2>4, <2>5, <2>6 DEF Prefix
  <1> QED BY <1>3, <1>4

(* The list of nothing planned yet, and the effect of one entry.           *)
LEMMA TotalOfZeros == ASSUME NEW n \in Nat PROVE Total([t \in 1..n |-> 0]) = 0
  <1>1. Len([t \in 1..n |-> 0]) = n
    OBVIOUS
  <1>2. Prefix([t \in 1..n |-> 0], n, [i \in 0..n |-> 0])
    BY DEF Prefix
  <1>3. [i \in 0..n |-> 0][n] = 0
    OBVIOUS
  <1> QED BY <1>1, <1>2, <1>3, TotalIs

LEMMA TotalOfOnes == ASSUME NEW n \in Nat PROVE Total([t \in 1..n |-> 1]) = n
  <1>1. Len([t \in 1..n |-> 1]) = n
    OBVIOUS
  <1>2. Prefix([t \in 1..n |-> 1], n, [i \in 0..n |-> i])
    BY DEF Prefix
  <1>3. [i \in 0..n |-> i][n] = n
    OBVIOUS
  <1> QED BY <1>1, <1>2, <1>3, TotalIs

LEMMA TotalIsInt ==
  ASSUME NEW n \in Nat, NEW w \in [1..n -> Int] PROVE Total(w) \in Int
  <1>1. Len(w) = n
    OBVIOUS
  <1>2. PICK F \in [0..n -> Int] : Prefix(w, n, F)
    BY PrefixExist
  <1> QED BY <1>1, <1>2, TotalIs

LEMMA TotalAfter ==
  ASSUME NEW n \in Nat, NEW w \in [1..n -> Int], NEW t \in 1..n, NEW u \in Int
  PROVE  Total([w EXCEPT ![t] = u]) = Total(w) - w[t] + u
  <1> DEFINE v == [w EXCEPT ![t] = u]
  <1>1. Len(w) = n /\ Len(v) = n /\ v \in [1..n -> Int]
    OBVIOUS
  <1>2. \A i \in 1..n : v[i] = IF i = t THEN u ELSE w[i]
    OBVIOUS
  <1> HIDE DEF v
  <1>3. PICK F \in [0..n -> Int] : Prefix(w, n, F)
    BY PrefixExist
  <1> DEFINE G == [i \in 0..n |-> IF i < t THEN F[i] ELSE F[i] - w[t] + u]
  <1>4. G[0] = 0
    BY <1>3 DEF Prefix
  <1>5. ASSUME NEW i \in 1..n PROVE G[i] = v[i] + G[i - 1]
    <2>1. F[i] = w[i] + F[i - 1] /\ F[i] \in Int /\ F[i - 1] \in Int /\ w[i] \in Int /\ w[t] \in Int
      BY <1>3 DEF Prefix
    <2>2. G[i] = (IF i < t THEN F[i] ELSE F[i] - w[t] + u)
          /\ G[i - 1] = (IF i - 1 < t THEN F[i - 1] ELSE F[i - 1] - w[t] + u)
      OBVIOUS
    <2> HIDE DEF G
    <2>3. CASE i < t
      BY <1>2, <2>1, <2>2, <2>3
    <2>4. CASE i = t
      BY <1>2, <2>1, <2>2, <2>4
    <2>5. CASE i > t
      BY <1>2, <2>1, <2>2, <2>5
    <2> QED BY <2>3, <2>4, <2>5
  <1>6. Prefix(v, n, G)
    BY <1>4, <1>5 DEF Prefix
  <1>7. G[n] = F[n] - w[t] + u
    OBVIOUS
  <1> HIDE DEF G
  <1>8. Total(v) = G[n] /\ Total(w) = F[n]
    BY <1>1, <1>3, <1>6, TotalIs
  <1> QED BY <1>7, <1>8 DEF v

-----------------------------------------------------------------------------
(* The weights are natural numbers, at most one for each target, and not   *)
(* all zero.                                                               *)
LEMMA InputsAre ==
  ASSUME NEW c \in Inputs
  PROVE  /\ c.total \in Nat /\ c.min \in Nat \ {0} /\ c.n \in Counts
         /\ c.preset \in Presets /\ c.custom \in Customs
  <1>1. PICK v \in Volumes, m \in Minima, s \in Steps, n \in Counts, p \in Presets, l \in Customs :
          c = [total |-> Units(v, s), min |-> MinUnits(m, s), n |-> n, preset |-> p, custom |-> l]
    BY DEF Inputs
  <1>2. v \in Nat /\ m \in Nat /\ s \in Nat \ {0}
    BY InputsAssumption
  <1>3. v \div s \in Nat /\ m \div s \in Nat
    BY <1>2
  <1>4. Units(v, s) \in Nat /\ MinUnits(m, s) \in Nat \ {0}
    BY <1>3 DEF Units, MinUnits, Most
  <1> QED BY <1>1, <1>4

LEMMA ListedAre ==
  ASSUME NEW c \in Inputs
  PROVE  \E m \in 0..c.n : Listed(c) \in [1..m -> Nat]
  <1>1. c.n \in Nat /\ c.custom \in Seq(Int) /\ c.preset \in Presets
    BY InputsAre, InputsAssumption
  <1>2. CASE c.preset = "CUSTOM" /\ c.custom # <<>>
    <2> DEFINE m == Least(c.n, Len(c.custom))
    <2>1. m \in 0..c.n /\ m <= Len(c.custom)
      BY <1>1 DEF Least
    <2>2. Listed(c) = [i \in 1..m |-> Most(0, c.custom[i])]
      BY <1>2 DEF Listed
    <2> HIDE DEF m
    <2>3. \A i \in 1..m : Most(0, c.custom[i]) \in Nat
      <3>1. \A i \in 1..m : c.custom[i] \in Int
        BY <1>1, <2>1
      <3> QED BY <3>1 DEF Most
    <2> QED BY <2>1, <2>2, <2>3
  <1>3. CASE ~(c.preset = "CUSTOM" /\ c.custom # <<>>) /\ Template[c.preset] # <<>>
    <2>1. Listed(c) = [i \in 1..c.n |-> IF i <= Len(Template[c.preset]) THEN Template[c.preset][i] ELSE 0]
      BY <1>3 DEF Listed
    <2>2. Template[c.preset] \in Seq(Nat)
      <3>1. <<40, 20, 20, 20>> \in Seq(Nat) /\ <<20, 20, 20, 40>> \in Seq(Nat)
        OBVIOUS
      <3>2. c.preset = "PROTECT" \/ c.preset = "RUNNER"
        BY <1>1, <1>3 DEF Template, Presets
      <3>3. Template["PROTECT"] = <<40, 20, 20, 20>> /\ Template["RUNNER"] = <<20, 20, 20, 40>>
        BY DEF Template
      <3> QED BY <3>1, <3>2, <3>3
    <2>3. \A i \in 1..c.n : (IF i <= Len(Template[c.preset]) THEN Template[c.preset][i] ELSE 0) \in Nat
      BY <1>1, <2>2
    <2>4. Listed(c) \in [1..c.n -> Nat] /\ c.n \in 0..c.n
      BY <1>1, <2>1, <2>3
    <2> QED BY <2>4
  <1>4. CASE ~(c.preset = "CUSTOM" /\ c.custom # <<>>) /\ Template[c.preset] = <<>>
    <2>1. Listed(c) = [i \in 1..c.n |-> 1] /\ c.n \in 0..c.n
      BY <1>1, <1>4 DEF Listed
    <2> QED BY <2>1
  <1> QED BY <1>2, <1>3, <1>4

LEMMA WeightsAre ==
  ASSUME NEW c \in Inputs, c.n > 0
  PROVE  \E m \in 0..c.n : /\ Weights(c) \in [1..m -> Nat] /\ Len(Weights(c)) = m
                           /\ Total(Weights(c)) \in Positive
  <1>1. c.n \in Nat
    BY InputsAre, InputsAssumption
  <1>2. PICK m \in 0..c.n : Listed(c) \in [1..m -> Nat]
    BY ListedAre
  <1>3. Total(Listed(c)) \in Int
    <2>1. m \in Nat /\ Listed(c) \in [1..m -> Int]
      BY <1>1, <1>2
    <2> QED BY <2>1, TotalIsInt
  <1>4. CASE Total(Listed(c)) > 0
    <2>1. Weights(c) = Listed(c) /\ Len(Listed(c)) = m
      BY <1>1, <1>2, <1>4 DEF Weights
    <2> QED BY <1>2, <1>3, <1>4, <2>1 DEF Positive
  <1>5. CASE ~(Total(Listed(c)) > 0)
    <2>1. Weights(c) = [i \in 1..c.n |-> 1]
      BY <1>5 DEF Weights
    <2>2. Total(Weights(c)) = c.n
      BY <1>1, <2>1, TotalOfOnes
    <2>3. Weights(c) \in [1..c.n -> Nat] /\ Len([i \in 1..c.n |-> 1]) = c.n
      BY <1>1, <2>1
    <2>4. c.n \in 0..c.n /\ c.n \in Positive
      BY <1>1 DEF Positive
    <2> QED BY <2>1, <2>2, <2>3, <2>4
  <1> QED BY <1>4, <1>5

-----------------------------------------------------------------------------
(* Decimal arithmetic: how far a rounded number is off.                    *)
LEMMA RoundsToNearest ==
  ASSUME NEW a \in Nat, NEW b \in Positive
  PROVE  /\ RoundHalfEven(a, b) \in Nat
         /\ 2 * (RoundHalfEven(a, b) * b) - 2 * a <= b
         /\ 2 * a - 2 * (RoundHalfEven(a, b) * b) <= b
  <1> DEFINE q == a \div b
             r == a % b
  <1>1. q \in Nat /\ r \in 0..(b - 1) /\ a = q * b + r /\ b \in Int
    BY DEF Positive
  <1>2. RoundHalfEven(a, b) = q \/ RoundHalfEven(a, b) = q + 1
    BY DEF RoundHalfEven
  <1>3. RoundHalfEven(a, b) = q => 2 * r <= b
    <2>1. 2 * r > b => RoundHalfEven(a, b) = q + 1
      BY DEF RoundHalfEven
    <2> QED BY <1>1, <2>1
  <1>4. RoundHalfEven(a, b) = q + 1 => 2 * r >= b
    <2>1. 2 * r < b => RoundHalfEven(a, b) = q
      BY <1>1 DEF RoundHalfEven
    <2> QED BY <1>1, <2>1
  <1> HIDE DEF q, r
  <1>5. CASE RoundHalfEven(a, b) = q
    BY <1>1, <1>3, <1>5
  <1>6. CASE RoundHalfEven(a, b) = q + 1
    <2>1. (q + 1) * b = q * b + b /\ q * b \in Int
      BY <1>1
    <2> QED BY <1>1, <1>4, <1>6, <2>1
  <1> QED BY <1>2, <1>5, <1>6

Coarse == Ten[Digits - 1]
LEMMA CoarseIs == Digits - 1 \in Nat /\ Coarse \in Positive
  BY InputsAssumption, TenIs DEF Coarse

LEMMA PlacesIs ==
  ASSUME NEW a \in Positive, NEW b \in Positive
  PROVE  Places(a, b) \in Nat /\ a * Ten[Places(a, b)] >= b * Coarse
  <1> DEFINE Covers == {s \in 0..(Digits + b) : a * Ten[s] >= b * Coarse}
  <1>1. Digits \in Nat /\ b \in Nat /\ a \in Nat /\ a >= 1
    BY InputsAssumption DEF Positive
  <1>2. Covers \in SUBSET Nat
    BY <1>1
  <1>3. Covers # {}
    <2> DEFINE s == (Digits - 1) + b
    <2>1. s \in 0..(Digits + b)
      BY <1>1, CoarseIs
    <2>2. Ten[s] = Coarse * Ten[b]
      BY <1>1, CoarseIs, TenAdds DEF Coarse
    <2>3. Ten[b] > b /\ Ten[b] \in Nat
      BY <1>1, TenGrows DEF Positive
    <2> HIDE DEF s
    <2>4. Coarse * Ten[b] >= b * Coarse /\ Coarse * Ten[b] \in Nat
      BY <1>1, <2>3, CoarseIs DEF Positive
    <2>5. a * (Coarse * Ten[b]) >= Coarse * Ten[b]
      <3>1. ASSUME NEW x \in Nat PROVE a * x >= x
        BY <1>1
      <3> QED BY <2>4, <3>1
    <2>6. b * Coarse \in Nat /\ a * (Coarse * Ten[b]) \in Nat
      BY <1>1, <2>4, CoarseIs DEF Positive
    <2>7. a * Ten[s] >= b * Coarse
      BY <2>2, <2>4, <2>5, <2>6
    <2> QED BY <2>1, <2>7
  <1>4. PICK s \in Covers : \A t \in Covers : s <= t
    BY <1>2, <1>3, LeastNat
  <1>5. /\ s \in 0..(Digits + b) /\ a * Ten[s] >= b * Coarse
        /\ \A t \in 0..(s - 1) : a * Ten[t] < b * Coarse
    <2>1. ASSUME NEW t \in 0..(s - 1) PROVE a * Ten[t] < b * Coarse
      <3>1. t \in 0..(Digits + b) /\ ~(s <= t) /\ t \in Nat
        BY <1>1, <1>4
      <3>2. ~(a * Ten[t] >= b * Coarse)
        BY <1>4, <3>1
      <3>3. a * Ten[t] \in Int /\ b * Coarse \in Int
        BY <1>1, <3>1, CoarseIs, TenIs DEF Positive
      <3> QED BY <3>2, <3>3
    <2> QED BY <1>4, <2>1
  <1>6. Places(a, b) \in 0..(Digits + b) /\ a * Ten[Places(a, b)] >= b * Coarse
    BY <1>5 DEF Places, Coarse
  <1> QED BY <1>1, <1>6

LEMMA SurplusIs ==
  ASSUME NEW a \in Nat
  PROVE  /\ Surplus(a) \in Nat
         /\ Surplus(a) = 0 \/ a >= Coarse * Ten[Surplus(a)]
  <1> DEFINE Fits == {s \in 0..(a \div Coarse) : a < Ten[Digits + s]}
             most == a \div Coarse
  <1>1. Digits \in Positive /\ Coarse \in Positive /\ most \in Nat /\ a < (most + 1) * Coarse
    BY InputsAssumption, CoarseIs DEF Positive
  <1>2. Fits \in SUBSET Nat
    BY <1>1
  <1>3. Fits # {}
    <2>1. Ten[Digits + most] = Coarse * Ten[most + 1]
      <3>1. Digits + most = (Digits - 1) + (most + 1) /\ most + 1 \in Nat
        BY <1>1 DEF Positive
      <3> QED BY <3>1, CoarseIs, TenAdds DEF Coarse
    <2>2. Ten[most + 1] > most + 1 /\ Ten[most + 1] \in Nat
      BY <1>1, TenGrows DEF Positive
    <2> HIDE DEF most
    <2>3. Coarse * Ten[most + 1] >= (most + 1) * Coarse
      BY <1>1, <2>2 DEF Positive
    <2>4. (most + 1) * Coarse \in Nat /\ Coarse * Ten[most + 1] \in Nat
      BY <1>1, <2>2 DEF Positive
    <2>5. a < Ten[Digits + most]
      BY <1>1, <2>1, <2>3, <2>4
    <2>6. most \in 0..most
      BY <1>1
    <2> QED BY <2>5, <2>6 DEF most
  <1>4. PICK s \in Fits : \A t \in Fits : s <= t
    BY <1>2, <1>3, LeastNat
  <1>5. s = 0 \/ a >= Ten[Digits + s - 1]
    <2> SUFFICES ASSUME s # 0 PROVE a >= Ten[Digits + s - 1]
      OBVIOUS
    <2>1. s - 1 \in 0..(a \div Coarse) /\ ~(s <= s - 1)
      BY <1>1, <1>4
    <2>2. ~(a < Ten[Digits + (s - 1)])
      BY <1>4, <2>1
    <2>3. Digits + (s - 1) = Digits + s - 1 /\ Digits + (s - 1) \in Nat
      BY <1>1, <2>1 DEF Positive
    <2>4. Ten[Digits + (s - 1)] \in Int
      BY <2>3, TenIs DEF Positive
    <2> QED BY <2>2, <2>3, <2>4
  <1>6. /\ Surplus(a) \in 0..(a \div Coarse)
        /\ Surplus(a) = 0 \/ a >= Ten[Digits + Surplus(a) - 1]
    BY <1>4, <1>5 DEF Surplus, Coarse
  <1>7. Surplus(a) \in Nat
    BY <1>1, <1>6
  <1>8. Ten[Digits + Surplus(a) - 1] = Coarse * Ten[Surplus(a)]
    <2>1. Digits + Surplus(a) - 1 = (Digits - 1) + Surplus(a)
      BY <1>1, <1>7 DEF Positive
    <2> QED BY <1>7, <2>1, CoarseIs, TenAdds DEF Coarse
  <1> QED BY <1>6, <1>7, <1>8

LEMMA SignificantIs ==
  ASSUME NEW a \in Nat
  PROVE  /\ Significant(a) \in Nat
         /\ 2 * (Coarse * (Significant(a) - a)) <= a
         /\ 2 * (Coarse * (a - Significant(a))) <= a
  <1> DEFINE o == Surplus(a)
             e == Ten[o]
             r == RoundHalfEven(a, e)
  <1>1. o \in Nat /\ (o = 0 \/ a >= Coarse * e)
    BY SurplusIs
  <1>2. e \in Positive /\ Coarse \in Positive
    BY <1>1, TenIs, CoarseIs
  <1>3. r \in Nat /\ 2 * (r * e) - 2 * a <= e /\ 2 * a - 2 * (r * e) <= e
    BY <1>2, RoundsToNearest
  <1>4. Significant(a) = r * e
    BY DEF Significant
  <1>5. r * e \in Nat
    BY <1>2, <1>3 DEF Positive
  <1>6. CASE o = 0
    <2>1. e = 1
      BY <1>6, TenIs
    <2>2. r * e = a
      <3> HIDE DEF o, e, r
      <3>1. r * e = r
        BY <1>3, <2>1
      <3> QED BY <1>3, <2>1, <3>1
    <2>3. Coarse * (r * e - a) = 0 /\ Coarse * (a - r * e) = 0
      BY <1>2, <2>2 DEF Positive
    <2> QED BY <1>4, <1>5, <2>3
  <1>7. CASE o # 0
    <2>1. a >= Coarse * e
      BY <1>1, <1>7
    <2> HIDE DEF o, e, r
    <2> DEFINE x == r * e - a
    <2>2. x \in Int /\ 2 * x <= e /\ 2 * (-x) <= e
      BY <1>3, <1>5
    <2>3. Coarse \in Nat /\ e \in Nat
      BY <1>2 DEF Positive
    <2> HIDE DEF x
    <2>4. Coarse * (2 * x) <= Coarse * e /\ Coarse * (2 * (-x)) <= Coarse * e
      BY <2>2, <2>3
    <2>5. Coarse * (2 * x) = 2 * (Coarse * x) /\ Coarse * (2 * (-x)) = 2 * (Coarse * (-x))
      BY <2>2, <2>3
    <2>6. Coarse * x \in Int /\ Coarse * (-x) \in Int /\ Coarse * e \in Int
      BY <2>2, <2>3
    <2>7. 2 * (Coarse * x) <= a /\ 2 * (Coarse * (-x)) <= a
      BY <2>1, <2>4, <2>5, <2>6
    <2>8. Significant(a) - a = x /\ a - Significant(a) = -x
      BY <1>4, <1>5 DEF x
    <2> QED BY <1>4, <1>5, <2>7, <2>8
  <1> QED BY <1>6, <1>7

LEMMA QuotientIs == ASSUME NEW a \in Nat, NEW b \in Positive PROVE a \div b \in Nat
  BY DEF Positive

LEMMA Scaled ==
  ASSUME NEW c \in Nat, NEW a \in Int, NEW b \in Int, a <= b
  PROVE  c * a <= c * b /\ c * a \in Int /\ c * b \in Int
  OBVIOUS

LEMMA NotScaled ==
  ASSUME NEW c \in Positive, NEW a \in Int, NEW b \in Int, c * a < c * b
  PROVE  a < b
  <1>1. ASSUME b <= a PROVE FALSE
    BY <1>1, Scaled DEF Positive
  <1> QED BY <1>1

(* A weight's share of a volume that the precision can take is rounded to  *)
(* less than a unit above or below what exact arithmetic says.             *)
LEMMA ErrorOfShare ==
  ASSUME NEW v \in Nat, NEW w \in Positive, NEW b \in Positive, v * w < Coarse,
         NEW p \in Positive, w * p >= b * Coarse,
         NEW q \in Nat, 2 * (q * b) - 2 * (w * p) <= b, 2 * (w * p) - 2 * (q * b) <= b,
         NEW s \in Nat, 2 * (Coarse * (s - v * q)) <= v * q, 2 * (Coarse * (v * q - s)) <= v * q
  PROVE  s * b - (v * w) * p < p /\ (v * w) * p - s * b < p
  <1> DEFINE N == Coarse
             Y == (v * w) * p
             Z == (v * q) * b
             m == v * b
  <1>1. N \in Nat /\ N >= 1 /\ w \in Nat /\ b \in Nat /\ p \in Nat /\ p >= 1 /\ b >= 1
    BY CoarseIs DEF Positive
  <1>2. v * w \in Nat /\ v * q \in Nat /\ v * w <= N - 1
    BY <1>1
  <1>3. Y \in Nat /\ Z \in Nat /\ m \in Nat /\ s * b \in Nat
    BY <1>1, <1>2
  <1>4. m * N <= Y
    <2>1. v * (b * N) <= v * (w * p)
      BY <1>1, Scaled
    <2>2. v * (b * N) = m * N /\ v * (w * p) = Y
      BY <1>1
    <2> QED BY <2>1, <2>2
  <1>5. Y <= (N - 1) * p
    <2>1. p * (v * w) <= p * (N - 1)
      BY <1>1, <1>2, Scaled
    <2> QED BY <1>1, <1>2, <2>1
  <1>6. m < p
    <2>1. N * m < N * p
      BY <1>1, <1>3, <1>4, <1>5
    <2> QED BY <1>1, <1>3, <2>1, NotScaled, CoarseIs
  <1>7. 2 * Z - 2 * Y <= m /\ 2 * Y - 2 * Z <= m
    <2>1. /\ v * (2 * (q * b) - 2 * (w * p)) <= v * b
          /\ v * (2 * (w * p) - 2 * (q * b)) <= v * b
      BY <1>1, Scaled
    <2>2. /\ v * (2 * (q * b) - 2 * (w * p)) = 2 * Z - 2 * Y
          /\ v * (2 * (w * p) - 2 * (q * b)) = 2 * Y - 2 * Z
      BY <1>1
    <2> QED BY <2>1, <2>2
  <1>8. 2 * (N * (s * b - Z)) <= Z /\ 2 * (N * (Z - s * b)) <= Z
    <2>1. /\ b * (2 * (N * (s - v * q))) <= b * (v * q)
          /\ b * (2 * (N * (v * q - s))) <= b * (v * q)
      BY <1>1, <1>2, Scaled
    <2>2. /\ b * (2 * (N * (s - v * q))) = 2 * (N * (s * b - Z))
          /\ b * (2 * (N * (v * q - s))) = 2 * (N * (Z - s * b))
          /\ b * (v * q) = Z
      BY <1>1, <1>2
    <2> QED BY <2>1, <2>2
  <1> DEFINE x == s * b
  <1>9. x \in Nat
    BY <1>3
  <1>10. 2 * (N * (x - Z)) <= Z /\ 2 * (N * (Z - x)) <= Z
    BY <1>8
  <1> HIDE DEF Y, Z, m, x, N
  <1>11. N * (2 * Z - 2 * Y) <= N * m /\ N * (2 * Y - 2 * Z) <= N * m
    BY <1>1, <1>3, <1>7, Scaled
  <1>12. 4 * (N * (x - Y)) <= 4 * Y + m /\ 4 * (N * (Y - x)) <= 4 * Y + m
    <2>1. /\ 4 * (N * (x - Y)) = 2 * (2 * (N * (x - Z))) + 2 * (N * (2 * Z - 2 * Y))
          /\ 4 * (N * (Y - x)) = 2 * (2 * (N * (Z - x))) + 2 * (N * (2 * Y - 2 * Z))
      BY <1>1, <1>3, <1>9
    <2>2. N * m = m * N /\ N * m \in Int /\ N * (x - Z) \in Int /\ N * (Z - x) \in Int
          /\ N * (2 * Z - 2 * Y) \in Int /\ N * (2 * Y - 2 * Z) \in Int
      BY <1>1, <1>3, <1>9
    <2> QED BY <1>3, <1>4, <1>7, <1>10, <1>11, <2>1, <2>2
  <1>13. 4 * Y + m < 4 * (N * p)
    <2>1. (N - 1) * p = N * p - p /\ N * p \in Int
      BY <1>1
    <2> QED BY <1>1, <1>3, <1>5, <1>6, <2>1
  <1>14. N * (x - Y) < N * p /\ N * (Y - x) < N * p
    <2>1. N * (x - Y) \in Int /\ N * (Y - x) \in Int /\ N * p \in Int
      BY <1>1, <1>3, <1>9
    <2> QED BY <1>3, <1>12, <1>13, <2>1
  <1>15. x - Y < p /\ Y - x < p
    BY <1>1, <1>3, <1>9, <1>14, NotScaled, CoarseIs DEF N
  <1> QED BY <1>15 DEF x, Y

LEMMA WholeUnits ==
  ASSUME NEW s \in Nat, NEW p \in Positive, NEW b \in Positive, NEW l \in Nat,
         s * b - l * p < p, l * p - s * b < p
  PROVE  s \div p \in Nat /\ s \div p <= l \div b /\ s \div p >= l \div b - 1
  <1> DEFINE r == s \div p
             x == l \div b
  <1>1. /\ r \in Nat /\ p \in Nat /\ p >= 1 /\ r * p <= s /\ s < (r + 1) * p
        /\ x \in Nat /\ b \in Nat /\ b >= 1 /\ x * b <= l /\ l < (x + 1) * b
    BY DEF Positive
  <1> HIDE DEF r, x
  <1>2. s * b \in Int /\ l * p \in Int
    BY <1>1
  <1>3. ASSUME r >= x + 1 PROVE FALSE
    <2>1. p * (x + 1) <= p * r
      BY <1>1, <1>3, Scaled
    <2>2. p * (x + 1) <= s /\ p * (x + 1) \in Nat
      BY <1>1, <2>1
    <2>3. b * (p * (x + 1)) <= b * s
      BY <1>1, <2>2, Scaled
    <2>4. p * (l + 1) <= p * ((x + 1) * b)
      BY <1>1, Scaled
    <2>5. p * ((x + 1) * b) = b * (p * (x + 1)) /\ p * (l + 1) = l * p + p /\ b * s = s * b
      BY <1>1
    <2> QED BY <1>1, <1>2, <2>3, <2>4, <2>5
  <1>4. ASSUME r <= x - 2 PROVE FALSE
    <2>1. p * (r + 1) <= p * (x - 1)
      BY <1>1, <1>4, Scaled
    <2>2. s + 1 <= p * (x - 1) /\ p * (x - 1) \in Int
      BY <1>1, <2>1
    <2>3. b * (s + 1) <= b * (p * (x - 1))
      BY <1>1, <2>2, Scaled
    <2>4. p * (x * b - b) <= p * (l - 1)
      BY <1>1, Scaled
    <2>5. b * (p * (x - 1)) = p * (x * b - b) /\ p * (l - 1) = l * p - p /\ b * (s + 1) = s * b + b
      BY <1>1
    <2> QED BY <1>1, <1>2, <2>3, <2>4, <2>5
  <1>5. r <= x /\ r >= x - 1
    BY <1>1, <1>3, <1>4
  <1> QED BY <1>1, <1>5 DEF r, x

Exact(t) == (in.total * Weights(in)[t]) \div Total(Weights(in))
LEMMA RequestedIs ==
  ASSUME in \in Inputs, in.n > 0, NEW t \in 1..Len(Weights(in))
  PROVE  /\ Requested(t) \in Nat /\ Exact(t) \in Nat
         /\ in.total * Weights(in)[t] < Coarse =>
              Requested(t) <= Exact(t) /\ Requested(t) >= Exact(t) - 1
  <1> DEFINE w == Weights(in)[t]
             b == Total(Weights(in))
             s == Places(w, b)
             q == RoundHalfEven(w * Ten[s], b)
             g == Significant(in.total * q)
  <1>1. w \in Nat /\ b \in Positive /\ in.total \in Nat
    <2>1. PICK m \in 0..in.n : /\ Weights(in) \in [1..m -> Nat] /\ Len(Weights(in)) = m
                               /\ b \in Positive
      BY WeightsAre
    <2>2. w \in Nat
      BY <2>1
    <2>3. in.total \in Nat
      BY InputsAre, InputsAssumption
    <2> QED BY <2>1, <2>2, <2>3
  <1>2. Exact(t) = (in.total * w) \div b
    BY DEF Exact
  <1>3. Requested(t) = IF w = 0 THEN 0 ELSE g \div Ten[s]
    BY DEF Requested, UnitsOf
  <1> HIDE DEF w, b
  <1>4. CASE w = 0
    <2>1. in.total * w = 0 /\ 0 \div b = 0
      BY <1>1, <1>4 DEF Positive
    <2> QED BY <1>2, <1>3, <1>4, <2>1
  <1>5. CASE w # 0
    <2>1. w \in Positive
      BY <1>1, <1>5 DEF Positive
    <2>2. s \in Nat /\ w * Ten[s] >= b * Coarse
      BY <1>1, <2>1, PlacesIs
    <2>3. Ten[s] \in Positive /\ w * Ten[s] \in Nat
      <3>1. Ten[s] \in Positive
        BY <2>2, TenIs
      <3> QED BY <1>1, <3>1 DEF Positive
    <2>4. q \in Nat /\ 2 * (q * b) - 2 * (w * Ten[s]) <= b /\ 2 * (w * Ten[s]) - 2 * (q * b) <= b
      BY <1>1, <2>3, RoundsToNearest
    <2>5. in.total * q \in Nat
      BY <1>1, <2>4
    <2>6. /\ g \in Nat /\ 2 * (Coarse * (g - in.total * q)) <= in.total * q
          /\ 2 * (Coarse * (in.total * q - g)) <= in.total * q
      BY <2>5, SignificantIs
    <2> HIDE DEF g, q, s
    <2>7. in.total * w \in Nat /\ g \div Ten[s] \in Nat /\ (in.total * w) \div b \in Nat
      <3>1. in.total * w \in Nat
        BY <1>1
      <3> QED BY <1>1, <2>3, <2>6, <3>1, QuotientIs
    <2>8. ASSUME in.total * w < Coarse
          PROVE  /\ g \div Ten[s] <= (in.total * w) \div b
                 /\ g \div Ten[s] >= (in.total * w) \div b - 1
      <3>1. g * b - (in.total * w) * Ten[s] < Ten[s] /\ (in.total * w) * Ten[s] - g * b < Ten[s]
        BY <1>1, <2>1, <2>2, <2>3, <2>4, <2>6, <2>8, ErrorOfShare
      <3> QED BY <1>1, <2>3, <2>6, <2>7, <3>1, WholeUnits
    <2> QED BY <1>2, <1>3, <1>5, <2>7, <2>8 DEF w
  <1> QED BY <1>4, <1>5

-----------------------------------------------------------------------------
(* What makes PlanWhole and NoCrumbs inductive: before target k is served, *)
(* what is left is still a minimum for it and for each kept target after   *)
(* it, and with the shares given out it makes the volume.                  *)
TypeOK ==
  /\ in \in Inputs /\ pc \in {"start", "share", "planned", "ValueError", "IndexError"}
  /\ k \in Positive /\ left \in Nat /\ share \in [1..in.n -> Nat]
Working == pc = "share" \/ (pc = "planned" /\ in.n > 0)
Served(t) == (t < k /\ t < Fit) \/ (t = in.n /\ k > Fit)
Given == \A t \in 1..in.n : IF Served(t) THEN share[t] >= in.min ELSE share[t] = 0
Enough ==
  /\ k <= Fit => left >= (Fit - k + 1) * in.min
  /\ k = Fit + 1 => left = 0
PInv ==
  /\ TypeOK
  /\ pc = "start" => k = 1 /\ left = in.total /\ share = [t \in 1..in.n |-> 0]
  /\ Working => /\ in.n > 0 /\ in.total >= in.min /\ k <= Fit + 1
                /\ Total(share) + left = in.total /\ Given /\ Enough
  /\ pc = "planned" /\ in.n > 0 => k = Fit + 1

(* And RequestHonoured: once a target gets less than it asks for, exactly  *)
(* the minima are left for the later ones.                                 *)
Squeezed(t) ==
  /\ \A u \in (t + 1)..in.n : Served(u) => share[u] = in.min
  /\ k <= Fit => left = (Fit - k + 1) * in.min
Honoured ==
  Working =>
    \A t \in 1..(k - 1) : t < Fit =>
      /\ share[t] <= Most(in.min, Exact(t))
      /\ share[t] >= Exact(t) - 1 \/ Squeezed(t)
HInv == PInv /\ Honoured

LEMMA FitIs ==
  ASSUME in \in Inputs
  PROVE  /\ in.n \in Nat /\ in.total \in Nat /\ in.min \in Positive
         /\ Fit \in Nat /\ Fit <= in.n /\ Fit * in.min <= in.total
         /\ in.n > 0 /\ in.total >= in.min => Fit >= 1
  <1> DEFINE q == in.total \div in.min
  <1>1. in.n \in Nat /\ in.total \in Nat /\ in.min \in Positive
    BY InputsAre, InputsAssumption DEF Positive
  <1>2. q \in Nat /\ q * in.min <= in.total /\ in.total < (q + 1) * in.min
    BY <1>1 DEF Positive
  <1>3. Fit = Least(in.n, q)
    BY DEF Fit
  <1> HIDE DEF q
  <1>4. in.total >= in.min => q >= 1
    <2> SUFFICES ASSUME in.total >= in.min, q = 0 PROVE FALSE
      BY <1>2
    <2>1. (q + 1) * in.min = in.min
      BY <1>1 DEF Positive
    <2> QED BY <1>1, <1>2, <2>1 DEF Positive
  <1>5. Fit \in Nat /\ Fit <= in.n /\ Fit <= q
    BY <1>1, <1>2, <1>3 DEF Least
  <1>6. in.min * Fit <= in.min * q
    BY <1>1, <1>2, <1>5, Scaled DEF Positive
  <1>7. Fit * in.min <= in.total
    <2>1. in.min * Fit = Fit * in.min /\ in.min * q = q * in.min /\ q * in.min \in Int /\ Fit * in.min \in Int
      BY <1>1, <1>2, <1>5 DEF Positive
    <2> QED BY <1>1, <1>2, <1>6, <2>1
  <1>8. in.n > 0 /\ in.total >= in.min => Fit >= 1
    BY <1>1, <1>2, <1>3, <1>4 DEF Least
  <1> QED BY <1>1, <1>5, <1>7, <1>8

LEMMA InitPInv == Init => PInv
  <1> SUFFICES ASSUME Init PROVE PInv
    OBVIOUS
  <1>1. in.n \in Nat /\ in.total \in Nat
    BY FitIs DEF Init
  <1>2. TypeOK
    BY <1>1 DEF Init, TypeOK, Positive
  <1>3. ~Working /\ pc # "planned"
    BY DEF Init, Working
  <1> QED BY <1>2, <1>3 DEF Init, PInv

(* The start: no target is served yet, and the whole volume is left.       *)
LEMMA BeginKeeps == PInv /\ Begin => PInv'
  <1> SUFFICES ASSUME PInv, Begin PROVE PInv'
    OBVIOUS
  <1>1. /\ TypeOK /\ k = 1 /\ left = in.total /\ share = [t \in 1..in.n |-> 0]
        /\ in' = in /\ k' = k /\ left' = left /\ share' = share
    BY DEF PInv, Begin
  <1>2. TypeOK'
    BY <1>1 DEF TypeOK, Begin
  <1>3. pc' # "start"
    BY DEF Begin
  <1>4. /\ in.n \in Nat /\ in.total \in Nat /\ in.min \in Positive
        /\ Fit \in Nat /\ Fit <= in.n /\ Fit * in.min <= in.total
        /\ in.n > 0 /\ in.total >= in.min => Fit >= 1
    BY <1>1, FitIs DEF TypeOK
  <1>5. Fit' = Fit
    BY <1>1 DEF Fit
  <1>6. ASSUME Working' PROVE /\ in.n > 0 /\ in.total >= in.min /\ pc' = "share"
    BY <1>1, <1>4, <1>6 DEF Working, Begin, Positive
  <1>7. ASSUME Working'
        PROVE  /\ in'.n > 0 /\ in'.total >= in'.min /\ k' <= Fit' + 1
               /\ Total(share') + left' = in'.total /\ Given' /\ Enough'
    <2>1. Fit >= 1 /\ k' = 1 /\ left' = in.total
      BY <1>1, <1>4, <1>6, <1>7
    <2>2. Total(share') = 0
      BY <1>1, <1>4, TotalOfZeros
    <2>3. \A t \in 1..in.n : share'[t] = 0
      BY <1>1
    <2>4. \A t \in 1..in.n : ~Served(t)'
      BY <1>1, <1>4, <1>5, <2>1 DEF Served
    <2>5. Given'
      BY <1>1, <2>3, <2>4 DEF Given
    <2>6. Enough'
      <3>1. (Fit - 1) + 1 = Fit
        BY <1>4
      <3> QED BY <1>1, <1>4, <1>5, <2>1, <3>1 DEF Enough
    <2> QED BY <1>1, <1>4, <1>5, <1>6, <1>7, <2>1, <2>2, <2>5, <2>6
  <1>8. ~(pc' = "planned" /\ in'.n > 0)
    BY <1>1, <1>6, <1>7 DEF Working
  <1> QED BY <1>2, <1>3, <1>7, <1>8 DEF PInv

(* What a share is: the minimum at least, what was requested at most, and  *)
(* less only if exactly the minima of the others are left then.            *)
Sells(u) ==
  /\ u \in Nat /\ share' = [share EXCEPT ![k] = u] /\ left' = left - u /\ left' \in Nat
  /\ k' = k + 1 /\ in' = in /\ pc' = pc /\ Fit' = Fit
  /\ k \in 1..(in.n - 1) /\ k < Fit /\ k \in 1..Len(Weights(in)) /\ share[k] = 0
  /\ u >= in.min /\ left' >= (Fit - k) * in.min
  /\ u <= Most(in.min, Requested(k))
  /\ u >= Requested(k) \/ left' = (Fit - k) * in.min
  /\ left = (Fit - k + 1) * in.min => u = in.min

LEMMA ShareSells == ASSUME PInv, Share PROVE \E u : Sells(u)
  <1>1. /\ TypeOK /\ Working /\ pc = "share" /\ k < Fit /\ Kept(k) <= Len(Weights(in))
        /\ in' = in /\ pc' = pc /\ k' = k + 1
    BY DEF PInv, Share, Working
  <1>2. /\ in.n \in Nat /\ in.min \in Positive /\ Fit \in Nat /\ Fit <= in.n
        /\ in.n > 0 /\ in.total >= in.min /\ Given /\ Enough
    BY <1>1, FitIs DEF TypeOK, PInv
  <1>3. Kept(k) = k /\ k \in 1..(in.n - 1) /\ Fit' = Fit
    BY <1>1, <1>2 DEF Kept, TypeOK, Positive, Fit
  <1>4. k \in 1..Len(Weights(in)) /\ Requested(k) \in Nat
    <2>1. PICK m \in 0..in.n : Len(Weights(in)) = m
      BY <1>1, <1>2, WeightsAre DEF TypeOK
    <2>2. k \in 1..Len(Weights(in))
      BY <1>1, <1>2, <1>3, <2>1
    <2> QED BY <1>1, <1>2, <2>2, RequestedIs DEF TypeOK
  <1> DEFINE u == Least(Most(in.min, Requested(k)), left - Reserved)
             x == Reserved
  <1>5. share' = [share EXCEPT ![k] = u] /\ left' = left - u
    BY <1>3 DEF Share
  <1>6. x \in Nat /\ x = (Fit - k) * in.min /\ (Fit - k + 1) * in.min = x + in.min
    <2>1. Fit - k \in Nat /\ in.min \in Nat
      BY <1>1, <1>2, <1>3 DEF Positive
    <2>2. (Fit - k) * in.min \in Nat /\ (Fit - k + 1) * in.min = (Fit - k) * in.min + in.min
      BY <2>1
    <2> QED BY <2>2 DEF Reserved
  <1>7. left \in Nat /\ left >= x + in.min
    <2>1. left >= (Fit - k + 1) * in.min
      BY <1>1, <1>2, <1>3 DEF Enough
    <2> QED BY <1>1, <1>6, <2>1 DEF TypeOK
  <1>8. share[k] = 0
    BY <1>1, <1>2, <1>3 DEF Given, Served
  <1>9. /\ u \in Nat /\ u >= in.min /\ left - u >= x
        /\ u <= Most(in.min, Requested(k))
        /\ u >= Requested(k) \/ left - u = x
        /\ left = x + in.min => u = in.min
    <2>1. in.min \in Nat /\ u = Least(Most(in.min, Requested(k)), left - x)
      BY <1>2 DEF Positive
    <2> HIDE DEF u, x
    <2> QED BY <1>4, <1>6, <1>7, <2>1 DEF Least, Most
  <1> HIDE DEF u, x
  <1>10. left' \in Nat /\ left' >= x
    BY <1>5, <1>6, <1>7, <1>9
  <1>11. Sells(u)
    BY <1>1, <1>3, <1>4, <1>5, <1>6, <1>8, <1>9, <1>10 DEF Sells
  <1> QED BY <1>11

LEMMA ShareKeeps == PInv /\ Share => PInv'
  <1> SUFFICES ASSUME PInv, Share PROVE PInv'
    OBVIOUS
  <1>1. PICK u \in Nat :
           /\ share' = [share EXCEPT ![k] = u] /\ left' = left - u /\ left' \in Nat
           /\ k' = k + 1 /\ in' = in /\ pc' = pc /\ Fit' = Fit
           /\ k \in 1..(in.n - 1) /\ k < Fit /\ share[k] = 0
           /\ u >= in.min /\ left' >= (Fit - k) * in.min
    BY ShareSells DEF Sells
  <1>2. /\ TypeOK /\ pc = "share" /\ Working
        /\ in.n > 0 /\ in.total >= in.min /\ Total(share) + left = in.total /\ Given /\ Enough
    BY DEF PInv, Share, Working
  <1>3. in.n \in Nat /\ in.min \in Positive /\ Fit \in Nat /\ Fit <= in.n
    BY <1>2, FitIs DEF TypeOK
  <1>4. TypeOK'
    <2>1. k \in 1..in.n /\ share \in [1..in.n -> Nat] /\ k' \in Positive
      BY <1>1, <1>2, <1>3 DEF TypeOK, Positive
    <2>2. share' \in [1..in'.n -> Nat]
      BY <1>1, <2>1
    <2> QED BY <1>1, <1>2, <2>1, <2>2 DEF TypeOK
  <1>5. Total(share') + left' = in.total
    <2>1. share \in [1..in.n -> Int] /\ k \in 1..in.n /\ left \in Int /\ u \in Int
      BY <1>1, <1>2, <1>3 DEF TypeOK
    <2>2. Total([share EXCEPT ![k] = u]) = Total(share) - share[k] + u
      BY <1>3, <2>1, TotalAfter
    <2>3. Total(share) \in Int
      BY <1>3, <2>1, TotalIsInt
    <2> QED BY <1>1, <1>2, <2>1, <2>2, <2>3
  <1>6. Given'
    <2>1. ASSUME NEW t \in 1..in.n
          PROVE  IF Served(t)' THEN share'[t] >= in.min ELSE share'[t] = 0
      <3>1. CASE t = k
        <4>1. Served(t)' /\ share'[t] = u
          BY <1>1, <1>2, <3>1 DEF Served, TypeOK
        <4> QED BY <1>1, <4>1
      <3>2. CASE t # k
        <4>1. share'[t] = share[t] /\ Served(t)' = Served(t)
          BY <1>1, <1>2, <1>3, <3>2 DEF Served, TypeOK
        <4> QED BY <1>2, <4>1 DEF Given
      <3> QED BY <3>1, <3>2
    <2> QED BY <1>1, <2>1 DEF Given
  <1>7. Enough'
    <2>1. Fit - (k + 1) + 1 = Fit - k /\ k + 1 <= Fit
      BY <1>1, <1>3
    <2> QED BY <1>1, <1>3, <2>1 DEF Enough
  <1>8. k' <= Fit' + 1
    BY <1>1, <1>3
  <1> QED BY <1>1, <1>2, <1>4, <1>5, <1>6, <1>7, <1>8 DEF PInv

LEMMA LastKeeps == PInv /\ Last => PInv'
  <1> SUFFICES ASSUME PInv, Last PROVE PInv'
    OBVIOUS
  <1>1. /\ TypeOK /\ pc = "share" /\ k = Fit
        /\ in.n > 0 /\ in.total >= in.min /\ Total(share) + left = in.total /\ Given /\ Enough
        /\ share' = [share EXCEPT ![in.n] = left] /\ left' = 0 /\ k' = k + 1 /\ in' = in /\ pc' = pc
    BY DEF PInv, Last, Working
  <1>2. in.n \in 1..in.n /\ in.n \in Nat /\ in.min \in Positive /\ Fit \in Nat /\ Fit <= in.n /\ Fit' = Fit
    BY <1>1, FitIs DEF TypeOK, Fit
  <1>3. TypeOK'
    <2>1. share \in [1..in.n -> Nat] /\ left \in Nat /\ k' \in Positive
      BY <1>1 DEF TypeOK, Positive
    <2>2. share' \in [1..in'.n -> Nat]
      BY <1>1, <1>2, <2>1
    <2> QED BY <1>1, <2>1, <2>2 DEF TypeOK
  <1>4. share[in.n] = 0
    BY <1>1, <1>2 DEF Given, Served
  <1>5. left >= in.min
    <2>1. (Fit - k + 1) * in.min = in.min
      BY <1>1, <1>2 DEF Positive
    <2> QED BY <1>1, <1>2, <2>1 DEF Enough
  <1>6. Total(share') + left' = in.total
    <2>1. share \in [1..in.n -> Int] /\ left \in Int
      BY <1>1 DEF TypeOK
    <2>2. Total([share EXCEPT ![in.n] = left]) = Total(share) - share[in.n] + left
      BY <1>2, <2>1, TotalAfter
    <2>3. Total(share) \in Int
      BY <1>2, <2>1, TotalIsInt
    <2> QED BY <1>1, <1>4, <2>1, <2>2, <2>3
  <1>7. Given'
    <2>1. ASSUME NEW t \in 1..in.n
          PROVE  IF Served(t)' THEN share'[t] >= in.min ELSE share'[t] = 0
      <3>1. CASE t = in.n
        <4>1. Served(t)' /\ share'[t] = left
          BY <1>1, <1>2, <3>1 DEF Served, TypeOK
        <4> QED BY <1>5, <4>1
      <3>2. CASE t # in.n
        <4>1. share'[t] = share[t] /\ Served(t)' = Served(t)
          BY <1>1, <1>2, <3>2 DEF Served, TypeOK
        <4> QED BY <1>1, <4>1 DEF Given
      <3> QED BY <3>1, <3>2
    <2> QED BY <1>1, <2>1 DEF Given
  <1>8. Enough' /\ k' <= Fit' + 1
    BY <1>1, <1>2 DEF Enough
  <1> QED BY <1>1, <1>3, <1>6, <1>7, <1>8 DEF PInv

(* The rows of the plan, and the ways to stop, hand out nothing.           *)
LEMMA EndKeeps == PInv /\ (Unlisted \/ Plan) => PInv'
  <1> SUFFICES ASSUME PInv, Unlisted \/ Plan PROVE PInv'
    OBVIOUS
  <1>1. /\ TypeOK /\ Working /\ pc = "share" /\ pc' \in {"IndexError", "planned"}
        /\ in' = in /\ k' = k /\ left' = left /\ share' = share
    BY DEF PInv, Unlisted, Plan, Working
  <1>2. /\ in.n > 0 /\ in.total >= in.min /\ k <= Fit + 1
        /\ Total(share) + left = in.total /\ Given /\ Enough
    BY <1>1 DEF PInv
  <1>3. Fit \in Nat /\ k \in Nat /\ Fit' = Fit
    BY <1>1, FitIs DEF TypeOK, Positive, Fit
  <1>4. pc' = "planned" => k = Fit + 1
    BY <1>1, <1>2, <1>3 DEF Unlisted, Plan
  <1>5. TypeOK'
    BY <1>1 DEF TypeOK
  <1>6. Given' /\ Enough'
    <2>1. \A t : Served(t)' = Served(t)
      BY <1>1, <1>3 DEF Served
    <2> QED BY <1>1, <1>2, <1>3, <2>1 DEF Given, Enough
  <1> QED BY <1>1, <1>2, <1>3, <1>4, <1>5, <1>6 DEF PInv

LEMMA NextKeepsPInv == PInv /\ [Next]_vars => PInv'
  <1>1. PInv /\ UNCHANGED vars => PInv'
    <2> SUFFICES ASSUME PInv, UNCHANGED vars PROVE PInv'
      OBVIOUS
    <2>1. in' = in /\ pc' = pc /\ k' = k /\ left' = left /\ share' = share
      BY DEF vars
    <2>2. Fit' = Fit /\ TypeOK' = TypeOK /\ Working' = Working
      BY <2>1 DEF Fit, TypeOK, Working
    <2>3. Given' = Given /\ Enough' = Enough
      BY <2>1, <2>2 DEF Given, Enough, Served
    <2> QED BY <2>1, <2>2, <2>3 DEF PInv
  <1> QED BY <1>1, BeginKeeps, ShareKeeps, LastKeeps, EndKeeps DEF Next

(* Whatever the precision rounds away and however many targets are merged, *)
(* a plan sells the whole volume: the last target gets what is left.       *)
THEOREM PlansAreWhole == Spec => []PlanWhole
  <1>1. PInv => PlanWhole
    <2> SUFFICES ASSUME PInv, pc = "planned", in.n > 0 PROVE Total(share) = in.total
      BY DEF PlanWhole
    <2>1. /\ TypeOK /\ Working /\ k = Fit + 1
      BY DEF PInv, Working
    <2>2. Total(share) + left = in.total /\ left = 0
      BY <2>1 DEF PInv, Enough
    <2>3. Total(share) \in Int
      <3>1. in.n \in Nat /\ share \in [1..in.n -> Int]
        BY <2>1, FitIs DEF TypeOK
      <3> QED BY <3>1, TotalIsInt
    <2> QED BY <2>2, <2>3
  <1> QED BY InitPInv, NextKeepsPInv, <1>1, PTL DEF Spec

(* Every target of a plan is worth an order of at least the broker's       *)
(* minimum, or is merged.                                                  *)
THEOREM PlansHaveNoCrumbs == Spec => []NoCrumbs
  <1>1. PInv => NoCrumbs
    <2> SUFFICES ASSUME PInv, pc = "planned", NEW t \in 1..in.n
                 PROVE  IF IsKept(t) THEN share[t] >= in.min ELSE share[t] = 0
      BY DEF NoCrumbs
    <2>1. in.n \in Nat /\ in.n > 0 /\ Fit \in Nat
      BY FitIs DEF PInv, TypeOK
    <2>2. Given /\ k = Fit + 1
      BY <2>1 DEF PInv, Working
    <2>3. Served(t) <=> IsKept(t)
      BY <2>1, <2>2 DEF Served, IsKept
    <2> QED BY <2>2, <2>3 DEF Given
  <1> QED BY InitPInv, NextKeepsPInv, <1>1, PTL DEF Spec

-----------------------------------------------------------------------------
LEMMA InitHInv == Init => HInv
  <1>1. Init => ~Working
    BY DEF Init, Working
  <1> QED BY <1>1, InitPInv DEF HInv, Honoured

LEMMA BeginHonours == PInv /\ Begin => Honoured'
  <1> SUFFICES ASSUME PInv, Begin PROVE Honoured'
    OBVIOUS
  <1>1. k' = 1
    BY DEF PInv, Begin
  <1>2. \A t \in 1..(k' - 1) : FALSE
    BY <1>1
  <1> QED BY <1>2 DEF Honoured

(* A share that is clipped leaves the minima, and then every later one is  *)
(* clipped to a minimum.                                                   *)
LEMMA ShareHonours == HInv /\ Share => Honoured'
  <1> SUFFICES ASSUME HInv, Share PROVE Honoured'
    OBVIOUS
  <1>1. PICK u : Sells(u)
    BY ShareSells DEF HInv
  <1>2. /\ u \in Nat /\ share' = [share EXCEPT ![k] = u] /\ left' = left - u
        /\ k' = k + 1 /\ in' = in /\ Fit' = Fit
        /\ k \in 1..(in.n - 1) /\ k < Fit /\ k \in 1..Len(Weights(in))
        /\ u <= Most(in.min, Requested(k))
        /\ u >= Requested(k) \/ left' = (Fit - k) * in.min
        /\ left = (Fit - k + 1) * in.min => u = in.min
    BY <1>1 DEF Sells
  <1>3. TypeOK /\ Working /\ in.n > 0 /\ k \in Nat /\ left \in Nat /\ share \in [1..in.n -> Nat]
    BY DEF HInv, PInv, Share, Working, TypeOK, Positive
  <1>4. in.n \in Nat /\ in.min \in Positive /\ Fit \in Nat /\ Fit <= in.n
    BY <1>3, FitIs DEF TypeOK
  <1>5. k \in 1..in.n /\ \A t : Exact(t)' = Exact(t)
    BY <1>2, <1>4 DEF Exact
  <1>6. ASSUME NEW t \in 1..in.n
        PROVE  (Served(t)' <=> t = k \/ Served(t)) /\ share'[t] = IF t = k THEN u ELSE share[t]
    <2>1. Served(t)' <=> t = k \/ Served(t)
      BY <1>2, <1>3, <1>4 DEF Served
    <2> QED BY <1>2, <1>3, <2>1
  <1>7. (Fit - k + 1) * in.min = (Fit - k) * in.min + in.min /\ (Fit - k) * in.min \in Int
    BY <1>2, <1>3, <1>4 DEF Positive
  <1>8. left' = (Fit' - k' + 1) * in'.min <=> left' = (Fit - k) * in.min
    <2>1. Fit - (k + 1) + 1 = Fit - k
      BY <1>3, <1>4
    <2> QED BY <1>2, <2>1
  <1>9. ASSUME NEW t \in 1..in.n, t < k, Squeezed(t) PROVE Squeezed(t)'
    <2>1. left = (Fit - k + 1) * in.min
      BY <1>2, <1>3, <1>4, <1>9 DEF Squeezed
    <2>2. u = in.min /\ left' = (Fit - k) * in.min
      BY <1>2, <1>3, <1>4, <1>7, <2>1 DEF Positive
    <2>3. ASSUME NEW x \in (t + 1)..in.n, Served(x)' PROVE share'[x] = in.min
      <3>1. x \in 1..in.n
        BY <1>4
      <3>2. x = k \/ Served(x)
        BY <1>6, <2>3, <3>1
      <3>3. x # k => share[x] = in.min
        BY <1>9, <3>2 DEF Squeezed
      <3> QED BY <1>6, <2>2, <3>1, <3>3
    <2>4. k' <= Fit' => left' = (Fit' - k' + 1) * in'.min
      BY <1>8, <2>2
    <2> QED BY <1>2, <2>3, <2>4 DEF Squeezed
  <1>10. ASSUME NEW t \in 1..in.n, t = k, left' = (Fit - k) * in.min PROVE Squeezed(t)'
    <2>1. ASSUME NEW x \in (t + 1)..in.n PROVE ~Served(x)'
      <3>1. x \in 1..in.n /\ x > k /\ ~Served(x)
        BY <1>2, <1>3, <1>4, <1>10 DEF Served
      <3> QED BY <1>6, <3>1
    <2>2. k' <= Fit' => left' = (Fit' - k' + 1) * in'.min
      BY <1>8, <1>10
    <2> QED BY <1>2, <2>1, <2>2 DEF Squeezed
  <1>11. ASSUME NEW t \in 1..(k - 1), t < Fit
         PROVE  /\ share'[t] <= Most(in.min, Exact(t))
                /\ share'[t] >= Exact(t) - 1 \/ Squeezed(t)'
    <2>1. t \in 1..in.n /\ t < k
      BY <1>3, <1>4, <1>5
    <2>2. share[t] <= Most(in.min, Exact(t)) /\ (share[t] >= Exact(t) - 1 \/ Squeezed(t))
      BY <1>3, <1>11 DEF HInv, Honoured
    <2>3. share'[t] = share[t]
      BY <1>3, <1>6, <2>1
    <2> QED BY <1>9, <2>1, <2>2, <2>3
  <1>12. ASSUME NEW t \in 1..in.n, t = k
         PROVE  /\ share'[t] <= Most(in.min, Exact(t))
                /\ share'[t] >= Exact(t) - 1 \/ Squeezed(t)'
    <2>1. in.total * Weights(in)[k] < Coarse
      <3>1. PICK m \in 0..in.n : Weights(in) \in [1..m -> Nat] /\ Len(Weights(in)) = m
        BY <1>3, WeightsAre DEF TypeOK
      <3>2. k \in DOMAIN Weights(in)
        BY <1>2, <3>1
      <3> QED BY <1>3, <3>2, PrecisionAssumption DEF TypeOK, Coarse
    <2>2. /\ Requested(k) \in Nat /\ Exact(k) \in Nat
          /\ Requested(k) <= Exact(k) /\ Requested(k) >= Exact(k) - 1
      BY <1>2, <1>3, <2>1, RequestedIs DEF TypeOK
    <2>3. share'[t] = u /\ in.min \in Nat
      BY <1>4, <1>6, <1>12 DEF Positive
    <2>4. u <= Most(in.min, Exact(k))
      BY <1>2, <2>2, <2>3 DEF Most
    <2>5. u >= Exact(k) - 1 \/ Squeezed(t)'
      BY <1>2, <1>10, <1>12, <2>2
    <2> QED BY <1>12, <2>3, <2>4, <2>5
  <1>13. ASSUME NEW t \in 1..(k' - 1), t < Fit'
         PROVE  /\ share'[t] <= Most(in'.min, Exact(t)')
                /\ share'[t] >= Exact(t)' - 1 \/ Squeezed(t)'
    <2>1. t = k \/ t \in 1..(k - 1)
      BY <1>2, <1>3
    <2> QED BY <1>2, <1>5, <1>11, <1>12, <1>13, <2>1
  <1> QED BY <1>13 DEF Honoured, Most

LEMMA LastHonours == HInv /\ Last => Honoured'
  <1> SUFFICES ASSUME HInv, Last PROVE Honoured'
    OBVIOUS
  <1>1. /\ TypeOK /\ Working /\ k = Fit /\ in.n > 0 /\ k \in Nat
        /\ share \in [1..in.n -> Nat] /\ left \in Nat
        /\ share' = [share EXCEPT ![in.n] = left] /\ left' = 0 /\ k' = k + 1 /\ in' = in
    BY DEF HInv, PInv, Last, Working, TypeOK, Positive
  <1>2. in.n \in Nat /\ in.min \in Positive /\ Fit \in Nat /\ Fit <= in.n
    BY <1>1, FitIs DEF TypeOK
  <1>3. Fit' = Fit /\ \A t : Exact(t)' = Exact(t)
    BY <1>1 DEF Fit, Exact
  <1>4. ASSUME NEW t \in 1..in.n
        PROVE  /\ Served(t)' <=> t = in.n \/ Served(t)
               /\ share'[t] = IF t = in.n THEN left ELSE share[t]
    <2>1. Served(t)' <=> t = in.n \/ Served(t)
      BY <1>1, <1>2, <1>3 DEF Served
    <2> QED BY <1>1, <2>1
  <1>5. (Fit - k + 1) * in.min = in.min
    BY <1>1, <1>2 DEF Positive
  <1>6. ASSUME NEW t \in 1..(k' - 1), t < Fit'
        PROVE  /\ share'[t] <= Most(in'.min, Exact(t)')
               /\ share'[t] >= Exact(t)' - 1 \/ Squeezed(t)'
    <2>1. t \in 1..(k - 1) /\ t \in 1..in.n /\ t # in.n /\ t < Fit
      BY <1>1, <1>2, <1>3, <1>6
    <2>2. share[t] <= Most(in.min, Exact(t)) /\ (share[t] >= Exact(t) - 1 \/ Squeezed(t))
      BY <1>1, <2>1 DEF HInv, Honoured
    <2>3. share'[t] = share[t]
      BY <1>4, <2>1
    <2>4. Squeezed(t) => Squeezed(t)'
      <3> SUFFICES ASSUME Squeezed(t) PROVE Squeezed(t)'
        OBVIOUS
      <3>1. left = in.min
        BY <1>1, <1>2, <1>5 DEF Squeezed
      <3>2. ASSUME NEW x \in (t + 1)..in.n, Served(x)' PROVE share'[x] = in.min
        <4>1. x \in 1..in.n
          BY <1>2
        <4>2. x = in.n \/ Served(x)
          BY <1>4, <3>2, <4>1
        <4>3. x # in.n => share[x] = in.min
          BY <4>2 DEF Squeezed
        <4> QED BY <1>4, <3>1, <4>1, <4>3
      <3>3. ~(k' <= Fit')
        BY <1>1, <1>2, <1>3
      <3> QED BY <1>1, <3>2, <3>3 DEF Squeezed
    <2> QED BY <1>1, <1>3, <2>2, <2>3, <2>4
  <1> QED BY <1>6 DEF Honoured, Most

LEMMA EndHonours == HInv /\ (Unlisted \/ Plan \/ UNCHANGED vars) => Honoured'
  <1> SUFFICES ASSUME HInv, Unlisted \/ Plan \/ UNCHANGED vars, Working' PROVE Honoured'
    BY DEF Honoured
  <1>1. in' = in /\ k' = k /\ left' = left /\ share' = share /\ Working
    BY DEF Unlisted, Plan, vars, Working
  <1>2. Fit' = Fit
    BY <1>1 DEF Fit
  <1>3. \A t : Exact(t)' = Exact(t) /\ Served(t)' = Served(t)
    BY <1>1, <1>2 DEF Exact, Served
  <1>4. \A t : Squeezed(t)' = Squeezed(t)
    BY <1>1, <1>2, <1>3 DEF Squeezed
  <1>5. ASSUME NEW t \in 1..(k' - 1), t < Fit'
        PROVE  /\ share'[t] <= Most(in'.min, Exact(t)')
               /\ share'[t] >= Exact(t)' - 1 \/ Squeezed(t)'
    BY <1>1, <1>2, <1>3, <1>4, <1>5 DEF HInv, Honoured
  <1> QED BY <1>5 DEF Honoured, Most

LEMMA NextKeepsHInv == HInv /\ [Next]_vars => HInv'
  <1> SUFFICES ASSUME HInv, [Next]_vars PROVE Honoured'
    BY NextKeepsPInv DEF HInv
  <1> QED BY BeginHonours, ShareHonours, LastHonours, EndHonours DEF HInv, Next

(* With the precision the settings and volumes leave, the rounding of the  *)
(* percentages never gives an early target more than its weight asks for,  *)
(* the minimum aside, and gives it a step less at most, unless the minima  *)
(* of later targets need it.                                               *)
THEOREM RequestsAreHonoured == Spec => []RequestHonoured
  <1>1. HInv => RequestHonoured
    <2> SUFFICES ASSUME HInv, pc = "planned", NEW t \in 1..(Fit - 1)
                 PROVE  /\ share[t] <= Most(in.min, Exact(t))
                        /\ \/ share[t] >= Exact(t) - 1
                           \/ \A u \in (t + 1)..in.n : IsKept(u) => share[u] = in.min
      BY DEF RequestHonoured, Exact
    <2>1. in.n \in Nat /\ Fit \in Nat /\ Fit <= in.n /\ k \in Nat
      BY FitIs DEF HInv, PInv, TypeOK, Positive
    <2>2. in.n > 0 /\ Working
      BY <2>1 DEF Working
    <2>3. k = Fit + 1
      BY <2>2 DEF HInv, PInv
    <2>4. t \in 1..(k - 1) /\ t < Fit
      BY <2>1, <2>3
    <2>5. share[t] <= Most(in.min, Exact(t)) /\ (share[t] >= Exact(t) - 1 \/ Squeezed(t))
      BY <2>2, <2>4 DEF HInv, Honoured
    <2>6. ASSUME NEW u \in (t + 1)..in.n, IsKept(u), Squeezed(t) PROVE share[u] = in.min
      <3>1. Served(u)
        BY <2>1, <2>3, <2>6 DEF Served, IsKept
      <3> QED BY <2>6, <3>1 DEF Squeezed
    <2> QED BY <2>5, <2>6
  <1> QED BY InitHInv, NextKeepsHInv, <1>1, PTL DEF Spec

(* A plan fails on a percentage that is not there only for a custom list   *)
(* that is shorter than the signal's list of targets.                      *)
ShortListsFail ==
  pc = "IndexError" => in.preset = "CUSTOM" /\ in.custom # <<>> /\ Len(in.custom) < in.n

LEMMA FullLists ==
  ASSUME NEW c \in Inputs, c.n > 0, ~(c.preset = "CUSTOM" /\ c.custom # <<>> /\ Len(c.custom) < c.n)
  PROVE  Len(Weights(c)) = c.n
  <1>1. c.n \in Nat /\ c.custom \in Seq(Int)
    BY InputsAre, InputsAssumption
  <1>2. Listed(c) = [i \in 1..c.n |-> Listed(c)[i]]
    <2>1. CASE c.preset = "CUSTOM" /\ c.custom # <<>>
      <3>1. Least(c.n, Len(c.custom)) = c.n
        BY <1>1, <2>1 DEF Least
      <3> QED BY <2>1, <3>1 DEF Listed
    <2>2. CASE ~(c.preset = "CUSTOM" /\ c.custom # <<>>)
      BY <2>2 DEF Listed
    <2> QED BY <2>1, <2>2
  <1>3. Weights(c) = [i \in 1..c.n |-> Weights(c)[i]]
    BY <1>2 DEF Weights
  <1> QED BY <1>1, <1>3

THEOREM OnlyShortListsFail == Spec => []ShortListsFail
  <1>1. Init => ShortListsFail
    BY DEF Init, ShortListsFail
  <1>2. PInv /\ ShortListsFail /\ [Next]_vars => ShortListsFail'
    <2> SUFFICES ASSUME PInv, ShortListsFail, [Next]_vars, pc' = "IndexError"
                 PROVE  ShortListsFail'
      BY DEF ShortListsFail
    <2>1. in' = in /\ (pc = "IndexError" \/ Unlisted)
      BY DEF Next, Begin, Share, Last, Unlisted, Plan, vars
    <2>2. CASE pc = "IndexError"
      BY <2>1, <2>2 DEF ShortListsFail
    <2>3. CASE Unlisted
      <3>1. TypeOK /\ in.n > 0 /\ k \in Nat
        BY <2>3 DEF PInv, Working, Unlisted, TypeOK, Positive
      <3>2. in.n \in Nat /\ Fit \in Nat /\ Fit <= in.n
        BY <3>1, FitIs DEF TypeOK
      <3>3. in.n > Len(Weights(in)) \/ (k < in.n /\ k > Len(Weights(in)))
        BY <2>3, <3>1, <3>2 DEF Unlisted, Kept
      <3>4. Len(Weights(in)) # in.n
        BY <3>1, <3>2, <3>3
      <3> QED BY <2>1, <3>1, <3>4, FullLists DEF TypeOK, ShortListsFail
    <2> QED BY <2>1, <2>2, <2>3
  <1> QED BY InitPInv, NextKeepsPInv, <1>1, <1>2, PTL DEF Spec
=============================================================================
