-------------------------- MODULE ClockChainProofs --------------------------
(***************************************************************************)
(* For every sample rate, FIR factor and setting: what the clock chain     *)
(* calculation returns, with the floors of its divisions. These are facts  *)
(* about the operators of ClockChain; the theorems about the states they   *)
(* lead to are in ClockGridProofs and ClockTreeProofs.                     *)
(***************************************************************************)
EXTENDS ClockChain, TLAPS, WellFoundedInduction

(***************************************************************************)
(* The limits as numbers, and membership in their ranges as inequalities.  *)
(***************************************************************************)
LEMMA Limits ==
  /\ MinAdcClk = 25000000 /\ MaxAdcClk = 640000000 /\ MaxDacClk = 320000000
  /\ MinBbpllFreq = 714928500 /\ MaxBbpllFreq = 1430143000
  /\ MaxBasebandRate = 61440000
  BY SMT DEF MinAdcClk, MaxAdcClk, MaxDacClk, MinBbpllFreq, MaxBbpllFreq,
             MaxBasebandRate, kHz, MHz

LEMMA LimitTypes == MinAdcClk \in Nat /\ MaxAdcClk \in Nat
  BY SMT, Limits

LEMMA AdcRange ==
  ASSUME NEW f \in Int
  PROVE  f \in MinAdcClk..MaxAdcClk <=> f >= 25000000 /\ f <= 640000000
<1> DEFINE Inside == f \in MinAdcClk..MaxAdcClk
<1>1. MinAdcClk \in Int /\ MaxAdcClk \in Int
  BY SMT, Limits
<1>2. Inside <=> f >= MinAdcClk /\ f <= MaxAdcClk
  BY <1>1
<1> HIDE DEF Inside
<1>3. Inside <=> f >= 25000000 /\ f <= 640000000
  BY SMT, <1>2, Limits
<1> QED
  BY <1>3 DEF Inside

LEMMA BbpllRange ==
  ASSUME NEW f \in Int
  PROVE  f \in MinBbpllFreq..MaxBbpllFreq <=> f >= 714928500 /\ f <= 1430143000
<1> DEFINE Inside == f \in MinBbpllFreq..MaxBbpllFreq
<1>1. MinBbpllFreq \in Int /\ MaxBbpllFreq \in Int
  BY SMT, Limits
<1>2. Inside <=> f >= MinBbpllFreq /\ f <= MaxBbpllFreq
  BY <1>1
<1> HIDE DEF Inside
<1>3. Inside <=> f >= 714928500 /\ f <= 1430143000
  BY SMT, <1>2, Limits
<1> QED
  BY <1>3 DEF Inside

LEMMA BbpllLimit == \A f \in Int : f <= MaxBbpllFreq <=> f <= 1430143000
  BY SMT, Limits

LEMMA RateRange ==
  ASSUME NEW q, RateInRange(q)
  PROVE  q.rate \in Nat /\ q.rate >= 1 /\ q.rate <= 61440000
<1> DEFINE Inside == q.rate \in 1..MaxBasebandRate
<1>1. MaxBasebandRate \in Int
  BY SMT, Limits
<1>2. Inside => q.rate \in Nat /\ q.rate >= 1 /\ q.rate <= MaxBasebandRate
  BY <1>1
<1>3. Inside
  BY DEF RateInRange
<1> HIDE DEF Inside
<1> QED
  BY SMT, <1>2, <1>3, Limits

(***************************************************************************)
(* The code's min and max of a set.                                        *)
(***************************************************************************)
LEMMA MinIs ==
  ASSUME NEW S, \E m \in S : \A n \in S : m <= n
  PROVE  Min(S) \in S /\ \A n \in S : Min(S) <= n
  BY Zenon DEF Min

LEMMA MaxIs ==
  ASSUME NEW S, \E m \in S : \A n \in S : m >= n
  PROVE  Max(S) \in S /\ \A n \in S : Max(S) >= n
  BY Zenon DEF Max

(***************************************************************************)
(* Whole quotients and the division that Closest finds again.              *)
(***************************************************************************)
LEMMA Quotient ==
  ASSUME NEW a \in Int, NEW b \in Nat, b > 0, NEW n \in Int,
         n * b <= a, a < (n + 1) * b
  PROVE  a \div b = n
  OBVIOUS

\* Rates of at least 8 Hz are far enough from their parents' neighbours.
LEMMA ClosestUndoes ==
  ASSUME NEW parent \in Nat, NEW d \in {1, 2, 3, 4}, NEW rate,
         rate = parent \div d, rate >= 8
  PROVE  /\ Closest(rate, parent) = [mult |-> 1, div |-> d]
         /\ RateFromParent(Closest(rate, parent), parent) = rate
<1>1. rate \in Nat /\ d * rate <= parent /\ parent < d * rate + d
  OBVIOUS
<1>2. parent \div 2 \in Nat /\ 2 * (parent \div 2) <= parent
  OBVIOUS
<1>3. rate \div 2 \in Nat /\ 2 * (rate \div 2) <= rate /\ rate < 2 * (rate \div 2) + 2
  BY <1>1
<1>4. CASE d = 1
  <2>1. rate = parent
    BY <1>4
  <2>2. (rate + parent \div 2) \div parent = 1
    BY <1>1, <1>2, <2>1, Quotient
  <2> QED
    BY <1>1, <1>4, <2>1, <2>2 DEF Closest, RateFromParent
<1>5. CASE d # 1
  <2>1. rate < parent
    BY <1>1, <1>5
  <2>2. d * rate <= parent + rate \div 2
    BY <1>1, <1>3
  <2>3. parent + rate \div 2 < (d + 1) * rate
    BY <1>1, <1>3
  <2>4. (parent + rate \div 2) \div rate = d
    BY <1>1, <1>3, <2>2, <2>3, Quotient
  <2> QED
    BY <1>1, <2>1, <2>4 DEF Closest, RateFromParent
<1> QED
  BY <1>4, <1>5

(***************************************************************************)
(* The row and the governor that the loops of the code find first.         *)
(***************************************************************************)
LEMMA LeastNatural ==
  ASSUME NEW S \in SUBSET Nat, S # {}
  PROVE  \E i \in S : \A j \in Nat : j < i => j \notin S
<1> DEFINE R == OpToRel(<, Nat)
<1>1. PICK i \in S : \A j \in Nat : <<j, i>> \in R => j \notin S
  BY NatLessThanWellFounded, WFMin
<1>2. \A j \in Nat : j < i => <<j, i>> \in R
  BY DEF OpToRel
<1> QED
  BY <1>1, <1>2

LEMMA FirstIsFirst ==
  ASSUME NEW S \in SUBSET (0..7), S # {}
  PROVE  Min(S) \in S /\ \A n \in S : Min(S) <= n
<1>1. S \in SUBSET Nat
  OBVIOUS
<1>2. PICK m \in S : \A n \in Nat : n < m => n \notin S
  BY <1>1, LeastNatural
<1>3. \A n \in S : m <= n
  BY <1>1, <1>2
<1> QED
  BY <1>3, MinIs

LEMMA RowTypes ==
  ASSUME NEW i \in Rows
  PROVE  /\ Row(i) = <<Row(i)[1], Row(i)[2], Row(i)[3], Row(i)[4]>>
         /\ Row(i)[1] = Row(i)[2] * Row(i)[3] * Row(i)[4]
         /\ Row(i)[1] \in 1..12
         /\ Row(i)[2] \in 1..3 /\ Row(i)[3] \in 1..2 /\ Row(i)[4] \in 1..2
  BY DEF Rows, Row, CLK_DIVIDERS

(***************************************************************************)
(* The BBPLL divider. The converter's limits leave one that puts the BBPLL *)
(* into its range, and Closest finds it again.                             *)
(***************************************************************************)
LEMMA BbpllDivIs ==
  ASSUME NEW adc \in Nat, adc >= 1, NEW d \in {2, 4, 8, 16, 32, 64},
         adc * d <= 1430143000, 2 * adc * d > 1430143000
  PROVE  BbpllDiv(adc) = d
<1> DEFINE fit == {e \in BbpllDividers : adc <= MaxBbpllFreq \div e}
<1>1. \A e \in BbpllDividers : e \in fit <=> adc * e <= MaxBbpllFreq
  BY SMT, Limits DEF BbpllDividers
<1>2. fit \subseteq {2, 4, 8, 16, 32, 64}
  BY SMT DEF BbpllDividers
<1> HIDE DEF fit
<1>3. d \in BbpllDividers /\ adc * d <= MaxBbpllFreq
  BY SMT, BbpllLimit DEF BbpllDividers
<1>4. ASSUME NEW e \in fit PROVE d >= e
  <2>1. e \in {2, 4, 8, 16, 32, 64} /\ e \in BbpllDividers
    BY SMT, <1>2 DEF BbpllDividers
  <2>2. adc * e <= 1430143000
    BY SMT, <1>1, <2>1, BbpllLimit
  <2> QED
    BY SMT, <2>1, <2>2
<1>5. d \in fit
  BY SMT, <1>1, <1>3
<1>6. Max(fit) = d
  <2>1. Max(fit) \in fit /\ \A e \in fit : Max(fit) >= e
    BY ONLY Zenon, <1>4, <1>5, MaxIs
  <2>2. Max(fit) \in {2, 4, 8, 16, 32, 64} /\ d >= Max(fit) /\ Max(fit) >= d
    BY ONLY Zenon, <1>2, <1>4, <1>5, <2>1
  <2> QED
    BY SMT, <2>2
<1> QED
  BY SMT, <1>5, <1>6 DEF BbpllDiv, fit

LEMMA BbpllInRange ==
  ASSUME NEW adc \in Int, adc \in MinAdcClk..MaxAdcClk
  PROVE  /\ BbpllDiv(adc) \in {2, 4, 8, 16, 32}
         /\ adc * BbpllDiv(adc) \in Int
         /\ adc * BbpllDiv(adc) \in MinBbpllFreq..MaxBbpllFreq
<1>1. adc >= 25000000 /\ adc <= 640000000
  BY AdcRange
<1>2. PICK d \in {2, 4, 8, 16, 32} : /\ adc * d <= 1430143000
                                    /\ 2 * adc * d > 1430143000
  BY SMT, <1>1
<1>3. BbpllDiv(adc) = d
  BY SMT, <1>1, <1>2, BbpllDivIs
<1>4. adc * d \in Int /\ adc * d >= 714928500 /\ adc * d <= 1430143000
  BY SMT, <1>1, <1>2
<1>5. adc * d \in MinBbpllFreq..MaxBbpllFreq
  BY SMT, <1>4, BbpllRange
<1> QED
  BY <1>3, <1>4, <1>5

LEMMA ClosestOfMultiple ==
  ASSUME NEW adc \in Nat, adc >= 1, NEW d \in {2, 4, 8, 16, 32, 64}
  PROVE  /\ Closest(adc, adc * d) = [mult |-> 1, div |-> d]
         /\ RateFromParent(Closest(adc, adc * d), adc * d) = adc
         /\ (adc * d) \div d = adc
<1>1. adc \div 2 \in Nat /\ 2 * (adc \div 2) <= adc
  OBVIOUS
<1>2. d * adc <= adc * d + adc \div 2 /\ adc * d + adc \div 2 < (d + 1) * adc
  BY <1>1
<1>3. /\ adc * d > adc /\ (adc * d + adc \div 2) \div adc = d
      /\ (adc * d) \div d = adc
  BY <1>1, <1>2, Quotient
<1>4. Closest(adc, adc * d) = [mult |-> 1, div |-> d]
  BY <1>3 DEF Closest
<1> QED
  BY <1>3, <1>4 DEF RateFromParent

LEMMA AdcDivides ==
  ASSUME NEW adc \in Int, adc \in MinAdcClk..MaxAdcClk
  PROVE  LET ratio == Closest(adc, adc * BbpllDiv(adc))
         IN  /\ ratio = [mult |-> 1, div |-> BbpllDiv(adc)]
             /\ RateFromParent(ratio, adc * BbpllDiv(adc)) = adc
<1>1. adc \in Nat /\ adc >= 1
  BY SMT, AdcRange
<1>2. BbpllDiv(adc) \in {2, 4, 8, 16, 32}
  BY BbpllInRange
<1> QED
  BY <1>1, <1>2, ClosestOfMultiple

(***************************************************************************)
(* A request as set_sample_rate makes it, and the chain for it. Earlier    *)
(* rows are out of the ADC's range or have no row for TX.                  *)
(***************************************************************************)
Asked(q) ==
  /\ q.rxdec \in {1, 2, 4} /\ q.txint \in {1, 2, 4}
  /\ q.eq2tx \in BOOLEAN /\ q.governor \in {0, 1}

ChainAt(q, i, j) ==
  /\ i \in Rows /\ AdcFor(q, i) \in MinAdcClk..MaxAdcClk
  /\ j \in Rows /\ j = IndexTx(q, i)
  /\ \A n \in Rows : n >= q.governor /\ n < i =>
       \/ AdcFor(q, n) \notin MinAdcClk..MaxAdcClk
       \/ IndexTx(q, n) \notin Rows

LEMMA GovernorsTried ==
  ASSUME NEW q, Asked(q)
  PROVE  /\ GovernorTries(q) \subseteq 0..7
         /\ GovernorTries(q) = {0} \/ GovernorTries(q) = q.governor..7
  BY DEF GovernorTries, Asked

LEMMA AskedTypes ==
  ASSUME NEW q, Asked(q), q.rate \in Nat, q.rate >= 1, NEW i \in Rows
  PROVE  /\ ClkRf(q) \in Nat /\ ClkTf(q) \in Nat /\ ClkRf(q) >= 1 /\ ClkTf(q) >= 1
         /\ AdcFor(q, i) \in Nat /\ AdcFor(q, i) = ClkRf(q) * Row(i)[1]
         /\ DacFor(q, i) \in Nat
         /\ DacFor(q, i) = AdcFor(q, i) \/ DacFor(q, i) = AdcFor(q, i) \div 2
<1>1. Row(i)[1] \in 1..12
  BY RowTypes
<1>2. ClkRf(q) \in Nat /\ ClkTf(q) \in Nat /\ ClkRf(q) >= 1 /\ ClkTf(q) >= 1
  BY DEF Asked, ClkRf, ClkTf
<1>3. AdcFor(q, i) \in Nat /\ AdcFor(q, i) = ClkRf(q) * Row(i)[1]
  BY <1>1, <1>2 DEF AdcFor
<1>4. /\ DacFor(q, i) \in Nat
      /\ DacFor(q, i) = AdcFor(q, i) \/ DacFor(q, i) = AdcFor(q, i) \div 2
  BY <1>3 DEF DacFor
<1> QED
  BY <1>2, <1>3, <1>4

\* The guard of RowsFrom that keeps the product small says nothing of its own.
LEMMA RowInRange ==
  ASSUME NEW q, Asked(q), RateInRange(q), NEW n \in Rows,
         AdcFor(q, n) \in MinAdcClk..MaxAdcClk
  PROVE  ClkRf(q) <= MaxAdcClk \div Row(n)[1]
<1> DEFINE k   == ClkRf(q)
           m   == Row(n)[1]
           max == MaxAdcClk
<1>1. q.rate \in Nat /\ q.rate >= 1
  BY SMT, RateRange
<1>2. k \in Nat /\ m \in 1..12 /\ AdcFor(q, n) = k * m
  BY <1>1, AskedTypes, RowTypes
<1>3. max \in Nat /\ MinAdcClk \in Nat
  BY LimitTypes
<1>4. k * m <= max
  BY <1>2, <1>3
<1> HIDE DEF k, m, max
<1>5. k <= max \div m
  <2>1. m = 1 \/ m = 2 \/ m = 3 \/ m = 4 \/ m = 5 \/ m = 6 \/ m = 7 \/ m = 8
          \/ m = 9 \/ m = 10 \/ m = 11 \/ m = 12
    BY <1>2
  <2> QED
    BY SMT, <1>2, <1>3, <1>4, <2>1
<1> QED
  BY <1>5 DEF k, m, max

LEMMA ChainFound ==
  ASSUME NEW q, Asked(q), CalculateRfClockChain(q).ok
  PROVE  /\ q.rate \in 1..MaxBasebandRate
         /\ \E i, j \in Rows :
              LET adc   == AdcFor(q, i)
                  bbpll == adc * BbpllDiv(adc)
              IN  /\ ChainAt(q, i, j)
                  /\ CalculateRfClockChain(q) =
                       [ok |-> TRUE,
                        rx |-> Path(bbpll, adc, Row(i), q.rxdec),
                        tx |-> Path(bbpll, DacFor(q, i), Row(j), q.txint)]
<1> DEFINE g == Min(FittingGovernors(q))
           i == Min(RowsFrom(q, g))
           j == IndexTx(q, i)
<1>1. RateInRange(q) /\ FittingGovernors(q) # {}
  BY DEF CalculateRfClockChain
<1>2. q.rate \in 1..MaxBasebandRate
  BY <1>1 DEF RateInRange
<1>3. FittingGovernors(q) \subseteq GovernorTries(q)
  BY DEF FittingGovernors
<1>4. /\ g \in FittingGovernors(q) /\ g \in 0..7
      /\ \A h \in FittingGovernors(q) : g <= h
  <2>1. FittingGovernors(q) \in SUBSET (0..7)
    BY <1>3, GovernorsTried
  <2> QED
    BY <1>1, <2>1, FirstIsFirst
<1>5. /\ i \in RowsFrom(q, g) /\ i \in Rows
      /\ \A n \in RowsFrom(q, g) : i <= n
  <2>1. RowsFrom(q, g) # {}
    BY <1>4 DEF FittingGovernors, FitsAt
  <2>2. RowsFrom(q, g) \in SUBSET (0..7) /\ RowsFrom(q, g) \subseteq Rows
    BY DEF RowsFrom, Rows
  <2> QED
    BY <2>1, <2>2, FirstIsFirst
<1>6. j \in Rows
  BY <1>4 DEF FittingGovernors, FitsAt
<1> HIDE DEF g, i, j
<1>7. i >= g /\ AdcFor(q, i) \in MinAdcClk..MaxAdcClk
  BY <1>5 DEF RowsFrom
<1>8. ASSUME NEW n \in Rows, n >= q.governor, n < i,
             AdcFor(q, n) \in MinAdcClk..MaxAdcClk, IndexTx(q, n) \in Rows
      PROVE  FALSE
  <2>1. CASE n >= g
    <3>1. n \in RowsFrom(q, g)
      BY <1>1, <1>8, <2>1, RowInRange DEF RowsFrom
    <3> QED
      BY <1>5, <1>8, <3>1 DEF Rows
  <2>2. CASE n < g
    <3>1. n \in GovernorTries(q)
      BY <1>3, <1>4, <1>8, <2>2, GovernorsTried DEF Rows, Asked
    <3>2. n \in RowsFrom(q, n) /\ \A m \in RowsFrom(q, n) : n <= m
      BY <1>1, <1>8, RowInRange DEF RowsFrom, Rows
    <3>3. Min(RowsFrom(q, n)) = n
      <4>1. RowsFrom(q, n) \in SUBSET (0..7) /\ RowsFrom(q, n) # {}
        BY <3>2 DEF RowsFrom, Rows
      <4>2. Min(RowsFrom(q, n)) \in RowsFrom(q, n) /\ Min(RowsFrom(q, n)) <= n
        BY <3>2, <4>1, FirstIsFirst
      <4> QED
        BY <3>2, <4>1, <4>2 DEF Rows
    <3>4. n \in FittingGovernors(q)
      BY <1>8, <3>1, <3>2, <3>3 DEF FittingGovernors, FitsAt
    <3> QED
      BY <1>4, <2>2, <3>4 DEF Rows
  <2> QED
    BY <1>4, <2>1, <2>2 DEF Rows
<1> QED
  <2> DEFINE adc   == AdcFor(q, i)
             bbpll == adc * BbpllDiv(adc)
  <2>1. CalculateRfClockChain(q) =
          [ok |-> TRUE, rx |-> Path(bbpll, adc, Row(i), q.rxdec),
           tx |-> Path(bbpll, DacFor(q, i), Row(j), q.txint)]
    BY <1>1 DEF CalculateRfClockChain, g, i, j
  <2>2. ChainAt(q, i, j)
    BY <1>5, <1>6, <1>7, <1>8 DEF ChainAt, j
  <2> QED
    BY <1>2, <1>5, <1>6, <2>1, <2>2

(***************************************************************************)
(* Every clock of a path is its parent over a division, which Closest      *)
(* finds again and which gives the clock's rate back.                      *)
(***************************************************************************)
Divides(rate, parent, d) ==
  /\ Closest(rate, parent) = [mult |-> 1, div |-> d]
  /\ RateFromParent(Closest(rate, parent), parent) = rate

LEMMA DividesBack ==
  ASSUME NEW parent \in Nat, NEW d, d = 1 \/ d = 2 \/ d = 3 \/ d = 4, NEW rate,
         rate = parent \div d, rate >= 8
  PROVE  Divides(rate, parent, d)
<1>1. d \in {1, 2, 3, 4}
  OBVIOUS
<1> QED
  BY <1>1, ClosestUndoes DEF Divides

LEMMA PathDivides ==
  ASSUME NEW bbpll, NEW converter \in Nat, converter >= 12500000,
         NEW i \in Rows, NEW intdec \in {1, 2, 4}
  PROVE  LET p == Path(bbpll, converter, Row(i), intdec)
         IN  /\ p.hb3 \in Nat /\ p.hb2 \in Nat /\ p.hb1 \in Nat /\ p.sample \in Nat
             /\ p.hb1 >= 1000000 /\ p.sample >= 250000
             /\ p.bbpll = bbpll /\ p.converter = converter
             /\ Divides(p.hb3, converter, Row(i)[2])
             /\ Divides(p.hb2, p.hb3, Row(i)[3])
             /\ Divides(p.hb1, p.hb2, Row(i)[4])
             /\ Divides(p.sample, p.hb1, intdec)
<1> DEFINE hb3 == converter \div Row(i)[2]
           hb2 == hb3 \div Row(i)[3]
           hb1 == hb2 \div Row(i)[4]
           sample == hb1 \div intdec
<1>1. Row(i)[2] \in {1, 2, 3} /\ Row(i)[3] \in {1, 2} /\ Row(i)[4] \in {1, 2}
  BY RowTypes
<1>2. hb3 \in Nat /\ hb3 >= 4000000 /\ Divides(hb3, converter, Row(i)[2])
  <2>1. hb3 \in Nat /\ hb3 >= 4000000
    BY SMT, <1>1
  <2> HIDE DEF hb3
  <2>2. Row(i)[2] \in {1, 2, 3, 4} /\ hb3 >= 8
    BY <1>1, <2>1
  <2> QED
    BY <2>1, <2>2, ClosestUndoes DEF Divides, hb3
<1>3. hb2 \in Nat /\ hb2 >= 2000000 /\ Divides(hb2, hb3, Row(i)[3])
  <2> HIDE DEF hb3
  <2>1. hb2 \in Nat /\ hb2 >= 2000000
    BY SMT, <1>1, <1>2
  <2> HIDE DEF hb2
  <2>2. Row(i)[3] \in {1, 2, 3, 4} /\ hb2 >= 8
    BY <1>1, <2>1
  <2> QED
    BY <1>2, <2>1, <2>2, ClosestUndoes DEF Divides, hb2
<1>4. hb1 \in Nat /\ hb1 >= 1000000 /\ Divides(hb1, hb2, Row(i)[4])
  <2> HIDE DEF hb2
  <2>1. hb1 \in Nat /\ hb1 >= 1000000
    BY SMT, <1>1, <1>3
  <2> HIDE DEF hb1
  <2>2. Row(i)[4] \in {1, 2, 3, 4} /\ hb1 >= 8
    BY <1>1, <2>1
  <2> QED
    BY <1>3, <2>1, <2>2, ClosestUndoes DEF Divides, hb1
<1>5. sample \in Nat /\ sample >= 250000 /\ Divides(sample, hb1, intdec)
  <2> HIDE DEF hb1
  <2>1. sample \in Nat /\ sample >= 250000
    BY SMT, <1>4
  <2> HIDE DEF sample
  <2>2. /\ intdec = 1 \/ intdec = 2 \/ intdec = 3 \/ intdec = 4
        /\ sample >= 8 /\ sample = hb1 \div intdec /\ hb1 \in Nat
    BY <1>4, <2>1 DEF sample
  <2>3. Divides(sample, hb1, intdec)
    BY <2>2, DividesBack
  <2> QED
    BY <2>1, <2>3
<1> HIDE DEF hb3
<1>6. Path(bbpll, converter, Row(i), intdec) =
        [bbpll |-> bbpll, converter |-> converter, hb3 |-> hb3, hb2 |-> hb2,
         hb1 |-> hb1, sample |-> sample]
  BY DEF Path, hb3
<1> HIDE DEF hb2, hb1, sample
<1> QED
  BY <1>2, <1>3, <1>4, <1>5, <1>6

(***************************************************************************)
(* The rates of the chain. RX is exact: nothing is rounded away on the way *)
(* from the ADC to the FIR's input.                                        *)
(***************************************************************************)
LEMMA DacDivides ==
  ASSUME NEW q, Asked(q), q.rate \in Nat, q.rate >= 1, NEW i \in Rows,
         AdcFor(q, i) \in MinAdcClk..MaxAdcClk
  PROVE  /\ AdcFor(q, i) \in Nat /\ DacFor(q, i) \in Nat /\ DacFor(q, i) >= 12500000
         /\ \E d \in {1, 2} : Divides(DacFor(q, i), AdcFor(q, i), d)
<1> DEFINE adc == AdcFor(q, i)
           dac == DacFor(q, i)
<1>1. adc \in Nat /\ dac \in Nat /\ (dac = adc \/ dac = adc \div 2)
  BY AskedTypes
<1>2. adc >= 25000000
  BY SMT, <1>1, AdcRange
<1> HIDE DEF adc, dac
<1>3. dac >= 12500000
  BY SMT, <1>1, <1>2
<1>4. dac = adc \div 1 \/ dac = adc \div 2
  BY SMT, <1>1
<1>5. dac >= 8 /\ 1 \in {1, 2} /\ 2 \in {1, 2}
  BY SMT, <1>1, <1>3
<1>6. \E d \in {1, 2} : Divides(dac, adc, d)
  <2>1. CASE dac = adc \div 1
    BY <1>1, <1>5, <2>1, DividesBack
  <2>2. CASE dac = adc \div 2
    BY <1>1, <1>5, <2>2, DividesBack
  <2> QED
    BY <1>4, <2>1, <2>2
<1> QED
  BY <1>1, <1>3, <1>6 DEF adc, dac

LEMMA AcceptsDivides ==
  ASSUME NEW c \in Clocks, NEW rate, NEW parent, NEW d \in Divisions(c),
         Divides(rate, parent, d)
  PROVE  /\ ScalerAccepts(c, Closest(rate, parent))
         /\ RateFromParent(Closest(rate, parent), parent) = rate
  BY DEF Divides, ScalerAccepts

(***************************************************************************)
(* Whatever chain is found, the dividers make it: each stage can hold its  *)
(* division, the BBPLL is in range and depends on the ADC rate alone, and  *)
(* the last division of each side is that of its FIR.                      *)
(***************************************************************************)
LEMMA ChainIsMade ==
  ASSUME NEW q, Asked(q), CalculateRfClockChain(q).ok
  PROVE  LET chain == CalculateRfClockChain(q)
             rates == ChainRates(chain.rx, chain.tx)
         IN  /\ DividersMake(rates)
             /\ \A c \in Clocks \cup {"Bbpll"} : rates[c] \in Nat
             /\ rates["Adc"] >= 1
             /\ rates["Bbpll"] = rates["Adc"] * BbpllDiv(rates["Adc"])
             /\ Closest(rates["Adc"], rates["Bbpll"]).div = BbpllDiv(rates["Adc"])
             /\ Closest(rates["RxSampl"], rates["ClkRf"]).div = q.rxdec
             /\ Closest(rates["TxSampl"], rates["ClkTf"]).div = q.txint
<1> DEFINE chain == CalculateRfClockChain(q)
           rates == ChainRates(chain.rx, chain.tx)
<1>1. q.rate \in Nat /\ q.rate >= 1
  BY SMT, ChainFound, RateRange DEF RateInRange
<1>2. PICK i, j \in Rows :
         LET adc   == AdcFor(q, i)
             bbpll == adc * BbpllDiv(adc)
         IN  /\ ChainAt(q, i, j)
             /\ chain = [ok |-> TRUE,
                         rx |-> Path(bbpll, adc, Row(i), q.rxdec),
                         tx |-> Path(bbpll, DacFor(q, i), Row(j), q.txint)]
  BY ChainFound
<1> DEFINE adc   == AdcFor(q, i)
           dac   == DacFor(q, i)
           bbpll == adc * BbpllDiv(adc)
           rx    == Path(bbpll, adc, Row(i), q.rxdec)
           tx    == Path(bbpll, dac, Row(j), q.txint)
<1> HIDE DEF chain
<1>3. chain.rx = rx /\ chain.tx = tx
  BY <1>2
<1>4. adc \in MinAdcClk..MaxAdcClk
  BY <1>2 DEF ChainAt
<1>5. adc \in Nat /\ dac \in Nat /\ dac >= 12500000
  BY <1>1, <1>4, DacDivides
<1>6. PICK d \in {1, 2} : Divides(dac, adc, d)
  BY <1>1, <1>4, DacDivides
<1> HIDE DEF adc, dac
<1>7. adc >= 12500000
  BY SMT, <1>4, <1>5, AdcRange
<1>8. /\ bbpll \in MinBbpllFreq..MaxBbpllFreq
      /\ BbpllDiv(adc) \in {2, 4, 8, 16, 32}
      /\ Divides(adc, bbpll, BbpllDiv(adc))
  BY <1>4, <1>5, BbpllInRange, AdcDivides DEF Divides
<1>9. bbpll \in Nat
  BY <1>5, <1>8
<1> HIDE DEF bbpll
<1>10. /\ rx.hb3 \in Nat /\ rx.hb2 \in Nat /\ rx.hb1 \in Nat /\ rx.sample \in Nat
      /\ rx.bbpll = bbpll /\ rx.converter = adc
      /\ Divides(rx.hb3, adc, Row(i)[2])
      /\ Divides(rx.hb2, rx.hb3, Row(i)[3])
      /\ Divides(rx.hb1, rx.hb2, Row(i)[4])
      /\ Divides(rx.sample, rx.hb1, q.rxdec)
  BY <1>5, <1>7, PathDivides DEF Asked
<1>11. /\ tx.hb3 \in Nat /\ tx.hb2 \in Nat /\ tx.hb1 \in Nat /\ tx.sample \in Nat
       /\ tx.converter = dac
       /\ Divides(tx.hb3, dac, Row(j)[2])
       /\ Divides(tx.hb2, tx.hb3, Row(j)[3])
       /\ Divides(tx.hb1, tx.hb2, Row(j)[4])
       /\ Divides(tx.sample, tx.hb1, q.txint)
  BY <1>5, PathDivides DEF Asked
<1> HIDE DEF rx, tx
<1>12. /\ rates.Bbpll = bbpll /\ rates["Bbpll"] = bbpll /\ rates["Adc"] = adc
       /\ rates["R2"] = rx.hb3 /\ rates["R1"] = rx.hb2
       /\ rates["ClkRf"] = rx.hb1 /\ rates["RxSampl"] = rx.sample
       /\ rates["Dac"] = dac /\ rates["T2"] = tx.hb3 /\ rates["T1"] = tx.hb2
       /\ rates["ClkTf"] = tx.hb1 /\ rates["TxSampl"] = tx.sample
  BY <1>3, <1>10, <1>11 DEF ChainRates
<1> HIDE DEF rates
<1>13. ASSUME NEW c \in Clocks
       PROVE  /\ ScalerAccepts(c, Closest(rates[c], rates[ParentOf(c)]))
              /\ RateFromParent(Closest(rates[c], rates[ParentOf(c)]), rates[ParentOf(c)])
                   = rates[c]
  <2>1. \E n \in Divisions(c) : Divides(rates[c], rates[ParentOf(c)], n)
    <3>1. CASE c = "Adc"
      BY <1>8, <1>12, <3>1 DEF ParentOf, Divisions
    <3>2. CASE c = "Dac"
      BY <1>6, <1>12, <3>2 DEF ParentOf, Divisions
    <3>3. CASE c = "R2"
      BY <1>10, <1>12, <3>3, RowTypes DEF ParentOf, Divisions
    <3>4. CASE c = "T2"
      BY <1>11, <1>12, <3>4, RowTypes DEF ParentOf, Divisions
    <3>5. CASE c = "R1"
      BY <1>10, <1>12, <3>5, RowTypes DEF ParentOf, Divisions
    <3>6. CASE c = "T1"
      BY <1>11, <1>12, <3>6, RowTypes DEF ParentOf, Divisions
    <3>7. CASE c = "ClkRf"
      BY <1>10, <1>12, <3>7, RowTypes DEF ParentOf, Divisions
    <3>8. CASE c = "ClkTf"
      BY <1>11, <1>12, <3>8, RowTypes DEF ParentOf, Divisions
    <3>9. CASE c = "RxSampl"
      BY <1>10, <1>12, <3>9 DEF ParentOf, Divisions, Asked
    <3>10. CASE c = "TxSampl"
      BY <1>11, <1>12, <3>10 DEF ParentOf, Divisions, Asked
    <3> QED
      BY <3>1, <3>2, <3>3, <3>4, <3>5, <3>6, <3>7, <3>8, <3>9, <3>10
         DEF Clocks, RxClocks, TxClocks
  <2> QED
    BY <2>1, AcceptsDivides
<1>14. DividersMake(rates)
  BY <1>8, <1>12, <1>13 DEF DividersMake
<1>15. /\ Closest(rates["Adc"], rates["Bbpll"]).div = BbpllDiv(adc)
       /\ Closest(rates["RxSampl"], rates["ClkRf"]).div = q.rxdec
       /\ Closest(rates["TxSampl"], rates["ClkTf"]).div = q.txint
  BY <1>8, <1>10, <1>11, <1>12 DEF Divides
<1>16. \A c \in Clocks \cup {"Bbpll"} : rates[c] \in Nat
  BY <1>5, <1>10, <1>11, <1>12, <1>9 DEF Clocks, RxClocks, TxClocks
<1> QED
  BY <1>5, <1>7, <1>12, <1>14, <1>15, <1>16 DEF rates, chain, bbpll

(***************************************************************************)
(* The rates of the samples. RX: nothing is rounded away on the way from   *)
(* the ADC to the FIR's input.                                             *)
(***************************************************************************)
LEMMA RxIsExact ==
  ASSUME NEW f \in Nat, NEW i \in Rows, NEW bbpll, NEW intdec \in {1, 2, 4}
  PROVE  LET p == Path(bbpll, f * Row(i)[1], Row(i), intdec)
         IN  p.hb1 = f /\ p.sample = f \div intdec
<1>1. CASE i = 0
  BY <1>1 DEF Path, Row, CLK_DIVIDERS
<1>2. CASE i = 1
  BY <1>2 DEF Path, Row, CLK_DIVIDERS
<1>3. CASE i = 2
  BY <1>3 DEF Path, Row, CLK_DIVIDERS
<1>4. CASE i = 3
  BY <1>4 DEF Path, Row, CLK_DIVIDERS
<1>5. CASE i = 4
  BY <1>5 DEF Path, Row, CLK_DIVIDERS
<1>6. CASE i = 5
  BY <1>6 DEF Path, Row, CLK_DIVIDERS
<1>7. CASE i = 6
  BY <1>7 DEF Path, Row, CLK_DIVIDERS
<1> QED
  BY <1>1, <1>2, <1>3, <1>4, <1>5, <1>6, <1>7 DEF Rows

(***************************************************************************)
(* How far the RX FIR's input is ahead of the TX one, as TxRatio has it:   *)
(* the same for every row, and a power of two.                             *)
(***************************************************************************)
Ahead(q, r) ==
  LET rx == ClkRf(q)
      tx == ClkTf(q)
  IN  \/ r = 8  /\ rx = 8 * tx
      \/ r = 4  /\ rx = 4 * tx
      \/ r = 2  /\ rx = 2 * tx
      \/ r = 1  /\ rx = tx
      \/ r = -2 /\ tx = 2 * rx
      \/ r = -4 /\ tx = 4 * rx

LEMMA AheadByAPower ==
  ASSUME NEW q, Asked(q), q.rate \in Nat, q.rate >= 1
  PROVE  \E r \in {8, 4, 2, 1, -2, -4} : Ahead(q, r)
  BY DEF Asked, Ahead, ClkRf, ClkTf

LEMMA RatioIsTheSame ==
  ASSUME NEW q, Asked(q), q.rate \in Nat, q.rate >= 1, NEW r, Ahead(q, r)
  PROVE  TxRatio(q) = r
<1> DEFINE rx == ClkRf(q)
           tx == ClkTf(q)
<1>1. rx \in Nat /\ rx >= 1 /\ tx \in Nat /\ tx >= 1
  BY DEF Asked, ClkRf, ClkTf
<1>2. TxRatio(q) = IF tx > rx THEN -(tx \div rx) ELSE rx \div tx
  BY DEF TxRatio
<1>3. \/ r = 8  /\ rx = 8 * tx
      \/ r = 4  /\ rx = 4 * tx
      \/ r = 2  /\ rx = 2 * tx
      \/ r = 1  /\ rx = 1 * tx
      \/ r = -2 /\ tx = 2 * rx
      \/ r = -4 /\ tx = 4 * rx
  BY <1>1 DEF Ahead
<1> HIDE DEF rx, tx
<1>4. ASSUME NEW a \in Nat, a >= 1, NEW m \in {1, 2, 4, 8}
      PROVE  (m * a) \div a = m
  BY <1>4, Quotient
<1> QED
  BY <1>1, <1>2, <1>3, <1>4

(***************************************************************************)
(* The row of TX for a row of RX, for an RX FIR input k, a TX FIR input t  *)
(* and the ratio r of the two.                                             *)
(***************************************************************************)
Total(n) == Row(n)[1]

IndexAt(k, n, r) ==
  LET step == IF r = 1 THEN 0 ELSE r
  IN  IF k * Total(n) <= 320000000 THEN n - step
      ELSE IF n = 4 /\ r >= 0 THEN 7
      ELSE n + (IF n = 5 /\ r >= 0 THEN 1 ELSE 2) - step

Fits(k, n, r) ==
  /\ 25000000 <= k * Total(n) /\ k * Total(n) <= 640000000
  /\ 0 <= IndexAt(k, n, r) /\ IndexAt(k, n, r) <= 6

LEMMA Totals ==
  /\ Total(0) = 12 /\ Total(1) = 8 /\ Total(2) = 6 /\ Total(3) = 4
  /\ Total(4) = 3 /\ Total(5) = 2 /\ Total(6) = 1
  BY DEF Total, Row, CLK_DIVIDERS

\* Ahead for the two inputs of the FIRs.
AheadBy(k, t, r) ==
  \/ r = 8  /\ k = 8 * t
  \/ r = 4  /\ k = 4 * t
  \/ r = 2  /\ k = 2 * t
  \/ r = 1  /\ k = t
  \/ r = -2 /\ t = 2 * k
  \/ r = -4 /\ t = 4 * k

\* The TX row of a chain: it fits RX's, and none of the rows before that did.
TxRow(k, t, r, i, j) ==
  /\ k >= 1 /\ t >= 1 /\ AheadBy(k, t, r)
  /\ j = IndexAt(k, i, r) /\ Fits(k, i, r)
  /\ \A n \in 1..5 : n < i => ~Fits(k, n, r)

TxDac(dac, adc) == dac = IF adc <= 320000000 THEN adc ELSE adc \div 2
TxAllowed(hb1)  == hb1 <= 160000000
TxRight(k, t, hb1) == (k > 160000000 /\ k >= 2 * t) \/ hb1 = t

LEMMA TxRowFits ==
  ASSUME NEW k \in Nat, NEW t \in Nat, NEW r \in Int, NEW i \in 0..6, NEW j \in Int,
         NEW dac \in Nat, TxRow(k, t, r, i, j), TxDac(dac, k * Total(i)),
         TxAllowed(dac \div Total(j))
  PROVE  TxRight(k, t, dac \div Total(j))
<1>1. CASE i = 0
  BY SMT, <1>1, Totals DEF TxRow, TxDac, TxAllowed, TxRight, AheadBy, Fits, IndexAt
<1>2. CASE i = 1
  BY SMT, <1>2, Totals DEF TxRow, TxDac, TxAllowed, TxRight, AheadBy, Fits, IndexAt
<1>3. CASE i = 2
  BY SMT, <1>3, Totals DEF TxRow, TxDac, TxAllowed, TxRight, AheadBy, Fits, IndexAt
<1>4. CASE i = 3
  BY SMT, <1>4, Totals DEF TxRow, TxDac, TxAllowed, TxRight, AheadBy, Fits, IndexAt
<1>5. CASE i = 4
  BY SMT, <1>5, Totals DEF TxRow, TxDac, TxAllowed, TxRight, AheadBy, Fits, IndexAt
<1>6. CASE i = 5
  BY SMT, <1>6, Totals DEF TxRow, TxDac, TxAllowed, TxRight, AheadBy, Fits, IndexAt
<1>7. CASE i = 6
  BY SMT, <1>7, Totals DEF TxRow, TxDac, TxAllowed, TxRight, AheadBy, Fits, IndexAt
<1> QED
  BY <1>1, <1>2, <1>3, <1>4, <1>5, <1>6, <1>7

LEMMA PathTotal ==
  ASSUME NEW bbpll, NEW converter \in Nat, NEW i \in Rows, NEW intdec
  PROVE  LET p == Path(bbpll, converter, Row(i), intdec)
         IN  /\ p.hb1 = converter \div Total(i) /\ p.sample = p.hb1 \div intdec
             /\ p.hb1 \in Nat
<1>1. CASE i = 0
  BY <1>1 DEF Path, Row, CLK_DIVIDERS, Total
<1>2. CASE i = 1
  BY <1>2 DEF Path, Row, CLK_DIVIDERS, Total
<1>3. CASE i = 2
  BY <1>3 DEF Path, Row, CLK_DIVIDERS, Total
<1>4. CASE i = 3
  BY <1>4 DEF Path, Row, CLK_DIVIDERS, Total
<1>5. CASE i = 4
  BY <1>5 DEF Path, Row, CLK_DIVIDERS, Total
<1>6. CASE i = 5
  BY <1>6 DEF Path, Row, CLK_DIVIDERS, Total
<1>7. CASE i = 6
  BY <1>7 DEF Path, Row, CLK_DIVIDERS, Total
<1> QED
  BY <1>1, <1>2, <1>3, <1>4, <1>5, <1>6, <1>7 DEF Rows

\* The rows of the code in terms of IndexAt.
LEMMA FitsIs ==
  ASSUME NEW q, Asked(q), q.rate \in Nat, q.rate >= 1, NEW r \in Int, Ahead(q, r),
         NEW n \in Rows
  PROVE  /\ IndexTx(q, n) = IndexAt(ClkRf(q), n, r)
         /\ IndexAt(ClkRf(q), n, r) \in Int
         /\ AdcFor(q, n) \in MinAdcClk..MaxAdcClk /\ IndexTx(q, n) \in Rows
              <=> Fits(ClkRf(q), n, r)
<1> DEFINE k == ClkRf(q)
<1>1. k \in Nat /\ Total(n) \in Nat /\ n \in Int /\ AdcFor(q, n) = k * Total(n)
  <2>1. k \in Nat /\ AdcFor(q, n) = k * Row(n)[1]
    BY AskedTypes
  <2>2. Row(n)[1] \in 1..12
    BY RowTypes
  <2>3. n \in Int
    BY DEF Rows
  <2> HIDE DEF k
  <2> QED
    BY <2>1, <2>2, <2>3 DEF Total
<1>2. TxRatio(q) = r
  BY RatioIsTheSame
<1> HIDE DEF k
<1>3. IndexTx(q, n) = IndexAt(k, n, r)
  BY SMT, <1>1, <1>2, Limits DEF IndexTx, IndexAt
<1>4. IndexAt(k, n, r) \in Int
  BY SMT, <1>1 DEF IndexAt
<1>5. k * Total(n) \in MinAdcClk..MaxAdcClk
        <=> 25000000 <= k * Total(n) /\ k * Total(n) <= 640000000
  BY SMT, <1>1, AdcRange
<1>6. IndexAt(k, n, r) \in Rows <=> 0 <= IndexAt(k, n, r) /\ IndexAt(k, n, r) <= 6
  BY <1>4 DEF Rows
<1> QED
  BY <1>1, <1>3, <1>4, <1>5, <1>6 DEF Fits, k

(***************************************************************************)
(* The samples of a chain: RX at the requested rate, or at twice that. TX  *)
(* at the requested rate if the FIR's input is within its limit, unless RX *)
(* runs ahead: an RX FIR input above 160 MHz that is twice the TX one.     *)
(***************************************************************************)
LEMMA SamplesAreAsked ==
  ASSUME NEW q, Asked(q), CalculateRfClockChain(q).ok
  PROVE  LET chain == CalculateRfClockChain(q)
         IN  /\ chain.rx.sample = q.rate * (IF q.eq2tx THEN 2 ELSE 1)
             /\ chain.rx.hb1 = ClkRf(q)
             /\ chain.tx.hb1 <= MaxTx.hb1 =>
                  \/ ClkRf(q) > MHz(160) /\ ClkRf(q) >= 2 * ClkTf(q)
                  \/ chain.tx.sample = q.rate
<1> DEFINE chain == CalculateRfClockChain(q)
           k == ClkRf(q)
           t == ClkTf(q)
<1>1. q.rate \in Nat /\ q.rate >= 1
  BY SMT, ChainFound, RateRange DEF RateInRange
<1>2. PICK i, j \in Rows :
         LET adc   == AdcFor(q, i)
             bbpll == adc * BbpllDiv(adc)
         IN  /\ ChainAt(q, i, j)
             /\ chain = [ok |-> TRUE,
                         rx |-> Path(bbpll, adc, Row(i), q.rxdec),
                         tx |-> Path(bbpll, DacFor(q, i), Row(j), q.txint)]
  BY ChainFound
<1> DEFINE adc   == AdcFor(q, i)
           dac   == DacFor(q, i)
           bbpll == adc * BbpllDiv(adc)
<1> HIDE DEF chain
<1>3. /\ chain.rx = Path(bbpll, adc, Row(i), q.rxdec)
      /\ chain.tx = Path(bbpll, dac, Row(j), q.txint)
  BY <1>2
<1>4. /\ k \in Nat /\ k >= 1 /\ t \in Nat /\ t >= 1 /\ adc = k * Row(i)[1]
      /\ adc \in Nat /\ dac \in Nat
  BY <1>1, AskedTypes
<1>5. chain.rx.hb1 = k /\ chain.rx.sample = k \div q.rxdec
  <2>1. q.rxdec \in {1, 2, 4}
    BY DEF Asked
  <2> HIDE DEF bbpll, k, adc
  <2>2. \A d \in {1, 2, 4} : LET p == Path(bbpll, k * Row(i)[1], Row(i), d)
                           IN  p.hb1 = k /\ p.sample = k \div d
    <3>1. k \in Nat /\ i \in Rows
      BY <1>4
    <3> QED
      BY ONLY <3>1, RxIsExact
  <2>3. chain.rx = Path(bbpll, k * Row(i)[1], Row(i), q.rxdec)
    BY <1>3, <1>4
  <2> QED
    BY ONLY <2>1, <2>2, <2>3
<1>6. k \div q.rxdec = q.rate * (IF q.eq2tx THEN 2 ELSE 1)
  BY <1>1 DEF Asked, ClkRf
<1>7. t \div q.txint = q.rate
  BY <1>1 DEF Asked, ClkTf
<1>8. chain.tx.hb1 = dac \div Total(j) /\ chain.tx.sample = chain.tx.hb1 \div q.txint
  <2> HIDE DEF bbpll, dac
  <2> QED
    BY <1>3, <1>4, PathTotal
<1>9. MaxTx.hb1 = 160000000 /\ MHz(160) = 160000000
  BY SMT DEF MaxTx, MHz
<1>10. ASSUME chain.tx.hb1 <= MaxTx.hb1
       PROVE  (k > 160000000 /\ k >= 2 * t) \/ chain.tx.hb1 = t
  <2>1. PICK r \in {8, 4, 2, 1, -2, -4} : Ahead(q, r)
    BY <1>1, AheadByAPower
  <2>2. r \in Int /\ AheadBy(k, t, r)
    BY <2>1 DEF Ahead, AheadBy
  <2>3. j = IndexAt(k, i, r) /\ Fits(k, i, r) /\ j \in Int
    BY <1>1, <1>2, <2>1, <2>2, FitsIs DEF ChainAt
  <2>4. ASSUME NEW n \in 1..5, n < i PROVE ~Fits(k, n, r)
    <3>1. n \in Rows /\ n >= q.governor
      BY DEF Rows, Asked
    <3>2. \/ AdcFor(q, n) \notin MinAdcClk..MaxAdcClk
          \/ IndexTx(q, n) \notin Rows
      BY <1>2, <2>4, <3>1 DEF ChainAt
    <3> QED
      BY <1>1, <2>1, <2>2, <3>1, <3>2, FitsIs
  <2>5. dac = IF adc <= MaxDacClk THEN adc ELSE adc \div 2
    BY DEF DacFor
  <2> HIDE DEF dac, adc, k, t
  <2>6. TxDac(dac, k * Total(i))
    BY SMT, <1>4, <2>5, Limits DEF Total, TxDac
  <2>7. TxAllowed(dac \div Total(j))
    BY SMT, <1>8, <1>9, <1>10 DEF TxAllowed
  <2>8. i \in 0..6
    BY DEF Rows
  <2>9. TxRow(k, t, r, i, j)
    BY <1>4, <2>2, <2>3, <2>4 DEF TxRow
  <2>10. k \in Nat /\ t \in Nat /\ dac \in Nat /\ r \in Int /\ j \in Int
    BY <1>4, <2>2, <2>3
  <2>11. TxRight(k, t, dac \div Total(j))
    BY ONLY Zenon, <2>6, <2>7, <2>8, <2>9, <2>10, TxRowFits
  <2> QED
    BY SMT, <1>8, <2>11 DEF TxRight
<1> HIDE DEF k, t
<1>11. chain.tx.hb1 <= MaxTx.hb1 =>
         \/ k > MHz(160) /\ k >= 2 * t
         \/ chain.tx.sample = q.rate
  BY SMT, <1>7, <1>8, <1>9, <1>10
<1> QED
  BY <1>5, <1>6, <1>11 DEF chain, k, t

(***************************************************************************)
(* A governor that starts at a lower row tries all the rows of the other.  *)
(***************************************************************************)
LEMMA HighestIsFastest ==
  ASSUME NEW q, Asked(q), NEW h, Asked(h), CalculateRfClockChain(q).ok,
         h.rate = q.rate, h.rxdec = q.rxdec, h.txint = q.txint, h.eq2tx = q.eq2tx,
         h.governor = 0
  PROVE  /\ CalculateRfClockChain(h).ok
         /\ CalculateRfClockChain(h).rx.converter >= CalculateRfClockChain(q).rx.converter
<1>1. \A n : AdcFor(h, n) = AdcFor(q, n) /\ IndexTx(h, n) = IndexTx(q, n)
  BY DEF AdcFor, IndexTx, TxRatio, ClkRf, ClkTf
<1>2. \A g : RowsFrom(h, g) = RowsFrom(q, g) /\ (FitsAt(h, g) <=> FitsAt(q, g))
  <2>1. ClkRf(h) = ClkRf(q)
    BY DEF ClkRf
  <2>2. ASSUME NEW g PROVE RowsFrom(h, g) = RowsFrom(q, g)
    BY <1>1, <2>1 DEF RowsFrom
  <2> QED
    BY <1>1, <2>2 DEF FitsAt
<1>3. GovernorTries(q) \subseteq GovernorTries(h)
  <2>1. (h.rxdec * h.rate * 8 < MinAdcClk) <=> (q.rxdec * q.rate * 8 < MinAdcClk)
    OBVIOUS
  <2>2. h.governor <= 1 /\ q.governor <= 1 /\ q.governor..7 \subseteq h.governor..7
    BY DEF Asked
  <2> QED
    BY <2>1, <2>2 DEF GovernorTries
<1>4. FittingGovernors(q) \subseteq FittingGovernors(h)
  BY <1>2, <1>3 DEF FittingGovernors
<1>5. RateInRange(q) /\ RateInRange(h) /\ FittingGovernors(q) # {} /\ FittingGovernors(h) # {}
  BY <1>4 DEF CalculateRfClockChain, RateInRange
<1> DEFINE g1 == Min(FittingGovernors(h))
           g2 == Min(FittingGovernors(q))
           i1 == Min(RowsFrom(q, g1))
           i2 == Min(RowsFrom(q, g2))
<1>6. /\ CalculateRfClockChain(h).ok
      /\ CalculateRfClockChain(h).rx.converter = AdcFor(q, i1)
      /\ CalculateRfClockChain(q).rx.converter = AdcFor(q, i2)
  BY <1>1, <1>2, <1>5 DEF CalculateRfClockChain, Path
<1>7. g1 \in FittingGovernors(h) /\ g1 \in 0..7 /\ g2 \in FittingGovernors(q) /\ g2 \in 0..7
      /\ g1 <= g2
  <2>1. FittingGovernors(h) \in SUBSET (0..7) /\ FittingGovernors(q) \in SUBSET (0..7)
    BY GovernorsTried DEF FittingGovernors
  <2> QED
    BY <1>4, <1>5, <2>1, FirstIsFirst
<1>8. RowsFrom(q, g1) # {} /\ RowsFrom(q, g2) # {}
  BY <1>2, <1>7 DEF FittingGovernors, FitsAt
<1> HIDE DEF g1, g2
<1>9. RowsFrom(q, g2) \subseteq RowsFrom(q, g1)
  BY <1>7 DEF RowsFrom, Rows
<1>10. i1 \in Rows /\ i2 \in Rows /\ i1 <= i2
  <2>1. RowsFrom(q, g1) \in SUBSET (0..7) /\ RowsFrom(q, g2) \in SUBSET (0..7)
    BY DEF RowsFrom, Rows
  <2>2. i1 \in RowsFrom(q, g1) /\ i2 \in RowsFrom(q, g2) /\ i1 <= i2
    BY <1>8, <1>9, <2>1, FirstIsFirst
  <2> QED
    BY <2>2 DEF RowsFrom
<1> HIDE DEF i1, i2
<1>11. AdcFor(q, i1) >= AdcFor(q, i2)
  <2>1. Row(i1)[1] \in Nat /\ Row(i2)[1] \in Nat /\ Row(i1)[1] >= Row(i2)[1]
    BY <1>10 DEF Rows, Row, CLK_DIVIDERS
  <2>2. q.rate \in Nat /\ q.rate >= 1
    BY SMT, <1>5, RateRange
  <2>3. ClkRf(q) \in Nat
    BY <1>10, <2>2, AskedTypes
  <2> QED
    BY <2>1, <2>3 DEF AdcFor
<1> QED
  BY <1>6, <1>11

-----------------------------------------------------------------------------
(***************************************************************************)
(* The ADC rates of chains are not just any rates: two of them that differ *)
(* are a few Hz apart at least.                                            *)
(***************************************************************************)
GoodAdc(adc) ==
  adc % 8 = 0 \/ adc % 12 = 0 \/ (adc % 6 = 0 /\ adc > 240000000 /\ adc <= 320000000)

LEMMA TxRowAdc ==
  ASSUME NEW f \in Nat, f <= MaxBasebandRate, NEW x \in {1, 2, 4, 8}, NEW u \in {1, 2, 4},
         NEW k \in Nat, k = f * x, NEW t \in Nat, t = f * u,
         NEW r \in Int, NEW i \in 0..6, NEW j \in Int, TxRow(k, t, r, i, j)
  PROVE  GoodAdc(k * Total(i))
<1>1. CASE i = 0
  BY SMT, <1>1, Totals, Limits DEF GoodAdc
<1>2. CASE i = 1
  BY SMT, <1>2, Totals, Limits DEF GoodAdc
<1>3. CASE i = 2
  BY SMT, <1>3, Totals, Limits DEF GoodAdc, TxRow, AheadBy, Fits, IndexAt
<1>4. CASE i = 3
  BY SMT, <1>4, Totals, Limits DEF GoodAdc, TxRow, AheadBy, Fits, IndexAt
<1>5. CASE i = 4
  BY SMT, <1>5, Totals, Limits DEF GoodAdc, TxRow, AheadBy, Fits, IndexAt
<1>6. CASE i = 5
  BY SMT, <1>6, Totals, Limits DEF GoodAdc, TxRow, AheadBy, Fits, IndexAt
<1>7. CASE i = 6
  BY SMT, <1>7, Totals, Limits DEF GoodAdc, TxRow, AheadBy, Fits, IndexAt
<1> QED
  BY <1>1, <1>2, <1>3, <1>4, <1>5, <1>6, <1>7

\* What CalculateRfClockChain leaves to an ADC rate.
ChainAdc(adc) == adc \in Nat /\ adc \in MinAdcClk..MaxAdcClk /\ GoodAdc(adc)

LEMMA AdcIsGood ==
  ASSUME NEW q, Asked(q), CalculateRfClockChain(q).ok
  PROVE  ChainAdc(CalculateRfClockChain(q).rx.converter)
<1> DEFINE chain == CalculateRfClockChain(q)
           k == ClkRf(q)
           t == ClkTf(q)
<1>1. q.rate \in Nat /\ q.rate >= 1 /\ q.rate <= MaxBasebandRate
  <2>1. q.rate \in Nat /\ q.rate >= 1 /\ q.rate <= 61440000
    BY SMT, ChainFound, RateRange DEF RateInRange
  <2> QED
    BY ONLY SMT, <2>1, Limits
<1>2. PICK i, j \in Rows :
         /\ ChainAt(q, i, j)
         /\ chain.rx.converter = AdcFor(q, i)
  BY ChainFound DEF Path
<1>3. k \in Nat /\ k >= 1 /\ t \in Nat /\ t >= 1 /\ AdcFor(q, i) = k * Total(i)
      /\ AdcFor(q, i) \in Nat
  BY <1>1, AskedTypes DEF Total
<1>4. AdcFor(q, i) \in MinAdcClk..MaxAdcClk
  BY <1>2 DEF ChainAt
<1>5. PICK r \in {8, 4, 2, 1, -2, -4} : Ahead(q, r)
  BY <1>1, AheadByAPower
<1>6. r \in Int /\ AheadBy(k, t, r)
  BY <1>5 DEF Ahead, AheadBy
<1>7. j = IndexAt(k, i, r) /\ Fits(k, i, r) /\ j \in Int
  BY <1>1, <1>2, <1>5, <1>6, FitsIs DEF ChainAt
<1>8. ASSUME NEW n \in 1..5, n < i PROVE ~Fits(k, n, r)
  <2>1. n \in Rows /\ n >= q.governor
    BY DEF Rows, Asked
  <2>2. \/ AdcFor(q, n) \notin MinAdcClk..MaxAdcClk
        \/ IndexTx(q, n) \notin Rows
    BY <1>2, <1>8, <2>1 DEF ChainAt
  <2> QED
    BY <1>1, <1>5, <1>6, <2>1, <2>2, FitsIs
<1>9. TxRow(k, t, r, i, j)
  BY <1>3, <1>6, <1>7, <1>8 DEF TxRow
<1>10. PICK x \in {1, 2, 4, 8}, u \in {1, 2, 4} : k = q.rate * x /\ t = q.rate * u
  <2>1. q.rxdec \in {1, 2, 4} /\ q.txint \in {1, 2, 4}
    BY DEF Asked
  <2> DEFINE e == q.rxdec * (IF q.eq2tx THEN 2 ELSE 1)
  <2>2. e \in {1, 2, 4, 8} /\ k = q.rate * e
    BY <1>1, <2>1 DEF ClkRf
  <2>3. t = q.rate * q.txint
    BY DEF ClkTf
  <2> HIDE DEF e, k, t
  <2> QED
    BY <2>1, <2>2, <2>3
<1>11. i \in 0..6
  BY DEF Rows
<1> HIDE DEF k, t
<1>12. GoodAdc(k * Total(i))
  <2> DEFINE f == q.rate
  <2>1. f \in Nat /\ f <= MaxBasebandRate /\ k = f * x /\ t = f * u
    BY <1>1, <1>10
  <2>2. k \in Nat /\ t \in Nat
    BY <1>3
  <2> HIDE DEF f
  <2> QED
    BY ONLY ZenonT(30), <1>6, <1>7, <1>9, <1>10, <1>11, <2>1, <2>2, TxRowAdc
<1> QED
  BY Zenon, <1>2, <1>3, <1>4, <1>12 DEF ChainAdc, chain

\* The BBPLL divider is the one power of two.
LEMMA ChainDiv ==
  ASSUME NEW adc, ChainAdc(adc)
  PROVE  LET d == BbpllDiv(adc)
         IN  /\ d \in {2, 4, 8, 16, 32} /\ adc \in Nat /\ GoodAdc(adc)
             /\ adc * d <= MaxBbpllFreq /\ 2 * adc * d > MaxBbpllFreq
<1>1. adc \in MinAdcClk..MaxAdcClk /\ adc \in Nat /\ GoodAdc(adc)
  BY Zenon DEF ChainAdc
<1>2. adc \in Nat
  BY Zenon, <1>1
<1>3. adc >= 25000000 /\ adc <= 640000000
  BY SMT, <1>1, AdcRange
<1>4. PICK d \in {2, 4, 8, 16, 32} : /\ adc * d <= 1430143000
                                    /\ 2 * adc * d > 1430143000
  BY ONLY SMT, <1>2, <1>3
<1>5. BbpllDiv(adc) = d
  BY ONLY SMT, <1>2, <1>3, <1>4, BbpllDivIs
<1>6. adc * d <= MaxBbpllFreq /\ 2 * adc * d > MaxBbpllFreq
  BY ONLY SMT, <1>2, <1>4, Limits
<1>7. d \in {2, 4, 8, 16, 32}
  BY ONLY SMT, <1>4
<1> QED
  BY ONLY Zenon, <1>1, <1>5, <1>6, <1>7

(***************************************************************************)
(* Two ADC rates that one BBPLL, a few Hz off the first one's, makes with  *)
(* the first one's divider have the same divider.                          *)
(***************************************************************************)
LEMMA NoStraddle ==
  ASSUME NEW a, ChainAdc(a), NEW b, ChainAdc(b), NEW top \in Nat,
         top - a * BbpllDiv(a) <= 12, a * BbpllDiv(a) - top <= 12,
         top \div BbpllDiv(a) = b
  PROVE  /\ BbpllDiv(b) = BbpllDiv(a) /\ b * BbpllDiv(b) <= top
         /\ (a = b) \/ (top - b * BbpllDiv(b) <= 3)
<1> DEFINE d == BbpllDiv(a)
           e == BbpllDiv(b)
           Same == e = d /\ b * e <= top /\ ((a = b) \/ (top - b * e <= 3))
<1>1. /\ d \in {2, 4, 8, 16, 32} /\ a \in Nat /\ GoodAdc(a)
      /\ a * d <= MaxBbpllFreq /\ 2 * a * d > MaxBbpllFreq
  BY Zenon, ChainDiv
<1>2. /\ e \in {2, 4, 8, 16, 32} /\ b \in Nat /\ GoodAdc(b)
      /\ b * e <= MaxBbpllFreq /\ 2 * b * e > MaxBbpllFreq
  BY Zenon, ChainDiv
<1>3. top \in Nat /\ top - a * d <= 12 /\ a * d - top <= 12 /\ top \div d = b
  OBVIOUS
<1> HIDE DEF d, e
<1>4. b * d <= top /\ top < b * d + d
  BY ONLY SMT, <1>1, <1>2, <1>3
<1>5. d = 2 => Same
  BY ONLY SMT, <1>1, <1>2, <1>3, <1>4, Limits DEF GoodAdc
<1>6. d = 4 => Same
  BY ONLY SMT, <1>1, <1>2, <1>3, <1>4, Limits DEF GoodAdc
<1>7. d = 8 => Same
  BY ONLY SMT, <1>1, <1>2, <1>3, <1>4, Limits DEF GoodAdc
<1>8. d = 16 => Same
  BY ONLY SMT, <1>1, <1>2, <1>3, <1>4, Limits DEF GoodAdc
<1>9. d = 32 => Same
  BY ONLY SMT, <1>1, <1>2, <1>3, <1>4, Limits DEF GoodAdc
<1>10. Same
  <2> HIDE DEF Same
  <2> QED
    BY <1>1, <1>5, <1>6, <1>7, <1>8, <1>9
<1> QED
  BY Zenon, <1>10 DEF d, e
=============================================================================
