----------------------------- MODULE ClockChain -----------------------------
(***************************************************************************)
(* The arithmetic of the clock chain: how a sample rate becomes the rates  *)
(* of the BBPLL, the converters and the half band filters (clock_chain.rs),*)
(* and how a rate becomes the setting of one divider (clocks.rs).          *)
(*                                                                         *)
(* Rates are in Hz, as in the driver. Comparisons of a product that the    *)
(* driver computes in 64 bits are written with a quotient, to stay within  *)
(* TLC's integers.                                                         *)
(***************************************************************************)
EXTENDS Integers, Sequences, FiniteSetsExt

kHz(n) == 1000 * n
MHz(n) == 1000000 * n

MinAdcClk       == MHz(25)
MaxAdcClk       == MHz(640)
MaxDacClk       == MaxAdcClk \div 2
MinBbpllFreq    == 714928500
MaxBbpllFreq    == 1430143000
MaxBasebandRate == kHz(61440)

MaxRx == [bbpll |-> MaxBbpllFreq, converter |-> MaxAdcClk, hb3 |-> MHz(640),
          hb2 |-> MHz(320), hb1 |-> kHz(245760), sample |-> MaxBasebandRate]
MaxTx == [bbpll |-> MaxBbpllFreq, converter |-> MaxDacClk, hb3 |-> MHz(320),
          hb2 |-> MHz(320), hb1 |-> MHz(160), sample |-> MaxBasebandRate]

(***************************************************************************)
(* Divider settings: R2/T2, R1/T1 and CLKRF/CLKTF for each total division  *)
(* from the converter. The code counts the rows from 0, and so does Row.   *)
(***************************************************************************)
CLK_DIVIDERS == << <<12, 3, 2, 2>>, <<8, 2, 2, 2>>, <<6, 3, 1, 2>>,
                   <<4, 2, 2, 1>>, <<3, 3, 1, 1>>, <<2, 2, 1, 1>>,
                   <<1, 1, 1, 1>> >>
Rows == 0..6
Row(i) == CLK_DIVIDERS[i + 1]

PathClocks == [bbpll : Nat, converter : Nat, hb3 : Nat, hb2 : Nat,
               hb1 : Nat, sample : Nat]

(***************************************************************************)
(* What set_sample_rate works from. intdec is what FirState's              *)
(* rx_decimation and tx_interpolation return: 1 for a FIR that is not      *)
(* loaded or bypassed.                                                     *)
(***************************************************************************)
Request == [rate : Nat, rxdec : {1, 2, 4}, txint : {1, 2, 4},
            eq2tx : BOOLEAN, governor : {0, 1}]

ClkRf(q) == q.rate * q.rxdec * (IF q.eq2tx THEN 2 ELSE 1)
ClkTf(q) == q.rate * q.txint

AdcFor(q, i) == ClkRf(q) * Row(i)[1]

(* The first row from the governor on whose ADC rate is in range. *)
RowsFrom(q, gov) ==
  {i \in Rows : /\ i >= gov /\ ClkRf(q) <= MaxAdcClk \div Row(i)[1]
                /\ AdcFor(q, i) \in MinAdcClk..MaxAdcClk}

(* adc_rate / dac_rate before the DAC gets its real rate, below 1 as the   *)
(* negated inverse. The row is a factor of both.                           *)
TxRatioUnsigned(q) ==   \* mutant: loses the sign of a fast DAC
  IF ClkTf(q) > ClkRf(q) THEN ClkTf(q) \div ClkRf(q) ELSE ClkRf(q) \div ClkTf(q)

TxRatio(q) ==
  IF ClkTf(q) > ClkRf(q) THEN -(ClkTf(q) \div ClkRf(q)) ELSE ClkRf(q) \div ClkTf(q)

DacFor(q, i) ==
  IF AdcFor(q, i) <= MaxDacClk THEN AdcFor(q, i) ELSE AdcFor(q, i) \div 2

(* The row of the TX path for row i of the RX path, 0..6 if there is one.  *)
IndexTx(q, i) ==
  LET r    == TxRatio(q)
      step == IF r = 1 THEN 0 ELSE r
  IN  IF AdcFor(q, i) <= MaxDacClk THEN i - step
      ELSE IF i = 4 /\ r >= 0 THEN 7
      ELSE i + (IF i = 5 /\ r >= 0 THEN 1 ELSE 2) - step

FitsAt(q, gov) ==
  /\ RowsFrom(q, gov) # {}
  /\ IndexTx(q, Min(RowsFrom(q, gov))) \in Rows

(***************************************************************************)
(* The governor settings the loop tries. It starts at the configured one   *)
(* and counts up to 7, where no row is left. A rate too low for nominal    *)
(* oversampling goes back to row 0 at 1 and then gives up.                 *)
(***************************************************************************)
GovernorTriesSwapped(q) == (1 - q.governor)..7   \* mutant: highest and nominal swapped
GovernorTries(q) ==
  IF q.rxdec * q.rate * 8 < MinAdcClk /\ q.governor <= 1
  THEN {0} ELSE q.governor..7

(* The BBPLL divider: the largest power of two that keeps the PLL in range.*)
BbpllDividers == {2, 4, 8, 16, 32, 64}
BbpllDivTooSmall(adc) ==   \* mutant: one power of two too few
  Max({2} \cup {d \in BbpllDividers : adc <= MaxBbpllFreq \div (2 * d)})
BbpllDiv(adc) ==
  LET fit == {d \in BbpllDividers : adc <= MaxBbpllFreq \div d}
  IN  IF fit = {} THEN 2 ELSE Max(fit)

Path(bbpll, converter, row, intdec) ==
  LET hb3 == converter \div row[2]
      hb2 == hb3 \div row[3]
      hb1 == hb2 \div row[4]
  IN  [bbpll |-> bbpll, converter |-> converter, hb3 |-> hb3, hb2 |-> hb2,
       hb1 |-> hb1, sample |-> hb1 \div intdec]

(***************************************************************************)
(* calculate_rf_clock_chain: the RX and TX path, or ok = FALSE where the   *)
(* code returns InvalidRate.                                               *)
(***************************************************************************)
RateInRange(q) == q.rate \in 1..MaxBasebandRate

FittingGovernors(q) == {g \in GovernorTries(q) : FitsAt(q, g)}

CalculateRfClockChain(q) ==
  IF ~RateInRange(q) \/ FittingGovernors(q) = {} THEN [ok |-> FALSE]
  ELSE LET i     == Min(RowsFrom(q, Min(FittingGovernors(q))))
           adc   == AdcFor(q, i)
           bbpll == adc * BbpllDiv(adc)
       IN  [ok |-> TRUE,
            rx |-> Path(bbpll, adc, Row(i), q.rxdec),
            tx |-> Path(bbpll, DacFor(q, i), Row(IndexTx(q, i)), q.txint)]

(***************************************************************************)
(* validate_trx_clock_chain: within the limits, and the ADC or R2 clock    *)
(* divides down to DATA_CLK.                                               *)
(***************************************************************************)
Within(path, limit) == \A f \in DOMAIN limit : path[f] <= limit[f]

DataClk(rx, rx2tx2, lvds) ==
  ((IF rx2tx2 THEN 4 ELSE 2) \div (IF lvds THEN 1 ELSE 2)) * rx.sample

ValidateTrxClockChain(rx, tx, rx2tx2, lvds) ==
  LET data    == DataClk(rx, rx2tx2, lvds)
      near(f) == f - data \in -3..3
  IN  /\ (lvds \/ data <= MaxBasebandRate)
      /\ Within(rx, MaxRx) /\ Within(tx, MaxTx)
      /\ \/ \E i \in 1..3 : near(rx.converter \div i)
         \/ \E i \in 1..4 : near(rx.hb3 \div 2^i)

(***************************************************************************)
(* clocks.rs: the multiplier or divider for a rate, the settings           *)
(* set_clock_scaler accepts, and the rate a setting makes.                 *)
(***************************************************************************)
Closest(rate, parent) ==
  IF rate >= parent THEN [mult |-> (rate + parent \div 2) \div parent, div |-> 1]
  ELSE [mult |-> 1, div |-> (parent + rate \div 2) \div rate]

RateFromParent(ratio, parent) == (parent * ratio.mult) \div ratio.div

(* The clocks in the order apply_trx_clock_chain sets them, parents first. *)
StageOrder == << "Adc", "Dac", "R2", "T2", "R1", "T1", "ClkRf", "ClkTf",
                 "RxSampl", "TxSampl" >>
RxClocks == {"Adc", "R2", "R1", "ClkRf", "RxSampl"}
TxClocks == {"Dac", "T2", "T1", "ClkTf", "TxSampl"}
Clocks   == RxClocks \cup TxClocks

ParentSkipsDac(clock) ==   \* mutant: takes T2 for a child of the ADC clock
  CASE clock \in {"R2", "T2", "Dac"}   -> "Adc"
    [] clock \in {"R1", "T1"}          -> IF clock = "R1" THEN "R2" ELSE "T2"
    [] clock \in {"ClkRf", "ClkTf"}    -> IF clock = "ClkRf" THEN "R1" ELSE "T1"
    [] clock \in {"RxSampl", "TxSampl"} -> IF clock = "RxSampl" THEN "ClkRf" ELSE "ClkTf"
    [] clock = "Adc"                   -> "Bbpll"

ParentOf(clock) ==
  CASE clock = "Adc"     -> "Bbpll"
    [] clock = "R2"      -> "Adc"
    [] clock = "R1"      -> "R2"
    [] clock = "ClkRf"   -> "R1"
    [] clock = "RxSampl" -> "ClkRf"
    [] clock = "Dac"     -> "Adc"
    [] clock = "T2"      -> "Dac"
    [] clock = "T1"      -> "T2"
    [] clock = "ClkTf"   -> "T1"
    [] clock = "TxSampl" -> "ClkTf"

(* The rate a pair of paths asks of each clock. *)
ChainRates(rx, tx) ==
  [Bbpll |-> rx.bbpll,
   Adc |-> rx.converter, R2 |-> rx.hb3, R1 |-> rx.hb2, ClkRf |-> rx.hb1,
   RxSampl |-> rx.sample,
   Dac |-> tx.converter, T2 |-> tx.hb3, T1 |-> tx.hb2, ClkTf |-> tx.hb1,
   TxSampl |-> tx.sample]

(* The divisions each clock's register field can hold. *)
Divisions(clock) ==
  CASE clock = "Adc"                             -> {2, 4, 8, 16, 32, 64}
    [] clock \in {"R2", "T2"}                    -> 1..3
    [] clock \in {"R1", "ClkRf", "Dac", "T1", "ClkTf"} -> 1..2
    [] clock \in {"RxSampl", "TxSampl"}          -> {1, 2, 4}

ScalerAccepts(clock, ratio) == ratio.mult = 1 /\ ratio.div \in Divisions(clock)

(* The BBPLL is in range, and each clock is its parent over a division its *)
(* field can hold, with nothing rounded away.                              *)
DividersMake(rates) ==
  /\ rates.Bbpll \in MinBbpllFreq..MaxBbpllFreq
  /\ \A c \in Clocks :
       LET parent == rates[ParentOf(c)]
           ratio  == Closest(rates[c], parent)
       IN  ScalerAccepts(c, ratio) /\ RateFromParent(ratio, parent) = rates[c]

(***************************************************************************)
(* fir.rs: the most taps a FIR of an enabled path can have.                *)
(***************************************************************************)
MaxTxTaps(tx) == (tx.converter \div Max({tx.sample, 1})) * 16
MaxRxTaps(rx) ==
  LET half == IF rx.converter = rx.hb3 THEN 1 ELSE 2
  IN  ((rx.converter \div half) \div Max({rx.sample, 1})) * 16
=============================================================================
