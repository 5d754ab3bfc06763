---------------------------- MODULE MCClockChain ----------------------------
(***************************************************************************)
(* Every request of a grid is computed once: the reachable states are the  *)
(* requests and their answers. The timing words follow from the answer,    *)
(* with the default settings of the gain control, RSSI and aux ADC.        *)
(***************************************************************************)
EXTENDS ClockChain, GainTiming

CONSTANTS RateStep,       \* grid of the sample rates, in Hz
          RateOffsets,    \* ... and distances from it
          LnaDelays,      \* elna_settling_delay_ns
          UpdateIntervals \* gain_update_interval_us

\* Up to these the products of gc_update fit 32 bits, and below 100 us the
\* interval is shorter than the settling delay of a slow CLKRF.
ASSUME TimingAssumption ==
  /\ \A lna \in LnaDelays : lna \in Nat /\ lna <= 8000
  /\ \A us \in UpdateIntervals : us \in Nat /\ us >= 100 /\ us <= 10000

VARIABLES request,        \* what set_sample_rate is asked for
          mode,           \* 2R2T or 1R1T, LVDS or CMOS
          chain           \* the answer; ok is FALSE before and if there is none

vars == <<request, mode, chain>>

Rates == {RateStep * n + offset : n \in 0..(MaxBasebandRate \div RateStep),
                                  offset \in RateOffsets} \cap 1..MaxBasebandRate

Init == /\ request \in [rate : Rates, rxdec : {1, 2, 4}, txint : {1, 2, 4},
                        eq2tx : BOOLEAN, governor : {0, 1}]
        /\ mode \in [rx2tx2 : BOOLEAN, lvds : BOOLEAN]
        /\ chain = [ok |-> FALSE]

Compute == /\ ~chain.ok
           /\ LET c == CalculateRfClockChain(request)
              IN  /\ c.ok
                  /\ ValidateTrxClockChain(c.rx, c.tx, mode.rx2tx2, mode.lvds)
                  /\ chain' = c
           /\ UNCHANGED <<request, mode>>

Spec == Init /\ [][Compute]_vars

(***************************************************************************)
(* An accepted chain makes the requested rate on both sides: TX exactly    *)
(* that, RX the same or twice that (rx_eq_2tx), unless an RX FIR input     *)
(* above 160 MHz also runs at twice the TX FIR input or more. api.rs:      *)
(* "Sets the RX and TX sample rate", and InvalidRate "when the dividers    *)
(* can't make it"; in that corner the TX row is one of another division.   *)
(***************************************************************************)
MakesTheRateUnlessRxRunsAhead ==
  chain.ok =>
    \/ ClkRf(request) > MHz(160) /\ ClkRf(request) >= 2 * ClkTf(request)
    \/ /\ chain.rx.sample = request.rate * (IF request.eq2tx THEN 2 ELSE 1)
       /\ chain.tx.sample = request.rate

(***************************************************************************)
(* Each clock of an accepted chain is its parent over a division that the  *)
(* clock's register field can hold, with nothing rounded away: no stage of *)
(* apply_trx_clock_chain can fail on the way, and the BBPLL rate is not    *)
(* moved by the clamp in set_bbpll_rate.                                   *)
(***************************************************************************)
DividersCanMakeIt == chain.ok => DividersMake(ChainRates(chain.rx, chain.tx))

(***************************************************************************)
(* clock_chain.rs: governor "0 = highest oversampling, 1 = nominal". The   *)
(* highest setting never ends up with a slower ADC than the nominal one    *)
(* and never rejects a rate that the nominal one finds a chain for.        *)
(***************************************************************************)
HighestGovernorOversamplesMost ==
  chain.ok =>
    LET highest == CalculateRfClockChain([request EXCEPT !.governor = 0])
    IN  highest.ok /\ highest.rx.converter >= chain.rx.converter

DefaultPower  == 8192    \* dec_pow_measurement_duration, RX samples
DefaultRssi   == 1000    \* RssiConfiguration.duration, us
DefaultAuxadc == MHz(40) \* auxadc_clock_rate

(***************************************************************************)
(* The three updates after a clock change can each fail, and nothing puts  *)
(* the clocks back then. With the default settings none of them rejects a  *)
(* rate that the clock chain accepts.                                      *)
(***************************************************************************)
UpdatesNeverReject ==
  chain.ok =>
    /\ \A lna \in LnaDelays, us \in UpdateIntervals :
         GcAccepts(chain.rx.hb1, chain.rx.sample, lna, us, DefaultPower)
    /\ RssiAccepts(DefaultRssi, chain.rx.sample)
    /\ AuxadcAccepts(chain.rx.bbpll, DefaultAuxadc)

(***************************************************************************)
(* gc_update. The AGC decides with a whole power measurement that began    *)
(* after its last step settled, so two of them fit into the interval       *)
(* between gain updates; and the interval is the configured one, to within *)
(* four CLKRF cycles. The times the LNA, the peak detectors and the first  *)
(* decision need are rounded up and never cut short. All that unless a     *)
(* field is at its limit, for the CLKRF in whole kHz that the code counts  *)
(* with (in steps of 2 kHz for the settling delay) and to within a ns.     *)
(***************************************************************************)
UpdateHoldsTwoMeasurements(clkrf, counter, duration) ==
  2 * MeasuredSamples(duration) * FirDiv(clkrf, chain.rx.sample) <= 2 * counter

CounterKeepsTheInterval(clkrf, counter, settle, us) ==
  LET words  == CounterWords(counter)
      chip   == (words.low + 256 * words.high) * (IF words.double THEN 2 ELSE 1)
      cycles == 2 * (chip + settle + 1)
      asked  == 2 * us * (clkrf \div 1000)
  IN  \/ counter = MaxUpdateCounter
      \/ asked - 8000 <= cycles * 2000 /\ cycles * 2000 <= asked + 8000

WaitsCoverTheirDelays(clkrf, lna, settle) ==
  LET wait   == PeakWait(clkrf, lna)
      attack == AttackDelay(clkrf, lna, 0)
      halves == clkrf \div 500   \* CLKRF in steps of 500 Hz
  IN  /\ wait = 31   \/ wait * 2000000 >= (100 + lna) * halves
      /\ settle = 31 \/ (settle - 7) * 4000000 >= (200 + lna) * (halves - 3)
      /\ attack = 31 \/ attack * 1000 + 1 >= (200 + lna) \div 2 + CeilDiv(14000000, halves)

GainTimingFits ==
  chain.ok =>
    \A lna \in LnaDelays, us \in UpdateIntervals :
      LET clkrf   == chain.rx.hb1
          counter == UpdateCounter(clkrf, lna, us)
          settle  == SettlingDelay(clkrf, lna)
          power   == PowerMeasure(clkrf, chain.rx.sample, lna, us, DefaultPower)
      IN  /\ UpdateHoldsTwoMeasurements(clkrf, counter, power)
          /\ CounterKeepsTheInterval(clkrf, counter, settle, us)
          /\ WaitsCoverTheirDelays(clkrf, lna, settle)

(***************************************************************************)
(* rssi_setup: the chunks measure all but an eighth of the duration, and   *)
(* the weights add up to 255, unless there are four chunks and the last    *)
(* one is so short that the rounding of the others uses up its weight:     *)
(* then it wraps to 255.                                                   *)
(***************************************************************************)
RssiWeighsTheWholeDuration ==
  chain.ok =>
    LET duration == Samples(DefaultRssi, chain.rx.sample)
        chunks   == Chunks(duration)
    IN  /\ 8 * (duration - TotalOf(chunks)) < duration
        /\ \/ TotalOf(WrittenWeights(chunks)) = 255
           \/ CountOf(chunks) = 4 /\ 510 * chunks[4] < TotalOf(chunks)
=============================================================================
