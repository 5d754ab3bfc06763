------------------------------ MODULE ClockTree ------------------------------
(***************************************************************************)
(* The clock tree of a running driver: the divider fields and the BBPLL of *)
(* the chip beside the rate cache and the FIR flags the driver keeps.      *)
(*                                                                         *)
(* A public call (set_sample_rate, RxFir/TxFir::set_enabled, load_*_fir)   *)
(* holds the driver (&mut self) from its action to its return; in between  *)
(* every stage of apply_trx_clock_chain is a step of its own, because each *)
(* one awaits the SPI bus and can fail there.                              *)
(***************************************************************************)
EXTENDS BbpllWords

CONSTANTS SampleRates,      \* rates set_sample_rate is called with
          FirFactors,       \* decimation and interpolation factors of FIRs
          FirTaps,          \* lengths of FIRs
          Mode,             \* [eq2tx, governor, rx2tx2, lvds] of the settings
          InitRx, InitTx,   \* the configured path clocks
          SweepRates,       \* rates dig_tune sweeps during init, in order
          MaxFaults         \* bound: SPI errors and lock timeouts in a run

ASSUME SettingsAssumption ==
  /\ FirFactors \subseteq {1, 2, 4}
  /\ Mode.eq2tx \in BOOLEAN /\ Mode.governor \in {0, 1}
  /\ SweepRates \in Seq(Nat)

(***************************************************************************)
(* The configured chain passed Ad9361Config::new, the dividers can make it *)
(* with its FIRs bypassed, and its BBPLL is in the upper half of the range *)
(* of powers of two: all of its range but the lowest 143 kHz.              *)
(***************************************************************************)
ASSUME InitAssumption ==
  /\ InitRx \in PathClocks /\ InitTx \in PathClocks
  /\ InitRx.converter \in MinAdcClk..MaxAdcClk
  /\ InitRx.sample = InitRx.hb1 /\ InitTx.sample = InitTx.hb1
  /\ \E d \in BbpllDividers : InitRx.bbpll = InitRx.converter * d
  /\ 2 * InitRx.bbpll > MaxBbpllFreq
  /\ DividersMake(ChainRates(InitRx, InitTx))
  /\ ValidateTrxClockChain(InitRx, InitTx, Mode.rx2tx2, Mode.lvds)

VARIABLES reg,      \* chip: the field of each clock's divider
          bbpll,    \* chip: the bytes of the BBPLL frequency words
          rates,    \* driver: clk.rates, the cached rates
          fir,      \* driver: fir.rx and fir.tx
          call,     \* the call that runs, or NoCall
          stage,    \* how far apply_trx_clock_chain is, 0 between calls
          boot,     \* how far post_setup is
          result,   \* what the last call returned
          faults    \* faults so far

chip == <<reg, bbpll>>
vars == <<reg, bbpll, rates, fir, call, stage, boot, result, faults>>

Sides     == {"rx", "tx"}
FirClocks == {"RxSampl", "TxSampl"}
FirClock(side) == IF side = "rx" THEN "RxSampl" ELSE "TxSampl"
SideOf(clock)  == IF clock \in RxClocks THEN "rx" ELSE "tx"

NoCall  == [kind |-> "none"]

(***************************************************************************)
(* read_clock_scaler and read_clock_rates. A FIR field is 0 for a bypassed *)
(* filter, else one more than the exponent of its factor.                  *)
(***************************************************************************)
DivisionOf(clock, field) ==
  IF clock \in FirClocks THEN (IF field = 0 THEN 1 ELSE 2^(field - 1)) ELSE field

RunningOn(words, fields) ==
  LET under(clock, parent) == parent \div DivisionOf(clock, fields[clock])
      adc   == under("Adc", BbpllRate(words))
      r2    == under("R2", adc)
      r1    == under("R1", r2)
      clkrf == under("ClkRf", r1)
      dac   == under("Dac", adc)
      t2    == under("T2", dac)
      t1    == under("T1", t2)
      clktf == under("ClkTf", t1)
  IN  [Bbpll |-> BbpllRate(words), Adc |-> adc, R2 |-> r2, R1 |-> r1,
       ClkRf |-> clkrf, RxSampl |-> under("RxSampl", clkrf), Dac |-> dac,
       T2 |-> t2, T1 |-> t1, ClkTf |-> clktf, TxSampl |-> under("TxSampl", clktf)]

Running == RunningOn(bbpll, reg)

(***************************************************************************)
(* What the chain is computed from. Both FIRs are loaded, as the default   *)
(* settings do, and start bypassed.                                        *)
(***************************************************************************)
IntDec(f, side) == IF f[side].bypassed THEN 1 ELSE f[side].factor

RequestFor(f, rate) ==
  [rate |-> rate, rxdec |-> IntDec(f, "rx"), txint |-> IntDec(f, "tx"),
   eq2tx |-> Mode.eq2tx, governor |-> Mode.governor]

Valid(chain) ==
  chain.ok /\ ValidateTrxClockChain(chain.rx, chain.tx, Mode.rx2tx2, Mode.lvds)

(* The value set_clock_scaler puts into a clock's field. *)
FieldFor(clock, division) ==
  IF clock \notin FirClocks THEN division
  ELSE IF fir[SideOf(clock)].bypassed THEN 0
  ELSE CHOOSE field \in 1..3 : 2^(field - 1) = division

Clamp(rate) == IF rate < MinBbpllFreq THEN MinBbpllFreq
               ELSE IF rate > MaxBbpllFreq THEN MaxBbpllFreq ELSE rate

\* The words program_bbpll writes: those of the rate that the words of the
\* wanted rate make.
WordsSetFor(rate) == BbpllWordsOf(Rounded(Clamp(rate)))

(***************************************************************************)
(* setup has put the configured chain into a chip fresh out of reset.      *)
(***************************************************************************)
InitRates == ChainRates(InitRx, InitTx)

AfterSetup(r, b, cached) ==
  /\ b = WordsSetFor(InitRates.Bbpll)
  /\ r = [c \in Clocks |-> IF c \in FirClocks THEN 0
            ELSE Closest(InitRates[c], InitRates[ParentOf(c)]).div]
  /\ cached = RunningOn(b, r)

DefaultFirs == {[s \in Sides |-> [factor |-> 1, ntaps |-> n, bypassed |-> TRUE]]
                  : n \in FirTaps}

Init ==
  /\ AfterSetup(reg, bbpll, rates)
  /\ fir \in DefaultFirs
  /\ call = NoCall /\ stage = 0 /\ boot = 0
  /\ result = "ok" /\ faults = 0

(***************************************************************************)
(* Starting and ending a call. Stage 1 sets the BBPLL, the stages after it *)
(* the clocks in StageOrder, then come the two FIR fields and everything   *)
(* that depends on the rates.                                              *)
(***************************************************************************)
ClockStages     == 2..11
ClockAt(n)      == StageOrder[n - 1]
FirStage(side)  == IF side = "rx" THEN 12 ELSE 13
UpdateStage     == 14

Booted     == boot = Len(SweepRates) + 1
InitFailed == -1

Start(kind, side, chain) ==
  /\ call' = [kind |-> kind, side |-> side, rates |-> ChainRates(chain.rx, chain.tx)]
  /\ stage' = 1
  /\ UNCHANGED result

(* Refused before anything is written. *)
Refuse(error) == result' = error /\ UNCHANGED <<call, stage>>

(***************************************************************************)
(* A call returns res. The FIR that was being switched is marked bypassed  *)
(* on any error. The sweep of dig_tune goes on after an error; an error in *)
(* the configured chain fails init, and the next one starts with a reset.  *)
(***************************************************************************)
Return(res) ==
  /\ stage' = 0 /\ call' = NoCall /\ result' = res
  /\ fir' = IF call.kind = "fir" /\ res # "ok"
            THEN [fir EXCEPT ![call.side].bypassed = TRUE] ELSE fir
  /\ boot' = CASE call.kind = "sweep" -> boot + 1
             [] call.kind = "configured" -> IF res = "ok" THEN boot + 1 ELSE InitFailed
             [] OTHER -> boot

Fault == faults < MaxFaults /\ faults' = faults + 1

(***************************************************************************)
(* Init, after setup: dig_tune sweeps the tuning rates (an impossible one  *)
(* is skipped), then post_setup sets the configured chain again.           *)
(***************************************************************************)
SweepRate ==
  LET chain == CalculateRfClockChain(RequestFor(fir, SweepRates[boot + 1]))
  IN  /\ stage = 0 /\ boot \in 0..(Len(SweepRates) - 1)
      /\ IF Valid(chain)
         THEN Start("sweep", "none", chain) /\ UNCHANGED boot
         ELSE Refuse("InvalidRate") /\ boot' = boot + 1
      /\ UNCHANGED <<reg, bbpll, rates, fir, faults>>

SetConfiguredChain ==
  /\ stage = 0 /\ boot = Len(SweepRates)
  /\ Start("configured", "none", [rx |-> InitRx, tx |-> InitTx])
  /\ UNCHANGED <<reg, bbpll, rates, fir, boot, faults>>

(* InitFailure hands the peripherals back; the next init resets the chip   *)
(* and makes a new Engine.                                                 *)
InitAgain ==
  /\ boot = InitFailed
  /\ AfterSetup(reg', bbpll', rates')
  /\ fir' \in DefaultFirs
  /\ boot' = 0
  /\ UNCHANGED <<call, stage, result, faults>>

(***************************************************************************)
(* Calls of a running driver.                                              *)
(***************************************************************************)
SetSampleRate(rate) ==
  LET chain == CalculateRfClockChain(RequestFor(fir, rate))
  IN  /\ stage = 0 /\ Booted
      /\ IF Valid(chain) THEN Start("rate", "none", chain) ELSE Refuse("InvalidRate")
      /\ UNCHANGED <<reg, bbpll, rates, fir, boot, faults>>

(* The chain for the current TX rate, or for the lowest one. *)
LowestRate == IF Mode.governor # 0 THEN kHz(1500) ELSE MHz(1)

ChainForFir(f) ==
  LET current == CalculateRfClockChain(RequestFor(f, rates["TxSampl"]))
  IN  IF current.ok THEN current
      ELSE CalculateRfClockChain(RequestFor(f, LowestRate))

TooLong(f, chain) ==
  \/ ~f["tx"].bypassed /\ f["tx"].ntaps > MaxTxTaps(chain.tx)
  \/ ~f["rx"].bypassed /\ f["rx"].ntaps > MaxRxTaps(chain.rx)

(* set_rx_fir_en_dis and set_tx_fir_en_dis, up to the first write. *)
SetFirEnabled(side, enable) ==
  LET switched == [fir EXCEPT ![side].bypassed = ~enable]
      chain    == ChainForFir(switched)
      error    == IF chain.ok /\ TooLong(switched, chain) THEN "FirTooLong"
                  ELSE "InvalidRate"
      accepted == Valid(chain) /\ ~TooLong(switched, chain)
  IN  /\ stage = 0 /\ Booted
      /\ IF fir[side].bypassed = ~enable THEN Refuse("ok") /\ UNCHANGED fir
         ELSE IF accepted THEN Start("fir", side, chain) /\ fir' = switched
         ELSE Refuse(error) /\ fir' = [fir EXCEPT ![side].bypassed = TRUE]
      /\ UNCHANGED <<reg, bbpll, rates, boot, faults>>

(***************************************************************************)
(* set_rx_fir_config and set_tx_fir_config. The filter clock runs at the   *)
(* new factor while the coefficients are written; an SPI error leaves its  *)
(* field there.                                                            *)
(***************************************************************************)
LoadFir(side, factor, ntaps) ==
  /\ stage = 0 /\ Booted
  /\ fir' = [fir EXCEPT ![side].factor = factor, ![side].ntaps = ntaps]
  /\ \/ result' = "ok" /\ UNCHANGED <<reg, faults>>
     \/ /\ Fault /\ result' = "Spi"
        /\ \/ UNCHANGED reg
           \/ reg' = [reg EXCEPT ![FirClock(side)] = IF factor = 4 THEN 3 ELSE factor]
  /\ UNCHANGED <<bbpll, rates, call, stage, boot>>

(***************************************************************************)
(* apply_trx_clock_chain, one await after the other.                       *)
(***************************************************************************)
NextStage == stage' = stage + 1 /\ UNCHANGED <<call, fir, boot, result>>

(* set_bbpll_rate. The cache gets the rate that the words read back make.  *)
(* A lost lock leaves the new words in the chip and the old rate in the    *)
(* cache, an SPI error the new words up to some byte.                      *)
WrittenUpTo(n, new) == [i \in 1..4 |-> IF i <= n THEN new[i] ELSE bbpll[i]]

SetBbpllRate ==
  LET target == call.rates["Bbpll"]
      words  == WordsSetFor(target)
  IN  /\ stage = 1
      /\ \/ /\ rates["Bbpll"] = target
            /\ NextStage /\ UNCHANGED <<bbpll, rates, faults>>
         \/ /\ rates["Bbpll"] # target
            /\ bbpll' = words
            /\ rates' = [rates EXCEPT !["Bbpll"] = BbpllRate(words)]
            /\ NextStage /\ UNCHANGED faults
         \/ /\ rates["Bbpll"] # target
            /\ Fault /\ UNCHANGED rates
            /\ \/ bbpll' = words /\ Return("Timeout")
               \/ \E n \in 0..4 : bbpll' = WrittenUpTo(n, words) /\ Return("Spi")
      /\ UNCHANGED reg

(* set_clock_rate. An SPI error comes before or after the field changed,   *)
(* and before the cache is refreshed.                                      *)
SetClockRate ==
  LET clock  == ClockAt(stage)
      target == call.rates[clock]
      parent == rates[ParentOf(clock)]
      ratio  == Closest(target, parent)
      set    == [reg EXCEPT ![clock] = FieldFor(clock, ratio.div)]
      made   == parent \div DivisionOf(clock, set[clock])
  IN  /\ stage \in ClockStages
      /\ \/ /\ rates[clock] = target
            /\ NextStage /\ UNCHANGED <<reg, rates, faults>>
         \/ /\ rates[clock] # target /\ ScalerAccepts(clock, ratio)
            /\ reg' = set
            /\ rates' = [rates EXCEPT ![clock] = made]
            /\ NextStage /\ UNCHANGED faults
         \/ /\ rates[clock] # target /\ ScalerAccepts(clock, ratio)
            /\ Fault /\ reg' \in {reg, set}
            /\ Return("Spi") /\ UNCHANGED rates
         \/ /\ rates[clock] # target /\ ~ScalerAccepts(clock, ratio)
            /\ Return("InvalidRate") /\ UNCHANGED <<reg, rates, faults>>
      /\ UNCHANGED bbpll

(* "the rates don't change when a FIR gets enabled or bypassed": a factor  *)
(* of 1 has its field set by hand.                                         *)
SetFirFieldOn(side) ==   \* mutant: the field is on whether bypassed or not
  /\ stage = FirStage(side)
  /\ reg' = [reg EXCEPT ![FirClock(side)] = 1]
  /\ NextStage /\ UNCHANGED <<bbpll, rates, faults>>

SetFirField(side) ==
  LET set == [reg EXCEPT ![FirClock(side)] = IF fir[side].bypassed THEN 0 ELSE 1]
  IN  /\ stage = FirStage(side)
      /\ \/ IntDec(fir, side) # 1 /\ NextStage /\ UNCHANGED <<reg, faults>>
         \/ IntDec(fir, side) = 1 /\ NextStage /\ reg' = set /\ UNCHANGED faults
         \/ IntDec(fir, side) = 1 /\ Fault /\ reg' \in {reg, set} /\ Return("Spi")
      /\ UNCHANGED <<bbpll, rates>>

(* bb_clk_update, dig_tune at the current rate and, for a FIR, the         *)
(* bandwidth calibrations: none of them touches the tree, all can fail.    *)
UpdateDependents ==
  /\ stage = UpdateStage
  /\ \/ Return("ok") /\ UNCHANGED faults
     \/ Fault /\ Return("Spi")
     \/ Fault /\ call.kind = "fir" /\ Return("Timeout")
  /\ UNCHANGED <<reg, bbpll, rates>>

(***************************************************************************)
Calls ==
  \/ SweepRate
  \/ SetConfiguredChain
  \/ InitAgain
  \/ \E r \in SampleRates : SetSampleRate(r)
  \/ \E s \in Sides, e \in BOOLEAN : SetFirEnabled(s, e)
  \/ \E s \in Sides, f \in FirFactors, n \in FirTaps : LoadFir(s, f, n)

Steps ==
  \/ SetBbpllRate
  \/ SetClockRate
  \/ \E s \in Sides : SetFirField(s)
  \/ UpdateDependents

Next == Calls \/ Steps

Spec == Init /\ [][Next]_vars /\ WF_vars(Steps)

(***************************************************************************)
(* Properties.                                                             *)
(***************************************************************************)
(***************************************************************************)
(* api.rs, clock_rates: "Every clock rate of the chip, as it really runs". *)
(* The code does not keep it, see README: set_clock_rate returns early on  *)
(* a cached rate whose parent has just been changed.                       *)
(***************************************************************************)
CacheTellsTheTruth == stage = 0 /\ faults = 0 => rates = Running

(***************************************************************************)
(* As far as the code does keep it: the BBPLL and the ADC, in a driver     *)
(* that saw no error. The early return cannot hit the ADC with a BBPLL     *)
(* that moved, because calculate_rf_clock_chain works the BBPLL rate out   *)
(* from the ADC rate alone, and two of its ADC rates that the rounding of  *)
(* the BBPLL makes equal are rounded to the same words, for a reference of *)
(* up to 50 MHz.                                                           *)
(***************************************************************************)
AdcCacheTellsTheTruth ==
  stage = 0 /\ faults = 0 =>
    /\ rates["Bbpll"] = BbpllRate(bbpll)
    /\ rates["Adc"] = Running["Adc"]

(***************************************************************************)
(* api.rs, sample_rate: "The rate the dividers make, can be a little off   *)
(* the one asked for". Whatever faults and half applied chains came        *)
(* before, when a call has set its chain the cached BBPLL rate is off by   *)
(* its rounding, every clock under it by no more than that, and the sample *)
(* rates, less than an eleventh of the BBPLL, by an eleventh of it.        *)
(***************************************************************************)
WithinSlack(f, g, slack) == f - g \in -slack..slack

ReportsWhatWasSet ==
  stage = UpdateStage =>
    /\ \A c \in Clocks \cup {"Bbpll"} : WithinSlack(rates[c], call.rates[c], BbpllSlack)
    /\ \A c \in FirClocks :
         WithinSlack(rates[c], call.rates[c], (BbpllSlack + 10) \div 11)

(***************************************************************************)
(* A chain that validate_trx_clock_chain let through is never given up     *)
(* half way with InvalidRate: whatever the cache has been through, its     *)
(* parents make every ratio one the dividers can hold.                     *)
(***************************************************************************)
NoHalfwayRejection == [][stage > 0 /\ stage' = 0 => result' # "InvalidRate"]_vars

(***************************************************************************)
(* A call that gets through the chain repairs the fields of bypassed FIRs  *)
(* and of factor 1 ones, even after a call that failed half way or a load  *)
(* that left the filter clock on (clock_chain.rs, "do it by hand").        *)
(***************************************************************************)
FirFieldsFollowTheFlags ==
  stage = UpdateStage =>
    \A s \in Sides : IntDec(fir, s) = 1 => (reg[FirClock(s)] = 0 <=> fir[s].bypassed)

(***************************************************************************)
(* fir.rs, set_rx_fir_en_dis and set_tx_fir_en_dis: "the filter stays off  *)
(* if that fails". Not kept: an error after the field is on only marks the *)
(* filter bypassed, the field stays on.                                    *)
(***************************************************************************)
FailedEnableStaysOff ==
  [][stage > 0 /\ stage' = 0 /\ call.kind = "fir" /\ result' # "ok"
       => reg'[FirClock(call.side)] = 0]_vars
=============================================================================
