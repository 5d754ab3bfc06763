# TLA+ models of the AD9361 driver

The repository is a Rust (`no_std`, async) driver for the AD9361 transceiver, ported from
the C driver of no-OS. It talks to the chip over SPI, keeps a picture of it in memory, and
drives a few things in the FPGA through the `DataInterface` trait. These modules model the
control of the driver: what each call changes, in which order, what is cached, what is
borrowed and given back, and what a failure in the middle leaves behind.

## 1. Inventory

| Part (src/src) | State | Operations | Talks to |
|---|---|---|---|
| Public API (`api.rs`) | owns `Engine`; the handles `RxFir`, `TxFir`, `ManualRxGain` borrow it | `init`, sample rate, LOs, bandwidth, FIRs, attenuation, gain | every call is `&mut self` and async: one at a time, each polled to its end |
| Clock chain (`clock_chain.rs`) | none | `calculate_rf_clock_chain`, `validate_trx_clock_chain` | called by sample rate and FIR calls |
| Clock tree (`clocks.rs`, `clock_chain.rs`, `synth.rs`) | `ClockState.rates` (cache); chip: dividers, BBPLL words | `set_clock_rate`, `set_bbpll_rate`, `apply_trx_clock_chain`, `set_trx_clock_chain` | then gain timing, tuning |
| FIRs (`fir.rs`) | `FirState`; chip: FIR fields | load, `set_rx_fir_en_dis`, `set_tx_fir_en_dis` | clock chain, bandwidth calibrations |
| RF synths (`synth.rs`) | LOs, table flags, `rates`; chip: VCO tables, words, lock | `set_rfpll_rate`, `program_rfpll` | gain table, TX quadrature calibration |
| Gain control (`gain_control.rs`) | `GainState`; chip: gain table, AGC registers | tables, modes, manual gain, timing | clocks, LOs |
| Calibrations (`calibration.rs`) | `CalibrationState`; chip: filters, tracking | filters, DC offset, TX quadrature, `update_rf_bandwidth` | ENSM |
| ENSM (`control.rs`) | `EnsmTracking`; chip: state, pin control | force, restore, `ensm_set_state` | the ENABLE pin may move the chip too |
| Digital interface tuning (`dig_tune.rs`) | `TuneState`; chip: delays, loopback, PRBS | `dig_tune`, `post_setup` | FPGA, attenuation, ENSM, clocks |
| TX attenuation (`control.rs`) | caches of the last mute | `set_tx_atten`, `tx_mute` | tuning |
| Setup (`setup.rs`, `init.rs`) | | `init`, `setup`, `post_setup` | everything, once |
| Ports, aux converters, monitor, RSSI (`ports.rs`, `monitor.rs`) | chip: their registers, some of them shared | set up once; RSSI and aux ADC again after clock changes | clocks, ENSM |
| SPI (`spi.rs`) | | `write_reg`, `read_reg`, `modify_reg` | everything goes through it |
| Generated tables (`registers.rs`, `synth_lut.rs`, `gain_tables.rs`) | none | looked up | synths, gain control |
| AXI cores, value types | | | |

What makes this hard:

* Every `.await?` on the bus is a place to fail, and a failure leaves chip and cache apart.
* Caches decide whether something is written at all (`set_clock_rate`, `set_rfpll_rate`,
  `load_gain_table`), so a wrong cache is not repaired by asking again.
* Calls borrow state (ENSM, tracking, tuning mode, attenuation, filters) and have to give it
  back on each of their ways out, and calls nest.
* Many registers hold fields of several parts; some functions modify them, some write them
  whole, calibrations borrow them, and the order of init decides what is left.
* With pin control the ENABLE pin moves the ENSM at any moment.
* Waits time out. Some timeouts are errors, some are not, one is thrown away.
* Integer rates: rounding, truncated ratios, field widths, a power of two short of a limit.

What makes each part correct: a chain makes the asked rate within the limits and the caches
are what the chip does (clocks); both synths on their LO with tables that fit each other, the
gain table of the band, a calibration not too far away (synths); nothing but the intended
result left behind, in particular no test signal on the antenna (tuning); the best phase, the
tone inside the filters, everything borrowed back in place (calibrations); the table and the
gains of both channels kept through every change of bands, timing words that mean what they
should (gain control); no part losing what another one set (setup).

The hazards, each at its line with the property aimed at it, are in `PROJECT.json`.

## 2. Modules

| Module | Models | State |
|---|---|---|
| `ClockChain` | the arithmetic of the chain and of one divider | none: operators |
| `GainTiming` | the arithmetic of `gc_update`, `rssi_setup` and `auxadc_setup`, which follows from the chain | none: operators |
| `BbpllWords` (extends `ClockChain`) | the frequency words of the BBPLL and their rounding | none: operators |
| `ClockTree` (extends `BbpllWords`) | `set_sample_rate`, FIR loads and switches, the tuning sweep of init, one stage per step | `reg`, `bbpll` (chip); `rates`, `fir` (driver); `call`, `stage` |
| `RfPll` | `set_rx/tx_lo_frequency`, the LOs in setup | `vco`, `word`, `locked`, `chipGain`, `quadAt` (chip); `lo`, `tdd`, `rate`, `gainTable`, `lastQuad` (driver); `pc`, `call` |
| `SynthLut`, `GainTables` | the VCO tables and the gain tables, with the lookups in them | none: operators |
| `RxGain` | `load_gain_table`, `write_gain_table` entry by entry, manual gains | `chip`, `index` (chip); `current`, `quad`, `lo` (driver); `saved`, `entry`, `pc` |
| `DigTune` | `dig_tune` in init, clock changes and FIR switches; attenuation; ENSM with pins | chip and FPGA signals, delays, attenuation; the driver's copies; `run`, `todo` |
| `Calibration` | TX quadrature calibration, bandwidth changes, ENSM with the ENABLE pin | `ensm`, `chip`, `pin`; `drv`; `pc`, `call` |
| `Loan` | what a caller of a calibration may rely on | `busy`, `intact`, `tuned`, `result` |
| `Registers` | 85 registers with their fields, and the accesses to them | none: operators |
| `SetupSteps` (extends `Registers`) | what each function of the set up does to those, in order | none: sequences of accesses |
| `Setup` (extends `SetupSteps`) | init, `set_gain_mode`, `set_sample_rate`, `set_tx_attenuation`, access by access | `chip`; `drv`; `saved`; `call`, `todo` |
| `...Proofs` | theorems | |
| `MC...` | instances for TLC | `MCClockChain` adds a request and its answer, `MCRxGain` brings `RxGain` together with both kinds of tables |

A public call runs from its action to its return. In between, every step that awaits the bus
is an action, named after the Rust function or after the part of it it stands for
(`program_rfpll` is `VcoInit`, `WriteWords`, `WaitLock`, `ProgramOther`). A step's error path
is the `?` of the code: `SpiError`, `Fail` and `Timeout` go where `?` or the saved `result` go.
The ways out that give things back (`with_dig_tune_mode`, `result` in `tx_quad_calib`) are
separate steps, which can fail as well. A variable is either chip or driver; where both know
the same thing (a rate, a gain table, an attenuation) both are there, and the properties
compare them. In `Setup` a call is the sequence of its accesses and one action does the next
one; `SetupSteps` reads like the Rust functions, a line or two for each register.

The modules overlap where parts meet, with a simpler view on one side. `RfPll` knows the TX
quadrature calibration and the gain table of a band as one step each; `Calibration` and
`RxGain` have their insides. `DigTune` sees a bandwidth calibration as work inside a forced
ALERT. `ClockTree` computes the rates and leaves tuning at one of its late stages, `DigTune`
has no rates. `Setup` has the order of everything in init, the tuning at its end included, but of
each part only what it does to registers.

### Abstractions

* `ClockChain`, `ClockTree`, `GainTiming`: rates in Hz. The words of the BBPLL are the four
  bytes that are written, rounded on the way in and on the way back as in `synth.rs:482`; an SPI
  error leaves those up to some byte. `RefUnit` divides both factors of a product to keep it
  within TLC's integers and is no part of the code; `BbRef` is a reference after `ref_div_sel`.
  A FIR that was never loaded is a bypassed one of factor 1, which has the same clocks.
* `RfPll`: an LO is a number; `Made` says what the words make of it. `tdd_skip_vco_cal` only
  switches a VCO calibration and is left out. Independent LOs are `Shared = FALSE`.
* `SynthLut`, `GainTables`: whole MHz (all limits and VCO frequencies are); one column of the
  loop filter (the charge pump), one of the gain words (LPF/TIA), and all gains.
* `RxGain`: an entry of the chip's table is the table it came from. A gain is dB; the index a
  channel is left with under AGC is not modelled, both channels are in manual mode.
* `DigTune`: delays are where they came from (configured, tuned, swept), not their values. A
  sweep finds a window or does not. `int_loopback_fix_ch_cross` is left out.
* `Calibration`: frequencies in kHz; a filter is the RF bandwidth it is tuned for, which is
  the asked one as far as the clamps of the baseband filters let it (28 MHz for RX,
  `calibration.rs:143`, 20 MHz for TX, `:200`). That is its nominal corner: "The filter corners
  come from dividing the BBPLL, so the bandwidth actually set can be a bit off"
  (`api.rs:212`). The secondary TX filter, five times as wide, is not kept apart. A step that
  stands for several accesses may fail after any part of them. Which phase offsets converge is
  up to nature, fixed during one call. `chip.tracking` stands for
  the five registers of `tracking_control`. TX, RX and FDD are one state, "run".
* `Setup`: a field holds whose value it is (the settings', worked out from which rate, a
  calibration's, a zero nobody asked for), not the value. Registers with one field and one
  writer are left out, and so are those the synths, FIRs and tunings keep to themselves. Of
  the tuning in `post_setup` there is all that it does to the remaining ones. The three rates
  of a sweep make the same accesses and are there once; a clock change in a sweep may break
  off anywhere (`cut`), which a sweep ignores, and a sweep may find no window, which ends init.
  The ENSM is in the state it was sent to (`Calibration` and `DigTune` have pins that move it).
  The driver does not tune after later clock changes: FIRs off and `bb_clk_change_dig_tune_en`
  not set, as by default.
* Forcing an ENSM state reaches it ("Timing out is not an error").
* A burst is written or not; parts of one are not modelled (the words of the BBPLL are four
  writes, not a burst). A future that is dropped
  half way (cancellation) is not modelled: calls run to their end.

## 3. Runs

| Run | Question | Bounds |
|---|---|---|
| `clock_chain` | Is every accepted chain right, and every timing word made from it? | each multiple of 240 kHz up to 61.44 MSPS and 1 Hz above each, all FIR factors, both governors, RX equal to or twice TX, 1R1T and 2R2T, CMOS and LVDS; no external LNA or one of 4 µs, update intervals of 0.1 and 1 ms. All of it is proved for any rate, and for LNA delays up to 8 µs and intervals from 0.1 to 10 ms |
| `clock_tree` | What do cache and FIR fields promise over any order of calls? | 2 rates besides the configured one, factors 1 and 2, 1 error; default settings with a reference of 40 MHz. All of it is proved for any of them, what is said of the ADC for references up to 50 MHz |
| `rf_pll` | Do the synths, their tables, gain table and calibration stay together? | 4 LOs, 1 SPI error, 1 timeout |
| `rx_gain` | Do the gain table, the calibration's entry and the gains stay together? | the driver's six tables, 5 LOs at the edges of bands and VCO divisions, 2 gains, 1 SPI error at any step (of the entries, at the first and in the middle) |
| `dig_tune` | Does tuning give back what it borrows? | 7 settings, 1 attenuation change, 1 fault, any number of failing sweeps |
| `calibration` | Does the calibration find what it can, and give back? | 3 settings, 2 bandwidth pairs, 3 sets of phases, 1 SPI error, 1 timeout, any pin movement |
| `setup` | Does any part of init, or a call after it, lose what another part set? | 6 settings, 2 rates, all 4 gain modes, sweeps whose clock changes break off at 4 places, 3 calls, 1 SPI error at any access |

Why the bounds are enough. `clock_chain` computes each request once (hence no deadlock
check); its rates lie on both sides of every limit, on a grid on which the clocks divide
evenly and next to it, where they are cut to whole Hz. In `clock_tree` 2 and 30.96 MSPS, the
configured 30.72 and the 25, 40 and 61.44 of the sweep need different dividers and different
BBPLL rates, one of which is out of the BBPLL's exact reach (30.96 MSPS becomes 30959999),
and the FIR factor 2 changes the chain without changing the sample rate, which is what an
early return on a cached rate needs. In `rf_pll` the LOs straddle a gain table boundary;
neighbours are nearer than the calibration threshold and outer ones further; one only TX can
tune to; two calls of either side reach every combination of tables. A second fault adds
nothing new there: after one, calls start from every state it can leave, and its properties
are proved for any number of them. In `rx_gain` every table is followed by every other, and
the two gains are at the ends of the tables, where rounding and missing entries show; its
properties are proved for any tables, gains and LOs. `dig_tune` starts from the default
settings and each setting that differs in one thing, with one fault (its properties are
proved for any number); a failed init ends the driver (hence no deadlock check). In
`calibration` the clocks and bandwidths reach NCO words 0, 2 and 3 with both clock ratios the
code knows, tones too wide for both filters and for RX alone; the phases converge nowhere,
across the wrap from 31 to 0, and in two runs of different length; its safety properties are
proved for every set of phases, any settings and any number of faults. In `setup` every
condition of `SetupSteps` is taken both ways, and the tuning is that of both sides, of RX
alone or none; a clock change has at most 23 accesses and breaks off before the first, among
the clocks, among the updates that follow, or not at all; three calls are a failing one, one
that repairs it and one more (it stops there, hence no deadlock check); its properties are
proved for any settings, rates, modes and calls and any number of faults.

Fairness. `ClockTree`, `RfPll`, `DigTune` and `Calibration` assume weak fairness of the steps
of a call, and of nothing else: a call is an async function that its caller polls until it
returns, each bus access ends (with an error at worst), every wait loop has a limit. That a
call is made, that the pin moves or that something fails is never assumed. `CallsEnd` of
`Calibration` uses it; the other properties are safety.

### What the passing runs show

* `MakesTheRateUnlessRxRunsAhead`, `DividersCanMakeIt`, `HighestGovernorOversamplesMost`: an
  accepted chain makes the rate with divisions the register fields hold, one corner excepted.
  `UpdatesNeverReject`: nothing that follows a clock change rejects it, with default settings.
  `GainTimingFits`, `RssiWeighsTheWholeDuration`: an update interval holds two power
  measurements, no delay is cut short, the RSSI measures the duration it should with weights
  that add up.
* `AdcCacheTellsTheTruth`, `ReportsWhatWasSet`, `FirFieldsFollowTheFlags`,
  `NoHalfwayRejection`: what remains of "the cache is what the chip does". `ReportsWhatWasSet`:
  a call that got through its clocks leaves its chain in the cache, whatever earlier calls left
  there, but for the rounding of the BBPLL ("can be a little off the one asked for",
  `api.rs:156`) and the sample rates but for an eleventh of that.
* `OtherLoKnown`, `AtMostTwoPasses`: `program_rfpll`'s loop ends. It would not if it ever
  computed the words of an LO that was never programmed. `TablesMatchTheLos`,
  `SynthsHoldTheirLo`, `GainTableFits`, `QuadCalWithinThreshold`: the two synths after any
  order of LO changes.
* `QuadEntryIsInTheChip`: also after a load that failed half way, the entry the TX quadrature
  calibration uses is in the chip with a word it can use. `TableIsInTheChip`, `GainIsKept`:
  the table is the LO's, and neither channel's gain drifts however often the band changes.
  `RowFitsTheVco`: no LO falls off either end of a VCO table.
* `PnOnlyWhileMuted`: the PRBS never goes out on the antenna, whatever fails.
  `TuningGivesBack`, `NoHalfSweptDelays`, `DelaysBackWithFirsOff`, `TuningKeepsAttenuation`:
  the rest of what tuning borrows.
* `ConvergesIfAnyPhaseDoes`, `SearchPicksTheWidestMargin`: the retry and the search end on a
  phase that converges if there is one, and the searched one is as far from failing phases as
  possible. `TonesMeetAndFit`: the calibration's tone is the same for RX and TX and within a
  quarter of either baseband filter as it is tuned, or within half where the filter cannot be
  tuned any wider.
* `BorrowedIsGivenBack`, `PinsCannotDisturb`, `PinsRuleAgain`, `CallsEnd`: tracking,
  inversion, ENSM and pin control after calibrations. `GivesBack`: `Calibration` implements
  `Loan` (`busy` is a running call, `intact` the tracking and inversion, `tuned` the bandwidth
  on which driver and filters agree): a call that returns Ok has given everything back and
  tuned what it was asked for whatever mess it started from, one that fails has given
  everything back unless the bus failed.
* `NothingIsWiped`, `TimingFollowsTheClocks`, `OnlyTheChangedChannelPauses`,
  `DriverKnowsTheModes`: after init and through later calls, failed ones included, every field
  holds its own value, the timing words fit the rates and modes the driver knows, and a gain
  mode change pauses its channel only. `spoilt` names what a failed call may have left until
  a later one redoes it, which the properties leave out. `NothingIsWiped` further leaves out
  `Wiped`, the fields the code does lose: RSSI settings timed in samples, the pin control after a
  tuning, and the hybrid bit (all three under "Also met" below). The model wipes them as the code
  does, the first two in init, the bit in a later call.

Each property has a mutant of a mapped definition (marked "mutant" in the modules) that
breaks it.

### What the failing runs show

Each of these states what a doc comment says and is refuted by a trace of the code.

| Run | The code |
|---|---|
| `cache_truth` | skips clocks whose cached rate is the wanted one though their parent has moved (`clocks.rs:668`) |
| `fir_stays_off` | marks a FIR bypassed after a failure but leaves it on in the chip (`fir.rs:320`) |
| `lock_reported` | throws away the lock error of the first synth if it programs the second (`synth.rs:319`) |
| `attenuation_kept` | unmutes without having muted, going back to an old attenuation (`dig_tune.rs:307`) |
| `runs_again` | leaves the chip in ALERT after a failed restore, and later calls "restore" ALERT and return Ok (`calibration.rs:825`) |

Also met while modelling, without a run of their own.

* Clocks. In the corner that `MakesTheRateUnlessRxRunsAhead` leaves out, requests are accepted
  whose TX path runs at another rate (`clock_chain.rs:77`): RX decimation 4, TX interpolation
  2, RX twice TX and the highest oversampling at 20.16 MSPS give a TX rate of 13.44 MSPS.
  Enabling a FIR of factor 2 or 4 asks for the sample rate that is cached already, so its field
  is never written and it stays off (`clocks.rs:668`; `FirFieldsFollowTheFlags` is about
  factor 1 for that reason). After a BBPLL timeout, and likewise for an LO, asking for the old
  rate returns at once with the new one in the chip. With a BBPLL reference above 50 MHz two
  ADC rates of the chain may meet in the cache: for one of 178767876 Hz the BBPLL is asked for
  715071504 Hz, which a reference of 60 MHz rounds to 715071490, and the ADC is cached as
  178767872 Hz. A chain that asks for exactly that puts the BBPLL at twice the rate and skips
  the divider of the ADC, which then runs twice too fast. `bb_clk_update` may reject a rate the
  clocks already run at; with default settings it never does.
* Synths. An SPI error in the second pass of `program_rfpll` leaves the synths on different
  tables, and repeating the call does not repair it.
* Gain control. Both channels share the hybrid bit. `gc_setup` sets it if either is hybrid,
  `set_gain_mode` by the mode of the channel it changes (`gain_control.rs:819`), so that the other
  one may lose it ("Each channel has its own mode", `:36`). `set_gain_mode` switches a
  channel off by the bits it reads, so after an error in the middle a retry leaves it off.
  After an SPI error in the last writes of a gain table the driver believes the table is done
  and a retry does not restore the gains; after one in the middle it believes in the old table.
  An update interval shorter than the settling delay wraps and ends up at the longest one.
  Configured thresholds, `dec_pow_measurement_duration` and the temperature interval are
  masked to their fields without a check. `write_gain_table` writes `Rx2ManualLmtFullGain`
  whole but modifies the one of RX1. `goto_opt_gain_if_energy_lost_or_en_agc_high` has two
  settings behind one bit, and the later one wins.
* RSSI. `rssi_gain_step_calib` overwrites the RSSI mode and durations, and the update that
  repairs them does nothing if the timing is in RX samples (`monitor.rs:122`, `:220`). "weights
  have to add up to 0xFF" (`monitor.rs:162`): with four chunks the last weight may be rounded
  to below 0 and is written as 255, at 33.84 MSPS and the default duration for one.
* Calibration. "bandwidth has to be wide enough during the cal" cannot always be had: with TX
  at 40 MHz and clocks of 61.44 MHz the tone of 5.76 MHz asks for 46.08 MHz, but the baseband
  filter goes no further than 20 MHz (`calibration.rs:200`). A failed quadrature calibration
  counts as done for the threshold, and a search that finds nothing is remembered as the last
  phase that converged (`state.rs:171`). After an SPI error inside, the inversion bits stay
  cleared, and the next call reads and "restores" that.
* Tuning. Tuning RX alone, or failing, leaves the PRBS setting on for the next tuning to put
  back. An SPI error between mute and unmute leaves TX muted and the next tuning takes that for
  the attenuation.
* ENSM. `ensm_force_state` remembers the pin control it finds in one slot. `set_intf_delay`
  forces ALERT and then FDD, and the second force remembers "off" (`control.rs:219`): after an
  init with `ensm_pin_ctrl` and a tuning the chip stays under SPI control. If the pins hold the
  chip in ALERT when a calibration begins, nothing is forced and they can start it in the middle
  (`control.rs:213`); a state read while the chip flushes is not restored and pin
  control stays off until the next calibration.

## 4. Proofs

All proof modules are about all values of the constants, with any number of faults.

`RfPllProofs`. `TypeCorrect`, `LoopEndsForTheOther` (`OtherLoKnown`) and `TwoPassesAtMost`
(`AtMostTwoPasses`) follow from `IInv == TypeOK /\ TddMeansBothKnown /\ CallInv`. Alone the
two properties are not inductive. Whether the loop programs the other synth depends on the
cached table flags, so one needs to know that a synth on the TDD table means that both LOs
were known (`TddMeansBothKnown`), also after failures and a new init; and that a synth the
call has been through is already on the table the LOs call for (`CallInv`), so that in the
second pass nothing is left to do. Assumptions: `LOsAssumption` (0 is no LO),
`StartAssumption`, `TunableAssumption`, `MadeAssumption`, `BandAssumption`,
`SharedAssumption`, `BoundsAssumption`. All are facts of the types in `units.rs` and
`config.rs`, and TLC evaluates them in `rf_pll`.

`TablesFollowTheLos`, `SynthsStayOnTheirLo`, `GainTableFollowsTheLo` and `CalibratedNearby`
prove the other four properties of `RfPll`, from `IInv` and, in the same module, `HInv`. `HInv`
is layered by what may have failed. Always: the order of setup (`BootInv`). While no SPI access
failed, lost locks or not: each synth has the words of its LO but for the one being moved
(`WordsInv`), the driver's flags tell the tables in the chip and between calls are those the
LOs ask for (`TablesInv`), the driver knows the gain table (`GainInv`). Without any fault: the
last calibration converged nearby (`QuadInv`) and the cached rates are what the words make
(`RateInv`). `TablesInv` is where it could go wrong: after the first pass of a call the other
synth's flag is stale, and only `CallInv` says that the loop is not done then.

`RxGainProofs`. `QuadEntryStays`, `TableStays`, `GainStays`: the three properties of `RxGain`,
from `TypeOK`, the two about the table, `Writing` (all entries before the one to be written are
new, so a match found among them is one) and `Gaining` (the gains to go back to are the ones
that are held, and the rows restored so far have them). The lemma `FindIsClosest` says that
`find_table_index` returns an entry whose gain no other one is closer to, for any table whose
gains do not fall, which `TableAssumption` demands and TLC evaluates for the driver's six.
That there is a first entry that reaches a gain is a least element of a set of naturals
(`LeastNatural`, from the well-foundedness of <).
`RowAlwaysFits` (`RowFitsTheVco`) is about the numbers in the synth tables, for every LO of whole
MHz that `program_rfpll` accepts (`LosAssumption`): doubled until above the minimum, a VCO is at
most twice that (`DoublingsAre`), so it lies between two neighbouring rows (`RowIs`), and in each
row the currents of the FDD table are below those of the TDD table (`FddIsSlower`).

`DigTuneProofs`. `PrbsStaysOffTheAntenna` (`PnOnlyWhileMuted`), `DelaysAreWhole`
(`NoHalfSweptDelays`) and `AttenuationComesBack` (`TuningKeepsAttenuation`) follow from
`IInv == Shape /\ Types /\ Silent /\ Remembered /\ Swept`. `Shape` ties the step that runs to the
call's list of phases: the tuning that stores its delays is only ever the first phase of init,
which fails with it. Without that `Swept` is not inductive: after an SPI error in the middle of
a sweep the code does store half swept delays (`dig_tune.rs:295`), and only the failing init
keeps a running driver from using them. `Remembered` says that the mute remembers the
attenuations the tuning found, and that after the first sweep the pin control is off and the
slot for it empty, so that no pin moves the chip before TX is unmuted. `Silent` is the mute
itself. Assumptions: `ConfigsAssumption`, `AttensAssumption`.

The rest of the tuning is a second invariant, `Back`, on top of it. `AtHome`: under SPI control
and without faults the state read before forcing is the home state, so that restoring it ends
there. `TestsOff`: where the loopback, the PRBS and their settings in the chip are off, without
which a tuning would save a test signal and put it back. `OwnDelays`: the delays that are stored
never come from a tuning with a FIR. `OffAgain` describes the list of phases of a call that
turns the last FIR off: it tunes for no FIR, ends with the alert, and until the stored delays
are in the chip the phase that puts them there is ahead. From these follow
`TuningAlwaysGivesBack` (`TuningGivesBack`), `DelaysComeBackWithFirsOff`
(`DelaysBackWithFirsOff`) and `TypesHold` (`TypeOK`).

`ClockChainProofs` has no theorems about states: it is the arithmetic of a chain, for every
sample rate, factor and setting. `CalculateRfClockChain` picks a governor row and a BBPLL
divider, each a least or greatest element of a finite set; the lemmas say what it then returns
(every clock is its child times a division the field holds, with the floors of the code), that
the row of TX fits the converter, and when the divider of a single clock makes the rate exactly
(`DividersMake`). `ClockGridProofs` and `ClockTreeProofs` both build on it.

`ClockGridProofs` proves the six properties of `clock_chain` from the invariant `Answered`: a
request has its types, and a chain that was accepted is the calculated one and passed the
validation. That invariant is simple, since one step answers; what is hard is the arithmetic
under it, which holds for every rate and not just those of the grid. For `GainTimingFits` and
`UpdatesNeverReject` the bounds of `TimingAssumption` are needed: an external LNA up to 8 µs
(beyond, the products leave 32 bits) and update intervals of 0.1 to 10 ms (the default is 1 ms;
below, the delays of slow clocks may not fit, see "Also met" above).

`ClockTreeProofs` proves three of the properties of `ClockTree` from `TreeInv == Shapes /\ CallFits
/\ OffUntilBooted /\ StagesAreSet /\ FirFieldsAreSet`. `CallFits`: a call that sets clocks has an
accepted chain that the FIRs as they are now can work with. `OffUntilBooted`: the sweep of init
and the configured chain after it are for bypassed FIRs. `StagesAreSet` and `FirFieldsAreSet`:
what the stages so far have done. A clock may be skipped because its cached rate is the wanted
one already, so they speak of the cache, and of the chip only where no parent matters (the FIR
fields of factor 1). What a stage makes is near the wanted rate, not equal to it: the rounding of
the BBPLL goes down the tree, and the lemmas say that it never gets larger on the way (a clock is
its parent divided, cut to whole Hz), and that a ratio of rates that are near is the ratio of
those that were wanted, so that no stage finds one its divider cannot hold, whatever earlier
failures left in the cache. From these follow `AlwaysReportsWhatWasSet` (`ReportsWhatWasSet`),
`FirFieldsAlwaysFollow` (`FirFieldsFollowTheFlags`) and `NeverRejectsHalfway`
(`NoHalfwayRejection`), for any reference of the BBPLL.

`AdcCacheAlwaysTrue` (`AdcCacheTellsTheTruth`) needs `AdcInv` on top: without faults the BBPLL
divider in the chip is the one of the cached ADC rate, and the BBPLL runs at their product, as
rounded, but for the one stage between the two. Skipping the ADC's divider is right only if a
cached ADC rate, rounded as it is, tells which BBPLL rate it came from. That is the lemma
`Skips`, and it holds for ADC rates as `calculate_rf_clock_chain` makes them (`GoodAdc`: divisible
by 8, by 12, or by 6 between 240 and 320 MHz) and references of up to 50 MHz. The theorem assumes
both, the first of the configured chain only, since the calculated ones have it
(`CalculatedAdc`); above 50 MHz it is false ("Also met" above).

Assumptions: `SettingsAssumption` (types); `BbRefAssumption` (the reference after `ref_div_sel`);
`InitAssumption`: the configured chain passed the checks of `Ad9361Config::new`, its ADC rate is
in range, and the dividers make it with FIRs bypassed. Models start after setup, which has gone
through these same stages with it; the condition on the BBPLL leaves out the lowest 143 kHz of
its range, where the divider would be chosen differently. TLC evaluates them for the default
settings.

`CalibrationProofs`. `GivesBackWhatItBorrows` (`BorrowedIsGivenBack`) and `ForcedAlertHolds`
(`PinsCannotDisturb`) follow from `IInv == Fields /\ Forced /\ Borrowed`. `Borrowed` says at
which steps tracking, inversion bits and ENSM are as the user left them, and that under SPI
control the state read before forcing is the running one: otherwise it could not be
restored. `Forced` says that from the first step inside on, ALERT was forced (and then the
pins have no say) or was found.

`CalibrationImplementsLoan` (`GivesBack`): the initial states map to initial
states of `Loan`, and each step to `Begin`, `Use`, `End` or a stutter. It adds `Pairs` (types
of the bandwidths) and `SoFar` to `IInv`: in a call in which nothing failed so far, whatever it
found at its beginning, the tracking and inversion are back from the step on that puts them
back, and driver and filters have the asked bandwidth but for the steps in which they are wide.
Without `SoFar` an Ok could not be told from a call that happened to begin with everything in
place.

The lemmas about `find_opt` are about every set of phases, all 2^32 of them. `LongestIs`: what
`LongestRun` chooses exists and is a run that none is longer than. `FoundIs`: in the field of
64 any stretch of converging phases, also one across 31, is at most as long. `MiddleHasMargin`:
the middle of the run found is half its length away from failing. `NoMarginIsWider`: a phase
with more margin would be the middle of a longer stretch. So `SearchedIsWidest`. With those,
`CInv` adds to the above `TInv` (types, and that the search of a call was through the phases
that converge in it), `PinsRemembered` (pin control is in the chip, or remembered with the chip
in ALERT, where the next call takes nothing and so does not forget it) and `Corners` (where in
a call the filters are those of the current bandwidths, or wide enough for the tone). From it
follow `TypesHold` (`TypeOK`), `SearchConverges` (`ConvergesIfAnyPhaseDoes`), `SearchIsWidest`
(`SearchPicksTheWidestMargin`), `TonesAlwaysMeetAndFit` (`TonesMeetAndFit`) and
`PinsAlwaysRuleAgain` (`PinsRuleAgain`). `TonesAlwaysMeetAndFit` is about the filters as the
clamps leave them: a tone that a clamped filter does not have within a quarter is still within
half of it, because no tone is above 10 MHz (`ToneIsBounded`: it is at most a sixteenth of
CLKTF, or a quarter of TX's baseband bandwidth and a 64th of CLKTF). Assumptions:
`SettingsAssumption` (CLKTF is at most that of `MAX_TX_HB1`), `BandwidthsAssumption` (the range
of `RfBandwidth`), `ConvergentAssumption`.

`SetupProofs`. `NothingIsEverWiped` (`NothingIsWiped`), `TimingAlwaysFollows`
(`TimingFollowsTheClocks`), `OthersNeverPause` (`OnlyTheChangedChannelPauses`) and
`DriverAlwaysKnows` (`DriverKnowsTheModes`) are about what sequences of some hundred accesses
leave behind. A proof that executes them would be hopeless for all settings, and an invariant
about the whole chip would be as long as init. So the proof looks at one field at a time, a
`Concern`: a field, the values that are good for it, and whether these change with the rate or
the modes the driver remembers. `Knows` marks positions of a script at which the field is good,
and those at which what was saved of it is, each because of the access just before: it sets the
field to a good value, spares it, or puts back what was saved. Three things can then be said of
a script: it `Makes` a field good whatever was there, it is `Safe` for a good field (good again at
its end), or it is `Steady` (good all the way, so that it may also fail). They carry over from two
scripts to the one after the other (`CatKnows`, `CatLeads`), and from a script to what is left of it
after an access (`TailArrives`, `StepCarries`). That is shown function by function of
`SetupSteps`, with a field that is set once and spared from then on for most, and with `Knows`
spelled out where init borrows a field, sets it twice or lets a calibration into it.

The invariant is `IInv == Calling /\ Shapes /\ Telling /\ Promises`. `Promise(k, e)` is what a
concern `k` may count on, where `e` is the entry of `spoilt` for it. In init, what is left to do
arrives at a good value. In a later call, it does if the call redoes the field or if the field
was good before, and if the call is none that can spoil the field it is good at every step. When
no call runs, the field is good unless `spoilt` names it. So an error anywhere keeps the promise:
the call either has left the field good, or is one that `Spoils` accounts for. `Promises` is
that for every field that init makes good and every call takes care of (`Heeded`), and for the
mode of each channel, whose good value changes with the calls (`Answer`). `Telling` is needed with it: what
a call still has to tell the driver (its modes, its rate) is what it was called for, and a driver
without a rate is told one before it uses any. That a field is heeded is a lemma of its own for
each property, and for `NothingIsWiped` one about any field that some access of init sets
(`Owned`). Assumptions: `BoundsAssumption`; `ModesAssumption` (modes are members of the
`GainMode` enum, and settings have one for either channel); `RatesAssumption` (the model's
marks for a reset value, a zero and a calibration's value are not rates); `CutsAssumption`
(clock changes of the tuning break off after any number of accesses). The three exceptions in
`NothingIsWiped` are the fields of `Wiped`; that the rest of the tuning gives back the fields
it borrows is shown, like the rest of init, for wherever its clock changes break off. TLC
evaluates the assumptions in `setup`. `Promises` speaks of every concern and every way through
a script, which TLC cannot enumerate; it checks the four properties that follow.

Only model-checked: liveness (`CallsEnd`; liveness under fairness is out of the prover's
reach). Every safety property of every passing run is proved. No module uses RECURSIVE
operators. Where an argument needs a first or last element of a set of numbers (a governor row,
the end of a run of phases, the entry of a gain) it is from the well-foundedness of < on the
naturals (`LeastNatural`), without induction over the data.

## 5. Not modelled

The AXI implementation of `DataInterface` (another crate does the work), the framing of an SPI
access, value types and their range checks, the generators. The sleep states of
`ensm_set_state` and `trx_vco_cal_control`, which have no caller. The conversions of the port,
DAC, ADC and LNA settings to register values; the tuning words of the filters, the ADC and the
loop filters; the error tables that the gain step calibration copies inside the chip; the
baseband DC offset calibration (registers with one writer). Reading gains and RSSI.

## 6. Plan

Done: clocks, synths, tuning, calibrations, gain control, setup, the failing runs, `Loan` with
its refinement, and the theorems above. What could come next:

1. Failing runs for the pin control that init loses, the hybrid bit, and the cached ADC rate
   with a BBPLL reference above 50 MHz (all described under "Also met").
2. `Driver`: the calls of `ClockTree`, `RfPll`, `Calibration` and `DigTune` as coarse steps on
   one shared state, for the orders in which they nest.
