----------------------------- MODULE SetupSteps -----------------------------
(***************************************************************************)
(* What each function of the set up does to the chip, in its order, as     *)
(* sequences of accesses (Registers). s is the settings:                   *)
(*   split_gt, dig_gain_en, fdd, dual_synth, ensm_pin_ctrl                 *)
(*   channels      the channels that are used, both or one                 *)
(*   half_duplex   a half duplex CMOS port, otherwise LVDS                 *)
(*   in_samples    RSSI timing in RX samples                               *)
(*   invert_rx2    RX phase inversion                                      *)
(*   modes         the gain mode of each channel                           *)
(*   tune          what post_setup tunes: "both", "rx" or "no"             *)
(*   crossed       1R1T, and TX isn't on the channel of RX                 *)
(*                                                                         *)
(* Left out: registers with a single field that one place writes, tables,  *)
(* and what the synths, FIRs and the tuning keep to themselves (RfPll,     *)
(* ClockTree, DigTune, RxGain). A clock that is already at its rate is     *)
(* skipped by the code; writing the same to it is the same here. The chip  *)
(* is in the state it was sent to (Calibration has pins that move it), and *)
(* clock changes are those of a driver that doesn't tune after them: FIRs  *)
(* off and bb_clk_change_dig_tune_en not set, the default.                 *)
(***************************************************************************)
EXTENDS Registers, FiniteSets, Integers

When(c, accesses) == IF c THEN accesses ELSE << >>

(***************************************************************************)
(* Steps that aren't SPI accesses: the driver remembers something.         *)
(***************************************************************************)
NewRate(rate)   == <<[op |-> "rate", rate |-> rate]>>
NewModes(modes) == <<[op |-> "modes", modes |-> modes]>>

(* Ports *)
AuxdacSetup ==
     Modify(AuxDacEnableControl, {"auxdac_manual_bar"})
  \o Write(AuxDac1Config, {"auxdac_1_word_lsb", "auxdac_1_vref"})
  \o Modify(AuxDacEnableControl, {"auxdac_manual_bar"})
  \o Write(AuxDac2Config, {"auxdac_2_word_lsb", "auxdac_2_vref"})
  \o Modify(AuxDacEnableControl, {"auxdac_auto_tx_bar", "auxdac_auto_rx_bar", "auxdac_init_bar"})
  \o Modify(ExternalLnaControl, {"auxdac_manual_select"})

GpoSetup == WriteAll(AutoGpo) \o WriteAll(GpoForceAndInit)
            \o Modify(ExternalLnaControl, {"gpo_manual_select"})

SetTxChannels == Modify(TxEnableFilterControl, {"tx_channel_enable"})
SetRxChannels == Modify(RxEnableFilterControl, {"rx1_channel_enable", "rx2_channel_enable"})

Conf3(s) ==
  Write(ParallelPortConf3,
        {"fdd_rx_rate_2tx_rate"} \cup
        IF s.half_duplex
        THEN {"single_port_mode", "half_duplex_mode", "full_port", "single_data_rate",
              "swap_ports", "full_duplex_swap_bits"}
        ELSE {"lvds_mode"})

RfPortSetup == WriteAll(InputSelect)

PpPortSetup(s) ==
  WriteAll(ParallelPortConf1) \o WriteAll(ParallelPortConf2) \o Conf3(s)
  \o WriteAll(RxClockDataDelay) \o WriteAll(TxClockDataDelay)
  \o Write(LvdsBiasControl, IF s.half_duplex THEN {"clk_out_slew"} ELSE LvdsBiasControl.fields)
  \o When(s.invert_rx2, Modify(InvertBits, {"invert_rx2_rf_dc_cgout_word"}))

RestoreConf3Never(s) == << >>    \* mutant: left as the synth calibration sets it
RestoreConf3(s) == Conf3(s)

AuxadcSetup ==
  WriteReg(TempSense2,
           [measurement_time_interval |-> "rate", temp_sense_periodic_enable |-> "set"])
  \o WriteReg(AuxadcClockDivider, To("rate", AuxadcClockDivider.fields))

SetupExtLna == Modify(ExternalLnaControl, {"external_lna1_ctrl", "external_lna2_ctrl"})

(* Clocks and synths *)
PowerUp ==
     Modify(RefDivideConfig1, {"rx_ref_reset_bar"})
  \o Modify(RefDivideConfig2,
            {"tx_ref_reset_bar", "tx_ref_doubler_fb_delay", "rx_ref_doubler_fb_delay"})
  \o WriteAll(ClockEnable)
  \o Modify(ClockControl, {"ref_freq_scaler"})

SynthRefs == Modify(RefDivideConfig1, {"rx_ref_divider_msb"})
             \o Modify(RefDivideConfig2, {"rx_ref_divider_lsb"})
             \o Modify(RefDivideConfig2, {"tx_ref_divider"})

CpCalib(s) ==    \* txrx_synth_cp_calib, for one of the synths
  When(~s.fdd, ModifyReg(ParallelPortConf3, [half_duplex_mode |-> "cal"]))
  \o WriteReg(EnsmConfig2, [dual_synth_mode |-> "cal"])
  \o WriteReg(EnsmConfig1, [force_alert_state |-> "cal", to_alert |-> "cal"])
  \o WriteReg(EnsmMode, [fdd_mode |-> "cal"])

ApplyClockChain(rate) ==    \* the rates are neither the old nor the new ones meanwhile
  NewRate("mixed")
  \o Modify(BbPll, {"bbpll_divider"}) \o Modify(BbPll, {"dac_clk_div2"})
  \o Modify(RxEnableFilterControl, {"dec3_enable_decimation"})
  \o Modify(TxEnableFilterControl, {"thb3_enable_interp"})
  \o Modify(RxEnableFilterControl, {"rhb2_en"}) \o Modify(TxEnableFilterControl, {"thb2_en"})
  \o Modify(RxEnableFilterControl, {"rhb1_en"}) \o Modify(TxEnableFilterControl, {"thb1_en"})
  \o Modify(RxEnableFilterControl, {"rx_fir_enable_decimation"})
  \o Modify(TxEnableFilterControl, {"tx_fir_enable_interpolation"})
  \o NewRate(rate)

ClkoutControl == Modify(BbPll, {"clkout_enable", "clkout_select"})

(* Gain control *)
WriteGainTable ==    \* the registers around the table
     Modify(AgcConfig2, {"agc_use_full_gain_table"})
  \o WriteAll(MaxLmtFullGain)
  \o WriteReg(GainTableConfig, To("cal", GainTableConfig.fields))
  \o WriteReg(GainTableConfig, << >>)
  \o Modify(Rx1ManualLmtFullGain, {"rx1_manual_full_table_lmt_table_gain_index"})
  \o WriteAll(Rx2ManualLmtFullGain)

HybridBit(modes) == IF "hybrid" \in modes THEN "set" ELSE "zero"

GcModes(s) ==
  NewModes(s.modes)
  \o WriteReg(AgcConfig1,
       [f \in AgcConfig1.fields |->
          CASE f = "rx1_gain_ctrl_setup"     -> s.modes[1]
            [] f = "rx2_gain_ctrl_setup"     -> s.modes[2]
            [] f = "slow_attack_hybrid_mode" -> HybridBit({s.modes[1], s.modes[2]})
            [] OTHER                         -> "set"])
  \o Modify(AgcConfig2, {"man_gain_ctrl_rx1", "man_gain_ctrl_rx2", "dig_gain_en"})

GcSteps(s) ==    \* step sizes, overload thresholds, the indices of a split table
     WriteAll(AgcConfig3)
  \o Write(PeakWaitTime, {"manual_ctrl_in_decr_gain_stp_size"})
  \o When(s.dig_gain_en, WriteAll(DigitalGain))
  \o Modify(SmallLmtOverloadThresh, {"small_lmt_overload_thresh"})
  \o When(s.split_gt, WriteAll(Rx1ManualLpfGain))

GcPower ==
     WriteAll(FastLowPowerThresh)
  \o Modify(DecPowerMeasureDuration0, {"use_hb1_out_for_dec_pwr_meas"})
  \o Modify(DecPowerMeasureDuration0, {"enable_dec_pwr_meas"})
  \o Modify(DecPowerMeasureDuration0, {"dec_power_measurement_duration"})

GcThresholds ==
     Modify(AgcLockLevel, {"agc_lock_level_fast_agc_inner_high_thresh_slow"})
  \o WriteAll(AgcInnerLowThresh) \o WriteAll(OuterPowerThreshs)
  \o WriteAll(GainStp2) \o WriteAll(GainStp1)
  \o WriteAll(AdcOverloadCounters) \o WriteAll(GainStpConfig2) \o WriteAll(LmtOverloadCounters)
  \o Modify(GainStpConfig1, {"dec_stp_size_for_large_lmt_overload"})
  \o Write(DigitalSatCounter,
           {"dig_saturation_exed_counter", "enable_sync_for_gain_counter"})

GcFastSettling ==
     Modify(FastConfig1, {"enable_incr_gain"})
  \o Modify(FastEnergyDetectCount, {"increment_gain_stp_lpflmt"})
  \o Modify(FastConfig2SettlingDelay, {"enable_lmt_gain_inc_for_lock_level"})
  \o Modify(FastAgcllUpperLimit, {"agcll_max_increase"})
  \o Modify(FastEnergyLostThresh, {"post_lock_level_stp_size_for_lpf_table_full_table"})
  \o Modify(FastStrongerSignalThresh, {"post_lock_level_stp_for_lmt_table"})
  \o Modify(FastFinalOverRangeAndOptGain, {"final_over_range_count"})
  \o Modify(FastConfig1, {"enable_gain_inc_after_gain_lock"})
  \o Modify(FastConfig1, {"goto_set_gain_if_exit_rx_state",
                          "goto_optimized_gain_if_exit_rx_state"})
  \o Modify(FastConfig2SettlingDelay, {"use_last_lock_level_for_set_gain"})
  \o Modify(FastFinalOverRangeAndOptGain, {"optimize_gain_offset"})

GcFastUnlocking ==
     Modify(AgcConfig2, {"agc_gain_unlock_ctrl"})
  \o Modify(FastStrongSignalFreeze, {"dont_unlock_gain_if_stronger_signal"})
  \o Modify(FastStrongerSignalThresh, {"stronger_signal_thresh"})
  \o Modify(FastEnergyLostThresh, {"energy_lost_thresh"})
  \o Modify(FastConfig1, {"goto_opt_gain_if_energy_lost_or_en_agc_high"})
  \o Modify(FastConfig1, {"dont_unlock_gain_if_energy_lost"})
  \o Modify(FastGainLockExitCount, {"gain_lock_exit_count"})
  \o Modify(FastConfig1, {"dont_unlock_gain_if_lg_adc_or_lmt_ovrg"})
  \o Modify(FastLowPowerThresh, {"dont_unlock_gain_if_adc_ovrg"})

SetAgcPulledHigh ==
     Modify(FastConfig2SettlingDelay, {"goto_max_gain_or_opt_gain_if_en_agc_high"})
  \o Modify(FastConfig1, {"goto_set_gain_if_en_agc_high"})

GcState5 == Modify(Rx1ManualLpfGain, {"power_meas_in_state_5"})
            \o Modify(Rx1ManualLmtFullGain, {"power_meas_in_state_5_msb"})

GcUpdate ==
     ModifyReg(AgcAttackDelay, [agc_attack_delay |-> "rate"])
  \o ModifyReg(PeakWaitTime, [peak_overload_wait_time |-> "rate"])
  \o ModifyReg(FastConfig2SettlingDelay, [settling_delay |-> "rate"])
  \o ModifyReg(DecPowerMeasureDuration0, [dec_power_measurement_duration |-> "power"])
  \o ModifyReg(DigitalSatCounter, [double_gain_counter |-> "rate"])
  \o ModifyReg(FastEnergyDetectCount, [energy_detect_count |-> "rate"])

GcSetup(s) == GcModes(s) \o GcSteps(s) \o GcPower \o GcThresholds \o GcFastSettling
              \o GcFastUnlocking \o SetAgcPulledHigh \o GcState5 \o GcUpdate

(* Calibrations *)
FilterTuning ==    \* rx_bb_analog_filter_calib, tx_bb_analog_filter_calib
     Modify(RxBbfTuneConfig, {"rx_bbf_tune_divide"})
  \o WriteReg(Rx1TuneControl, [rx1_tune_resample |-> "cal"])
  \o WriteReg(Rx2TuneControl, [rx2_tune_resample |-> "cal"])
  \o Write(Rx1TuneControl, {"rx1_tune_resample", "rx1_pd_tune"})
  \o Write(Rx2TuneControl, {"rx2_tune_resample", "rx2_pd_tune"})
  \o Modify(TxBbfTuneMode, {"tx_bbf_tune_divider"})
  \o WriteReg(TxTuneControl, [tuner_resample |-> "cal", tune_ctrl |-> "cal"])
  \o Write(TxTuneControl, {"tuner_resample", "tune_ctrl", "pd_tune"})

RfDcOffsetCalib ==
     Write(RfDcOffsetConfig1, {"rf_dc_calibration_count", "dac_fs"})
  \o WriteReg(DcOffsetConfig2, [use_wait_counter_for_rf_dc_init_cal |-> "cal",
                                dc_offset_update |-> "cal"])
  \o Write(InvertBits, {"invert_rx1_rf_dc_cgout_word", "invert_rx2_rf_dc_cgout_word"})

TxQuadCalib(s) ==
  When(s.invert_rx2,
       ModifyReg(ParallelPortConf2, [invert_rx2 |-> "cal"])
       \o Save(InvertBits)
       \o WriteReg(InvertBits, To("cal", {"invert_rx1_rf_dc_cgout_word",
                                         "invert_rx2_rf_dc_cgout_word"})))
  \o Modify(Kexp2, {"tx_nco_freq"})
  \o Write(Kexp1, {"kexp_tx", "kexp_tx_comp", "kexp_dc_i", "kexp_dc_q"})
  \o WriteAll(QuadCalNcoFreqPhaseOffset)
  \o WriteReg(QuadCalControl, To("cal", QuadCalControl.fields))
  \o Write(QuadCalControl, {"settle_main_enable", "dc_offset_enable", "gain_enable",
                            "phase_enable", "m_decim"})
  \o When(s.invert_rx2,
          Modify(ParallelPortConf2, {"invert_rx2"}) \o PutBack(InvertBits, << >>))

TrackingControl ==
     Write(CalibrationConfig2, {"calibration_config2_dflt", "k_exp_phase"})
  \o Write(CalibrationConfig3, {"prevent_pos_loop_gain", "k_exp_amplitude"})
  \o Write(DcOffsetConfig2,
           {"use_wait_counter_for_rf_dc_init_cal", "dc_offset_update",
            "enable_bb_dc_offset_tracking", "enable_rf_offset_tracking"})
  \o Modify(RxQuadGain2, {"correction_word_decimation_m"})
  \o Write(CalibrationConfig1,
           {"enable_phase_corr", "enable_gain_corr", "free_run_mode",
            "enable_corr_word_decimation", "enable_tracking_mode_ch1",
            "enable_tracking_mode_ch2"})

(* Enable state machine *)
SetEnsmMode(s) ==
  WriteAll(EnsmMode)
  \o Save(EnsmConfig2)
  \o PutBack(EnsmConfig2,
       [f \in {"dual_synth_mode", "fdd_external_ctrl_enable", "synth_enable_pin_ctrl_mode",
               "txnrx_spi_ctrl"} |->
          IF \/ f = "dual_synth_mode" /\ (s.fdd \/ s.dual_synth)
             \/ f = "fdd_external_ctrl_enable" /\ s.fdd
             \/ f = "synth_enable_pin_ctrl_mode" /\ ~s.fdd /\ ~s.dual_synth
          THEN "set" ELSE "zero"])

On(s) == IF s.fdd THEN "force_tx_on" ELSE "force_rx_on"

ForcePulse == WriteReg(EnsmConfig1, [to_alert |-> "cal", force_alert_state |-> "cal"])

ForceAlert(s) ==    \* ensm_force_state from a running state; pin control is off already
                    \* if nobody asked for it
  Save(EnsmConfig1) \o ForcePulse
  \o PutBack(EnsmConfig1,
       To("cal", {"force_tx_on", "force_rx_on", "to_alert", "force_alert_state"}
                 \cup IF s.ensm_pin_ctrl THEN {"enable_ensm_pin_ctrl"} ELSE {}))

ForceFdd ==    \* from a forced ALERT, where pin control is off already
  Save(EnsmConfig1) \o ForcePulse \o PutBack(EnsmConfig1, To("cal", {"force_tx_on", "to_alert"}))

Unforced == {"force_tx_on", "force_rx_on", "force_alert_state"}

RestoreAlert ==    \* ensm_restore_state, to ALERT
  Save(EnsmConfig1) \o ForcePulse
  \o PutBack(EnsmConfig1, [f \in Unforced \cup {"to_alert"} |->
                            IF f = "to_alert" THEN "set" ELSE "zero"])

\* saved_pin_ctrl_enable is what the last force has found. The tuning forces a
\* state inside another one, which finds the pin control off.
PinsRemembered(s) == s.ensm_pin_ctrl /\ s.tune = "no"

RestoreRunning(s) ==    \* to the running state
  Save(EnsmConfig1) \o ForcePulse
  \o LET config == [f \in Unforced \cup {"to_alert"} |->
                     IF f \in {On(s), "to_alert"} THEN "set" ELSE "zero"]
     IN  PutBack(EnsmConfig1, config)
         \o When(PinsRemembered(s),
                 PutBack(EnsmConfig1, [f \in DOMAIN config \cup {"enable_ensm_pin_ctrl"} |->
                   IF f = "enable_ensm_pin_ctrl" THEN "set" ELSE config[f]]))

PdResets == {"force_pd_reset_rx1", "force_pd_reset_rx2"}

EnsmSetRunning(s) ==    \* ensm_set_state, from ALERT
  When(~s.fdd /\ ~s.ensm_pin_ctrl /\ ~s.dual_synth,
       ModifyReg(EnsmConfig2, [txnrx_spi_ctrl |-> "zero"]))    \* RX, not TX
  \o Write(EnsmConfig1, {"level_mode", "enable_ensm_pin_ctrl", "enable_rx_data_port_for_cal",
                         "to_alert", On(s)})
  \o When(~s.fdd /\ \E c \in {1, 2} : s.modes[c] = "manual",
          Save(SmallLmtOverloadThresh)
          \o PutBack(SmallLmtOverloadThresh, To("cal", PdResets))
          \o PutBack(SmallLmtOverloadThresh, To("zero", PdResets)))

SetTxAtten == ModifyReg(Tx2DigAtten, [immediately_update_tpc_atten |-> "cal"])
              \o Modify(Tx2DigAtten, {"immediately_update_tpc_atten"})

(* RSSI and TX monitor *)
RssiSetup(s) ==
  LET timing == IF s.in_samples THEN "set" ELSE "rate"
  IN  WriteReg(MeasureDuration01, To(timing, MeasureDuration01.fields))
      \o WriteReg(MeasureDuration23, To(timing, MeasureDuration23.fields))
      \o WriteReg(RssiConfig, [rssi_mode_select |-> "set", start_rssi_meas |-> "set",
                               default_rssi_meas_mode |-> timing])

RssiUpdate(s) == When(~s.in_samples, RssiSetup(s))

RssiGainStepCalib ==    \* from ALERT, where nothing has to be forced
  WriteReg(RssiConfig, [rssi_mode_select |-> "cal", default_rssi_meas_mode |-> "cal"])
  \o WriteReg(MeasureDuration01, [measurement_duration_0 |-> "cal"])
  \o RestoreAlert

TxmonSetup ==
     Write(TpmModeEnable, {"one_shot_mode", "tx_mon_duration"})
  \o Modify(TxLevelThresh, {"tx_mon_delay_counter"})
  \o WriteAll(TxMon1Config) \o WriteAll(TxMon2Config)
  \o Write(TxMonHighGain, {"tx_mon_high_gain"})
  \o Write(TxMonLowGain, {"tx_mon_track", "tx_mon_low_gain"})

-----------------------------------------------------------------------------
(***************************************************************************)
(* The calls.                                                              *)
(***************************************************************************)
BbClkUpdate(s) == GcUpdate \o RssiUpdate(s) \o AuxadcSetup

SetTrxClockChainEarly(s, rate) == BbClkUpdate(s) \o ApplyClockChain(rate)    \* mutant: wrong order
SetTrxClockChain(s, rate) == ApplyClockChain(rate) \o BbClkUpdate(s)

(***************************************************************************)
(* The tuning of post_setup. It mutes TX, sweeps the delays at three rates *)
(* (the same accesses again, so once here) and unmutes. It carries on when *)
(* a clock change breaks off, wherever that is: cut is the number of its   *)
(* accesses that are still made, for the sweep of RX and for that of TX.   *)
(***************************************************************************)
Prefix(q, n) == SubSeq(q, 1, IF n < Len(q) THEN n ELSE Len(q))

ClockChange(s) == SetTrxClockChain(s, "mixed")    \* set_trx_clock_chain_freq_no_tune

SetIntfDelay(s, delays, v) ==
  ForceAlert(s) \o WriteReg(delays, To(v, delays.fields)) \o ForceFdd

DigTuneDelay(s, delays, n) ==
  Prefix(ClockChange(s), n) \o SetIntfDelay(s, delays, "cal") \o SetIntfDelay(s, delays, "set")

TuneEnsmMode ==    \* set_ensm_mode(true, false) in TDD
  WriteReg(EnsmMode, [fdd_mode |-> "cal"])
  \o Save(EnsmConfig2)
  \o PutBack(EnsmConfig2,
       [f \in {"dual_synth_mode", "fdd_external_ctrl_enable", "synth_enable_pin_ctrl_mode",
               "txnrx_spi_ctrl"} |-> IF f = "dual_synth_mode" THEN "cal" ELSE "zero"])

LoopBack      == ModifyReg(TxEnableFilterControl, [tx_channel_enable |-> "cal"])
NoLoopBack(s) == When(s.crossed, SetTxChannels)

Sweeps(s, cut) ==
  SetTxAtten \o When(~s.fdd, TuneEnsmMode)
  \o NoLoopBack(s) \o DigTuneDelay(s, RxClockDataDelay, cut.rx)
  \o When(s.tune = "both",
          When(s.crossed, LoopBack) \o DigTuneDelay(s, TxClockDataDelay, cut.tx))
  \o NoLoopBack(s)

UseConfigured(s) ==
  ForceAlert(s) \o WriteAll(RxClockDataDelay) \o WriteAll(TxClockDataDelay)

DigTune(s, cut) ==
  (IF s.tune = "no" THEN UseConfigured(s) ELSE Sweeps(s, cut))
  \o When(~s.fdd, SetEnsmMode(s)) \o RestoreRunning(s) \o SetTxAtten

Setup(s, rate) ==
  AuxdacSetup \o GpoSetup \o PowerUp \o SetTrxClockChain(s, rate)
  \o SetTxChannels \o SetRxChannels \o RfPortSetup \o PpPortSetup(s)
  \o AuxadcSetup \o SetupExtLna \o SynthRefs \o CpCalib(s) \o CpCalib(s)
  \o WriteGainTable \o GcSetup(s)
  \o FilterTuning \o RfDcOffsetCalib \o TxQuadCalib(s) \o TrackingControl
  \o RestoreConf3(s) \o SetEnsmMode(s)
  \o Modify(TxAttenOffset, {"mask_clr_atten_update"}) \o SetTxAtten
  \o When(Cardinality(s.channels) = 1, SetTxAtten)
  \o RssiSetup(s) \o RssiGainStepCalib \o ClkoutControl \o TxmonSetup \o EnsmSetRunning(s)

PostSetup(s, rate, cut) ==
  DigTune(s, cut) \o SetTrxClockChain(s, rate) \o ForceAlert(s) \o RestoreRunning(s)

InitScript(s, rate, cut) == Setup(s, rate) \o PostSetup(s, rate, cut)

Rx(c) == IF c = 1 THEN "rx1_channel_enable" ELSE "rx2_channel_enable"

GainModeFieldOfOne(c) == "rx1_gain_ctrl_setup"    \* mutant: channel 2 is forgotten
GainModeField(c) == IF c = 1 THEN "rx1_gain_ctrl_setup" ELSE "rx2_gain_ctrl_setup"

\* Turning off a channel that isn't used changes nothing.
PausedAll(s, c) == {Rx(d) : d \in s.channels}    \* mutant: the mask isn't inverted
Paused(s, c)    == {Rx(d) : d \in s.channels \cap {c}}

SetGainModeScript(s, c, mode) ==
     Save(RxEnableFilterControl)
  \o ModifyReg(RxEnableFilterControl, To("cal", Paused(s, c)))
  \o ModifyReg(AgcConfig1, [f \in {GainModeField(c), "slow_attack_hybrid_mode"} |->
                             IF f = GainModeField(c) THEN mode ELSE HybridBit({mode})])
  \o NewModes([d \in {c} |-> mode])
  \o ModifyReg(RxEnableFilterControl,
               To("saved", {"rx1_channel_enable", "rx2_channel_enable"}))
  \o GcUpdate
=============================================================================
