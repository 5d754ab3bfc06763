----------------------------- MODULE Registers -----------------------------
(***************************************************************************)
(* Registers of the AD9361 that the driver sets up (registers.rs), as far  *)
(* as their fields matter: those that several parts of the driver write,   *)
(* or that hold several settings. An access of the driver changes one of   *)
(* them: write_reg starts from Reg::default() and zeroes the fields it     *)
(* doesn't name, modify_reg reads the register and keeps them.             *)
(*                                                                         *)
(* The two bits of rx_channel_enable are fields of their own here.         *)
(***************************************************************************)
EXTENDS Sequences

Register(name, fields) == [name |-> name, fields |-> fields]

(* Control and clocks *)
RefDivideConfig1 == Register("RefDivideConfig1",
  {"ref_divide_config_1_dflt", "rx_ref_reset_bar", "rx_ref_divider_msb"})
RefDivideConfig2 == Register("RefDivideConfig2",
  {"rx_ref_divider_lsb", "rx_ref_doubler_fb_delay", "tx_ref_reset_bar", "tx_ref_divider",
   "tx_ref_doubler_fb_delay"})
ClockEnable == Register("ClockEnable",
  {"xo_bypass", "digital_power_up", "clock_enable_dflt", "bbpll_enable"})
BbPll == Register("BbPll",
  {"clkout_select", "clkout_enable", "dac_clk_div2", "bbpll_divider"})
RxEnableFilterControl == Register("RxEnableFilterControl",
  {"rx1_channel_enable", "rx2_channel_enable", "dec3_enable_decimation", "rhb2_en",
   "rhb1_en", "rx_fir_enable_decimation"})
TxEnableFilterControl == Register("TxEnableFilterControl",
  {"tx_channel_enable", "thb3_enable_interp", "thb2_en", "thb1_en",
   "tx_fir_enable_interpolation"})
InputSelect == Register("InputSelect", {"tx_output", "rx_input"})
ClockControl == Register("ClockControl", {"ref_freq_scaler"})

(* Ports, GPOs, auxiliary converters, external LNAs *)
ParallelPortConf1 == Register("ParallelPortConf1",
  {"pp_tx_swap_iq", "pp_rx_swap_iq", "tx_channel_swap", "rx_channel_swap",
   "rx_frame_pulse_mode", "r2t2_timing", "invert_data_bus", "invert_data_clk"})
ParallelPortConf2 == Register("ParallelPortConf2",
  {"fdd_alt_word_order", "invert_rx1", "invert_rx2", "invert_tx1", "invert_tx2",
   "invert_rx_frame", "delay_rx_data"})
ParallelPortConf3 == Register("ParallelPortConf3",
  {"fdd_rx_rate_2tx_rate", "swap_ports", "single_data_rate", "lvds_mode",
   "half_duplex_mode", "single_port_mode", "full_port", "full_duplex_swap_bits"})
RxClockDataDelay == Register("RxClockDataDelay", {"data_clk_delay", "rx_data_delay"})
TxClockDataDelay == Register("TxClockDataDelay", {"fb_clk_delay", "tx_data_delay"})
LvdsBiasControl == Register("LvdsBiasControl",
  {"clk_out_slew", "rx_on_chip_term", "lvds_bypass_bias_r", "lvds_tx_lo_vcm", "lvds_bias"})
AuxDacEnableControl == Register("AuxDacEnableControl",
  {"auxdac_manual_bar", "auxdac_auto_tx_bar", "auxdac_auto_rx_bar", "auxdac_init_bar"})
AuxDac1Config == Register("AuxDac1Config",
  {"comp_ctrl_1", "auxdac1_stp_factor", "auxdac_1_vref", "auxdac_1_word_lsb"})
AuxDac2Config == Register("AuxDac2Config",
  {"comp_ctrl_2", "auxdac2_stp_factor", "auxdac_2_vref", "auxdac_2_word_lsb"})
AutoGpo == Register("AutoGpo", {"gpo_enable_auto_rx", "gpo_enable_auto_tx"})
GpoForceAndInit == Register("GpoForceAndInit", {"gpo_manual_ctrl", "gpo_init_state"})
ExternalLnaControl == Register("ExternalLnaControl",
  {"auxdac_manual_select", "external_lna2_ctrl", "external_lna1_ctrl",
   "gpo_manual_select", "open"})
TempSense2 == Register("TempSense2",
  {"measurement_time_interval", "temp_sense_periodic_enable"})
AuxadcClockDivider == Register("AuxadcClockDivider", {"auxadc_clock_divider"})

(* Enable state machine *)
EnsmMode == Register("EnsmMode", {"fdd_mode"})
EnsmConfig1 == Register("EnsmConfig1",
  {"enable_rx_data_port_for_cal", "force_rx_on", "force_tx_on", "enable_ensm_pin_ctrl",
   "level_mode", "force_alert_state", "auto_gain_lock", "to_alert"})
EnsmConfig2 == Register("EnsmConfig2",
  {"fdd_external_ctrl_enable", "power_down_rx_synth", "power_down_tx_synth",
   "txnrx_spi_ctrl", "synth_enable_pin_ctrl_mode", "dual_synth_mode",
   "rx_synth_ready_mask", "tx_synth_ready_mask"})

(* Gain control *)
AgcConfig1 == Register("AgcConfig1",
  {"dec_pwr_for_low_pwr", "dec_pwr_for_lock_level", "dec_pwr_for_gain_lock_exit",
   "slow_attack_hybrid_mode", "rx2_gain_ctrl_setup", "rx1_gain_ctrl_setup"})
AgcConfig2 == Register("AgcConfig2",
  {"agc_soft_reset", "agc_gain_unlock_ctrl", "agc_use_full_gain_table", "dig_gain_en",
   "man_gain_ctrl_rx2", "man_gain_ctrl_rx1"})
AgcConfig3 == Register("AgcConfig3",
  {"manual_incr_step_size", "incdec_lmt_gain", "use_agc_for_lmtlpf_gain",
   "adc_overrange_sample_size"})
MaxLmtFullGain == Register("MaxLmtFullGain", {"maximum_full_tablelmt_table_index"})
PeakWaitTime == Register("PeakWaitTime",
  {"manual_ctrl_in_decr_gain_stp_size", "peak_overload_wait_time"})
DigitalGain == Register("DigitalGain", {"dig_gain_stp_size", "maximum_digital_gain"})
AgcLockLevel == Register("AgcLockLevel",
  {"enable_dig_sat_ovrg", "agc_lock_level_fast_agc_inner_high_thresh_slow"})
GainStpConfig1 == Register("GainStpConfig1",
  {"lmt_detector_settling_time", "dec_stp_size_for_large_lmt_overload",
   "adc_noise_correction_factor"})
GainStpConfig2 == Register("GainStpConfig2",
  {"decrement_stp_size_for_small_lpf_gain_change", "large_lpf_gain_step"})
SmallLmtOverloadThresh == Register("SmallLmtOverloadThresh",
  {"force_pd_reset_rx2", "force_pd_reset_rx1", "small_lmt_overload_thresh"})
Rx1ManualLmtFullGain == Register("Rx1ManualLmtFullGain",
  {"power_meas_in_state_5_msb", "rx1_manual_full_table_lmt_table_gain_index"})
Rx1ManualLpfGain == Register("Rx1ManualLpfGain",
  {"power_meas_in_state_5", "rx1_manual_lpf_gain"})
Rx2ManualLmtFullGain == Register("Rx2ManualLmtFullGain",
  {"rx2_manual_full_table_lmt_table_gain_index"})
AgcAttackDelay == Register("AgcAttackDelay",
  {"invert_bypassed_lna_polarity", "agc_attack_delay"})
AgcInnerLowThresh == Register("AgcInnerLowThresh",
  {"prevent_gain_inc", "agc_inner_low_thresh"})
LmtOverloadCounters == Register("LmtOverloadCounters",
  {"large_lmt_overload_exed_counter", "small_lmt_overload_exed_counter"})
AdcOverloadCounters == Register("AdcOverloadCounters",
  {"large_adc_overload_exed_counter", "small_adc_overload_exed_counter"})
GainStp1 == Register("GainStp1",
  {"immed_gain_change_if_lg_lmt_overload", "agc_inner_high_thresh_exed_stp_size",
   "immed_gain_change_if_lg_adc_overload", "agc_inner_low_thresh_exed_stp_size"})
GainStp2 == Register("GainStp2",
  {"agc_outer_high_thresh_exed_stp_size", "agc_outer_low_thresh_exed_stp_size"})
OuterPowerThreshs == Register("OuterPowerThreshs",
  {"agc_outer_high_thresh", "agc_outer_low_thresh"})
DigitalSatCounter == Register("DigitalSatCounter",
  {"double_gain_counter", "enable_sync_for_gain_counter", "dig_saturation_exed_counter"})
FastConfig1 == Register("FastConfig1",
  {"enable_gain_inc_after_gain_lock", "goto_opt_gain_if_energy_lost_or_en_agc_high",
   "goto_set_gain_if_en_agc_high", "goto_set_gain_if_exit_rx_state",
   "dont_unlock_gain_if_energy_lost", "goto_optimized_gain_if_exit_rx_state",
   "dont_unlock_gain_if_lg_adc_or_lmt_ovrg", "enable_incr_gain"})
FastConfig2SettlingDelay == Register("FastConfig2SettlingDelay",
  {"use_last_lock_level_for_set_gain", "enable_lmt_gain_inc_for_lock_level",
   "goto_max_gain_or_opt_gain_if_en_agc_high", "settling_delay"})
FastEnergyLostThresh == Register("FastEnergyLostThresh",
  {"post_lock_level_stp_size_for_lpf_table_full_table", "energy_lost_thresh"})
FastStrongerSignalThresh == Register("FastStrongerSignalThresh",
  {"post_lock_level_stp_for_lmt_table", "stronger_signal_thresh"})
FastLowPowerThresh == Register("FastLowPowerThresh",
  {"dont_unlock_gain_if_adc_ovrg", "low_power_thresh"})
FastStrongSignalFreeze == Register("FastStrongSignalFreeze",
  {"dont_unlock_gain_if_stronger_signal"})
FastFinalOverRangeAndOptGain == Register("FastFinalOverRangeAndOptGain",
  {"final_over_range_count", "optimize_gain_offset"})
FastEnergyDetectCount == Register("FastEnergyDetectCount",
  {"increment_gain_stp_lpflmt", "energy_detect_count"})
FastAgcllUpperLimit == Register("FastAgcllUpperLimit", {"agcll_max_increase"})
FastGainLockExitCount == Register("FastGainLockExitCount", {"gain_lock_exit_count"})
DecPowerMeasureDuration0 == Register("DecPowerMeasureDuration0",
  {"use_hb3_out_for_adc_pwr_meas", "use_hb1_out_for_dec_pwr_meas", "enable_dec_pwr_meas",
   "default_mode_adc_power", "dec_power_measurement_duration"})
GainTableConfig == Register("GainTableConfig",
  {"receiver_select", "write_gain_table", "start_gain_table_clock"})

(* RSSI and TX monitor *)
MeasureDuration01 == Register("MeasureDuration01",
  {"measurement_duration_1", "measurement_duration_0"})
MeasureDuration23 == Register("MeasureDuration23",
  {"measurement_duration_3", "measurement_duration_2"})
RssiConfig == Register("RssiConfig",
  {"rfir_for_rssi_measurement", "start_rssi_meas", "rssi_mode_select",
   "enable_adc_power_meas", "default_rssi_meas_mode"})
TpmModeEnable == Register("TpmModeEnable",
  {"tx2_mon_enable", "one_shot_mode", "tx1_mon_enable", "tx_mon_duration"})
TxLevelThresh == Register("TxLevelThresh", {"tx_level_thresh", "tx_mon_delay_counter"})
TxMonHighGain == Register("TxMonHighGain", {"tx_mon_high_gain"})
TxMonLowGain == Register("TxMonLowGain", {"tx_mon_track", "tx_mon_low_gain"})
TxMon1Config == Register("TxMon1Config", {"tx_mon_1_lo_cm", "tx_mon_1_gain"})
TxMon2Config == Register("TxMon2Config", {"tx_mon_2_lo_cm", "tx_mon_2_gain"})

(* Calibrations and filters *)
CalibrationConfig1 == Register("CalibrationConfig1",
  {"enable_phase_corr", "enable_gain_corr", "use_settle_count_for_dc_cal_wait",
   "fixed_dc_cal_wait_time", "free_run_mode", "enable_corr_word_decimation",
   "enable_tracking_mode_ch2", "enable_tracking_mode_ch1"})
CalibrationConfig2 == Register("CalibrationConfig2",
  {"soft_reset", "calibration_config2_dflt", "k_exp_phase"})
CalibrationConfig3 == Register("CalibrationConfig3",
  {"prevent_pos_loop_gain", "k_exp_amplitude"})
DcOffsetConfig2 == Register("DcOffsetConfig2",
  {"use_wait_counter_for_rf_dc_init_cal", "enable_fast_settle_mode",
   "enable_bb_dc_offset_tracking", "reset_acc_on_gain_change",
   "enable_rf_offset_tracking", "dc_offset_update"})
RfDcOffsetConfig1 == Register("RfDcOffsetConfig1", {"dac_fs", "rf_dc_calibration_count"})
InvertBits == Register("InvertBits",
  {"invert_rx2_rf_dc_cgin_word", "invert_rx1_rf_dc_cgin_word",
   "invert_rx2_rf_dc_cgout_word", "invert_rx1_rf_dc_cgout_word"})
RxQuadGain2 == Register("RxQuadGain2", {"correction_word_decimation_m", "rx_lpf_gain"})
Kexp1 == Register("Kexp1", {"kexp_tx", "kexp_tx_comp", "kexp_dc_i", "kexp_dc_q"})
Kexp2 == Register("Kexp2",
  {"tx_nco_freq", "invert_i_data", "invert_q_data", "kexp_phase", "kexp_amp"})
QuadCalNcoFreqPhaseOffset == Register("QuadCalNcoFreqPhaseOffset",
  {"rx_nco_freq", "rx_nco_phase_offset"})
QuadCalControl == Register("QuadCalControl",
  {"free_run_enable", "settle_main_enable", "dc_offset_enable", "gain_enable",
   "phase_enable", "quad_cal_soft_reset", "m_decim"})
Rx1TuneControl == Register("Rx1TuneControl",
  {"rx1_tune_resample_phase", "rx1_tune_resample", "rx1_pd_tune"})
Rx2TuneControl == Register("Rx2TuneControl",
  {"rx2_tune_resample_phase", "rx2_tune_resample", "rx2_pd_tune"})
TxTuneControl == Register("TxTuneControl",
  {"tune_ctrl", "pd_tune", "tuner_resample", "tuner_resample_phase"})
RxBbfTuneConfig == Register("RxBbfTuneConfig",
  {"tune_comp_mask", "rx_tune_evaltime", "rx_tune_mode", "rx_bbf_tune_divide"})
TxBbfTuneMode == Register("TxBbfTuneMode",
  {"tune_comp_mask", "evaltime", "tuner_mode", "tx_bbf_tune_divider"})
Tx2DigAtten == Register("Tx2DigAtten", {"immediately_update_tpc_atten"})
TxAttenOffset == Register("TxAttenOffset", {"mask_clr_atten_update", "tx_atten_offset"})

Registers ==
  {RefDivideConfig1, RefDivideConfig2, ClockEnable, BbPll, RxEnableFilterControl,
   TxEnableFilterControl, InputSelect, ClockControl, ParallelPortConf1,
   ParallelPortConf2, ParallelPortConf3, RxClockDataDelay, TxClockDataDelay,
   LvdsBiasControl, AuxDacEnableControl, AuxDac1Config, AuxDac2Config, AutoGpo,
   GpoForceAndInit, ExternalLnaControl, TempSense2, AuxadcClockDivider, EnsmMode,
   EnsmConfig1, EnsmConfig2, AgcConfig1, AgcConfig2, AgcConfig3, MaxLmtFullGain,
   PeakWaitTime, DigitalGain, AgcLockLevel, GainStpConfig1, GainStpConfig2,
   SmallLmtOverloadThresh, Rx1ManualLmtFullGain, Rx1ManualLpfGain, Rx2ManualLmtFullGain,
   AgcAttackDelay, AgcInnerLowThresh, LmtOverloadCounters, AdcOverloadCounters, GainStp1,
   GainStp2, OuterPowerThreshs, DigitalSatCounter, FastConfig1, FastConfig2SettlingDelay,
   FastEnergyLostThresh, FastStrongerSignalThresh, FastLowPowerThresh,
   FastStrongSignalFreeze, FastFinalOverRangeAndOptGain, FastEnergyDetectCount,
   FastAgcllUpperLimit, FastGainLockExitCount, DecPowerMeasureDuration0, GainTableConfig,
   MeasureDuration01, MeasureDuration23, RssiConfig, TpmModeEnable, TxLevelThresh,
   TxMonHighGain, TxMonLowGain, TxMon1Config, TxMon2Config, CalibrationConfig1,
   CalibrationConfig2, CalibrationConfig3, DcOffsetConfig2, RfDcOffsetConfig1,
   InvertBits, RxQuadGain2, Kexp1, Kexp2, QuadCalNcoFreqPhaseOffset, QuadCalControl,
   Rx1TuneControl, Rx2TuneControl, TxTuneControl, RxBbfTuneConfig, TxBbfTuneMode,
   Tx2DigAtten, TxAttenOffset}

Names    == {r.name : r \in Registers}
FieldsOf == [n \in Names |-> (CHOOSE r \in Registers : r.name = n).fields]

-----------------------------------------------------------------------------
(***************************************************************************)
(* Accesses. What a field holds is told apart by whose value it is:        *)
(*   "set"    what the settings ask for, or the mode of a channel          *)
(*   "rate"   worked out from the rates the driver has cached              *)
(*   "power"  that, or from the settings if a channel is in fast attack    *)
(*   "cal"    what a calibration needs, or a channel that is being changed *)
(*   "zero"   nothing anybody asked for; "reset" what the reset left       *)
(*   "saved"  what was read before                                         *)
(* Each is a sequence of accesses, so that they can be strung together.    *)
(***************************************************************************)
Access(op, r, vals) == <<[op |-> op, reg |-> r.name, vals |-> vals]>>

WriteReg(r, vals)  == Access("write", r, vals)
ModifyReg(r, vals) == Access("modify", r, vals)

To(v, fs) == [f \in fs |-> v]

Write(r, fs)  == WriteReg(r, To("set", fs))
WriteAll(r)   == Write(r, r.fields)
Modify(r, fs) == ModifyReg(r, To("set", fs))

\* Reads the register, and writes back what was read with some fields changed.
Save(r)          == Access("save", r, << >>)
PutBack(r, vals) ==
  Access("modify", r, [f \in r.fields |-> IF f \in DOMAIN vals THEN vals[f] ELSE "saved"])
=============================================================================
