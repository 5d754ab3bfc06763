------------------------------ MODULE MCSetup ------------------------------
(* Instance of Setup: FDD over LVDS, and TDD over half duplex CMOS with one  *)
(* channel, a split table, pin control, inversion, RSSI timing in samples, a *)
(* hybrid mode, and the kinds of tuning. ClockChange has at most 23 steps,   *)
(* the first 12 for the clocks: it breaks off before the first, among the    *)
(* clocks, among the updates, or not at all.                                 *)
EXTENDS Setup

Fdd == [split_gt |-> FALSE, dig_gain_en |-> FALSE, fdd |-> TRUE, dual_synth |-> FALSE,
        ensm_pin_ctrl |-> FALSE, channels |-> {1, 2}, half_duplex |-> FALSE,
        in_samples |-> FALSE, invert_rx2 |-> TRUE, modes |-> <<"slow", "hybrid">>,
        tune |-> "both", crossed |-> FALSE]

Tdd == [Fdd EXCEPT !.fdd = FALSE, !.half_duplex = TRUE, !.modes = <<"manual", "fast">>]

SettingsSet ==
  {Fdd,
   [Fdd EXCEPT !.ensm_pin_ctrl = TRUE, !.in_samples = TRUE, !.tune = "no"],
   [Fdd EXCEPT !.ensm_pin_ctrl = TRUE, !.tune = "rx"],
   Tdd,
   [Tdd EXCEPT !.split_gt = TRUE, !.dig_gain_en = TRUE, !.channels = {2}, !.crossed = TRUE,
               !.invert_rx2 = FALSE],
   [Tdd EXCEPT !.dual_synth = TRUE, !.in_samples = TRUE, !.channels = {1}, !.tune = "no"]}

=============================================================================
