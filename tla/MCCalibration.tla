---------------------------- MODULE MCCalibration ----------------------------
(* Instance of Calibration: CLKRF twice and equal to CLKTF, RF bandwidths    *)
(* that make the tone too wide for both filters and for the RX one (NCO      *)
(* words 0, 2 and 3), and phases that converge nowhere, across 0 and in two  *)
(* runs. A search never sees all of them converge.                           *)
EXTENDS Calibration

DoubleRx == [rf |-> 61440, tf |-> 30720]
Equal    == [rf |-> 61440, tf |-> 61440]

SettingsSet == {[clk |-> DoubleRx, inverted |-> TRUE, pinCtrl |-> FALSE],
                [clk |-> Equal, inverted |-> TRUE, pinCtrl |-> FALSE],
                [clk |-> Equal, inverted |-> FALSE, pinCtrl |-> TRUE]}

BandwidthsSet == {[rx |-> 200, tx |-> 200], [rx |-> 18000, tx |-> 40000]}

ConvergentSets == {{}, (0 .. 3) \cup (28 .. 31), (5 .. 9) \cup (20 .. 21)}

=============================================================================
