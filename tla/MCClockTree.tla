----------------------------- MODULE MCClockTree -----------------------------
(***************************************************************************)
(* The default settings (40 MHz reference, 2R2T, LVDS, nominal             *)
(* oversampling, the 30.72 MSPS paths of PathClocks::DEFAULT_RX and        *)
(* DEFAULT_TX) with a few rates, one of them out of the BBPLL's reach.     *)
(***************************************************************************)
EXTENDS ClockTree

MCMode == [eq2tx |-> FALSE, governor |-> 1, rx2tx2 |-> TRUE, lvds |-> TRUE]

DefaultRx == [bbpll |-> kHz(983040), converter |-> kHz(245760),
              hb3 |-> kHz(122880), hb2 |-> kHz(61440), hb1 |-> kHz(30720),
              sample |-> kHz(30720)]
DefaultTx == [DefaultRx EXCEPT !.converter = kHz(122880)]

\* the RATES of dig_tune_delay
TuneSweep == << MHz(25), MHz(40), kHz(61440) >>
NoSweep   == << >>

MCRates  == {MHz(2), kHz(30960)}
=============================================================================
