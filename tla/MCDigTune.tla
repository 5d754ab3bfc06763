------------------------------ MODULE MCDigTune ------------------------------
(***************************************************************************)
(* The default settings and the ones that differ from them in one thing.   *)
(***************************************************************************)
EXTENDS DigTune

Default == [fdd |-> TRUE, pins |-> FALSE, tune |-> "RxAndTx",
            firTune |-> TRUE, clockTune |-> FALSE]

MCConfigs == {Default, [Default EXCEPT !.fdd = FALSE], [Default EXCEPT !.pins = TRUE],
              [Default EXCEPT !.tune = "RxOnly"], [Default EXCEPT !.tune = "UseConfigured"],
              [Default EXCEPT !.firTune = FALSE], [Default EXCEPT !.clockTune = TRUE]}

OnlyDefault == {Default}
=============================================================================
