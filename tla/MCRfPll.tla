------------------------------- MODULE MCRfPll -------------------------------
(***************************************************************************)
(* Three LOs across a gain table boundary (1300 MHz), neighbours less than *)
(* the quad cal threshold apart and the outer two more, and one that only  *)
(* TX can tune to. MHz; the error of one LO's words is made large enough   *)
(* to see.                                                                 *)
(***************************************************************************)
EXTENDS RfPll

MCLOs     == {60, 1250, 1320, 1390}
MCMade    == [f \in MCLOs |-> IF f = 1320 THEN 1321 ELSE f]
MCBand    == [f \in MCLOs |-> IF f <= 1300 THEN 1 ELSE 2]
MCTunable == [s \in Sides |-> IF s = "rx" THEN MCLOs \ {60} ELSE MCLOs]
=============================================================================
