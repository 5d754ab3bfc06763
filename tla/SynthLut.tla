------------------------------ MODULE SynthLut ------------------------------
(***************************************************************************)
(* The VCO and loop filter tables of the RF synths: a set for FDD with two *)
(* different LOs, a set for everything else, and in each a table per range *)
(* of the reference clock. All six have the same VCO frequencies; of the   *)
(* loop filter only the charge pump current is here. Frequencies in MHz.   *)
(***************************************************************************)
EXTENDS Integers, Sequences

VcoMhz ==
  <<12605, 12245, 11906, 11588, 11288, 11007, 10742, 10492, 10258, 10036,
    9827, 9631, 9445, 9269, 9103, 8946, 8797, 8655, 8520, 8392, 8269, 8153,
    8041, 7934, 7831, 7733, 7638, 7547, 7459, 7374, 7291, 7212, 7135, 7061,
    6988, 6918, 6850, 6784, 6720, 6658, 6597, 6539, 6482, 6427, 6373, 6321,
    6270, 6222, 6174, 6128, 6083, 6040, 5997>>

FddCurrents1 ==
  <<7, 7, 7, 8, 8, 9, 9, 10, 10, 11, 11, 12, 12, 13, 13, 14, 13, 14, 14, 15,
    15, 16, 16, 16, 16, 16, 16, 17, 17, 14, 14, 14, 15, 15, 20, 15, 15, 15,
    16, 15, 15, 15, 16, 15, 15, 15, 16, 16, 15, 15, 16, 16, 16>>

FddCurrents2 ==
  <<13, 13, 13, 14, 15, 16, 16, 17, 18, 19, 20, 21, 22, 22, 23, 24, 24, 25,
    25, 26, 27, 28, 29, 28, 29, 28, 29, 29, 30, 24, 25, 25, 26, 26, 35, 33,
    34, 35, 35, 26, 27, 27, 28, 27, 27, 27, 28, 28, 27, 27, 28, 28, 29>>

FddCurrents3 ==
  <<7, 7, 7, 7, 8, 8, 9, 9, 10, 10, 11, 11, 12, 12, 13, 13, 13, 14, 14, 15,
    15, 15, 16, 15, 16, 15, 16, 16, 17, 13, 14, 14, 14, 15, 19, 14, 15, 15,
    15, 15, 15, 15, 15, 15, 15, 15, 15, 16, 15, 15, 15, 16, 16>>

TddCurrents1 ==
  <<27, 27, 26, 28, 30, 32, 33, 35, 37, 38, 40, 42, 44, 45, 47, 49, 48, 50,
    51, 53, 55, 56, 58, 57, 58, 56, 58, 59, 61, 49, 50, 51, 52, 53, 63, 52,
    53, 54, 56, 53, 54, 55, 56, 54, 54, 55, 56, 57, 54, 55, 56, 57, 58>>

TddCurrents2 ==
  <<26, 26, 26, 30, 32, 31, 33, 37, 38, 38, 42, 41, 45, 47, 46, 48, 49, 51,
    50, 52, 56, 55, 57, 55, 57, 55, 59, 60, 48, 47, 49, 50, 52, 52, 63, 63,
    63, 63, 63, 63, 63, 63, 63, 54, 53, 54, 55, 56, 53, 55, 55, 56, 57>>

TddCurrents3 ==
  <<21, 21, 20, 22, 23, 25, 26, 27, 29, 30, 31, 33, 34, 35, 37, 38, 37, 39,
    40, 41, 43, 44, 45, 44, 45, 44, 45, 46, 47, 38, 39, 40, 41, 41, 54, 41,
    42, 42, 43, 41, 42, 43, 44, 42, 42, 43, 44, 45, 42, 43, 44, 44, 45>>

ChargePump(fdd, range) ==
  (IF fdd THEN <<FddCurrents1, FddCurrents2, FddCurrents3>>
          ELSE <<TddCurrents1, TddCurrents2, TddCurrents3>>)[range]

Size == Len(VcoMhz)

\* rfpll_vco_init: the table of a reference clock in MHz, and the first row
\* that is not above the VCO, the last one if all are.
RangeOf(ref) == IF ref < 50 THEN 1 ELSE IF ref <= 70 THEN 2 ELSE 3

RowAbove(vco) ==   \* mutant: the last row that is not below the VCO
  LET above == {r \in 1..Size : VcoMhz[r] >= vco}
  IN  IF above = {} THEN 1 ELSE CHOOSE r \in above : \A s \in above : s <= r

RowFor(vco) ==
  LET below == {r \in 1..Size : VcoMhz[r] <= vco}
  IN  IF below = {} THEN Size ELSE CHOOSE r \in below : \A s \in below : r <= s

\* program_rfpll: the LO in MHz is doubled until the VCO is above its minimum.
MinVco == 6000
Doublings(lo) == CHOOSE d \in 0..8 : lo * 2^d > MinVco /\ (d = 0 \/ lo * 2^(d - 1) <= MinVco)
VcoOf(lo)     == lo * 2^Doublings(lo)
DividerOf(lo) == Doublings(lo) - 1
=============================================================================
