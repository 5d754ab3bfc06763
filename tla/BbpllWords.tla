----------------------------- MODULE BbpllWords -----------------------------
(***************************************************************************)
(* The frequency words of the BBPLL. The BBPLL makes a whole multiple of   *)
(* its reference plus a fraction of it in steps of 1/2088960, so a rate is *)
(* rounded to the nearest step on the way into the chip, and to a whole Hz *)
(* on the way back (synth.rs, clocks.rs).                                  *)
(***************************************************************************)
EXTENDS ClockChain

CONSTANTS BbRef,      \* clk.rates.bb_ref, in Hz
          RefUnit     \* a common divisor of BbRef and the modulus

BBPLL_MODULUS == 2088960

\* ref_div_sel of a reference of 10 to 80 MHz. RefUnit only keeps products
\* within TLC's integers.
ASSUME BbRefAssumption ==
  /\ BbRef \in Nat /\ MHz(20) <= BbRef /\ BbRef <= 70007000
  /\ RefUnit \in Nat /\ RefUnit >= 1
  /\ BbRef % RefUnit = 0 /\ BBPLL_MODULUS % RefUnit = 0

RefSteps  == BBPLL_MODULUS \div RefUnit
RefPeriod == BbRef \div RefUnit

\* n * a \div b, and the nearest whole number to n * a / b.
MulDiv(n, a, b)   == (n \div b) * a + ((n % b) * a) \div b
MulRound(n, a, b) == (n \div b) * a + ((n % b) * a + b \div 2) \div b

(***************************************************************************)
(* bbpll_words, as the bytes of the four registers in the order they are   *)
(* written: INTEGER_BB_FREQ_WORD, then FRACT_BB_FREQ_WORD_3, _2 and _1,    *)
(* lowest byte first.                                                      *)
(***************************************************************************)
WordsFor(integer, fract) ==
  <<integer, fract % 256, (fract \div 256) % 256, (fract \div 65536) % 256>>

WordsTruncated(rate) ==   \* mutant: cuts the fraction off
  WordsFor(rate \div BbRef, MulDiv(rate % BbRef, RefSteps, RefPeriod))

BbpllWordsOf(rate) ==
  WordsFor(rate \div BbRef, MulRound(rate % BbRef, RefSteps, RefPeriod))

\* PllScaler::rate_from_parent of the words read back.
Fract(words) == words[2] + 256 * words[3] + 65536 * words[4]

BbpllRate(words) == BbRef * words[1] + MulDiv(Fract(words), RefPeriod, RefSteps)

\* What set_bbpll_rate makes of a rate within its limits.
Rounded(rate) == BbpllRate(BbpllWordsOf(rate))

\* Half a step, and the part of a Hz that the way back cuts off.
BbpllSlack == BbRef \div (2 * BBPLL_MODULUS) + 1
=============================================================================
