------------------------------ MODULE MCRxGain ------------------------------
(***************************************************************************)
(* RxGain with the driver's gain tables, and the rows of the synth tables  *)
(* that go with the LOs it is asked for.                                   *)
(***************************************************************************)
EXTENDS RxGain, GainTables, SynthLut

\* LOs at the edges of the bands and of the VCO divisions, in MHz.
MCLos == {375, 1301, 3001, 4000, 4001}

MCGains == {0, 70}

\* program_rfpll rejects all others; TX goes down to 47 MHz, RX to 70.
ASSUME LosAssumption == \A f \in Los : f \in Nat /\ f >= 47 /\ f <= 6000

MCLastEntry   == [t \in AllTables |-> Len(Words[t + 1]) - 1]
MCAbsGain     == [t \in AllTables |-> [i \in EntriesOf(t) |-> AbsGainOf(t, i)]]
MCQuadEntries == [t \in AllTables |-> {i \in EntriesOf(t) : IsQuadEntry(t, i)}]
MCTableFor    == [s \in BOOLEAN |-> [f \in MCLos |-> GainTableIndex(s, f)]]

RefClocks == {10, 20, 40, 49, 50, 70, 71, 80}   \* synth reference clocks

(***************************************************************************)
(* program_rfpll and rfpll_vco_init: the VCO of every LO lies between two  *)
(* rows of the table and gets the lower one, so neither end of the table   *)
(* is ever used as a fallback; the integer word fits its eleven bits and   *)
(* the divider its four. The loop of an FDD table is the slower one.       *)
(***************************************************************************)
RowFitsTheVco ==
  LET vco == VcoOf(lo)
      row == RowFor(vco)
  IN  /\ VcoMhz[row] <= vco /\ row > 1 /\ vco < VcoMhz[row - 1]
      /\ DividerOf(lo) \in 0..15
      /\ \A ref \in RefClocks :
           /\ vco \div ref < 2048
           /\ ChargePump(TRUE, RangeOf(ref))[row] < ChargePump(FALSE, RangeOf(ref))[row]
           /\ ChargePump(FALSE, RangeOf(ref))[row] < 64
=============================================================================
