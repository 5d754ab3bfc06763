----------------------------- MODULE RfPllProofs -----------------------------
(***************************************************************************)
(* For every set of LOs, every threshold and any number of faults: the     *)
(* loop of program_rfpll never computes words for an LO that was never     *)
(* programmed (it would not end), and it programs each synth at most once. *)
(* And as long as no SPI transfer fails, lost locks or not, the two synths *)
(* hold their LOs on tables that fit each other and the gain table is the  *)
(* one of the band; without any fault the cached rates and the TX          *)
(* calibration follow as well.                                             *)
(***************************************************************************)
EXTENDS RfPll, TLAPS

Busy == {"vco", "words", "lock", "gain", "readback", "quad"}

(***************************************************************************)
(* A synth can only be on the TDD table because the LOs were equal, and    *)
(* then both had been programmed.                                          *)
(***************************************************************************)
TddMeansBothKnown ==
  Shared => \A s \in Sides : tdd[s] => lo["rx"] # None /\ lo["tx"] # None

(***************************************************************************)
(* The call in progress: its LO is remembered, its words are for a real    *)
(* LO, and a synth it has been through is on the table the LOs call for.   *)
(***************************************************************************)
CallInv ==
  /\ pc \notin Busy => call.pass = 0
  /\ pc \in Busy =>
       /\ call.freq \in LOs /\ lo[call.side] = call.freq
       /\ call.word \in LOs
       /\ call.pass \in {1, 2}
       /\ call.pass = 1 => call.synth = call.side
       /\ call.pass = 2 => /\ call.synth = Other(call.side)
                           /\ tdd[call.side] = ~FddTable
                           /\ word[call.side] \in LOs
       /\ pc \in {"words", "lock"} => tdd[call.synth] = ~FddTable
       /\ pc = "lock" => word[call.synth] \in LOs
       /\ pc \in {"gain", "readback"} => word[call.side] \in LOs

IInv == TypeOK /\ TddMeansBothKnown /\ CallInv

-----------------------------------------------------------------------------
(* The record that stands for no call is a call record. *)
LEMMA NoCallOK == NoCall \in CallState
  BY DEF NoCall, CallState, PassBound, Sides, Freqs

(* The starting state satisfies the invariant. *)
LEMMA InitIInv == Init => IInv
<1> SUFFICES ASSUME Init PROVE IInv
  OBVIOUS
<1>1. DriverOK
  BY LOsAssumption, StartAssumption, BandAssumption DEF Init, DriverOK, Fresh, Freqs, None
<1>2. ChipOK
  BY StartAssumption, BandAssumption DEF Init, ChipOK, Fresh, Freqs, Tables, None
<1>3. CallOK
  <2>1. pc \in Pcs /\ result \in {"ok", "Spi", "Timeout"}
    BY DEF Init, Pcs
  <2>2. call \in CallState
    BY NoCallOK DEF Init
  <2>3. spiFaults \in 0..MaxSpiFaults /\ timeouts \in 0..MaxTimeouts
    <3>1. spiFaults = 0 /\ timeouts = 0
      BY DEF Init
    <3> QED
      BY <3>1, BoundsAssumption
  <2> QED
    BY <2>1, <2>2, <2>3 DEF CallOK
<1>4. TddMeansBothKnown
  BY DEF Init, TddMeansBothKnown, Fresh
<1>5. CallInv
  BY DEF Init, CallInv, Busy, NoCall
<1> QED
  BY <1>1, <1>2, <1>3, <1>4, <1>5 DEF IInv, TypeOK

-----------------------------------------------------------------------------
(* A call that returns leaves nothing in progress. *)
LEMMA ReturnEnds ==
  ASSUME NEW res, Return(res)
  PROVE  /\ pc' \in Pcs /\ pc' \notin Busy
         /\ call' = NoCall /\ call'.pass = 0
         /\ result' = res
  BY DEF Return, Pcs, Busy, NoCall

(* The fault counters stay within their bounds. *)
LEMMA CountsOK ==
  ASSUME CallOK, UNCHANGED counts \/ SpiFault \/ Timeout
  PROVE  spiFaults' \in 0..MaxSpiFaults /\ timeouts' \in 0..MaxTimeouts
  BY BoundsAssumption DEF CallOK, SpiFault, Timeout, counts

(* A call that begins. *)
LEMMA BeginIInv ==
  ASSUME IInv, NEW side \in Sides, NEW freq \in LOs, Begin(side, freq),
         UNCHANGED <<tdd, rate, gainTable, lastQuad, chip, counts>>
  PROVE  IInv'
<1>1. lo' = [lo EXCEPT ![side] = freq] /\ lo \in [Sides -> Freqs] /\ freq # None
  BY LOsAssumption DEF Begin, IInv, TypeOK, DriverOK
<1>2. DriverOK'
  BY <1>1 DEF IInv, TypeOK, DriverOK, Freqs
<1>3. ChipOK'
  BY DEF IInv, TypeOK, ChipOK, chip
<1>4. CallOK'
  <2>1. call' \in CallState
    BY DEF Begin, CallState, Freqs, PassBound
  <2>2. pc' \in Pcs /\ result' = result
    BY DEF Begin, Pcs
  <2> QED
    BY <2>1, <2>2, CountsOK DEF CallOK, IInv, TypeOK
<1>5. TddMeansBothKnown'
  BY <1>1 DEF IInv, TddMeansBothKnown, Sides
<1>6. CallInv'
  <2>1. call'.freq = freq /\ call'.side = side /\ call'.word = freq /\ call'.pass = 1
        /\ call'.synth = side /\ pc' = "vco"
    BY DEF Begin
  <2>2. lo'[side] = freq
    BY <1>1
  <2> QED
    BY <2>1, <2>2 DEF CallInv, Busy
<1> QED
  BY <1>2, <1>3, <1>4, <1>5, <1>6 DEF IInv, TypeOK

(* rfpll_vco_init records the table the two LOs call for. *)
LEMMA VcoInitIInv == IInv /\ VcoInit => IInv'
<1> SUFFICES ASSUME IInv, VcoInit PROVE IInv'
  OBVIOUS
<1>0. DriverOK /\ ChipOK /\ CallOK /\ TddMeansBothKnown /\ CallInv
  BY DEF IInv, TypeOK
<1>1. /\ pc = "vco" /\ pc \in Busy /\ pc # "lock"
      /\ tdd' = [tdd EXCEPT ![call.synth] = ~FddTable]
      /\ UNCHANGED <<lo, rate, gainTable, lastQuad, word, locked, chipGain, quadAt>>
  BY DEF VcoInit, Busy
<1>2. /\ call.side \in Sides /\ call.synth \in Sides
      /\ call.freq \in LOs /\ lo[call.side] = call.freq /\ lo[call.side] # None
      /\ FddTable \in BOOLEAN
  BY <1>0, <1>1, LOsAssumption, SharedAssumption DEF CallOK, CallState, CallInv, FddTable, SameLo
<1>3. DriverOK'
  BY <1>0, <1>1, <1>2 DEF DriverOK
<1>4. ChipOK'
  <2>1. vco' \in [Sides -> Tables]
    BY <1>0, <1>2 DEF VcoInit, ChipOK, Tables
  <2> QED
    BY <1>0, <1>1, <2>1 DEF ChipOK
<1>5. CallOK'
  <2>1. \/ pc' = "words" /\ UNCHANGED <<call, result, counts>>
        \/ SpiFault /\ Return("Spi")
    BY DEF VcoInit
  <2> QED
    BY <1>0, <2>1, ReturnEnds, NoCallOK, CountsOK DEF CallOK, Pcs
<1>6. TddMeansBothKnown'
  <2>1. Shared /\ ~FddTable => lo["rx"] # None /\ lo["tx"] # None
    BY <1>2 DEF FddTable, SameLo, Sides
  <2> QED
    BY <1>0, <1>1, <1>2, <2>1 DEF TddMeansBothKnown, DriverOK, Sides
<1>7. CallInv'
  <2>1. CASE Return("Spi")
    BY <2>1, ReturnEnds DEF CallInv
  <2>2. CASE pc' = "words" /\ UNCHANGED <<call, result, counts>>
    <3>1. FddTable' = FddTable
      BY <1>1 DEF FddTable, SameLo
    <3>2. call.pass = 2 => call.synth # call.side /\ tdd'[call.side] = tdd[call.side]
      BY <1>0, <1>1, <1>2 DEF CallInv, Other, Sides, DriverOK
    <3>3. tdd'[call.synth] = ~FddTable
      BY <1>0, <1>1, <1>2 DEF DriverOK
    <3> QED
      BY <1>0, <1>1, <2>2, <3>1, <3>2, <3>3 DEF CallInv, Busy
  <2> QED
    BY <2>1, <2>2 DEF VcoInit
<1> QED
  BY <1>3, <1>4, <1>5, <1>6, <1>7 DEF IInv, TypeOK

(* The words, for an LO that is known. *)
LEMMA WriteWordsIInv == IInv /\ WriteWords => IInv'
<1> SUFFICES ASSUME IInv, WriteWords PROVE IInv'
  OBVIOUS
<1>0. DriverOK /\ ChipOK /\ CallOK /\ TddMeansBothKnown /\ CallInv
  BY DEF IInv, TypeOK
<1>1. /\ pc = "words" /\ pc \in Busy
      /\ UNCHANGED <<lo, tdd, rate, gainTable, lastQuad, vco, chipGain, quadAt>>
  BY DEF WriteWords, Busy, driver
<1>2. call.side \in Sides /\ call.synth \in Sides /\ call.word \in LOs
  BY <1>0, <1>1 DEF CallOK, CallState, CallInv
<1>3. DriverOK'
  BY <1>0, <1>1 DEF DriverOK
<1>4. ChipOK'
  <2>1. word' \in [Sides -> Freqs] /\ locked' \in [Sides -> BOOLEAN]
    BY <1>0, <1>2 DEF WriteWords, ChipOK, Freqs
  <2> QED
    BY <1>0, <1>1, <2>1 DEF ChipOK
<1>5. CallOK'
  <2>1. \/ pc' = "lock" /\ UNCHANGED <<call, result, counts>>
        \/ SpiFault /\ Return("Spi")
    BY DEF WriteWords
  <2> QED
    BY <1>0, <2>1, ReturnEnds, NoCallOK, CountsOK DEF CallOK, Pcs
<1>6. TddMeansBothKnown'
  BY <1>0, <1>1 DEF TddMeansBothKnown
<1>7. CallInv'
  <2>1. CASE Return("Spi")
    BY <2>1, ReturnEnds DEF CallInv
  <2>2. CASE /\ word' = [word EXCEPT ![call.synth] = call.word]
             /\ pc' = "lock" /\ UNCHANGED <<call, result, counts>>
    <3>1. FddTable' = FddTable
      BY <1>1 DEF FddTable, SameLo
    <3>2. word'[call.synth] \in LOs /\ (word[call.side] \in LOs => word'[call.side] \in LOs)
      BY <1>0, <1>2, <2>2 DEF ChipOK
    <3> QED
      BY <1>0, <1>1, <2>2, <3>1, <3>2 DEF CallInv, Busy
  <2> QED
    BY <2>1, <2>2 DEF WriteWords
<1> QED
  BY <1>3, <1>4, <1>5, <1>6, <1>7 DEF IInv, TypeOK

(***************************************************************************)
(* Another pass is for a synth whose LO is known, and only follows the     *)
(* first one: after the second, both tables are the ones the LOs call for. *)
(***************************************************************************)
LEMMA NoThirdPass ==
  ASSUME IInv, pc = "lock", OtherIsOff
  PROVE  /\ call.pass = 1
         /\ ~SameLo => lo[Other(call.synth)] \in LOs
<1>1. DriverOK /\ CallOK /\ TddMeansBothKnown /\ CallInv /\ pc \in Busy
  BY DEF IInv, TypeOK, Busy
<1>2. call.pass # 2
  <2> SUFFICES ASSUME call.pass = 2 PROVE FALSE
    OBVIOUS
  <2>1. /\ tdd[call.side] = ~FddTable /\ tdd[call.synth] = ~FddTable
        /\ call.side \in Sides /\ call.synth = Other(call.side)
    BY <1>1 DEF CallInv, CallOK, CallState
  <2>2. tdd["rx"] = ~FddTable /\ tdd["tx"] = ~FddTable
    BY <2>1 DEF Sides, Other
  <2> QED
    BY <2>2 DEF OtherIsOff, FddTable, TablesDiffer, AnyTdd, SameLo
<1>3. ~SameLo => \A s \in Sides : lo[s] \in LOs
  BY <1>1 DEF OtherIsOff, AnyTdd, TddMeansBothKnown, Sides, DriverOK, Freqs
<1> QED
  BY <1>1, <1>2, <1>3 DEF CallInv, CallOK, CallState, Other, Sides

(* The end of a pass: another one, the rest of the call, or an error. *)
LEMMA WaitLockIInv == IInv /\ WaitLock => IInv'
<1> SUFFICES ASSUME IInv, WaitLock PROVE IInv'
  OBVIOUS
<1>0. DriverOK /\ ChipOK /\ CallOK /\ TddMeansBothKnown /\ CallInv
  BY DEF IInv, TypeOK
<1>1. /\ pc = "lock" /\ pc \in Busy
      /\ UNCHANGED <<lo, tdd, rate, gainTable, lastQuad, vco, word, chipGain, quadAt>>
      /\ locked' \in [Sides -> BOOLEAN]
      /\ UNCHANGED counts \/ SpiFault \/ Timeout
      /\ \E lock \in {"ok", "Timeout", "Spi"} : AfterLock(lock)
  BY <1>0 DEF WaitLock, Busy, driver, ChipOK
<1>2. /\ call.side \in Sides /\ call.synth \in Sides
      /\ call.freq \in LOs /\ call.word \in LOs /\ call \in CallState
  BY <1>0, <1>1 DEF CallOK, CallState, CallInv
<1>3. DriverOK'
  BY <1>0, <1>1 DEF DriverOK
<1>4. ChipOK'
  BY <1>0, <1>1 DEF ChipOK
<1>5. TddMeansBothKnown'
  BY <1>0, <1>1 DEF TddMeansBothKnown
<1>6. FddTable' = FddTable
  BY <1>1 DEF FddTable, SameLo
<1>7. CallOK' /\ CallInv'
  <2>1. CASE OtherIsOff /\ ProgramOther
    <3>1. /\ call.pass = 1 /\ call.synth = call.side
          /\ ~SameLo => lo[Other(call.synth)] \in LOs
      BY <1>0, <1>1, <2>1, NoThirdPass DEF CallInv
    <3>2. Other(call.side) \in Sides /\ (IF SameLo THEN call.word ELSE lo[Other(call.synth)]) \in LOs
      BY <1>2, <3>1 DEF Other, Sides
    <3>3. /\ call'.side = call.side /\ call'.freq = call.freq
          /\ call'.synth = Other(call.side)
          /\ call'.word \in LOs /\ call'.pass = 2
      BY <2>1, <3>1, <3>2 DEF ProgramOther, PassBound
    <3>4. call' \in CallState
      BY <1>2, <2>1, <3>1, <3>2 DEF ProgramOther, CallState, PassBound, Freqs
    <3>5. pc' = "vco" /\ result' = result
      BY <2>1 DEF ProgramOther
    <3>6. CallOK'
      BY <1>0, <1>1, <3>4, <3>5, CountsOK DEF CallOK, Pcs
    <3>7. CallInv'
      BY <1>0, <1>1, <1>6, <3>1, <3>3, <3>5 DEF CallInv, Busy
    <3> QED
      BY <3>6, <3>7
  <2>2. CASE \E lock \in {"Timeout", "Spi"} : Return(lock)
    <3> PICK lock \in {"Timeout", "Spi"} : Return(lock)
      BY <2>2
    <3> QED
      BY <1>0, <1>1, ReturnEnds, NoCallOK, CountsOK DEF CallOK, CallInv
  <2>3. CASE ~OtherIsOff /\ pc' \in {"gain", "readback"} /\ UNCHANGED <<call, result>>
    <3>1. CallOK'
      BY <1>0, <1>1, <2>3, CountsOK DEF CallOK, Pcs
    <3>2. CallInv'
      BY <1>0, <1>1, <1>2, <1>6, <2>3 DEF CallInv, Busy
    <3> QED
      BY <3>1, <3>2
  <2> QED
    BY <1>1, <2>1, <2>2, <2>3 DEF AfterLock
<1> QED
  BY <1>3, <1>4, <1>5, <1>7 DEF IInv, TypeOK

(* The gain table of an LO that is known. *)
LEMMA LoadGainTableIInv == IInv /\ LoadGainTable => IInv'
<1> SUFFICES ASSUME IInv, LoadGainTable PROVE IInv'
  OBVIOUS
<1>0. DriverOK /\ ChipOK /\ CallOK /\ TddMeansBothKnown /\ CallInv
  BY DEF IInv, TypeOK
<1>1. /\ pc = "gain" /\ pc \in Busy /\ call.freq \in LOs
      /\ UNCHANGED <<lo, tdd, rate, lastQuad, vco, word, locked, quadAt>>
  BY <1>0 DEF LoadGainTable, Busy, CallInv
<1>2. Band[call.freq] \in Nat \ {None}
  BY <1>1, BandAssumption
<1>3. DriverOK'
  BY <1>0, <1>1, <1>2 DEF DriverOK, LoadGainTable
<1>4. ChipOK'
  BY <1>0, <1>1, <1>2 DEF ChipOK, LoadGainTable, None
<1>5. TddMeansBothKnown'
  BY <1>0, <1>1 DEF TddMeansBothKnown
<1>6. CASE SpiFault /\ Return("Spi")
  <2>1. CallOK'
    BY <1>0, <1>6, ReturnEnds, NoCallOK, CountsOK DEF CallOK
  <2>2. CallInv'
    BY <1>6, ReturnEnds DEF CallInv
  <2> QED
    BY <1>3, <1>4, <1>5, <2>1, <2>2 DEF IInv, TypeOK
<1>7. CASE pc' = "readback" /\ UNCHANGED <<call, result, counts>>
  <2>1. CallOK'
    BY <1>0, <1>7, CountsOK DEF CallOK, Pcs
  <2>2. FddTable' = FddTable
    BY <1>1 DEF FddTable, SameLo
  <2>3. CallInv'
    BY <1>0, <1>1, <1>7, <2>2 DEF CallInv, Busy
  <2> QED
    BY <1>3, <1>4, <1>5, <2>1, <2>3 DEF IInv, TypeOK
<1> QED
  BY <1>6, <1>7 DEF LoadGainTable

(* The cached rate is what the words of a known LO make. *)
LEMMA ReadbackIInv == IInv /\ Readback => IInv'
<1> SUFFICES ASSUME IInv, Readback PROVE IInv'
  OBVIOUS
<1>0. DriverOK /\ ChipOK /\ CallOK /\ TddMeansBothKnown /\ CallInv
  BY DEF IInv, TypeOK
<1>1. /\ pc = "readback" /\ pc \in Busy /\ word[call.side] \in LOs /\ call.side \in Sides
      /\ UNCHANGED <<lo, tdd, gainTable, lastQuad>> /\ UNCHANGED chip
  BY <1>0 DEF Readback, Busy, CallInv, CallOK, CallState
<1>2. DriverOK'
  BY <1>0, <1>1, MadeAssumption DEF DriverOK, Readback
<1>3. ChipOK'
  BY <1>0, <1>1 DEF ChipOK, chip
<1>4. TddMeansBothKnown'
  BY <1>0, <1>1 DEF TddMeansBothKnown
<1>5. \/ (UNCHANGED counts \/ SpiFault) /\ (Return("ok") \/ Return("Spi"))
      \/ pc' = "quad" /\ UNCHANGED <<call, result, counts>>
  BY DEF Readback
<1>6. CASE (UNCHANGED counts \/ SpiFault) /\ (Return("ok") \/ Return("Spi"))
  <2>1. CallOK'
    BY <1>0, <1>6, ReturnEnds, NoCallOK, CountsOK DEF CallOK
  <2>2. CallInv'
    BY <1>6, ReturnEnds DEF CallInv
  <2> QED
    BY <1>2, <1>3, <1>4, <2>1, <2>2 DEF IInv, TypeOK
<1>7. CASE pc' = "quad" /\ UNCHANGED <<call, result, counts>>
  <2>1. CallOK'
    BY <1>0, <1>7, CountsOK DEF CallOK, Pcs
  <2>2. FddTable' = FddTable
    BY <1>1 DEF FddTable, SameLo
  <2>3. CallInv'
    BY <1>0, <1>1, <1>7, <2>2 DEF CallInv, Busy, chip
  <2> QED
    BY <1>2, <1>3, <1>4, <2>1, <2>3 DEF IInv, TypeOK
<1> QED
  BY <1>5, <1>6, <1>7

(* The calibration ends the call. *)
LEMMA TxQuadCalIInv == IInv /\ TxQuadCal => IInv'
<1> SUFFICES ASSUME IInv, TxQuadCal PROVE IInv'
  OBVIOUS
<1>0. DriverOK /\ ChipOK /\ CallOK /\ TddMeansBothKnown /\ CallInv
  BY DEF IInv, TypeOK
<1>1. /\ pc = "quad" /\ call.freq \in LOs /\ lastQuad' = call.freq
      /\ UNCHANGED <<lo, tdd, rate, gainTable, vco, word, locked, chipGain>>
      /\ quadAt' \in {quadAt, call.freq}
      /\ UNCHANGED counts \/ SpiFault \/ Timeout
  BY <1>0 DEF TxQuadCal, Busy, CallInv
<1>2. DriverOK'
  BY <1>0, <1>1, LOsAssumption DEF DriverOK
<1>3. ChipOK'
  BY <1>0, <1>1 DEF ChipOK, Freqs
<1>4. TddMeansBothKnown'
  BY <1>0, <1>1 DEF TddMeansBothKnown
<1>5. /\ pc' \in Pcs /\ pc' \notin Busy /\ call' = NoCall /\ call'.pass = 0
      /\ result' \in {"ok", "Timeout", "Spi"}
  <2>1. CASE pc' = "idle" /\ call' = NoCall /\ result' = "ok"
    BY <2>1 DEF Pcs, Busy, NoCall
  <2>2. CASE Return("Timeout") \/ Return("Spi")
    BY <2>2, ReturnEnds
  <2> QED
    BY <2>1, <2>2 DEF TxQuadCal
<1>6. CallOK' /\ CallInv'
  BY <1>0, <1>1, <1>5, NoCallOK, CountsOK DEF CallOK, CallInv
<1> QED
  BY <1>2, <1>3, <1>4, <1>6 DEF IInv, TypeOK

(* A call that is refused or has nothing to do leaves everything as it was. *)
LEMMA SetLoIInv ==
  ASSUME IInv, NEW side \in Sides, NEW freq \in LOs, SetLo(side, freq)
  PROVE  IInv'
<1>1. CASE Begin(side, freq)
  BY <1>1, BeginIInv DEF SetLo
<1>2. CASE result' = "ok" /\ UNCHANGED <<lo, call, pc>>
  <2>1. UNCHANGED <<lo, tdd, rate, gainTable, lastQuad, pc, call, counts>> /\ UNCHANGED chip
    BY <1>2 DEF SetLo
  <2>2. DriverOK' /\ ChipOK' /\ CallOK'
    BY <1>2, <2>1, CountsOK DEF IInv, TypeOK, DriverOK, ChipOK, CallOK, chip
  <2>3. TddMeansBothKnown' /\ CallInv'
    BY <2>1 DEF IInv, TddMeansBothKnown, CallInv, FddTable, SameLo, chip
  <2> QED
    BY <2>2, <2>3 DEF IInv, TypeOK
<1> QED
  BY <1>1, <1>2 DEF SetLo

(* A new chip and a new driver. *)
LEMMA InitAgainIInv == IInv /\ InitAgain => IInv'
<1> SUFFICES ASSUME IInv, InitAgain PROVE IInv'
  OBVIOUS
<1>1. /\ pc = "failed" /\ pc' = "boot rx"
      /\ UNCHANGED <<quadAt, call, result, counts>>
  BY DEF InitAgain
<1>2. DriverOK'
  BY LOsAssumption, StartAssumption, BandAssumption
  DEF InitAgain, DriverOK, Fresh, Freqs, None
<1>3. ChipOK'
  BY StartAssumption, BandAssumption
  DEF InitAgain, IInv, TypeOK, ChipOK, Fresh, Freqs, Tables, None
<1>4. CallOK'
  BY <1>1, CountsOK DEF IInv, TypeOK, CallOK, Pcs
<1>5. TddMeansBothKnown'
  BY DEF InitAgain, TddMeansBothKnown, Fresh
<1>6. CallInv'
  BY <1>1 DEF IInv, CallInv, Busy
<1> QED
  BY <1>2, <1>3, <1>4, <1>5, <1>6 DEF IInv, TypeOK

(* Every step keeps the invariant. *)
LEMMA NextIInv == IInv /\ [Next]_vars => IInv'
<1> SUFFICES ASSUME IInv, [Next]_vars PROVE IInv'
  OBVIOUS
<1>1. CASE Setup
  <2>1. "rx" \in Sides /\ "tx" \in Sides
    BY DEF Sides
  <2> QED
    BY <1>1, <2>1, BeginIInv, StartAssumption DEF Setup
<1>2. CASE InitAgain
  BY <1>2, InitAgainIInv
<1>3. ASSUME NEW s \in Sides, NEW f \in Tunable[s], SetLo(s, f) PROVE IInv'
  BY <1>3, SetLoIInv, TunableAssumption
<1>4. CASE VcoInit
  BY <1>4, VcoInitIInv
<1>5. CASE WriteWords
  BY <1>5, WriteWordsIInv
<1>6. CASE WaitLock
  BY <1>6, WaitLockIInv
<1>7. CASE LoadGainTable
  BY <1>7, LoadGainTableIInv
<1>8. CASE Readback
  BY <1>8, ReadbackIInv
<1>9. CASE TxQuadCal
  BY <1>9, TxQuadCalIInv
<1>10. CASE UNCHANGED vars
  <2>1. DriverOK' /\ ChipOK' /\ CallOK'
    BY <1>10 DEF vars, driver, chip, counts, IInv, TypeOK, DriverOK, ChipOK, CallOK
  <2>2. TddMeansBothKnown' /\ CallInv'
    BY <1>10 DEF vars, driver, chip, IInv, TddMeansBothKnown, CallInv, FddTable, SameLo
  <2> QED
    BY <2>1, <2>2 DEF IInv, TypeOK
<1> QED
  BY <1>1, <1>2, <1>3, <1>4, <1>5, <1>6, <1>7, <1>8, <1>9, <1>10 DEF Next, Steps

(* The invariant holds in every behaviour of the specification. *)
LEMMA SpecIInv == Spec => []IInv
  BY InitIInv, NextIInv, PTL DEF Spec

-----------------------------------------------------------------------------
(* Every variable keeps its type. *)
THEOREM TypeCorrect == Spec => []TypeOK
<1>1. IInv => TypeOK
  BY DEF IInv
<1> QED
  BY <1>1, SpecIInv, PTL

(***************************************************************************)
(* words(0), which would never return, is never computed: whatever locks   *)
(* are lost and whatever SPI transfers fail.                               *)
(***************************************************************************)
THEOREM LoopEndsForTheOther == Spec => []OtherLoKnown
<1>1. IInv => OtherLoKnown
  BY NoThirdPass, LOsAssumption DEF OtherLoKnown, None
<1> QED
  BY <1>1, SpecIInv, PTL

(* program_rfpll's loop never programs a synth twice. *)
THEOREM TwoPassesAtMost == Spec => []AtMostTwoPasses
<1>1. IInv => AtMostTwoPasses
  BY DEF IInv, CallInv, AtMostTwoPasses
<1> QED
  BY <1>1, SpecIInv, PTL

-----------------------------------------------------------------------------
(***************************************************************************)
(* The order of init: TX is set up and calibrated after RX, and only then  *)
(* is there anybody to call.                                               *)
(***************************************************************************)
BootInv ==
  /\ pc = "idle" => ~Booting
  /\ ~Booting => /\ pc \notin {"boot rx", "boot tx", "failed"}
                 /\ lo["rx"] # None /\ lo["tx"] # None
  /\ pc = "boot tx" \/ (pc \in Busy /\ call.side = "tx") => lo["rx"] # None
  /\ pc = "quad" => call.side = "tx"

(* The words of both synths are for their LOs, but for one a call moves.   *)
WordsInv ==
  /\ \A s \in Sides : \/ word[s] = lo[s]
                      \/ pc \in {"vco", "words"} /\ call.pass = 1 /\ s = call.side
  /\ pc \in Busy => call.word = lo[call.synth]

(***************************************************************************)
(* The driver's flags tell the tables in the chip, and outside the loop    *)
(* the flags are the ones the two LOs call for.                            *)
(***************************************************************************)
TablesInv ==
  Shared =>
    /\ \A s \in Sides :
         /\ tdd[s] => vco[s] = "TDD"
         /\ ~tdd[s] => \/ vco[s] = "FDD"
                       \/ vco[s] = "none" /\ (lo[s] = None \/ (pc = "vco" /\ call.synth = s))
    /\ pc \in {"gain", "readback", "quad", "idle", "boot tx"} =>
         \A s \in Sides : tdd[s] = SameLo

(* The driver knows the gain table in the chip.                            *)
GainInv ==
  /\ chipGain = gainTable
  /\ pc = "readback" /\ call.side = "rx" => gainTable = Band[call.freq]

(***************************************************************************)
(* The LO last calibrated at is one where that converged, and TX has not   *)
(* moved further from it, but in a call that is about to find out.         *)
(***************************************************************************)
QuadInv ==
  ~Booting =>
    /\ lastQuad = quadAt
    /\ pc = "idle" \/ (pc \in Busy /\ call.side = "rx") =>
         Distance(lo["tx"], lastQuad) <= Threshold

(* The cached rate is what the words make, but for the synth a call moves. *)
RateInv ==
  \A s \in Sides :
    word[s] # None /\ ~(pc \in Busy \ {"quad"} /\ s = call.side) => rate[s] = Made[word[s]]

HInv ==
  /\ BootInv
  /\ spiFaults = 0 => WordsInv /\ TablesInv /\ GainInv
  /\ spiFaults = 0 /\ timeouts = 0 => QuadInv /\ RateInv

-----------------------------------------------------------------------------
(* The starting state satisfies it. *)
LEMMA InitHInv == Init => HInv
<1> SUFFICES ASSUME Init PROVE HInv
  OBVIOUS
<1>1. /\ pc = "boot rx" /\ pc \notin Busy /\ quadAt = None /\ chipGain = gainTable
      /\ \A s \in Sides : lo[s] = None /\ word[s] = None /\ ~tdd[s] /\ vco[s] = "none"
  BY DEF Init, Fresh, Busy
<1>2. BootInv /\ QuadInv
  BY <1>1 DEF BootInv, QuadInv, Booting
<1>3. WordsInv /\ TablesInv /\ GainInv /\ RateInv
  BY <1>1 DEF WordsInv, TablesInv, GainInv, RateInv
<1> QED
  BY <1>2, <1>3 DEF HInv

-----------------------------------------------------------------------------
(* Faults are never forgotten. *)
LEMMA FaultsStay ==
  ASSUME CallOK, UNCHANGED counts \/ SpiFault \/ Timeout
  PROVE  /\ spiFaults' = 0 => spiFaults = 0 /\ ~SpiFault
         /\ timeouts' = 0 => timeouts = 0 /\ ~Timeout
  BY BoundsAssumption DEF CallOK, SpiFault, Timeout, counts

(* What the type invariant and the call tell of a call in progress. *)
LEMMA InCall ==
  ASSUME IInv, pc \in Busy
  PROVE  /\ call.side \in Sides /\ call.synth \in Sides
         /\ call.freq \in LOs /\ call.freq # None /\ lo[call.side] = call.freq
         /\ call.pass \in {1, 2}
         /\ call.pass = 1 => call.synth = call.side
         /\ call.pass = 2 => call.synth = Other(call.side)
  BY LOsAssumption DEF IInv, TypeOK, CallOK, CallState, CallInv

(* A call that ends, and does not claim that setup went well too early. *)
LEMMA ReturnBoot ==
  ASSUME IInv, BootInv, pc \in Busy, NEW res, Return(res),
         UNCHANGED <<lo, quadAt>>,
         res = "ok" /\ Booting => call.side = "rx"
  PROVE  BootInv' /\ pc' \notin Busy /\ (pc' = "boot tx" => res = "ok")
<1>1. pc' \notin Busy /\ pc' # "quad" /\ pc' # "boot rx"
  BY DEF Return, Busy
<1>2. call.side \in Sides /\ lo[call.side] # None
  BY InCall
<1>3. CASE Booting
  <2>1. /\ pc' = "failed" \/ (pc' = "boot tx" /\ call.side = "rx" /\ res = "ok")
        /\ Booting'
    BY <1>3 DEF Return, Booting
  <2> QED
    BY <1>1, <1>2, <2>1 DEF BootInv
<1>4. CASE ~Booting
  <2>1. pc' = "idle" /\ ~Booting'
    BY <1>4 DEF Return, Booting
  <2> QED
    BY <1>1, <1>4, <2>1 DEF BootInv, Booting
<1> QED
  BY <1>3, <1>4

(* An SPI error ends the call, and nothing is promised any more. *)
LEMMA SpiErrorHInv ==
  ASSUME IInv, HInv, pc \in Busy, SpiFault, Return("Spi"), UNCHANGED <<lo, quadAt>>
  PROVE  HInv'
<1>1. spiFaults' # 0
  BY FaultsStay DEF IInv, TypeOK
<1>2. BootInv'
  BY ReturnBoot DEF HInv
<1> QED
  BY <1>1, <1>2 DEF HInv

(* A step within a call that moves neither LO, calibration nor init. *)
LEMMA InsideBoot ==
  ASSUME BootInv, pc \in Busy, pc' \in Busy \ {"quad"}, UNCHANGED <<lo, quadAt>>,
         call'.side = call.side
  PROVE  BootInv'
  BY DEF BootInv, Booting, Busy

LEMMA InsideQuad ==
  ASSUME QuadInv, pc \in Busy, pc' \in Busy, UNCHANGED <<lo, quadAt, lastQuad>>,
         call'.side = call.side
  PROVE  QuadInv'
  BY DEF QuadInv, Booting, Busy, Distance

-----------------------------------------------------------------------------
(* A call that begins, from setup or with a driver in use. *)
LEMMA BeginHInv ==
  ASSUME IInv, HInv, NEW side \in Sides, NEW freq \in LOs, Begin(side, freq),
         \/ pc = "idle" \/ (pc = "boot rx" /\ side = "rx") \/ (pc = "boot tx" /\ side = "tx"),
         UNCHANGED <<tdd, rate, gainTable, lastQuad, chip, counts>>
  PROVE  HInv'
<1>1. /\ pc' = "vco" /\ pc' \in Busy /\ pc \notin Busy /\ freq # None
      /\ call'.side = side /\ call'.freq = freq /\ call'.synth = side
      /\ call'.word = freq /\ call'.pass = 1
      /\ lo' = [lo EXCEPT ![side] = freq] /\ lo \in [Sides -> Freqs]
      /\ UNCHANGED <<tdd, rate, gainTable, lastQuad, vco, word, chipGain, quadAt>>
      /\ UNCHANGED <<spiFaults, timeouts>>
  BY LOsAssumption DEF Begin, Busy, IInv, TypeOK, DriverOK, chip, counts
<1>2. BootInv'
  <2>1. side = "rx" \/ side = "tx"
    BY DEF Sides
  <2> QED
    BY <1>1, <2>1 DEF HInv, BootInv, Booting, Busy, Sides
<1>3. WordsInv => WordsInv'
  BY <1>1 DEF WordsInv
<1>4. TablesInv => TablesInv'
  BY <1>1 DEF TablesInv
<1>5. GainInv => GainInv'
  BY <1>1 DEF GainInv
<1>6. QuadInv => QuadInv'
  <2>1. ~Booting => pc = "idle"
    BY DEF HInv, BootInv
  <2>2. side = "rx" => lo'["tx"] = lo["tx"]
    BY <1>1 DEF Sides
  <2> QED
    BY <1>1, <2>1, <2>2 DEF QuadInv, Booting
<1>7. RateInv => RateInv'
  BY <1>1 DEF RateInv, Busy
<1> QED
  BY <1>1, <1>2, <1>3, <1>4, <1>5, <1>6, <1>7 DEF HInv

(* The table of a synth is the one the two LOs call for. *)
LEMMA VcoInitHInv == IInv /\ HInv /\ VcoInit => HInv'
<1> SUFFICES ASSUME IInv, HInv, VcoInit PROVE HInv'
  OBVIOUS
<1>1. /\ pc = "vco" /\ pc \in Busy
      /\ tdd' = [tdd EXCEPT ![call.synth] = ~FddTable]
      /\ UNCHANGED <<lo, rate, gainTable, lastQuad, word, chipGain, quadAt>>
  BY DEF VcoInit, Busy
<1>2. CASE SpiFault /\ Return("Spi")
  BY <1>1, <1>2, SpiErrorHInv
<1>3. CASE /\ vco' = [vco EXCEPT ![call.synth] = IF FddTable THEN "FDD" ELSE "TDD"]
           /\ pc' = "words" /\ UNCHANGED <<call, result, counts>>
  <2>1. UNCHANGED <<spiFaults, timeouts, call>> /\ pc' \in Busy \ {"quad"}
    BY <1>3 DEF counts, Busy
  <2>2. BootInv'
    BY <1>1, <2>1, InsideBoot DEF HInv
  <2>3. WordsInv => WordsInv'
    BY <1>1, <1>3, <2>1 DEF WordsInv
  <2>4. TablesInv => TablesInv'
    <3>1. /\ tdd \in [Sides -> BOOLEAN] /\ vco \in [Sides -> Tables]
          /\ call.synth \in Sides /\ FddTable \in BOOLEAN
      BY <1>1, InCall, SharedAssumption DEF IInv, TypeOK, DriverOK, ChipOK, FddTable, SameLo
    <3>2. \A s \in Sides :
            IF s = call.synth
              THEN tdd'[s] = ~FddTable /\ vco'[s] = IF tdd'[s] THEN "TDD" ELSE "FDD"
              ELSE tdd'[s] = tdd[s] /\ vco'[s] = vco[s]
      BY <1>1, <1>3, <3>1
    <3> QED
      BY <1>1, <1>3, <3>1, <3>2 DEF TablesInv
  <2>5. GainInv => GainInv'
    BY <1>1, <1>3 DEF GainInv
  <2>6. QuadInv => QuadInv'
    BY <1>1, <2>1, InsideQuad
  <2>7. RateInv => RateInv'
    BY <1>1, <1>3, <2>1 DEF RateInv, Busy
  <2> QED
    BY <2>1, <2>2, <2>3, <2>4, <2>5, <2>6, <2>7 DEF HInv
<1> QED
  BY <1>2, <1>3 DEF VcoInit

(* A synth gets the words of its own LO. *)
LEMMA WriteWordsHInv == IInv /\ HInv /\ WriteWords => HInv'
<1> SUFFICES ASSUME IInv, HInv, WriteWords PROVE HInv'
  OBVIOUS
<1>1. /\ pc = "words" /\ pc \in Busy
      /\ UNCHANGED <<lo, tdd, rate, gainTable, lastQuad, vco, chipGain, quadAt>>
  BY DEF WriteWords, Busy, driver
<1>2. CASE SpiFault /\ Return("Spi")
  BY <1>1, <1>2, SpiErrorHInv
<1>3. CASE /\ word' = [word EXCEPT ![call.synth] = call.word]
           /\ pc' = "lock" /\ UNCHANGED <<call, result, counts>>
  <2>1. UNCHANGED <<spiFaults, timeouts, call>> /\ pc' \in Busy \ {"quad"}
    BY <1>3 DEF counts, Busy
  <2>2. BootInv'
    BY <1>1, <2>1, InsideBoot DEF HInv
  <2>3. \A s \in Sides : word'[s] = IF s = call.synth THEN call.word ELSE word[s]
    BY <1>3 DEF IInv, TypeOK, ChipOK
  <2>4. WordsInv => WordsInv' /\ \A s \in Sides : s # call.side => word'[s] = word[s]
    <3> SUFFICES ASSUME WordsInv
                 PROVE  WordsInv' /\ \A s \in Sides : s # call.side => word'[s] = word[s]
      OBVIOUS
    <3>1. call.word = lo[call.synth]
      BY <1>1 DEF WordsInv
    <3>2. \A s \in Sides : word[s] = lo[s] \/ s = call.synth
      BY <1>1, InCall DEF WordsInv
    <3>3. \A s \in Sides : s # call.side => word[s] = lo[s]
      BY DEF WordsInv
    <3>4. \A s \in Sides : word'[s] = lo[s]
      BY <2>3, <3>1, <3>2
    <3> QED
      BY <1>1, <1>3, <2>1, <3>1, <3>3, <3>4 DEF WordsInv
  <2>5. TablesInv => TablesInv'
    BY <1>1, <1>3, <2>1 DEF TablesInv
  <2>6. GainInv => GainInv'
    BY <1>1, <1>3 DEF GainInv
  <2>7. QuadInv => QuadInv'
    BY <1>1, <2>1, InsideQuad
  <2>8. WordsInv /\ RateInv => RateInv'
    BY <1>1, <1>3, <2>1, <2>4 DEF RateInv, Busy
  <2> QED
    BY <2>1, <2>2, <2>4, <2>5, <2>6, <2>7, <2>8 DEF HInv
<1> QED
  BY <1>2, <1>3 DEF WriteWords

(* The loop goes on with the other synth or leaves both tables fitting. *)
LEMMA WaitLockHInv == IInv /\ HInv /\ WaitLock => HInv'
<1> SUFFICES ASSUME IInv, HInv, WaitLock PROVE HInv'
  OBVIOUS
<1>1. /\ pc = "lock" /\ pc \in Busy
      /\ UNCHANGED <<lo, tdd, rate, gainTable, lastQuad, vco, word, chipGain, quadAt>>
      /\ UNCHANGED counts \/ SpiFault \/ Timeout
      /\ CallOK
  BY DEF WaitLock, Busy, driver, IInv, TypeOK
<1>2. CASE OtherIsOff /\ ProgramOther
  <2>1. /\ call.pass = 1 /\ call.synth = call.side
        /\ call'.side = call.side /\ call'.synth = Other(call.side) /\ call'.pass # 1
        /\ call'.word = IF SameLo THEN call.word ELSE lo[Other(call.side)]
        /\ pc' = "vco" /\ pc' \in Busy \ {"quad"}
    BY <1>1, <1>2, NoThirdPass, InCall DEF ProgramOther, PassBound, Busy
  <2>2. BootInv'
    BY <1>1, <2>1, InsideBoot DEF HInv
  <2>3. WordsInv => WordsInv'
    <3>1. SameLo => lo[call.side] = lo[Other(call.side)]
      BY <1>1, InCall DEF SameLo, Sides, Other
    <3> QED
      BY <1>1, <2>1, <3>1 DEF WordsInv
  <2>4. TablesInv => TablesInv'
    BY <1>1, <2>1 DEF TablesInv
  <2>5. GainInv => GainInv'
    BY <1>1, <2>1 DEF GainInv
  <2>6. QuadInv => QuadInv'
    BY <1>1, <2>1, InsideQuad
  <2>7. RateInv => RateInv'
    BY <1>1, <2>1 DEF RateInv, Busy
  <2> QED
    BY <1>1, <2>2, <2>3, <2>4, <2>5, <2>6, <2>7, FaultsStay DEF HInv
<1>3. TablesInv /\ ~OtherIsOff => (Shared => \A s \in Sides : tdd[s] = SameLo)
  <2> SUFFICES ASSUME ~OtherIsOff, Shared PROVE \A s \in Sides : tdd[s] = SameLo
    OBVIOUS
  <2>1. tdd[call.synth] = SameLo /\ call.synth \in Sides /\ tdd \in [Sides -> BOOLEAN]
    BY <1>1, InCall DEF IInv, TypeOK, DriverOK, CallInv, FddTable, SameLo
  <2>2. CASE SameLo
    BY <2>1, <2>2 DEF OtherIsOff, TablesDiffer, Sides
  <2>3. CASE ~SameLo
    BY <2>1, <2>3 DEF OtherIsOff, AnyTdd, Sides
  <2> QED
    BY <2>2, <2>3
<1>4. CASE Timeout /\ ~OtherIsOff /\ Return("Timeout")
  <2>1. BootInv' /\ pc' \notin Busy
    BY <1>1, <1>4, ReturnBoot DEF HInv
  <2>2. WordsInv => WordsInv'
    BY <1>1, <2>1 DEF WordsInv, Busy
  <2>3. TablesInv => TablesInv'
    <3>1. SameLo' = SameLo
      BY <1>1 DEF SameLo
    <3> QED
      BY <1>1, <1>3, <1>4, <3>1 DEF TablesInv
  <2>4. GainInv => GainInv'
    BY <1>1, <2>1 DEF GainInv, Busy
  <2> QED
    BY <1>1, <1>4, <2>1, <2>2, <2>3, <2>4, FaultsStay DEF HInv
<1>5. CASE SpiFault /\ Return("Spi")
  BY <1>1, <1>5, SpiErrorHInv
<1>6. CASE /\ ~OtherIsOff /\ UNCHANGED <<call, result>>
           /\ pc' = IF call.side = "rx" THEN "gain" ELSE "readback"
  <2>1. pc' \in {"gain", "readback"} /\ pc' \in Busy \ {"quad"}
    BY <1>6 DEF Busy
  <2>2. BootInv'
    BY <1>1, <1>6, <2>1, InsideBoot DEF HInv
  <2>3. WordsInv => WordsInv'
    BY <1>1, <1>6, <2>1 DEF WordsInv
  <2>4. TablesInv => TablesInv'
    <3>1. SameLo' = SameLo
      BY <1>1 DEF SameLo
    <3> QED
      BY <1>1, <1>3, <1>6, <2>1, <3>1 DEF TablesInv
  <2>5. GainInv => GainInv'
    BY <1>1, <1>6 DEF GainInv
  <2>6. QuadInv => QuadInv'
    BY <1>1, <1>6, <2>1, InsideQuad
  <2>7. RateInv => RateInv'
    BY <1>1, <1>6, <2>1 DEF RateInv, Busy
  <2> QED
    BY <1>1, <2>2, <2>3, <2>4, <2>5, <2>6, <2>7, FaultsStay DEF HInv
<1> QED
  BY <1>2, <1>4, <1>5, <1>6 DEF WaitLock, AfterLock

(* The gain table of the band, unless the driver knows it is in the chip. *)
LEMMA LoadGainTableHInv == IInv /\ HInv /\ LoadGainTable => HInv'
<1> SUFFICES ASSUME IInv, HInv, LoadGainTable PROVE HInv'
  OBVIOUS
<1>1. /\ pc = "gain" /\ pc \in Busy
      /\ UNCHANGED <<lo, tdd, rate, lastQuad, vco, word, locked, quadAt>>
  BY DEF LoadGainTable, Busy
<1>2. CASE SpiFault /\ Return("Spi")
  BY <1>1, <1>2, SpiErrorHInv
<1>3. CASE /\ pc' = "readback" /\ UNCHANGED <<call, result, counts>>
           /\ gainTable' = Band[call.freq]
           /\ (gainTable = gainTable' /\ chipGain' = chipGain) \/ chipGain' = Band[call.freq]
  <2>1. UNCHANGED <<spiFaults, timeouts, call>> /\ pc' \in Busy \ {"quad"}
    BY <1>3 DEF counts, Busy
  <2>2. BootInv'
    BY <1>1, <2>1, InsideBoot DEF HInv
  <2>3. WordsInv => WordsInv'
    BY <1>1, <1>3, <2>1 DEF WordsInv
  <2>4. TablesInv => TablesInv'
    <3>1. SameLo' = SameLo
      BY <1>1 DEF SameLo
    <3> QED
      BY <1>1, <1>3, <2>1, <3>1 DEF TablesInv
  <2>5. GainInv => GainInv'
    BY <1>1, <1>3, <2>1 DEF GainInv
  <2>6. QuadInv => QuadInv'
    BY <1>1, <2>1, InsideQuad
  <2>7. RateInv => RateInv'
    BY <1>1, <1>3, <2>1 DEF RateInv, Busy
  <2> QED
    BY <2>1, <2>2, <2>3, <2>4, <2>5, <2>6, <2>7 DEF HInv
<1> QED
  BY <1>2, <1>3 DEF LoadGainTable

(* The distance of two LOs does not depend on which comes first. *)
LEMMA DistanceSymmetric ==
  ASSUME NEW a \in Nat, NEW b \in Nat
  PROVE  Distance(a, b) = Distance(b, a) /\ Distance(a, a) = 0
  BY DEF Distance

(* The cached rate, and the decision to calibrate. *)
LEMMA ReadbackHInv == IInv /\ HInv /\ Readback => HInv'
<1> SUFFICES ASSUME IInv, HInv, Readback PROVE HInv'
  OBVIOUS
<1>1. /\ pc = "readback" /\ pc \in Busy
      /\ UNCHANGED <<lo, tdd, gainTable, lastQuad, vco, word, locked, chipGain, quadAt>>
  BY DEF Readback, Busy, chip
<1>2. CASE SpiFault /\ Return("Spi")
  BY <1>1, <1>2, SpiErrorHInv
<1>3. CASE /\ rate' = [rate EXCEPT ![call.side] = Made[word[call.side]]]
           /\ UNCHANGED counts
           /\ \/ QuadDue /\ pc' = "quad" /\ UNCHANGED <<call, result>>
              \/ ~QuadDue /\ Return("ok")
  <2>1. UNCHANGED <<spiFaults, timeouts>>
    BY <1>3 DEF counts
  <2>2. /\ call.side \in Sides /\ lo[call.side] = call.freq
        /\ rate \in [Sides -> Nat] /\ lo["tx"] \in Nat /\ lastQuad \in Nat
    <3>1. "tx" \in Sides /\ Freqs \subseteq Nat
      BY LOsAssumption DEF Sides, Freqs, None
    <3>2. lo \in [Sides -> Freqs] /\ rate \in [Sides -> Nat] /\ lastQuad \in Nat
      BY DEF IInv, TypeOK, DriverOK
    <3>3. lo["tx"] \in Nat
      BY <3>1, <3>2
    <3> QED
      BY <1>1, <3>2, <3>3, InCall
  <2>3. BootInv' /\ ((pc' = "quad" /\ call' = call) \/ pc' \notin Busy)
    <3>1. CASE QuadDue /\ pc' = "quad" /\ UNCHANGED <<call, result>>
      BY <1>1, <3>1 DEF HInv, BootInv, Booting, QuadDue, Busy
    <3>2. CASE ~QuadDue /\ Return("ok")
      <4>1. Booting => call.side = "rx"
        BY <2>2, <3>2 DEF QuadDue, Sides
      <4> QED
        BY <1>1, <3>2, <4>1, ReturnBoot DEF HInv
    <3> QED
      BY <1>3, <3>1, <3>2
  <2>4. WordsInv => WordsInv'
    BY <1>1, <1>3, <2>3 DEF WordsInv, Busy
  <2>5. TablesInv => TablesInv'
    <3>1. SameLo' = SameLo
      BY <1>1 DEF SameLo
    <3>2. TablesInv => (Shared => \A s \in Sides : tdd[s] = SameLo)
      BY <1>1 DEF TablesInv
    <3> QED
      BY <1>1, <3>1, <3>2 DEF TablesInv
  <2>6. GainInv => GainInv'
    BY <1>1, <2>3 DEF GainInv, Busy
  <2>7. QuadInv => QuadInv'
    <3> SUFFICES ASSUME QuadInv, ~Booting
                 PROVE  /\ lastQuad = quadAt
                        /\ (pc' = "idle" \/ (pc' \in Busy /\ call'.side = "rx"))
                             => Distance(lo["tx"], lastQuad) <= Threshold
      BY <1>1 DEF QuadInv, Booting
    <3>1. CASE call.side = "rx"
      BY <1>1, <3>1 DEF QuadInv
    <3>2. CASE call.side = "tx" /\ ~QuadDue
      <4>1. ~(Distance(lastQuad, lo["tx"]) > Threshold)
        BY <2>2, <3>2 DEF QuadDue
      <4>2. Distance(lastQuad, lo["tx"]) \in Int /\ Threshold \in Int
        BY <2>2, BoundsAssumption DEF Distance
      <4>3. Distance(lo["tx"], lastQuad) <= Threshold
        BY <2>2, <4>1, <4>2, DistanceSymmetric
      <4> QED
        BY <4>3 DEF QuadInv
    <3>3. CASE call.side = "tx" /\ QuadDue
      BY <1>3, <3>3 DEF QuadInv
    <3> QED
      BY <2>2, <3>1, <3>2, <3>3 DEF Sides
  <2>8. RateInv => RateInv'
    <3>1. \A s \in Sides : rate'[s] = IF s = call.side THEN Made[word[s]] ELSE rate[s]
      BY <1>3, <2>2
    <3> QED
      BY <1>1, <2>3, <3>1 DEF RateInv
  <2> QED
    BY <2>1, <2>3, <2>4, <2>5, <2>6, <2>7, <2>8 DEF HInv
<1> QED
  BY <1>2, <1>3 DEF Readback

(* The calibration of TX, after which TX has not moved from it at all. *)
LEMMA TxQuadCalHInv == IInv /\ HInv /\ TxQuadCal => HInv'
<1> SUFFICES ASSUME IInv, HInv, TxQuadCal PROVE HInv'
  OBVIOUS
<1>1. /\ pc = "quad" /\ pc \in Busy /\ call.side = "tx" /\ lastQuad' = call.freq
      /\ UNCHANGED <<lo, tdd, rate, gainTable, vco, word, locked, chipGain>>
      /\ UNCHANGED counts \/ SpiFault \/ Timeout
      /\ CallOK
  BY DEF TxQuadCal, Busy, HInv, BootInv, IInv, TypeOK
<1>2. lo["tx"] = call.freq /\ call.freq \in Nat /\ call.freq # None
  BY <1>1, InCall, LOsAssumption
<1>3. CASE SpiFault /\ Return("Spi") /\ UNCHANGED quadAt
  BY <1>1, <1>3, SpiErrorHInv
<1>4. ASSUME BootInv', pc' \notin Busy, pc' # "boot tx"
      PROVE  /\ WordsInv => WordsInv'
             /\ TablesInv => TablesInv'
             /\ GainInv => GainInv'
  <2>1. WordsInv => WordsInv'
    BY <1>1, <1>4 DEF WordsInv, Busy
  <2>2. TablesInv => TablesInv'
    <3>1. SameLo' = SameLo
      BY <1>1 DEF SameLo
    <3>2. TablesInv => (Shared => \A s \in Sides : tdd[s] = SameLo)
      BY <1>1 DEF TablesInv
    <3> QED
      BY <1>1, <3>1, <3>2 DEF TablesInv
  <2>3. GainInv => GainInv'
    BY <1>1, <1>4 DEF GainInv, Busy
  <2> QED
    BY <2>1, <2>2, <2>3
<1>5. CASE Timeout /\ Return("Timeout") /\ UNCHANGED quadAt
  <2>1. BootInv' /\ pc' \notin Busy /\ pc' # "boot tx"
    <3>1. UNCHANGED <<lo, quadAt>>
      BY <1>1, <1>5
    <3>2. BootInv' /\ pc' \notin Busy /\ (pc' = "boot tx" => "Timeout" = "ok")
      BY <1>1, <1>5, <3>1, ReturnBoot DEF HInv
    <3> QED
      BY <3>2
  <2> QED
    BY <1>1, <1>4, <1>5, <2>1, FaultsStay DEF HInv
<1>6. CASE quadAt' = call.freq /\ pc' = "idle" /\ UNCHANGED counts
  <2>1. BootInv'
    BY <1>1, <1>2, <1>6 DEF HInv, BootInv, Booting, Busy
  <2>2. pc' \notin Busy /\ pc' # "boot tx"
    BY <1>6 DEF Busy
  <2>3. QuadInv'
    <3>1. Distance(call.freq, call.freq) <= Threshold
      BY <1>2, DistanceSymmetric, BoundsAssumption
    <3>2. lastQuad' = quadAt' /\ lo'["tx"] = lastQuad'
      BY <1>1, <1>2, <1>6
    <3> QED
      BY <1>1, <3>1, <3>2 DEF QuadInv
  <2>4. RateInv => RateInv'
    BY <1>1, <2>2 DEF RateInv
  <2> QED
    BY <1>1, <1>4, <1>6, <2>1, <2>2, <2>3, <2>4, FaultsStay DEF HInv
<1> QED
  BY <1>3, <1>5, <1>6 DEF TxQuadCal

(* A call with nothing to do leaves everything as it was. *)
LEMMA SetLoHInv ==
  ASSUME IInv, HInv, NEW side \in Sides, NEW freq \in LOs, SetLo(side, freq)
  PROVE  HInv'
<1>1. CASE Begin(side, freq)
  BY <1>1, BeginHInv DEF SetLo
<1>2. CASE result' = "ok" /\ UNCHANGED <<lo, call, pc>>
  <2>1. UNCHANGED <<lo, tdd, rate, gainTable, lastQuad, vco, word, chipGain, quadAt,
                    pc, call, spiFaults, timeouts>>
    BY <1>2 DEF SetLo, chip, counts
  <2> QED
    BY <2>1 DEF HInv, BootInv, Booting, WordsInv, TablesInv, SameLo, GainInv, QuadInv, RateInv
<1> QED
  BY <1>1, <1>2 DEF SetLo

(* The next init starts from a reset, whatever the failed one left. *)
LEMMA InitAgainHInv == HInv /\ InitAgain => HInv'
<1> SUFFICES ASSUME HInv, InitAgain PROVE HInv'
  OBVIOUS
<1>1. /\ pc' = "boot rx" /\ pc' \notin Busy /\ Booting'
      /\ chipGain' = gainTable'
      /\ \A s \in Sides : lo'[s] = None /\ word'[s] = None /\ ~tdd'[s] /\ vco'[s] = "none"
  BY DEF InitAgain, HInv, BootInv, Booting, Fresh, Busy
<1>2. BootInv' /\ QuadInv'
  BY <1>1 DEF BootInv, QuadInv
<1>3. WordsInv' /\ TablesInv' /\ GainInv' /\ RateInv'
  BY <1>1 DEF WordsInv, TablesInv, GainInv, RateInv
<1> QED
  BY <1>2, <1>3 DEF HInv

(* Every step keeps the invariant. *)
LEMMA NextHInv == IInv /\ HInv /\ [Next]_vars => HInv'
<1> SUFFICES ASSUME IInv, HInv, [Next]_vars PROVE HInv'
  OBVIOUS
<1>1. CASE Setup
  <2>1. "rx" \in Sides /\ "tx" \in Sides
    BY DEF Sides
  <2> QED
    BY <1>1, <2>1, BeginHInv, StartAssumption DEF Setup
<1>2. CASE InitAgain
  BY <1>2, InitAgainHInv
<1>3. ASSUME NEW s \in Sides, NEW f \in Tunable[s], SetLo(s, f) PROVE HInv'
  BY <1>3, SetLoHInv, TunableAssumption
<1>4. CASE VcoInit
  BY <1>4, VcoInitHInv
<1>5. CASE WriteWords
  BY <1>5, WriteWordsHInv
<1>6. CASE WaitLock
  BY <1>6, WaitLockHInv
<1>7. CASE LoadGainTable
  BY <1>7, LoadGainTableHInv
<1>8. CASE Readback
  BY <1>8, ReadbackHInv
<1>9. CASE TxQuadCal
  BY <1>9, TxQuadCalHInv
<1>10. CASE UNCHANGED vars
  BY <1>10 DEF vars, driver, chip, counts,
     HInv, BootInv, Booting, WordsInv, TablesInv, SameLo, GainInv, QuadInv, RateInv
<1> QED
  BY <1>1, <1>2, <1>3, <1>4, <1>5, <1>6, <1>7, <1>8, <1>9, <1>10 DEF Next, Steps

(* The invariant holds in every behaviour of the specification. *)
LEMMA SpecHInv == Spec => []HInv
  BY InitHInv, NextHInv, SpecIInv, PTL DEF Spec

-----------------------------------------------------------------------------
(***************************************************************************)
(* Between calls both synths run on the table the two LOs call for,        *)
(* however often they were made equal and different, as long as no SPI     *)
(* transfer failed.                                                        *)
(***************************************************************************)
THEOREM TablesFollowTheLos == Spec => []TablesMatchTheLos
<1>1. HInv => TablesMatchTheLos
  <2> SUFFICES ASSUME HInv, pc = "idle", spiFaults = 0, Shared, NEW s \in Sides
               PROVE  vco[s] = IF SameLo THEN "TDD" ELSE "FDD"
    BY DEF TablesMatchTheLos
  <2>1. lo[s] # None
    BY DEF HInv, BootInv, Sides
  <2>2. tdd[s] = SameLo
    BY DEF HInv, TablesInv
  <2> QED
    BY <2>1, <2>2 DEF HInv, TablesInv
<1> QED
  BY <1>1, SpecHInv, PTL

(***************************************************************************)
(* Between calls each synth has the words of its own LO, and the cached    *)
(* rates are what the words make.                                          *)
(***************************************************************************)
THEOREM SynthsStayOnTheirLo == Spec => []SynthsHoldTheirLo
<1>1. IInv /\ HInv => SynthsHoldTheirLo
  <2> SUFFICES ASSUME IInv, HInv, pc = "idle", spiFaults = 0
               PROVE  word = lo /\ (timeouts = 0 => \A s \in Sides : rate[s] = Made[word[s]])
    BY DEF SynthsHoldTheirLo
  <2>1. \A s \in Sides : word[s] = lo[s] /\ lo[s] # None
    BY DEF HInv, WordsInv, BootInv, Sides
  <2>2. word = lo
    <3>1. word \in [Sides -> Freqs] /\ lo \in [Sides -> Freqs]
      BY DEF IInv, TypeOK, DriverOK, ChipOK
    <3> QED
      BY <2>1, <3>1
  <2> QED
    BY <2>1, <2>2 DEF HInv, RateInv, Busy
<1> QED
  BY <1>1, SpecIInv, SpecHInv, PTL

(* An RX call that reads its rate back has the gain table of its band in the chip. *)
THEOREM GainTableFollowsTheLo == Spec => []GainTableFits
<1>1. HInv => GainTableFits
  BY DEF HInv, GainInv, GainTableFits
<1> QED
  BY <1>1, SpecHInv, PTL

(***************************************************************************)
(* However many small moves add up, TX is within the threshold of the LO   *)
(* it was calibrated at.                                                   *)
(***************************************************************************)
THEOREM CalibratedNearby == Spec => []QuadCalWithinThreshold
<1>1. IInv /\ HInv => QuadCalWithinThreshold
  <2> SUFFICES ASSUME IInv, HInv, pc = "idle", spiFaults + timeouts = 0
               PROVE  Distance(lo["tx"], quadAt) <= Threshold
    BY DEF QuadCalWithinThreshold
  <2>1. spiFaults = 0 /\ timeouts = 0
    BY BoundsAssumption DEF IInv, TypeOK, CallOK
  <2> QED
    BY <2>1 DEF HInv, BootInv, QuadInv
<1> QED
  BY <1>1, SpecIInv, SpecHInv, PTL
=============================================================================
