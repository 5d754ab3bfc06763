-------------------------------- MODULE RfPll --------------------------------
(***************************************************************************)
(* The RX and TX RF synths (synth.rs): set_rfpll_rate with program_rfpll   *)
(* inside it. In FDD without independent LOs the two synths share their    *)
(* VCO tables: equal LOs use the TDD tables, different ones the FDD        *)
(* tables, so a call for one synth may have to program the other as well.  *)
(*                                                                         *)
(* An LO is its frequency; 0 is an LO that was never programmed, which is  *)
(* also what the code counts it as.                                        *)
(***************************************************************************)
EXTENDS Integers

CONSTANTS LOs,           \* frequencies that are asked for
          Made,          \* what the fractional-N words make of each
          Band,          \* gain table of each
          StartRx, StartTx,  \* LOs of the settings
          Threshold,     \* cal_threshold_freq
          Tunable,       \* those RxLoFrequency and TxLoFrequency can hold
          Shared,        \* FDD and not fdd_independent_mode
          MaxSpiFaults, MaxTimeouts    \* bounds on the faults of a run

None == 0

Sides == {"rx", "tx"}

ASSUME LOsAssumption == LOs \subseteq Nat \ {None}
ASSUME StartAssumption == StartRx \in LOs /\ StartTx \in LOs
ASSUME TunableAssumption ==
  Tunable \in [Sides -> SUBSET LOs] /\ StartRx \in Tunable["rx"] /\ StartTx \in Tunable["tx"]
ASSUME MadeAssumption == Made \in [LOs -> Nat]
ASSUME BandAssumption == Band \in [LOs -> Nat \ {None}]
ASSUME SharedAssumption == Shared \in BOOLEAN
ASSUME BoundsAssumption == Threshold \in Nat /\ MaxSpiFaults \in Nat /\ MaxTimeouts \in Nat

VARIABLES
  lo,        \* driver: current_rx_lo_freq, current_tx_lo_freq
  tdd,       \* driver: current_rx_use_tdd_table, current_tx_use_tdd_table
  rate,      \* driver: clk.rates.rx_rfpll, tx_rfpll
  gainTable, \* driver: gain.current_table
  lastQuad,  \* driver: cal.last_tx_quad_cal_freq
  vco,       \* chip: which table each synth was set up from
  word,      \* chip: the LO each synth's words are for, None if they are mixed
  locked,    \* chip: whether each synth locked on its words
  chipGain,  \* chip: the gain table in it, None while it is half written
  quadAt,    \* chip: TX LO of the last TX quad cal that converged
  pc, call,  \* the call in progress
  result,    \* what the last call returned
  spiFaults, timeouts

driver == <<lo, tdd, rate, gainTable, lastQuad>>
chip   == <<vco, word, locked, chipGain, quadAt>>
counts == <<spiFaults, timeouts>>
vars   == <<driver, chip, pc, call, result, counts>>

Other(side) == IF side = "rx" THEN "tx" ELSE "rx"
Distance(a, b) == IF a < b THEN b - a ELSE a - b

SameLo       == lo["tx"] = lo["rx"]
FddTableOncePaired == Shared /\ ~SameLo /\ lo["tx"] # None   \* mutant: an unset LO counts as equal
FddTable     == Shared /\ ~SameLo
TablesDiffer == tdd["tx"] # tdd["rx"]
AnyTdd       == tdd["tx"] \/ tdd["rx"]

NoCall == [side |-> "rx", freq |-> None, synth |-> "rx", word |-> None, pass |-> 0]
Pcs == {"boot rx", "boot tx", "idle", "vco", "words", "lock", "gain", "readback",
        "quad", "failed"}

(***************************************************************************)
(* A chip out of reset and a new Engine. setup then loads the gain table   *)
(* of the configured RX LO and programs both LOs.                          *)
(***************************************************************************)
Fresh ==
  [lo   |-> [s \in Sides |-> None],    tdd    |-> [s \in Sides |-> FALSE],
   vco  |-> [s \in Sides |-> "none"],  locked |-> [s \in Sides |-> FALSE]]

Init ==
  /\ lo = Fresh.lo /\ tdd = Fresh.tdd /\ rate = Fresh.lo
  /\ vco = Fresh.vco /\ word = Fresh.lo /\ locked = Fresh.locked
  /\ gainTable = Band[StartRx] /\ chipGain = Band[StartRx]
  /\ lastQuad = StartTx /\ quadAt = None
  /\ pc = "boot rx" /\ call = NoCall /\ result = "ok"
  /\ spiFaults = 0 /\ timeouts = 0

(***************************************************************************)
(* Calls return to idle; during init they return to the next step of it,   *)
(* or fail it. setup calibrates TX after both LOs are set.                 *)
(***************************************************************************)
Booting == quadAt = None    \* setup's own quad cal has not been through yet

Return(res) ==
  /\ result' = res
  /\ call' = NoCall
  /\ pc' = IF ~Booting THEN "idle"
           ELSE IF res # "ok" THEN "failed"
           ELSE IF call.side = "rx" THEN "boot tx" ELSE "idle"

SpiFault == spiFaults < MaxSpiFaults /\ spiFaults' = spiFaults + 1 /\ UNCHANGED timeouts
Timeout  == timeouts < MaxTimeouts /\ timeouts' = timeouts + 1 /\ UNCHANGED spiFaults

(***************************************************************************)
(* set_rfpll_rate up to program_rfpll's first write. The LO is remembered  *)
(* before anything is programmed. program_rfpll checks the range as well,  *)
(* but the types of the public calls only hold what passes.                *)
(***************************************************************************)
RememberMadeLo(side, freq) ==   \* mutant: remembers what the words make
  /\ lo' = [lo EXCEPT ![side] = Made[freq]]
  /\ call' = [side |-> side, freq |-> freq, synth |-> side, word |-> freq, pass |-> 1]
  /\ pc' = "vco"
  /\ UNCHANGED result

Begin(side, freq) ==
  /\ lo' = [lo EXCEPT ![side] = freq]
  /\ call' = [side |-> side, freq |-> freq, synth |-> side, word |-> freq, pass |-> 1]
  /\ pc' = "vco"
  /\ UNCHANGED result

SetLo(side, freq) ==
  /\ pc = "idle"
  /\ \/ rate[side] = freq /\ result' = "ok" /\ UNCHANGED <<lo, call, pc>>
     \/ rate[side] # freq /\ Begin(side, freq)
  /\ UNCHANGED <<tdd, rate, gainTable, lastQuad, chip, counts>>

Setup ==
  /\ \/ pc = "boot rx" /\ Begin("rx", StartRx)
     \/ pc = "boot tx" /\ Begin("tx", StartTx)
  /\ UNCHANGED <<tdd, rate, gainTable, lastQuad, chip, counts>>

(* A failed init; the next one starts with a reset. *)
InitAgain ==
  /\ pc = "failed" /\ pc' = "boot rx"
  /\ lo' = Fresh.lo /\ tdd' = Fresh.tdd /\ rate' = Fresh.lo
  /\ vco' = Fresh.vco /\ word' = Fresh.lo /\ locked' = Fresh.locked
  /\ gainTable' = Band[StartRx] /\ chipGain' = Band[StartRx]
  /\ lastQuad' = StartTx
  /\ UNCHANGED <<quadAt, call, result, counts>>

(***************************************************************************)
(* rfpll_vco_init: picks the table, remembers the choice, writes it.       *)
(***************************************************************************)
VcoInit ==
  /\ pc = "vco"
  /\ tdd' = [tdd EXCEPT ![call.synth] = ~FddTable]
  /\ \/ /\ vco' = [vco EXCEPT ![call.synth] = IF FddTable THEN "FDD" ELSE "TDD"]
        /\ pc' = "words" /\ UNCHANGED <<call, result, counts>>
     \/ /\ vco' \in {vco, [vco EXCEPT ![call.synth] = "mixed"]}
        /\ SpiFault /\ Return("Spi")
  /\ UNCHANGED <<lo, rate, gainTable, lastQuad, word, locked, chipGain, quadAt>>

(* The frequency words, then the VCO divider. The synth has to lock anew.  *)
WriteWords ==
  /\ pc = "words"
  /\ \/ /\ word' = [word EXCEPT ![call.synth] = call.word]
        /\ locked' = [locked EXCEPT ![call.synth] = FALSE]
        /\ pc' = "lock" /\ UNCHANGED <<call, result, counts>>
     \/ /\ \/ UNCHANGED <<word, locked>>
           \/ /\ word' \in {[word EXCEPT ![call.synth] = w] : w \in {None, call.word}}
              /\ locked' = [locked EXCEPT ![call.synth] = FALSE]
        /\ SpiFault /\ Return("Spi")
  /\ UNCHANGED <<driver, vco, chipGain, quadAt>>

(***************************************************************************)
(* wait_until the VCO locked, then the loop's condition: the other synth   *)
(* is programmed if its table no longer fits, and only the last lock       *)
(* counts. With equal LOs the words are good for both. The passes are      *)
(* counted up to PassBound.                                                *)
(***************************************************************************)
PassBound == 3

OtherIsOffIfLosDiffer == Shared /\ (~SameLo \/ TablesDiffer)  \* mutant: forgets any_tdd
OtherIsOffIfLosEqual  == Shared /\ SameLo /\ TablesDiffer     \* mutant: forgets the way back to FDD

OtherIsOff == Shared /\ ((SameLo /\ TablesDiffer) \/ (~SameLo /\ AnyTdd))

ProgramOtherWithSameWords ==   \* mutant: keeps the words of the first synth
  /\ call' = [call EXCEPT !.synth = Other(call.synth),
                          !.pass = IF @ < PassBound THEN @ + 1 ELSE @]
  /\ pc' = "vco" /\ UNCHANGED result

ProgramOther ==
  LET synth == Other(call.synth)
  IN  /\ call' = [side |-> call.side, freq |-> call.freq, synth |-> synth,
                  word |-> IF SameLo THEN call.word ELSE lo[synth],
                  pass |-> IF call.pass < PassBound THEN call.pass + 1 ELSE PassBound]
      /\ pc' = "vco" /\ UNCHANGED result

AfterLockNoGainTable(lock) ==   \* mutant: the second pass loses the gain table
  IF OtherIsOff THEN ProgramOther
  ELSE IF lock # "ok" THEN Return(lock)
  ELSE /\ pc' = IF call.side = "rx" /\ call.pass = 1 THEN "gain" ELSE "readback"
       /\ UNCHANGED <<call, result>>

AfterLock(lock) ==
  IF OtherIsOff THEN ProgramOther
  ELSE IF lock # "ok" THEN Return(lock)
  ELSE /\ pc' = IF call.side = "rx" THEN "gain" ELSE "readback"
       /\ UNCHANGED <<call, result>>

WaitLock ==
  /\ pc = "lock"
  /\ \/ /\ locked' = [locked EXCEPT ![call.synth] = TRUE]
        /\ AfterLock("ok") /\ UNCHANGED counts
     \/ Timeout /\ AfterLock("Timeout") /\ UNCHANGED locked
     \/ SpiFault /\ AfterLock("Spi") /\ UNCHANGED locked
  /\ UNCHANGED <<driver, vco, word, chipGain, quadAt>>

(* load_gain_table: nothing to do if the table is in already. An SPI error *)
(* comes before the chip's table is touched, within it, or in the gain     *)
(* indices after it, when the driver has remembered the new one.           *)
LoadGainTable ==
  /\ pc = "gain"
  /\ \/ /\ gainTable = Band[call.freq]
        /\ pc' = "readback" /\ UNCHANGED <<gainTable, chipGain, call, result, counts>>
     \/ /\ gainTable # Band[call.freq]
        /\ gainTable' = Band[call.freq] /\ chipGain' = Band[call.freq]
        /\ pc' = "readback" /\ UNCHANGED <<call, result, counts>>
     \/ /\ gainTable # Band[call.freq]
        /\ SpiFault /\ Return("Spi")
        /\ \/ chipGain' \in {chipGain, None} /\ UNCHANGED gainTable
           \/ chipGain' = Band[call.freq] /\ gainTable' = Band[call.freq]
  /\ UNCHANGED <<lo, tdd, rate, lastQuad, vco, word, locked, quadAt>>

(* The cache takes the rate the live words make.                           *)
QuadDueForThisMove ==   \* mutant: compares with the LO moved away from
  call.side = "tx" /\ (Booting \/ Distance(rate["tx"], call.freq) > Threshold)

QuadDue == call.side = "tx" /\ (Booting \/ Distance(lastQuad, call.freq) > Threshold)

Readback ==
  /\ pc = "readback"
  /\ \/ /\ rate' = [rate EXCEPT ![call.side] = Made[word[call.side]]]
        /\ UNCHANGED counts
        /\ IF QuadDue THEN pc' = "quad" /\ UNCHANGED <<call, result>> ELSE Return("ok")
     \/ SpiFault /\ Return("Spi") /\ UNCHANGED rate
  /\ UNCHANGED <<lo, tdd, gainTable, lastQuad, chip>>

(* tx_quad_calib_run; the LO counts as calibrated whatever it returned.    *)
TxQuadCal ==
  /\ pc = "quad"
  /\ lastQuad' = call.freq
  /\ \/ /\ quadAt' = call.freq
        /\ pc' = "idle" /\ call' = NoCall /\ result' = "ok" /\ UNCHANGED counts
     \/ Timeout /\ Return("Timeout") /\ UNCHANGED quadAt
     \/ SpiFault /\ Return("Spi") /\ UNCHANGED quadAt
  /\ UNCHANGED <<lo, tdd, rate, gainTable, vco, word, locked, chipGain>>

Steps == VcoInit \/ WriteWords \/ WaitLock \/ LoadGainTable \/ Readback \/ TxQuadCal

Next == \/ Setup \/ InitAgain
        \/ \E s \in Sides : \E f \in Tunable[s] : SetLo(s, f)
        \/ Steps

Spec == Init /\ [][Next]_vars /\ WF_vars(Steps)

(***************************************************************************)
(* Properties.                                                             *)
(***************************************************************************)
Freqs  == LOs \cup {None}
Tables == {"none", "TDD", "FDD", "mixed"}
CallState == [side : Sides, freq : Freqs, synth : Sides, word : Freqs, pass : 0..PassBound]

DriverOK ==
  /\ lo \in [Sides -> Freqs] /\ tdd \in [Sides -> BOOLEAN] /\ rate \in [Sides -> Nat]
  /\ gainTable \in Nat \ {None} /\ lastQuad \in Nat

ChipOK ==
  /\ vco \in [Sides -> Tables] /\ word \in [Sides -> Freqs] /\ locked \in [Sides -> BOOLEAN]
  /\ chipGain \in Nat /\ quadAt \in Freqs

CallOK ==
  /\ pc \in Pcs /\ call \in CallState
  /\ result \in {"ok", "Spi", "Timeout"}
  /\ spiFaults \in 0..MaxSpiFaults /\ timeouts \in 0..MaxTimeouts

TypeOK == DriverOK /\ ChipOK /\ CallOK

(***************************************************************************)
(* The loop never computes words for an LO that was never programmed:      *)
(* words(0) doubles 0 until it passes MIN_VCO_FREQ_HZ, which is for ever.  *)
(* Only the cached flags keep it from there ("never programmed counts as   *)
(* 0 Hz"), through every failure in between.                               *)
(***************************************************************************)
OtherLoKnown ==
  pc = "lock" /\ OtherIsOff /\ ~SameLo => lo[Other(call.synth)] # None

(* program_rfpll's loop programs each synth at most once: no ping-pong.    *)
AtMostTwoPasses == call.pass <= 2

(***************************************************************************)
(* "FDD with RX LO == TX LO uses the TDD tables ..., so the other synth    *)
(* has to be reprogrammed to match": between calls both synths run on the  *)
(* table the two LOs call for. Lost locks do not break it; an SPI error in *)
(* the second pass does, and a retry does not repair that (README).        *)
(***************************************************************************)
TablesMatchTheLos ==
  pc = "idle" /\ spiFaults = 0 /\ Shared =>
    \A s \in Sides : vco[s] = IF SameLo THEN "TDD" ELSE "FDD"

(***************************************************************************)
(* Reprogramming the other synth puts it back on its own LO, and           *)
(* rx_lo_frequency, tx_lo_frequency give "the RX LO the synth really runs  *)
(* at", in a driver that saw no error.                                     *)
(***************************************************************************)
SynthsHoldTheirLo ==
  pc = "idle" /\ spiFaults = 0 =>
    /\ word = lo
    /\ timeouts = 0 => \A s \in Sides : rate[s] = Made[word[s]]

(***************************************************************************)
(* An RX call that gets as far as reading back its rate has the gain table *)
(* of its band in the chip, also when an earlier call lost its lock before *)
(* it came to the gain table.                                              *)
(***************************************************************************)
GainTableFits ==
  pc = "readback" /\ call.side = "rx" /\ spiFaults = 0 => chipGain = Band[call.freq]

(***************************************************************************)
(* set_tx_lo_frequency: "A move of more than 100 MHz reruns the TX         *)
(* quadrature calibration". However many small moves add up, TX is never   *)
(* further than that from where it was calibrated.                         *)
(***************************************************************************)
QuadCalWithinThreshold ==
  pc = "idle" /\ spiFaults + timeouts = 0 => Distance(lo["tx"], quadAt) <= Threshold

(***************************************************************************)
(* set_rx_lo_frequency: "Waits for the synth to lock and can time out".    *)
(* Not kept: the lock of the call's own synth is thrown away when the      *)
(* other one has to be programmed after it.                                *)
(***************************************************************************)
OkMeansLocked ==
  [][pc # "idle" /\ pc' = "idle" /\ result' = "ok" => locked'[call.side]]_vars
=============================================================================
