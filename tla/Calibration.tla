------------------------------ MODULE Calibration ------------------------------
(***************************************************************************)
(* The calibrations that run with the chip in ALERT (calibration.rs): the  *)
(* TX quadrature calibration with its search over the phase offsets of the *)
(* RX NCO, and update_rf_bandwidth, which redoes the baseband filters      *)
(* first. Both borrow the tracking, the enable state machine (control.rs), *)
(* some inversion bits and, when the test tone would not fit, the filters. *)
(*                                                                         *)
(* Frequencies are in kHz. With ENSM pin control the chip follows its      *)
(* ENABLE pin, at any moment, until the driver takes the control away.     *)
(***************************************************************************)
EXTENDS Integers

CONSTANTS Settings,     \* clocks, RX phase inversion and pin control it may be set up with
          Bandwidths,   \* pairs of RF bandwidths, RX and TX, that are asked for
          Convergent,   \* sets of phase offsets that may converge during a call
          MaxSpiFaults, MaxTimeouts    \* bounds on the faults of a run

NPhases == 32
Phases  == 0 .. NPhases - 1
NoPhase == -1

\* MAX_TX_HB1, and the range of RfBandwidth.
MaxClkTf == 160000
RfBandwidth == 200 .. 56000

ASSUME SettingsAssumption ==
  Settings \subseteq [clk : [rf : Nat, tf : 1 .. MaxClkTf], inverted : BOOLEAN, pinCtrl : BOOLEAN]
ASSUME BandwidthsAssumption == Bandwidths \subseteq [rx : RfBandwidth, tx : RfBandwidth]
ASSUME ConvergentAssumption == Convergent \subseteq SUBSET Phases
ASSUME BoundsAssumption == MaxSpiFaults \in Nat /\ MaxTimeouts \in Nat

VARIABLES
  settings,  \* what the driver was set up with
  pin,       \* the ENABLE pin
  ensm,      \* chip: state and ENABLE_ENSM_PIN_CTRL
  chip,      \* chip: tracking, RX inversion of the port, whose the inversion bits of
             \* the DC offset words are, RF bandwidth each filter is tuned for
  drv,       \* driver: current RF bandwidths, last phase, saved_pin_ctrl_enable
  pc, call,  \* the call in progress, with the phase offset it last calibrated at
  good,      \* phases that converge while it runs
  result,    \* what the last call returned
  spiFaults, timeouts

counts == <<spiFaults, timeouts>>
vars == <<settings, pin, ensm, chip, drv, pc, call, good, result, counts>>

(***************************************************************************)
(* find_opt: the longest run of converging phases in a field of n runs of  *)
(* the calibration, the first one if several are as long, as its length    *)
(* and its start. The search passes the 32 phases twice in a row, so that  *)
(* a run may go past 31, and uses the middle of the run.                   *)
(***************************************************************************)
LongestRun(n, set) ==
  LET converged == {i \in 0 .. n - 1 : i % NPhases \in set}
      starts    == {i \in converged : i - 1 \notin converged}
      ends      == {i \in converged : i + 1 \notin converged}
      runs      == {<<CHOOSE e \in ends : e >= i /\ \A f \in ends : f >= i => e <= f, i>> :
                      i \in starts}
      length(r) == r[1] - r[2] + 1
      longest   == {r \in runs : \A q \in runs : length(q) <= length(r)}
      first     == CHOOSE r \in longest : \A q \in longest : r[2] <= q[2]
  IN  IF runs = {} THEN <<0, 0>> ELSE <<length(first), first[2]>>

FindOptOnce(set) == LongestRun(NPhases, set)    \* mutant: the field isn't doubled
FindOpt(set) == LongestRun(2 * NPhases, set)

SearchedRaw(set) == FindOpt(set)[2] + FindOpt(set)[1] \div 2    \* mutant: 360 isn't 0
SearchedPhase(set) == (FindOpt(set)[2] + FindOpt(set)[1] \div 2) % NPhases
SearchedPhaseOf == [set \in Convergent |-> SearchedPhase(set)]

(***************************************************************************)
(* The NCO words of tx_quad_calib: the tone should sit at a quarter of the *)
(* baseband bandwidth, in TX (CLKTF) and in RX (CLKRF). bw is the          *)
(* baseband bandwidth of TX, half of the RF one.                           *)
(***************************************************************************)
Clamp(n, low, high) == IF n < low THEN low ELSE IF n > high THEN high ELSE n

WantedWord(clk, bw) == Clamp((bw * 8 + clk.tf \div 2) \div clk.tf - 1, 0, 3)

TxWord(clk, bw) ==
  LET word == WantedWord(clk, bw)
  IN  IF clk.rf # 2 * clk.tf THEN word ELSE IF word = 3 THEN 3 ELSE 1

RxWord(clk, bw) ==
  LET word == WantedWord(clk, bw)
  IN  IF clk.rf # 2 * clk.tf THEN word ELSE IF word = 3 THEN 1 ELSE 0

\* The phase offsets tx_quad_calib starts with. One case reads the TX filter
\* setting, which leaves two.
FirstPhases(clk, bw) ==
  LET word == WantedWord(clk, bw)
  IN  CASE clk.rf = 2 * clk.tf -> IF word = 3 THEN {8} ELSE {14}
        [] clk.rf = clk.tf     -> IF word \in {0, 3} THEN {21} ELSE IF word = 2 THEN {31}
                                  ELSE {21, 26}
        [] OTHER               -> {0}

TxTone(clk, bw) == (clk.tf * (TxWord(clk, bw) + 1)) \div 32
RxTone(clk, bw) == (clk.rf * (RxWord(clk, bw) + 1)) \div 32

(***************************************************************************)
(* The RF bandwidths rx_bb_analog_filter_calib and                         *)
(* tx_bb_analog_filter_calib tune the filters for, narrower than what they *)
(* are asked for at the upper end and wider at the lower one. 0 is a       *)
(* filter whose tuning broke off.                                          *)
(***************************************************************************)
FilterMin == [rx |-> 400,   tx |-> 1250]
FilterMax == [rx |-> 56000, tx |-> 40000]
Untuned   == 0

Tuned(side, bw) == Clamp(bw, FilterMin[side], FilterMax[side])
TunedFor(bw)    == [rx |-> Tuned("rx", bw.rx), tx |-> Tuned("tx", bw.tx)]

TooWide(tone, bw) == tone > bw.tx \div 8    \* mutant: the RX filter is forgotten
Widens(tone, bw) == tone > bw.rx \div 8 \/ tone > bw.tx \div 8
WideFor(tone) == tone * 8    \* bw is the RF bandwidth here, twice the baseband one

(***************************************************************************)
(* States and calls                                                        *)
(***************************************************************************)
NoCall == [op |-> "none", saved |-> "run", want |-> [rx |-> 0, tx |-> 0],
           wide |-> FALSE, bits |-> "own", found |-> NoPhase, phase |-> NoPhase, err |-> FALSE]

Cals    == {"first", "last", "search", "settle"}
Filters == {"set rx", "set tx", "widen rx", "widen tx", "narrow rx", "narrow tx"}
Inner   == Filters \cup Cals \cup {"plan", "uninvert", "bits", "words", "reinvert", "bits back"}
Pcs     == Inner \cup {"idle", "pause", "read", "take", "resume", "restore", "pins"}

\* The phase setup's own calibration leaves, whatever converged then.
SetupPhases(clk, bw) ==
  {IF phase \in set THEN phase ELSE SearchedPhaseOf[set] :
     phase \in FirstPhases(clk, bw), set \in Convergent}

Init ==
  /\ settings \in Settings
  /\ pin = TRUE
  /\ ensm = [state |-> "run", pinCtrl |-> settings.pinCtrl]
  /\ \E bw \in Bandwidths :
       /\ \E phase \in SetupPhases(settings.clk, bw.tx \div 2) :
            drv = [bw |-> bw, phase |-> phase, savedPin |-> FALSE]
       /\ chip = [tracking |-> TRUE, inverted |-> settings.inverted, bits |-> "own",
                  filter |-> TunedFor(bw)]
  /\ pc = "idle" /\ call = NoCall /\ good = {} /\ result = "ok"
  /\ spiFaults = 0 /\ timeouts = 0

Go(to) == pc' = to

Keep == UNCHANGED <<settings, pin, good, result, counts>>

\* tx_quad_calib_run and update_rf_bandwidth. What converges is up to the LO,
\* the temperature and the bandwidth of the moment.
Call(op, want) ==
  /\ pc = "idle"
  /\ call' = [NoCall EXCEPT !.op = op, !.want = want]
  /\ good' \in Convergent
  /\ Go("pause")
  /\ UNCHANGED <<settings, pin, ensm, chip, drv, result, counts>>

QuadCal == Call("quad", drv.bw)
UpdateRfBandwidth == \E want \in Bandwidths : Call("bandwidth", want)

Return(failed) ==
  /\ result' = IF failed THEN "error" ELSE "ok"
  /\ call' = NoCall /\ good' = {}
  /\ Go("idle")
  /\ UNCHANGED <<settings, pin>>

Pause ==    \* tracking_control with everything off
  /\ pc = "pause" /\ Go("read")
  /\ chip' = [chip EXCEPT !.tracking = FALSE]
  /\ Keep /\ UNCHANGED <<ensm, drv, call>>

(***************************************************************************)
(* ensm_force_state(Alert): nothing is taken if the chip is in ALERT.      *)
(* "Timing out is not an error", so the forced state counts as reached.    *)
(***************************************************************************)
Inside == IF call.op = "quad" THEN "plan" ELSE "set rx"

ReadEnsm ==
  /\ pc = "read"
  /\ call' = [call EXCEPT !.saved = ensm.state]
  /\ Go(IF ensm.state = "alert" THEN Inside ELSE "take")
  /\ Keep /\ UNCHANGED <<ensm, chip, drv>>

TakenWithPins == [state |-> "alert", pinCtrl |-> ensm.pinCtrl]    \* mutant
Taken == [state |-> "alert", pinCtrl |-> FALSE]

TakeEnsm ==
  /\ pc = "take" /\ Go(Inside)
  /\ drv' = [drv EXCEPT !.savedPin = ensm.pinCtrl]
  /\ ensm' = Taken
  /\ Keep /\ UNCHANGED <<chip, call>>

(***************************************************************************)
(* update_rf_bandwidth_filters, one corner after the other, each with a    *)
(* calibration of the chip that can time out: for the bandwidths asked     *)
(* for, wide enough for the tone, and back to the current bandwidths.      *)
(***************************************************************************)
Wide == WideFor(TxTone(settings.clk, drv.bw.tx \div 2))

Corner ==
  CASE pc = "set rx"    -> [side |-> "rx", bw |-> call.want.rx, next |-> "set tx"]
    [] pc = "set tx"    -> [side |-> "tx", bw |-> call.want.tx, next |-> "plan"]
    [] pc = "widen rx"  -> [side |-> "rx", bw |-> Wide,         next |-> "widen tx"]
    [] pc = "widen tx"  -> [side |-> "tx", bw |-> Wide,         next |-> "uninvert"]
    [] pc = "narrow rx" -> [side |-> "rx", bw |-> drv.bw.rx,    next |-> "narrow tx"]
    [] pc = "narrow tx" -> [side |-> "tx", bw |-> drv.bw.tx,    next |-> "resume"]

TuneFilter == chip' = [chip EXCEPT !.filter[Corner.side] = Tuned(Corner.side, Corner.bw)]

SetFilter ==    \* the bandwidths are current once both corners are through
  /\ pc \in Filters /\ TuneFilter /\ Go(Corner.next)
  /\ drv' = IF pc = "set tx" THEN [drv EXCEPT !.bw = call.want] ELSE drv
  /\ Keep /\ UNCHANGED <<ensm, call>>

(***************************************************************************)
(* tx_quad_calib around the calibration itself                             *)
(***************************************************************************)
Plan ==
  LET wide == Widens(TxTone(settings.clk, drv.bw.tx \div 2), drv.bw)
  IN  /\ pc = "plan" /\ Go(IF wide THEN "widen rx" ELSE "uninvert")
      /\ call' = [call EXCEPT !.wide = wide]
      /\ Keep /\ UNCHANGED <<ensm, chip, drv>>

Uninvert ==
  /\ pc = "uninvert" /\ Go("bits")
  /\ chip' = [chip EXCEPT !.inverted = FALSE]
  /\ Keep /\ UNCHANGED <<ensm, drv, call>>

TakeBits ==    \* InvertBits, read to be put back
  /\ pc = "bits" /\ Go("words")
  /\ call' = [call EXCEPT !.bits = chip.bits]
  /\ chip' = [chip EXCEPT !.bits = IF settings.inverted THEN "cal" ELSE @]
  /\ Keep /\ UNCHANGED <<ensm, drv>>

Words ==    \* NCO, thresholds and gain of the calibration
  /\ pc = "words" /\ Go("first")
  /\ Keep /\ UNCHANGED <<ensm, chip, drv, call>>

AfterReinvertKeepingWide == "resume"    \* mutant: the filters stay wide
AfterReinvert == IF call.wide THEN "narrow rx" ELSE "resume"

Reinvert ==    \* "restore even if the cal failed"
  /\ pc = "reinvert" /\ Go("bits back")
  /\ chip' = [chip EXCEPT !.inverted = settings.inverted]
  /\ Keep /\ UNCHANGED <<ensm, drv, call>>

PutBitsBack ==
  /\ pc = "bits back" /\ Go(AfterReinvert)
  /\ chip' = [chip EXCEPT !.bits = IF settings.inverted THEN call.bits ELSE @]
  /\ Keep /\ UNCHANGED <<ensm, drv, call>>

(***************************************************************************)
(* tx_quad_calibrate: the planned phase, then the last one, then all. The  *)
(* last phase isn't tried if it is 31, and after a search it is the one    *)
(* searched for even if nothing converged.                                 *)
(***************************************************************************)
RunAt(phase, remember, to) ==
  /\ call' = [call EXCEPT !.phase = phase]
  /\ drv' = [drv EXCEPT !.phase = IF remember THEN phase ELSE @]
  /\ Go(to)
  /\ Keep /\ UNCHANGED <<ensm, chip>>

TryPlanned ==
  /\ pc = "first"
  /\ \E phase \in FirstPhases(settings.clk, drv.bw.tx \div 2) :
       IF phase \in good THEN RunAt(phase, TRUE, "reinvert") ELSE RunAt(phase, FALSE, "last")

AfterLastTryDone(phase) == "reinvert"    \* mutant: the retry is the last word
AfterLastTry(phase) == IF phase \in good THEN "reinvert" ELSE "search"

TryLast ==
  /\ pc = "last"
  /\ IF drv.phase < NPhases - 1
     THEN RunAt(drv.phase, FALSE, AfterLastTry(drv.phase))
     ELSE Go("search") /\ Keep /\ UNCHANGED <<ensm, chip, drv, call>>

Search ==    \* the 32 runs of tx_quad_phase_search
  /\ pc = "search" /\ Go("settle")
  /\ call' = [call EXCEPT !.found = SearchedPhaseOf[good], !.phase = NPhases - 1]
  /\ drv' = [drv EXCEPT !.phase = SearchedPhaseOf[good]]
  /\ Keep /\ UNCHANGED <<ensm, chip>>

AfterSettleRetrying == IF good = {} THEN "search" ELSE "reinvert"    \* mutant: until it converges
AfterSettle == "reinvert"

Settle == pc = "settle" /\ RunAt(call.found, FALSE, AfterSettle)

(***************************************************************************)
(* Giving back: tracking_control, then ensm_restore_state, which rewrites  *)
(* the configuration it reads with the saved state. A state that is        *)
(* neither running nor ALERT is not restored, nor is pin control then.     *)
(***************************************************************************)
Resume ==
  /\ pc = "resume" /\ Go("restore")
  /\ chip' = [chip EXCEPT !.tracking = TRUE]
  /\ Keep /\ UNCHANGED <<ensm, drv, call>>

Restorable(saved) == saved \in {"run", "alert"}

Restore ==
  /\ pc = "restore" /\ UNCHANGED <<chip, drv>>
  /\ IF Restorable(call.saved)
     THEN /\ ensm' = [ensm EXCEPT !.state = call.saved]
          /\ Go("pins") /\ UNCHANGED call /\ Keep
     ELSE Return(call.err) /\ UNCHANGED <<ensm, counts>>

PinsNever(saved) == FALSE    \* mutant: pin control isn't given back
PinsOn(saved) == saved

Pins ==
  /\ pc = "pins" /\ UNCHANGED <<chip, drv>>
  /\ ensm' = [ensm EXCEPT !.pinCtrl = @ \/ PinsOn(drv.savedPin)]
  /\ Return(call.err) /\ UNCHANGED counts

(***************************************************************************)
(* Failures. An error inside goes to the steps that give back what its     *)
(* part of the code would; one outside ends the call where it is. The      *)
(* accesses before the one that failed have been made, and may have been   *)
(* all that the step writes: forcing and restoring a state first write one *)
(* that leaves nothing but ALERT.                                          *)
(***************************************************************************)
AfterErrorAtOnce == IF pc \in Inner THEN "resume" ELSE "idle"    \* mutant: `?` on the cal
AfterError ==
  IF pc \in Cals THEN "reinvert" ELSE IF pc \in Inner THEN "resume" ELSE "idle"

Fail ==
  /\ IF AfterError = "idle" THEN Return(TRUE)
     ELSE /\ call' = [call EXCEPT !.err = TRUE]
          /\ Go(AfterError)
          /\ UNCHANGED <<settings, pin, good, result>>

EnsmWritten ==
  CASE pc = "take"    -> {ensm, Taken}
    [] pc = "restore" -> IF Restorable(call.saved)
                         THEN {ensm, Taken, [ensm EXCEPT !.state = call.saved]} ELSE {ensm}
    [] pc = "pins"    -> {ensm, [ensm EXCEPT !.pinCtrl = @ \/ PinsOn(drv.savedPin)]}
    [] OTHER          -> {ensm}

ChipWritten ==
  {chip} \cup
  CASE pc = "pause"     -> {[chip EXCEPT !.tracking = FALSE]}
    [] pc \in Filters  -> {[chip EXCEPT !.filter[Corner.side] = bw] :
                             bw \in {Untuned, Tuned(Corner.side, Corner.bw)}}
    [] pc = "uninvert"  -> {[chip EXCEPT !.inverted = FALSE]}
    [] pc = "bits"      -> {[chip EXCEPT !.bits = IF settings.inverted THEN "cal" ELSE @]}
    [] pc = "reinvert"  -> {[chip EXCEPT !.inverted = settings.inverted]}
    [] pc = "bits back" -> {[chip EXCEPT !.bits = IF settings.inverted THEN call.bits ELSE @]}
    [] pc = "resume"    -> {[chip EXCEPT !.tracking = TRUE]}
    [] OTHER            -> {}

SpiError ==
  /\ pc # "idle" /\ spiFaults < MaxSpiFaults
  /\ spiFaults' = spiFaults + 1 /\ UNCHANGED timeouts
  /\ ensm' \in EnsmWritten /\ chip' \in ChipWritten
  /\ \/ drv' = drv /\ (pc = "take" => ensm' = ensm)
     \/ pc = "take" /\ drv' = [drv EXCEPT !.savedPin = ensm.pinCtrl]
  /\ Fail

Timeout ==    \* run_calibration gives up; a corner has been written by then
  /\ pc \in Filters \cup Cals /\ timeouts < MaxTimeouts
  /\ timeouts' = timeouts + 1 /\ UNCHANGED spiFaults
  /\ Fail /\ UNCHANGED <<ensm, drv>>
  /\ IF pc \in Filters THEN TuneFilter ELSE UNCHANGED chip

(***************************************************************************)
(* The ENABLE pin and the chip following it. Leaving the running state     *)
(* takes the chip through a flush state.                                   *)
(***************************************************************************)
MovePin ==
  /\ settings.pinCtrl /\ pin' = ~pin
  /\ UNCHANGED <<settings, ensm, chip, drv, pc, call, good, result, counts>>

FollowPin ==
  /\ \/ ensm.pinCtrl /\ ensm.state = "run" /\ ~pin /\ ensm' = [ensm EXCEPT !.state = "flush"]
     \/ ensm.pinCtrl /\ ensm.state = "alert" /\ pin /\ ensm' = [ensm EXCEPT !.state = "run"]
     \/ ensm.state = "flush" /\ ensm' = [ensm EXCEPT !.state = "alert"]
  /\ UNCHANGED <<settings, pin, chip, drv, pc, call, good, result, counts>>

Steps == \/ Pause \/ ReadEnsm \/ TakeEnsm \/ SetFilter \/ Plan \/ Uninvert \/ TakeBits \/ Words
         \/ TryPlanned \/ TryLast \/ Search \/ Settle \/ Reinvert \/ PutBitsBack
         \/ Resume \/ Restore \/ Pins

Next == \/ Steps \/ SpiError \/ Timeout
        \/ QuadCal \/ UpdateRfBandwidth \/ MovePin \/ FollowPin

Spec == Init /\ [][Next]_vars /\ WF_vars(Steps)

-----------------------------------------------------------------------------
(***************************************************************************)
(* Properties                                                              *)
(***************************************************************************)
Calibrating == pc \in Cals
NoFaults == spiFaults = 0 /\ timeouts = 0

\* Types of the state; the phase offset fits its five bits.
TypeOK ==
  /\ settings \in Settings
  /\ pin \in BOOLEAN
  /\ ensm \in [state : {"run", "flush", "alert"}, pinCtrl : BOOLEAN]
  /\ chip \in [tracking : BOOLEAN, inverted : BOOLEAN, bits : {"own", "cal"}, filter : [rx : Nat, tx : Nat]]
  /\ drv \in [bw : Bandwidths, phase : Phases, savedPin : BOOLEAN]
  /\ pc \in Pcs
  /\ {call.found, call.phase} \subseteq Phases \cup {NoPhase} /\ call.saved \in {"run", "flush", "alert"}
  /\ result \in {"ok", "error"}

\* "want BW / 4 = Rx NCO freq = Tx NCO freq" and "bandwidth has to be wide enough
\* during the cal": while the chip calibrates both NCOs run at the same frequency,
\* at the two clock ratios the code tells apart, and both filters, widened or not,
\* have the tone within a quarter of their baseband bandwidth, in a bandwidth call
\* even after earlier calls failed. A filter that can't be tuned that wide is as
\* wide as it gets, and has the tone within half of it.
Fits(tone, side) ==
  \/ tone <= chip.filter[side] \div 8
  \/ chip.filter[side] = FilterMax[side] /\ tone <= chip.filter[side] \div 4

TonesMeetAndFit ==
  LET tone == TxTone(settings.clk, drv.bw.tx \div 2)
  IN  Calibrating =>
        /\ settings.clk.rf \in {settings.clk.tf, 2 * settings.clk.tf} =>
             RxTone(settings.clk, drv.bw.tx \div 2) = tone
        /\ NoFaults \/ call.op = "bandwidth" =>
             \A side \in {"rx", "tx"} : Fits(tone, side)

\* The retry, the search and the phase it settles on: unless a run of the
\* calibration fails, the last run converges if any phase offset does.
ConvergesIfAnyPhaseDoes ==
  pc = "reinvert" /\ ~call.err /\ good # {} => call.phase \in good

\* find_opt: the phase a search settles on is as far as one can get from the
\* phases that fail, on either side, with 31 next to 0.
Margin(p, set) ==
  LET around(d) == {(p + d) % NPhases, (p - d) % NPhases}
  IN  CHOOSE d \in 0 .. NPhases :
        /\ ~(around(d) \subseteq set)
        /\ \A e \in 0 .. d - 1 : around(e) \subseteq set

Widest(set) == {p \in Phases : \A q \in Phases : Margin(q, set) <= Margin(p, set)}
WidestOf == [set \in Convergent \ {Phases} |-> Widest(set)]

SearchPicksTheWidestMargin ==
  pc = "settle" /\ good # Phases => call.found \in WidestOf[good]

\* A calibration that times out, once or more, still leaves tracking on, the
\* inversion bits as they were and, without pin control, the chip running.
BorrowedIsGivenBack ==
  pc = "idle" /\ spiFaults = 0 =>
    /\ chip.tracking
    /\ chip.inverted = settings.inverted /\ chip.bits = "own"
    /\ ~settings.pinCtrl => ensm.state = "run"

\* Once ALERT was forced, neither the pins nor anything else moves the chip
\* out of it before the calibration is over.
PinsCannotDisturb ==
  Calibrating /\ call.saved # "alert" => ensm = Taken

\* A call that gets to the end of ensm_restore_state hands the chip back to the
\* pins, also if an earlier one found it in a flush state and could not.
PinsRuleAgain ==
  [][pc = "pins" /\ pc' = "idle" /\ spiFaults' = 0 => ensm'.pinCtrl = settings.pinCtrl]_vars

\* The calibrations keep the promise of Loan: one that returns Ok has repaired
\* the tracking and the inversion of the port, whatever failed before, and
\* set_bandwidth returning Ok means the driver has the new bandwidths and both
\* filters are tuned for them. The other inversion bits aren't repaired: what a
\* failed call left is read, and put back.
Lent == INSTANCE Loan WITH
  busy   <- pc # "idle",
  asked  <- IF call.op = "bandwidth" THEN {call.want} ELSE {},
  intact <- chip.tracking /\ chip.inverted = settings.inverted,
  tuned  <- {bw \in {drv.bw} : chip.filter = TunedFor(bw)},
  spoilt <- spiFaults > 0

GivesBack == Lent!Spec

\* Every call ends, also if nothing converges.
CallsEnd == (pc # "idle") ~> (pc = "idle")

\* lib.rs:111, "After init the chip runs in FDD, or in RX when configured for
\* TDD": after a call that succeeded it runs, if nobody asked for pin control.
RunsAfterSuccess ==
  [][pc # "idle" /\ pc' = "idle" /\ result' = "ok" /\ ~settings.pinCtrl =>
       ensm'.state = "run"]_vars

=============================================================================
