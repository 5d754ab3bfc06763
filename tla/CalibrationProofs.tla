--------------------------- MODULE CalibrationProofs ---------------------------
(***************************************************************************)
(* For all settings, bandwidths and sets of converging phases, any number  *)
(* of timeouts and any behaviour of the ENABLE pin: what the calibrations  *)
(* borrow they give back, once ALERT is forced nothing moves the chip, and *)
(* together that is the promise that Loan states. The tones of a           *)
(* calibration meet and fit the filters, and find_opt picks the middle of  *)
(* the widest run.                                                         *)
(***************************************************************************)
EXTENDS Calibration, WellFoundedInduction, TLAPS

(* The fields the steps assign. What else the records hold doesn't matter. *)
Fields ==
  /\ {"op", "saved", "wide", "bits", "err", "want"} \subseteq DOMAIN call
  /\ {"tracking", "inverted", "bits", "filter"} \subseteq DOMAIN chip
  /\ {"state", "pinCtrl"} \subseteq DOMAIN ensm
  /\ "savedPin" \in DOMAIN drv
  /\ spiFaults \in Nat

(* ALERT is forced from the first step inside on, unless it was found. *)
Forced == pc \in Inner => call.saved = "alert" \/ ensm = Taken

(***************************************************************************)
(* Without SPI errors: where tracking is on, where the inversion bits are  *)
(* the configured ones, and, under SPI control, where the chip runs and    *)
(* that a state read is the running one, so that it can be restored.       *)
(***************************************************************************)
TrackingKept == pc \in {"idle", "pause", "restore", "pins"} => chip.tracking = TRUE

InversionKept ==
  pc \notin Cals \cup {"bits", "words", "reinvert"} => chip.inverted = settings.inverted

BitsKept ==
  LET taken == pc \in Cals \cup {"words", "reinvert", "bits back"}
  IN  /\ taken => call.bits = "own"
      /\ ~taken \/ ~settings.inverted => chip.bits = "own"

RunKept ==
  ~settings.pinCtrl =>
    /\ ensm.pinCtrl = FALSE /\ drv.savedPin = FALSE
    /\ call.saved = "run" /\ ensm.state # "flush"
    /\ pc \notin Inner \cup {"resume", "restore"} => ensm.state = "run"

Borrowed == spiFaults = 0 => TrackingKept /\ InversionKept /\ BitsKept /\ RunKept

IInv == Fields /\ Forced /\ Borrowed

-----------------------------------------------------------------------------
(* setup leaves the driver with nothing borrowed. *)
LEMMA InitIInv == Init => IInv
<1> SUFFICES ASSUME Init PROVE IInv
  OBVIOUS
<1>1. Fields
  BY DEF Init, Fields, NoCall
<1>2. Forced
  BY DEF Init, Forced, Inner, Filters, Cals
<1>3. Borrowed
  BY DEF Init, Borrowed, TrackingKept, InversionKept, BitsKept, RunKept, NoCall
<1> QED
  BY <1>1, <1>2, <1>3 DEF IInv

(* Whichever of its accesses have been made, a step that fails leaves the *)
(* records whole, the bandwidths of the driver and, but for the filter    *)
(* being tuned, those of the filters.                                     *)
LEMMA SpiWrites ==
  ASSUME Fields, SpiError
  PROVE  /\ Fail /\ pc # "idle" /\ spiFaults' = spiFaults + 1
         /\ {"state", "pinCtrl"} \subseteq DOMAIN ensm'
         /\ pc \in Inner => ensm' = ensm
         /\ {"tracking", "inverted", "bits", "filter"} \subseteq DOMAIN chip'
         /\ \/ chip'.filter = chip.filter
            \/ pc \in Filters /\ \E bw \in {Untuned, Tuned(Corner.side, Corner.bw)} :
                 chip'.filter = [chip.filter EXCEPT ![Corner.side] = bw]
         /\ DOMAIN drv' = DOMAIN drv
         /\ \A field \in DOMAIN drv \ {"savedPin"} : drv'[field] = drv[field]
<1>1. Fail /\ pc # "idle" /\ spiFaults' = spiFaults + 1
  BY DEF SpiError
<1>2. {"state", "pinCtrl"} \subseteq DOMAIN ensm'
  <2>1. ensm' \in {ensm, Taken, [ensm EXCEPT !.state = call.saved],
                  [ensm EXCEPT !.pinCtrl = @ \/ PinsOn(drv.savedPin)]}
    BY DEF SpiError, EnsmWritten
  <2> QED
    BY <2>1 DEF Fields, Taken
<1>3. pc \in Inner => ensm' = ensm
  BY DEF SpiError, EnsmWritten, Inner, Filters, Cals
<1>4. /\ {"tracking", "inverted", "bits", "filter"} \subseteq DOMAIN chip'
      /\ \/ chip'.filter = chip.filter
         \/ pc \in Filters /\ \E bw \in {Untuned, Tuned(Corner.side, Corner.bw)} :
              chip'.filter = [chip.filter EXCEPT ![Corner.side] = bw]
  <2>1. CASE pc \in Filters
    <3>1. pc \notin {"pause", "uninvert", "bits", "reinvert", "bits back", "resume"}
      BY <2>1 DEF Filters
    <3>2. \/ chip' = chip
          \/ \E bw \in {Untuned, Tuned(Corner.side, Corner.bw)} :
               chip' = [chip EXCEPT !.filter = [chip.filter EXCEPT ![Corner.side] = bw]]
      BY <2>1, <3>1 DEF SpiError, ChipWritten
    <3> QED
      BY <2>1, <3>2 DEF Fields
  <2>2. CASE pc \notin Filters
    <3>1. \/ chip' = chip
          \/ \E on \in {TRUE, FALSE} : chip' = [chip EXCEPT !.tracking = on]
          \/ \E on \in {FALSE, settings.inverted} : chip' = [chip EXCEPT !.inverted = on]
          \/ \E bits \in {"cal", chip.bits, call.bits} : chip' = [chip EXCEPT !.bits = bits]
      BY <2>2 DEF SpiError, ChipWritten
    <3> QED
      BY <3>1 DEF Fields
  <2> QED
    BY <2>1, <2>2
<1>5. /\ DOMAIN drv' = DOMAIN drv
      /\ \A field \in DOMAIN drv \ {"savedPin"} : drv'[field] = drv[field]
  BY DEF SpiError
<1> QED
  BY <1>1, <1>2, <1>3, <1>4, <1>5

(* No step changes the settings or removes a field. *)
LEMMA FieldsKept == IInv /\ Next => Fields' /\ settings' = settings
<1> SUFFICES ASSUME IInv, Next PROVE Fields' /\ settings' = settings
  OBVIOUS
<1> USE DEF IInv, Fields, Keep, counts
<1>1. CASE Pause \/ ReadEnsm \/ TakeEnsm
  BY <1>1 DEF Pause, ReadEnsm, TakeEnsm, Taken
<1>2. CASE SetFilter \/ Plan \/ Uninvert \/ TakeBits \/ Words
  BY <1>2 DEF SetFilter, TuneFilter, Plan, Uninvert, TakeBits, Words
<1>3. CASE TryPlanned \/ TryLast \/ Search \/ Settle
  BY <1>3 DEF TryPlanned, TryLast, Search, Settle, RunAt
<1>4. CASE Reinvert \/ PutBitsBack \/ Resume \/ Restore \/ Pins
  BY <1>4 DEF Reinvert, PutBitsBack, Resume, Restore, Pins, Return, NoCall
<1>5. CASE SpiError
  BY <1>5, SpiWrites DEF Fail, Return, NoCall
<1>14. CASE Timeout
  BY <1>14 DEF Timeout, Fail, Return, NoCall, TuneFilter
<1>6. CASE QuadCal \/ UpdateRfBandwidth
  BY <1>6 DEF QuadCal, UpdateRfBandwidth, Call, NoCall
<1>7. CASE MovePin \/ FollowPin
  BY <1>7 DEF MovePin, FollowPin
<1> QED
  BY <1>1, <1>2, <1>3, <1>4, <1>5, <1>6, <1>7, <1>14 DEF Next, Steps

(* Only the way in sets Forced up, and the pins have no say while it holds. *)
LEMMA ForcedKept == IInv /\ Next => Forced'
<1> SUFFICES ASSUME IInv, Next PROVE Forced'
  OBVIOUS
<1> USE DEF IInv, Fields, Forced, Inner, Filters, Cals, Go
<1>1. CASE Pause \/ ReadEnsm \/ TakeEnsm
  BY <1>1 DEF Pause, ReadEnsm, TakeEnsm, Inside
<1>2. CASE SetFilter \/ Plan \/ Uninvert \/ TakeBits \/ Words
  BY <1>2 DEF SetFilter, Plan, Uninvert, TakeBits, Words, Taken
<1>3. CASE TryPlanned \/ TryLast \/ Search \/ Settle
  BY <1>3 DEF TryPlanned, TryLast, Search, Settle, RunAt, Taken
<1>4. CASE Reinvert \/ PutBitsBack \/ Resume \/ Restore \/ Pins
  BY <1>4 DEF Reinvert, AfterReinvert, PutBitsBack, Resume, Restore, Pins, Return, Taken
<1>5. CASE SpiError
  BY <1>5, SpiWrites DEF Fail, AfterError, Return, Taken
<1>9. CASE Timeout
  BY <1>9 DEF Timeout, Fail, AfterError, Return, Taken
<1>6. CASE QuadCal \/ UpdateRfBandwidth
  BY <1>6 DEF QuadCal, UpdateRfBandwidth, Call
<1>7. CASE MovePin
  BY <1>7 DEF MovePin, Taken
<1>8. CASE FollowPin
  <2>1. UNCHANGED <<pc, call>>
    BY <1>8 DEF FollowPin
  <2>2. ensm # Taken
    <3>1. Taken.pinCtrl = FALSE /\ Taken.state = "alert"
      BY DEF Taken
    <3>2. ensm.pinCtrl \/ ensm.state = "flush"
      BY <1>8 DEF FollowPin
    <3> QED
      BY <3>1, <3>2, Zenon
  <2> QED
    BY <2>1, <2>2
<1> QED
  BY <1>1, <1>2, <1>3, <1>4, <1>5, <1>6, <1>7, <1>8, <1>9 DEF Next, Steps

(* Faults only add up, so a state without them comes from one without them. *)
LEMMA FaultsAddUp ==
  IInv /\ Next =>
    /\ spiFaults' = 0 => spiFaults = 0 /\ ~SpiError
    /\ timeouts \in Nat => timeouts' \in Nat /\ (timeouts' = 0 => timeouts = 0 /\ ~Timeout)
<1> SUFFICES ASSUME IInv, Next
             PROVE  /\ spiFaults' = 0 => spiFaults = 0 /\ ~SpiError
                    /\ timeouts \in Nat => timeouts' \in Nat /\ (timeouts' = 0 => timeouts = 0 /\ ~Timeout)
  OBVIOUS
<1> USE DEF Keep, counts
<1>0. spiFaults \in Nat
  BY DEF IInv, Fields
<1>1. CASE SpiError
  BY <1>0, <1>1 DEF SpiError, Timeout
<1>2. CASE Timeout
  BY <1>0, <1>2 DEF SpiError, Timeout
<1>3. CASE ~SpiError /\ ~Timeout
  <2>1. CASE Pause \/ ReadEnsm \/ TakeEnsm \/ SetFilter \/ Plan \/ Uninvert \/ TakeBits \/ Words
    BY <1>3, <2>1 DEF Pause, ReadEnsm, TakeEnsm, SetFilter, Plan, Uninvert, TakeBits, Words
  <2>2. CASE TryPlanned \/ TryLast \/ Search \/ Settle
    BY <1>3, <2>2 DEF TryPlanned, TryLast, Search, Settle, RunAt
  <2>3. CASE Reinvert \/ PutBitsBack \/ Resume \/ Restore \/ Pins
    BY <1>3, <2>3 DEF Reinvert, PutBitsBack, Resume, Restore, Pins
  <2>4. CASE QuadCal \/ UpdateRfBandwidth \/ MovePin \/ FollowPin
    BY <1>3, <2>4 DEF QuadCal, UpdateRfBandwidth, Call, MovePin, FollowPin
  <2> QED
    BY <1>3, <2>1, <2>2, <2>3, <2>4 DEF Next, Steps
<1> QED
  BY <1>1, <1>2, <1>3

(* One step after the other, what is borrowed is on its way back. *)
LEMMA BorrowedKept == IInv /\ Next => Borrowed'
<1> SUFFICES ASSUME IInv, Next, spiFaults' = 0
             PROVE  (TrackingKept /\ InversionKept /\ BitsKept /\ RunKept)'
  BY DEF Borrowed
<1>1. spiFaults = 0 /\ ~SpiError
  BY FaultsAddUp
<1>3. settings' = settings
  BY FieldsKept
<1>4. TrackingKept /\ InversionKept /\ BitsKept /\ RunKept /\ Fields
  BY <1>1 DEF IInv, Borrowed
<1> USE <1>3, <1>4 DEF Fields, TrackingKept, InversionKept, BitsKept, RunKept, Inner, Filters, Cals, Go
<1>5. CASE Pause \/ ReadEnsm \/ TakeEnsm
  <2>1. CASE Pause
    BY <2>1 DEF Pause
  <2>2. CASE ReadEnsm
    BY <2>2 DEF ReadEnsm, Inside
  <2>3. CASE TakeEnsm
    <3>1. /\ ensm'.pinCtrl = FALSE /\ ensm'.state = "alert"
          /\ drv'.savedPin = ensm.pinCtrl
          /\ pc = "take" /\ pc' \in {"plan", "set rx"} /\ UNCHANGED <<call, chip>>
      BY <2>3 DEF TakeEnsm, Inside, Taken
    <3> QED
      BY <3>1
  <2> QED
    BY <1>5, <2>1, <2>2, <2>3
<1>6. CASE SetFilter
  <2>1. Corner.next \in {"set tx", "plan", "widen tx", "uninvert", "narrow tx", "resume"}
    BY <1>6 DEF SetFilter, Corner
  <2>2. /\ chip'.tracking = chip.tracking /\ chip'.inverted = chip.inverted
        /\ chip'.bits = chip.bits
        /\ pc' = Corner.next /\ drv'.savedPin = drv.savedPin
        /\ UNCHANGED <<ensm, call>>
    BY <1>6 DEF SetFilter, TuneFilter
  <2> QED
    BY <1>6, <2>1, <2>2 DEF SetFilter
<1>7. CASE Plan \/ Uninvert \/ TakeBits \/ Words
  BY <1>7 DEF Plan, Uninvert, TakeBits, Words
<1>8. CASE TryPlanned \/ TryLast \/ Search \/ Settle
  BY <1>8 DEF TryPlanned, TryLast, AfterLastTry, Search, Settle, AfterSettle, RunAt
<1>9. CASE Reinvert \/ PutBitsBack \/ Resume
  BY <1>9 DEF Reinvert, AfterReinvert, PutBitsBack, Resume
<1>10. CASE Restore \/ Pins
  <2>1. CASE Restore
    BY <2>1 DEF Restore, Restorable, Return, NoCall
  <2>2. CASE Pins
    <3>1. /\ pc = "pins" /\ pc' = "idle" /\ call'.saved = "run" /\ UNCHANGED <<chip, drv>>
      BY <2>2 DEF Pins, Return, NoCall
    <3>2. ensm'.state = ensm.state /\ ensm'.pinCtrl = (ensm.pinCtrl \/ drv.savedPin)
      BY <2>2 DEF Pins, PinsOn
    <3>3. ensm.pinCtrl = FALSE /\ drv.savedPin = FALSE => ensm'.pinCtrl = FALSE
      BY <3>2, Zenon
    <3> QED
      BY <3>1, <3>2, <3>3
  <2> QED
    BY <1>10, <2>1, <2>2
<1>11. CASE Timeout
  <2>1. /\ chip'.tracking = chip.tracking /\ chip'.inverted = chip.inverted
        /\ chip'.bits = chip.bits /\ UNCHANGED <<ensm, drv>>
    BY <1>11 DEF Timeout, TuneFilter, Fail
  <2>2. /\ pc \in Cals => pc' = "reinvert"
        /\ pc \in Filters => pc' = "resume"
        /\ pc \in Filters \cup Cals /\ call'.saved = call.saved /\ call'.bits = call.bits
    BY <1>11 DEF Timeout, Fail, AfterError
  <2> QED
    BY <2>1, <2>2
<1>12. CASE QuadCal \/ UpdateRfBandwidth
  BY <1>12 DEF QuadCal, UpdateRfBandwidth, Call, NoCall
<1>13. CASE MovePin \/ FollowPin
  BY <1>13 DEF MovePin, FollowPin
<1> QED
  BY <1>1, <1>5, <1>6, <1>7, <1>8, <1>9, <1>10, <1>11, <1>12, <1>13 DEF Next, Steps

(* The invariant is inductive. *)
LEMMA IInvKept == IInv /\ [Next]_vars => IInv'
<1> SUFFICES ASSUME IInv, [Next]_vars PROVE IInv'
  OBVIOUS
<1>1. CASE Next
  BY <1>1, FieldsKept, ForcedKept, BorrowedKept DEF IInv
<1>2. CASE UNCHANGED vars
  BY <1>2 DEF IInv, Fields, Forced, Borrowed, TrackingKept, InversionKept, BitsKept, RunKept, vars, counts
<1> QED
  BY <1>1, <1>2

LEMMA Invariance == Spec => []IInv
  BY InitIInv, IInvKept, PTL DEF Spec

-----------------------------------------------------------------------------
(* However often calibrations time out and whatever the pins do, every call *)
(* without SPI errors so far leaves tracking on, the inversion bits as      *)
(* configured and, under SPI control, the chip running.                     *)
THEOREM GivesBackWhatItBorrows == Spec => []BorrowedIsGivenBack
<1>1. IInv => BorrowedIsGivenBack
  BY DEF IInv, Borrowed, TrackingKept, InversionKept, BitsKept, RunKept, BorrowedIsGivenBack, Inner,
         Filters, Cals
<1> QED
  BY <1>1, Invariance, PTL

(* Nothing moves the chip out of an ALERT that was forced while it          *)
(* calibrates: not the pins, not a timeout, not an SPI error.               *)
THEOREM ForcedAlertHolds == Spec => []PinsCannotDisturb
<1>1. IInv => PinsCannotDisturb
  BY DEF IInv, Forced, PinsCannotDisturb, Calibrating, Inner
<1> QED
  BY <1>1, Invariance, PTL

-----------------------------------------------------------------------------
(***************************************************************************)
(* Calibration implements Loan, for the same constants.                    *)
(***************************************************************************)

(* The bandwidths the driver remembers, is asked for and tunes for. *)
Pairs ==
  /\ "bw" \in DOMAIN drv /\ drv.bw \in Bandwidths
  /\ call.op = "bandwidth" => call.want \in Bandwidths
  /\ chip.filter = [rx |-> chip.filter.rx, tx |-> chip.filter.tx]
  /\ IF pc = "idle" THEN call = NoCall ELSE call.op \in {"quad", "bandwidth"}
  /\ pc \in {"set rx", "set tx"} => call.op = "bandwidth"

(***************************************************************************)
(* What a call has done by the time it gets to a step, if nothing failed   *)
(* in it so far, whatever it had found: the tracking and the inversion are *)
(* on their way back, and the bandwidth asked for is in the driver and in  *)
(* both filters, but for the steps in which they are wide.                 *)
(***************************************************************************)
AtCorner == Cals \cup {"uninvert", "bits", "words", "reinvert", "bits back"}

RepairedSoFar ==
  /\ pc \in {"restore", "pins"} => chip.tracking = TRUE
  /\ pc \in {"bits back", "narrow rx", "narrow tx", "resume", "restore", "pins"} =>
       chip.inverted = settings.inverted

TunedSoFar ==
  /\ pc \in AtCorner \cup {"plan", "widen rx", "widen tx", "narrow rx", "narrow tx",
                           "resume", "restore", "pins"} => drv.bw = call.want
  /\ pc \in {"widen rx", "widen tx"} => call.wide
  /\ pc \in {"set tx", "narrow tx"} => chip.filter.rx = Tuned("rx", call.want.rx)
  /\ pc \in {"plan", "resume", "restore", "pins"} \/ (pc \in AtCorner /\ ~call.wide) =>
       chip.filter = TunedFor(call.want)

SoFar == pc # "idle" /\ ~call.err =>
           RepairedSoFar /\ (call.op = "bandwidth" => TunedSoFar)

LInv == IInv /\ Pairs /\ SoFar

-----------------------------------------------------------------------------
(* setup leaves a pair of bandwidths that both sides agree on. *)
LEMMA InitLInv == Init => LInv
<1> SUFFICES ASSUME Init PROVE LInv
  OBVIOUS
<1>1. Pairs
  <2>1. PICK bw \in Bandwidths :
          drv.bw = bw /\ chip.filter = TunedFor(bw) /\ "bw" \in DOMAIN drv
    BY DEF Init
  <2>2. chip.filter = [rx |-> chip.filter.rx, tx |-> chip.filter.tx]
    BY <2>1 DEF TunedFor
  <2> QED
    BY <2>1, <2>2 DEF Pairs, Init, NoCall
<1>2. SoFar
  BY DEF Init, SoFar
<1> QED
  BY <1>1, <1>2, InitIInv DEF LInv

(* Bandwidths only come from those that are asked for; a corner changes one *)
(* side of the pair.                                                        *)
LEMMA PairsKept == LInv /\ Next => Pairs'
<1> SUFFICES ASSUME LInv, Next PROVE Pairs'
  OBVIOUS
<1> USE DEF LInv, IInv, Fields, Pairs, Go
<1>1. CASE Pause \/ ReadEnsm \/ TakeEnsm
  BY <1>1 DEF Pause, ReadEnsm, TakeEnsm, Inside
<1>2. CASE SetFilter
  <2>1. chip'.filter = [rx |-> chip'.filter.rx, tx |-> chip'.filter.tx]
    BY <1>2 DEF SetFilter, TuneFilter, Corner, Filters
  <2>2. Corner.next # "idle" /\ pc' = Corner.next /\ UNCHANGED call
    BY <1>2 DEF SetFilter, Corner, Filters
  <2>3. "bw" \in DOMAIN drv' /\ drv'.bw \in Bandwidths
    BY <1>2 DEF SetFilter
  <2> QED
    BY <1>2, <2>1, <2>2, <2>3 DEF SetFilter, Corner, Filters
<1>3. CASE Plan \/ Uninvert \/ TakeBits \/ Words
  BY <1>3 DEF Plan, Uninvert, TakeBits, Words
<1>4. CASE TryPlanned \/ TryLast \/ Search \/ Settle
  BY <1>4 DEF TryPlanned, TryLast, AfterLastTry, Search, Settle, AfterSettle, RunAt
<1>5. CASE Reinvert \/ PutBitsBack \/ Resume
  BY <1>5 DEF Reinvert, PutBitsBack, AfterReinvert, Resume
<1>6. CASE Restore \/ Pins
  <2>1. UNCHANGED <<chip, drv>>
    BY <1>6 DEF Restore, Pins
  <2>2. \/ pc' = "pins" /\ UNCHANGED call /\ pc = "restore"
        \/ pc' = "idle" /\ call' = NoCall
    BY <1>6 DEF Restore, Pins, Return
  <2>3. NoCall.op = "none"
    BY DEF NoCall
  <2> QED
    BY <2>1, <2>2, <2>3
<1>7. CASE SpiError
  <2>1. pc # "idle" /\ "bw" \in DOMAIN drv' /\ drv'.bw = drv.bw
    BY <1>7, SpiWrites
  <2>4. chip'.filter = [rx |-> chip'.filter.rx, tx |-> chip'.filter.tx]
    <3>1. CASE chip'.filter = chip.filter
      BY <3>1
    <3>2. CASE chip'.filter # chip.filter
      <4>1. pc \in Filters /\ \E bw : chip'.filter = [chip.filter EXCEPT ![Corner.side] = bw]
        BY <1>7, <3>2, SpiWrites
      <4>2. Corner.side \in {"rx", "tx"}
        BY <4>1 DEF Corner, Filters
      <4> QED
        BY <4>1, <4>2
    <3> QED
      BY <3>1, <3>2
  <2>2. \/ pc' \in {"reinvert", "resume"} /\ call'.op = call.op /\ call'.want = call.want
        \/ pc' = "idle" /\ call' = NoCall
    BY <1>7 DEF SpiError, Fail, AfterError, Return
  <2>3. NoCall.op = "none"
    BY DEF NoCall
  <2> QED
    BY <2>1, <2>2, <2>3, <2>4
<1>8. CASE Timeout
  <2>1. /\ pc' \in {"reinvert", "resume"} /\ call'.op = call.op /\ call'.want = call.want
        /\ UNCHANGED drv /\ pc # "idle"
    BY <1>8 DEF Timeout, Fail, AfterError, Filters, Inner, Cals
  <2>2. chip'.filter = [rx |-> chip'.filter.rx, tx |-> chip'.filter.tx]
    <3>1. CASE pc \in Filters
      <4>1. Corner.side \in {"rx", "tx"}
        BY <3>1 DEF Corner, Filters
      <4>2. chip'.filter = [chip.filter EXCEPT ![Corner.side] = Tuned(Corner.side, Corner.bw)]
        BY <1>8, <3>1 DEF Timeout, TuneFilter
      <4> QED
        BY <4>1, <4>2
    <3>2. CASE pc \notin Filters
      BY <1>8, <3>2 DEF Timeout
    <3> QED
      BY <3>1, <3>2
  <2> QED
    BY <2>1, <2>2
<1>9. CASE QuadCal \/ UpdateRfBandwidth
  BY <1>9 DEF QuadCal, UpdateRfBandwidth, Call, NoCall
<1>10. CASE MovePin \/ FollowPin
  BY <1>10 DEF MovePin, FollowPin
<1> QED
  BY <1>1, <1>2, <1>3, <1>4, <1>5, <1>6, <1>7, <1>8, <1>9, <1>10 DEF Next, Steps

(* Step by step, what a call without an error has done so far adds up. *)
LEMMA SoFarKept == LInv /\ Next => SoFar'
<1> SUFFICES ASSUME LInv, Next, pc' # "idle", ~call'.err
             PROVE  RepairedSoFar' /\ (call'.op = "bandwidth" => TunedSoFar')
  BY DEF SoFar
<1>1. settings' = settings
  BY FieldsKept DEF LInv
<1> USE <1>1 DEF LInv, SoFar, RepairedSoFar, TunedSoFar, AtCorner, Cals, Pairs, Go, IInv, Fields
<1>2. CASE Pause \/ ReadEnsm \/ TakeEnsm
  BY <1>2 DEF Pause, ReadEnsm, TakeEnsm, Inside
<1>3. CASE SetFilter
  <2>1. /\ pc # "idle" /\ ~call.err /\ UNCHANGED call /\ pc' = Corner.next
        /\ chip'.tracking = chip.tracking /\ chip'.inverted = chip.inverted
    BY <1>3 DEF SetFilter, Filters, TuneFilter
  <2>2. chip'.filter = [chip.filter EXCEPT ![Corner.side] = Tuned(Corner.side, Corner.bw)]
    BY <1>3 DEF SetFilter, TuneFilter
  <2>3. CASE pc = "set rx"
    BY <1>3, <2>1, <2>2, <2>3 DEF Corner
  <2>4. CASE pc = "set tx"
    <3>1. drv'.bw = call.want /\ pc' = "plan"
      BY <1>3, <2>1, <2>4 DEF SetFilter, Corner
    <3>3. chip'.filter = [chip.filter EXCEPT !.tx = Tuned("tx", call.want.tx)]
      BY <2>2, <2>4 DEF Corner
    <3>4. call.op = "bandwidth" => chip.filter.rx = Tuned("rx", call.want.rx)
      BY <2>1, <2>4
    <3>5. call.op = "bandwidth" => chip'.filter = TunedFor(call.want)
      BY <3>3, <3>4 DEF TunedFor
    <3> QED
      BY <2>1, <3>1, <3>5
  <2>5. CASE pc \in {"widen rx", "widen tx"}
    BY <1>3, <2>1, <2>5 DEF SetFilter, Corner
  <2>6. CASE pc = "narrow rx"
    <3>1. drv' = drv /\ pc' = "narrow tx"
      BY <1>3, <2>1, <2>6 DEF SetFilter, Corner
    <3>2. chip'.filter.rx = Tuned("rx", drv.bw.rx)
      BY <2>2, <2>6 DEF Corner
    <3>3. call.op = "bandwidth" => drv.bw = call.want
      BY <2>1, <2>6
    <3>4. chip.inverted = settings.inverted
      BY <2>1, <2>6
    <3> QED
      BY <2>1, <3>1, <3>2, <3>3, <3>4
  <2>7. CASE pc = "narrow tx"
    <3>1. drv' = drv /\ pc' = "resume"
      BY <1>3, <2>1, <2>7 DEF SetFilter, Corner
    <3>3. chip'.filter = [chip.filter EXCEPT !.tx = Tuned("tx", drv.bw.tx)]
      BY <2>2, <2>7 DEF Corner
    <3>4. call.op = "bandwidth" =>
            drv.bw = call.want /\ chip.filter.rx = Tuned("rx", call.want.rx)
      BY <2>1, <2>7
    <3>5. call.op = "bandwidth" => chip'.filter = TunedFor(call.want)
      BY <3>3, <3>4 DEF TunedFor
    <3>6. chip.inverted = settings.inverted
      BY <2>1, <2>7
    <3> QED
      BY <2>1, <3>1, <3>4, <3>5, <3>6
  <2> QED
    BY <1>3, <2>3, <2>4, <2>5, <2>6, <2>7 DEF SetFilter, Filters
<1>4. CASE Plan
  BY <1>4 DEF Plan
<1>5. CASE Uninvert \/ TakeBits \/ Words
  BY <1>5 DEF Uninvert, TakeBits, Words
<1>6. CASE TryPlanned \/ TryLast \/ Search \/ Settle
  BY <1>6 DEF TryPlanned, TryLast, AfterLastTry, Search, Settle, AfterSettle, RunAt
<1>7. CASE Reinvert \/ PutBitsBack
  BY <1>7 DEF Reinvert, PutBitsBack, AfterReinvert
<1>8. CASE Resume
  BY <1>8 DEF Resume
<1>9. CASE Restore \/ Pins
  BY <1>9 DEF Restore, Pins, Return
<1>10. CASE SpiError \/ Timeout
  BY <1>10 DEF SpiError, Timeout, Fail, Return
<1>11. CASE QuadCal \/ UpdateRfBandwidth
  BY <1>11 DEF QuadCal, UpdateRfBandwidth, Call
<1>12. CASE MovePin \/ FollowPin
  BY <1>12 DEF MovePin, FollowPin
<1> QED
  BY <1>2, <1>3, <1>4, <1>5, <1>6, <1>7, <1>8, <1>9, <1>10, <1>11, <1>12 DEF Next, Steps

(* The strengthened invariant is inductive as well. *)
LEMMA LInvKept == LInv /\ [Next]_vars => LInv'
<1> SUFFICES ASSUME LInv, [Next]_vars PROVE LInv'
  OBVIOUS
<1>1. IInv'
  BY IInvKept DEF LInv
<1>2. CASE Next
  BY <1>1, <1>2, PairsKept, SoFarKept DEF LInv
<1>3. CASE UNCHANGED vars
  BY <1>1, <1>3 DEF LInv, Pairs, SoFar, RepairedSoFar, TunedSoFar, vars, counts
<1> QED
  BY <1>2, <1>3

-----------------------------------------------------------------------------
(***************************************************************************)
(* The refinement                                                          *)
(***************************************************************************)
LEMMA TunedType ==
  ASSUME NEW bw \in Bandwidths, NEW filter
  PROVE  {b \in {bw} : filter = TunedFor(b)} \in Lent!AtMostOne
<1>1. CASE filter = TunedFor(bw)
  <2>1. {b \in {bw} : filter = TunedFor(b)} = {bw}
    BY <1>1
  <2> QED
    BY <2>1 DEF Lent!AtMostOne
<1>2. CASE filter # TunedFor(bw)
  <2>1. {b \in {bw} : filter = TunedFor(b)} = {}
    BY <1>2
  <2> QED
    BY <2>1 DEF Lent!AtMostOne
<1> QED
  BY <1>1, <1>2

LEMMA InitRefines == Init => Lent!Init
<1> SUFFICES ASSUME Init PROVE Lent!Init
  OBVIOUS
<1>1. PICK bw \in Bandwidths : drv.bw = bw /\ chip.filter = TunedFor(bw)
  BY DEF Init
<1>2. {b \in {drv.bw} : chip.filter = TunedFor(b)} = {bw}
  BY <1>1
<1>3. {bw} \in Lent!AtMostOne \ {{}}
  BY DEF Lent!AtMostOne
<1>4. /\ pc = "idle" /\ call.op # "bandwidth" /\ chip.tracking = TRUE
      /\ chip.inverted = settings.inverted /\ spiFaults = 0 /\ result = "ok"
  BY DEF Init, NoCall
<1>5. {b \in {drv.bw} : chip.filter = TunedFor(b)} \in Lent!AtMostOne \ {{}}
  BY <1>2, <1>3
<1> QED
  BY <1>4, <1>5 DEF Lent!Init

(* The steps inside a call. *)
LEMMA UseRefines ==
  ASSUME LInv, LInv', pc # "idle", pc' # "idle", result' = result,
         call'.op = call.op, call'.want = call.want, spiFaults' >= spiFaults
  PROVE  Lent!Use
<1>1. {b \in {drv'.bw} : chip'.filter = TunedFor(b)} \in Lent!AtMostOne
  BY TunedType DEF LInv, Pairs
<1>2. (chip'.tracking /\ chip'.inverted = settings'.inverted) \in BOOLEAN
  OBVIOUS
<1>3. spiFaults > 0 => spiFaults' > 0
  BY DEF LInv, IInv, Fields
<1> QED
  BY <1>1, <1>2, <1>3 DEF Lent!Use

(* The steps that end one, the chip being given back or the error an SPI error. *)
LEMMA EndRefines ==
  ASSUME LInv, LInv', pc # "idle", pc' = "idle", call' = NoCall, spiFaults' >= spiFaults,
         \/ pc \in {"restore", "pins"} /\ UNCHANGED <<chip, drv, settings>>
            /\ result' = IF call.err THEN "error" ELSE "ok"
         \/ spiFaults' > 0 /\ result' = "error"
  PROVE  Lent!End
<1>1. {b \in {drv'.bw} : chip'.filter = TunedFor(b)} \in Lent!AtMostOne
  BY TunedType DEF LInv, Pairs
<1>2. spiFaults > 0 => spiFaults' > 0
  BY DEF LInv, IInv, Fields
<1>3. call'.op # "bandwidth"
  BY DEF NoCall
<1>4. CASE pc \in {"restore", "pins"} /\ UNCHANGED <<chip, drv, settings>> /\ ~call.err
  <2>1. chip.tracking = TRUE /\ chip.inverted = settings.inverted
    BY <1>4 DEF LInv, SoFar, RepairedSoFar
  <2>2. call.op = "bandwidth" =>
            {call.want} \subseteq {b \in {drv.bw} : chip.filter = TunedFor(b)}
    BY <1>4 DEF LInv, SoFar, TunedSoFar
  <2> QED
    BY <1>1, <1>2, <1>3, <1>4, <2>1, <2>2 DEF Lent!End
<1>5. CASE pc \in {"restore", "pins"} /\ UNCHANGED <<chip, drv, settings>> /\ call.err
  <2>1. spiFaults = 0 => chip.tracking = TRUE /\ chip.inverted = settings.inverted
    BY <1>5 DEF LInv, IInv, Borrowed, TrackingKept, InversionKept, Cals
  <2>2. spiFaults = 0 \/ spiFaults > 0
    BY DEF LInv, IInv, Fields
  <2> QED
    BY <1>1, <1>2, <1>3, <1>5, <2>1, <2>2 DEF Lent!End
<1>6. CASE spiFaults' > 0 /\ result' = "error"
  BY <1>1, <1>2, <1>3, <1>6 DEF Lent!End
<1> QED
  BY <1>4, <1>5, <1>6

(* Every step begins a call, belongs to one, ends one, or doesn't concern Loan. *)
LEMMA StepRefines == LInv /\ LInv' /\ [Next]_vars => [Lent!Next]_(Lent!vars)
<1> SUFFICES ASSUME LInv, LInv', [Next]_vars PROVE Lent!Next \/ UNCHANGED Lent!vars
  OBVIOUS
<1> USE DEF Go, Keep, counts
<1>0. spiFaults \in Nat
  BY DEF LInv, IInv, Fields
<1>1. CASE Pause \/ ReadEnsm \/ TakeEnsm
  <2>1. /\ pc # "idle" /\ pc' # "idle" /\ result' = result /\ spiFaults' = spiFaults
        /\ call'.op = call.op /\ call'.want = call.want
    BY <1>1 DEF Pause, ReadEnsm, TakeEnsm, Inside, LInv, IInv, Fields
  <2> QED
    BY <1>0, <2>1, UseRefines DEF Lent!Next
<1>2. CASE SetFilter \/ Plan \/ Uninvert \/ TakeBits \/ Words
  <2>1. pc # "idle" /\ pc' # "idle" /\ result' = result /\ spiFaults' = spiFaults
    BY <1>2 DEF SetFilter, Filters, Corner, Plan, Uninvert, TakeBits, Words
  <2>2. call'.op = call.op /\ call'.want = call.want
    BY <1>2 DEF SetFilter, Plan, Uninvert, TakeBits, Words, LInv, IInv, Fields
  <2> QED
    BY <1>0, <2>1, <2>2, UseRefines DEF Lent!Next
<1>3. CASE TryPlanned \/ TryLast \/ Search \/ Settle
  <2>1. /\ pc # "idle" /\ pc' # "idle" /\ result' = result /\ spiFaults' = spiFaults
        /\ call'.op = call.op /\ call'.want = call.want
    BY <1>3 DEF TryPlanned, TryLast, AfterLastTry, Search, Settle, AfterSettle, RunAt,
                LInv, IInv, Fields
  <2> QED
    BY <1>0, <2>1, UseRefines DEF Lent!Next
<1>4. CASE Reinvert \/ PutBitsBack \/ Resume
  <2>1. /\ pc # "idle" /\ pc' # "idle" /\ result' = result /\ spiFaults' = spiFaults
        /\ call' = call
    BY <1>4 DEF Reinvert, PutBitsBack, AfterReinvert, Resume
  <2> QED
    BY <1>0, <2>1, UseRefines DEF Lent!Next
<1>5. CASE Restore \/ Pins
  <2>1. /\ pc \in {"restore", "pins"} /\ UNCHANGED <<chip, drv, settings>>
        /\ spiFaults' = spiFaults
    BY <1>5 DEF Restore, Pins, Return
  <2>2. \/ pc' = "pins" /\ result' = result /\ call' = call
        \/ pc' = "idle" /\ call' = NoCall /\ result' = IF call.err THEN "error" ELSE "ok"
    BY <1>5 DEF Restore, Pins, Return
  <2>3. CASE pc' = "pins" /\ result' = result /\ call' = call
    BY <1>0, <2>1, <2>3, UseRefines DEF Lent!Next
  <2>4. CASE pc' = "idle" /\ call' = NoCall /\ result' = IF call.err THEN "error" ELSE "ok"
    BY <1>0, <2>1, <2>4, EndRefines DEF Lent!Next
  <2> QED
    BY <2>2, <2>3, <2>4
<1>6. CASE SpiError
  <2>1. pc # "idle" /\ spiFaults' = spiFaults + 1
    BY <1>6 DEF SpiError
  <2>2. \/ /\ pc' \in {"reinvert", "resume"} /\ result' = result
           /\ call'.op = call.op /\ call'.want = call.want
        \/ pc' = "idle" /\ call' = NoCall /\ result' = "error"
    BY <1>6 DEF SpiError, Fail, AfterError, Return, LInv, IInv, Fields
  <2> QED
    BY <1>0, <2>1, <2>2, UseRefines, EndRefines DEF Lent!Next
<1>7. CASE Timeout
  <2>1. /\ pc # "idle" /\ pc' # "idle" /\ result' = result /\ spiFaults' = spiFaults
        /\ call'.op = call.op /\ call'.want = call.want
    BY <1>7 DEF Timeout, Fail, AfterError, Filters, Cals, Inner, LInv, IInv, Fields
  <2> QED
    BY <1>0, <2>1, UseRefines DEF Lent!Next
<1>8. CASE QuadCal \/ UpdateRfBandwidth
  <2>1. /\ pc = "idle" /\ pc' = "pause"
        /\ UNCHANGED <<settings, chip, drv, result, spiFaults>>
    BY <1>8 DEF QuadCal, UpdateRfBandwidth, Call
  <2>2. \/ call'.op = "quad"
        \/ call'.op = "bandwidth" /\ call'.want \in Bandwidths
    BY <1>8 DEF QuadCal, UpdateRfBandwidth, Call, NoCall
  <2>3. (IF call'.op = "bandwidth" THEN {call'.want} ELSE {}) \in Lent!AtMostOne
    BY <2>2 DEF Lent!AtMostOne
  <2> QED
    BY <2>1, <2>3 DEF Lent!Next, Lent!Begin
<1>9. CASE MovePin \/ FollowPin \/ UNCHANGED vars
  <2>1. UNCHANGED <<pc, call, chip, settings, drv, spiFaults, result>>
    BY <1>9 DEF MovePin, FollowPin, vars
  <2> QED
    BY <2>1 DEF Lent!vars
<1> QED
  BY <1>1, <1>2, <1>3, <1>4, <1>5, <1>6, <1>7, <1>8, <1>9 DEF Next, Steps

(***************************************************************************)
(* The calibrations keep the promise that callers rely on (Loan): between  *)
(* calls nothing changes, a call that returns Ok has given back tracking   *)
(* and inversion and has tuned what it was asked to tune, whatever failed  *)
(* before it, and a failed one has given back too if the chip could always *)
(* be reached.                                                             *)
(***************************************************************************)
THEOREM CalibrationImplementsLoan == Spec => GivesBack
<1>1. Init => Lent!Init
  BY InitRefines
<1>2. Spec => []LInv
  BY InitLInv, LInvKept, PTL DEF Spec
<1>3. LInv /\ LInv' /\ [Next]_vars => [Lent!Next]_(Lent!vars)
  BY StepRefines
<1> QED
  BY <1>1, <1>2, <1>3, PTL DEF Spec, GivesBack, Lent!Spec

-----------------------------------------------------------------------------
(***************************************************************************)
(* find_opt, for every set of phases that converge.                        *)
(***************************************************************************)
LEMMA LeastNatural ==
  ASSUME NEW S \in SUBSET Nat, S # {}
  PROVE  \E m \in S : \A k \in S : m <= k
<1> DEFINE R == OpToRel(<, Nat)
<1>1. IsWellFoundedOn(R, Nat)
  BY NatLessThanWellFounded
<1>2. \A x, y \in Nat : x < y => <<x, y>> \in R
  BY DEF OpToRel
<1> HIDE DEF R
<1>3. PICK m \in S : \A y \in S : ~ (<<y, m>> \in R)
  BY <1>1, WFMin
<1>4. \A k \in S : m <= k
  <2>1. \A x, y \in Nat : x <= y \/ y < x
    OBVIOUS
  <2> QED
    BY <1>2, <1>3, <2>1
<1> QED
  BY <1>4

LEMMA GreatestNatural ==
  ASSUME NEW S \in SUBSET Nat, S # {}, NEW n \in Nat, \A k \in S : k <= n
  PROVE  \E m \in S : \A k \in S : k <= m
<1> DEFINE T == {n - k : k \in S}
<1>1. T \in SUBSET Nat /\ T # {}
  <2>1. \A k \in S : n - k \in Nat
    OBVIOUS
  <2>2. PICK k \in S : TRUE
    OBVIOUS
  <2>3. n - k \in T
    OBVIOUS
  <2> QED
    BY <2>1, <2>3
<1>2. PICK t \in T : \A u \in T : t <= u
  BY <1>1, LeastNatural
<1>3. PICK m \in S : t = n - m
  OBVIOUS
<1>4. \A k \in S : k <= m
  <2> SUFFICES ASSUME NEW k \in S PROVE k <= m
    OBVIOUS
  <2>1. n - k \in T
    OBVIOUS
  <2>2. n - m <= n - k
    BY <1>2, <1>3, <2>1
  <2> QED
    BY <2>2
<1> QED
  BY <1>4

\* The runs of the calibration that converge, in a field of n.
Converged(n, set) == {i \in 0 .. n - 1 : i % NPhases \in set}
Starts(n, set)    == {i \in Converged(n, set) : i - 1 \notin Converged(n, set)}
Ends(n, set)      == {i \in Converged(n, set) : i + 1 \notin Converged(n, set)}
EndOf(n, set, i)  ==
  CHOOSE e \in Ends(n, set) : e >= i /\ \A f \in Ends(n, set) : f >= i => e <= f
LengthOf(n, set, i) == EndOf(n, set, i) - i + 1

\* From a converging phase on everything converges up to the next end.
LEMMA RunEnds ==
  ASSUME NEW n \in Nat, NEW set, NEW i \in Converged(n, set)
  PROVE  LET e == EndOf(n, set, i)
         IN  /\ e \in Nat /\ e >= i /\ e < n /\ e + 1 \notin Converged(n, set)
             /\ \A j \in i .. e : j \in Converged(n, set)
<1> DEFINE C == Converged(n, set)
           E == Ends(n, set)
           e == EndOf(n, set, i)
<1>1. \A j \in C : j \in Nat /\ j < n
  BY DEF Converged
<1>2. E = {j \in C : j + 1 \notin C}
  BY DEF Ends
<1>3. e = CHOOSE d \in E : d >= i /\ \A f \in E : f >= i => d <= f
  BY DEF EndOf
<1> HIDE DEF C, E, e
<1>4. i \in C
  BY DEF C
<1> DEFINE Fails == {j \in Nat : j > i /\ j \notin C}
<1>5. PICK m \in Fails : \A j \in Fails : m <= j
  <2>1. n \in Fails
    BY <1>1, <1>4
  <2> HIDE DEF Fails
  <2>2. Fails \in SUBSET Nat
    BY DEF Fails
  <2> QED
    BY <2>1, <2>2, LeastNatural
<1>6. m \in Nat /\ i \in Nat /\ m - 1 \in Nat /\ m - 1 >= i /\ (m - 1) + 1 = m
  BY <1>1, <1>4
<1>7. \A j \in i .. m - 1 : j \in C
  BY <1>4, <1>5, <1>6
<1>8. m - 1 \in E
  BY <1>2, <1>5, <1>6, <1>7
<1> DEFINE Later == {d \in E : d >= i}
<1>9. PICK d \in Later : \A f \in Later : d <= f
  <2>1. Later \in SUBSET Nat /\ Later # {}
    BY <1>1, <1>2, <1>6, <1>8
  <2> QED
    BY <2>1, LeastNatural
<1>10. e \in E /\ e >= i /\ \A f \in E : f >= i => e <= f
  BY <1>3, <1>9
<1>11. e \in Nat /\ e < n /\ e + 1 \notin C
  BY <1>1, <1>2, <1>10
<1>12. e <= m - 1
  BY <1>6, <1>8, <1>10
<1>13. \A j \in i .. e : j \in C
  BY <1>6, <1>7, <1>11, <1>12
<1> QED
  BY <1>10, <1>11, <1>13 DEF C, e

\* And back to a start.
LEMMA RunStarts ==
  ASSUME NEW n \in Nat, NEW set, NEW i \in Converged(n, set)
  PROVE  \E s \in Starts(n, set) : s <= i /\ \A j \in s .. i : j \in Converged(n, set)
<1> DEFINE C == Converged(n, set)
<1>1. \A j \in C : j \in Nat
  BY DEF Converged
<1>2. Starts(n, set) = {j \in C : j - 1 \notin C}
  BY DEF Starts
<1> HIDE DEF C
<1>3. i \in C
  BY DEF C
<1> DEFINE From == {s \in Nat : s <= i /\ \A j \in s .. i : j \in C}
<1>4. PICK s \in From : \A r \in From : s <= r
  <2>1. i \in From
    BY <1>1, <1>3
  <2> HIDE DEF From
  <2>2. From \in SUBSET Nat
    BY DEF From
  <2> QED
    BY <2>1, <2>2, LeastNatural
<1>5. s \in Nat /\ i \in Nat /\ s <= i /\ s \in C
  BY <1>1, <1>3, <1>4
<1>6. s - 1 \notin C
  <2> SUFFICES ASSUME s - 1 \in C PROVE FALSE
    OBVIOUS
  <2>1. s - 1 \in Nat
    BY <1>1
  <2>2. \A j \in s - 1 .. i : j \in C
    <3> SUFFICES ASSUME NEW j \in s - 1 .. i PROVE j \in C
      OBVIOUS
    <3>1. j = s - 1 \/ j \in s .. i
      BY <1>5, <2>1
    <3> QED
      BY <1>4, <3>1
  <2>3. s - 1 \in From
    BY <1>5, <2>1, <2>2
  <2>4. s <= s - 1
    BY <1>4, <2>3
  <2> QED
    BY <1>5, <2>4
<1> QED
  BY <1>2, <1>4, <1>5, <1>6 DEF C

\* The longest run, and the first of those.
LEMMA LongestIs ==
  ASSUME NEW n \in Nat, NEW set, Converged(n, set) # {}
  PROVE  \E i \in Starts(n, set) :
           /\ LongestRun(n, set) = <<LengthOf(n, set, i), i>>
           /\ \A j \in Starts(n, set) : LengthOf(n, set, j) <= LengthOf(n, set, i)
<1> DEFINE St == Starts(n, set)
           E(i) == EndOf(n, set, i)
           L(i) == LengthOf(n, set, i)
           runs == {<<E(i), i>> : i \in St}
           length(r) == r[1] - r[2] + 1
           longest   == {r \in runs : \A q \in runs : length(q) <= length(r)}
           first     == CHOOSE r \in longest : \A q \in longest : r[2] <= q[2]
<1>1. \A i \in St : i \in Nat /\ L(i) = E(i) - i + 1 /\ L(i) \in Nat /\ L(i) <= n
  <2> SUFFICES ASSUME NEW i \in St PROVE i \in Nat /\ L(i) = E(i) - i + 1 /\ L(i) \in Nat /\ L(i) <= n
    OBVIOUS
  <2>1. i \in Converged(n, set) /\ i \in Nat
    BY DEF Starts, Converged
  <2>2. E(i) \in Nat /\ E(i) >= i /\ E(i) < n
    BY <2>1, RunEnds
  <2>3. L(i) = E(i) - i + 1
    BY DEF LengthOf
  <2> HIDE DEF E, L
  <2> QED
    BY <2>1, <2>2, <2>3
<1>2. St # {}
  BY RunStarts
<1>3. LongestRun(n, set) = IF runs = {} THEN <<0, 0>> ELSE <<length(first), first[2]>>
  BY DEF LongestRun, Converged, Starts, Ends, EndOf
<1> HIDE DEF St, E, L
<1>4. PICK m \in St : \A j \in St : L(j) <= L(m)
  <2> DEFINE Ls == {L(i) : i \in St}
  <2>1. Ls \in SUBSET Nat /\ Ls # {} /\ \A k \in Ls : k <= n
    BY <1>1, <1>2
  <2>2. PICK l \in Ls : \A k \in Ls : k <= l
    BY <2>1, GreatestNatural
  <2> QED
    BY <2>2
<1> DEFINE Best == {i \in St : \A j \in St : L(j) <= L(i)}
<1>5. PICK b \in Best : \A k \in Best : b <= k
  <2>1. Best \in SUBSET Nat /\ Best # {}
    BY <1>1, <1>4
  <2> QED
    BY <2>1, LeastNatural
<1>6. \A i \in St : <<E(i), i>> \in runs /\ length(<<E(i), i>>) = L(i)
  BY <1>1
<1>7. \A r \in runs : \E j \in St : r = <<E(j), j>> /\ length(r) = L(j)
  BY <1>6
<1> HIDE DEF runs, length
<1>8. \A i \in Best : <<E(i), i>> \in longest
  <2> SUFFICES ASSUME NEW i \in Best PROVE <<E(i), i>> \in longest
    OBVIOUS
  <2>1. \A q \in runs : length(q) <= length(<<E(i), i>>)
    BY <1>6, <1>7
  <2> QED
    BY <1>6, <2>1
<1>9. \A r \in longest : \E i \in Best : r = <<E(i), i>>
  <2> SUFFICES ASSUME NEW r \in longest PROVE \E i \in Best : r = <<E(i), i>>
    OBVIOUS
  <2>1. PICK i \in St : r = <<E(i), i>> /\ length(r) = L(i)
    BY <1>7
  <2>2. \A j \in St : L(j) <= L(i)
    BY <1>6, <2>1
  <2> QED
    BY <2>1, <2>2
<1>10. first \in longest /\ \A q \in longest : first[2] <= q[2]
  <2>1. <<E(b), b>> \in longest
    BY <1>5, <1>8
  <2>2. \A q \in longest : <<E(b), b>>[2] <= q[2]
    BY <1>5, <1>9
  <2> HIDE DEF longest
  <2> QED
    BY <2>1, <2>2
<1> HIDE DEF first
<1>11. PICK i \in Best : first = <<E(i), i>>
  BY <1>9, <1>10
<1>12. LongestRun(n, set) = <<L(i), i>>
  <2>1. runs # {}
    BY <1>6, <1>11
  <2>2. length(first) = L(i) /\ first[2] = i
    BY <1>6, <1>11
  <2> QED
    BY <1>3, <2>1, <2>2
<1> QED
  BY <1>11, <1>12 DEF St, L

\* What a search that converged somewhere finds: a run, in the field of 64, that
\* no other is longer than.
LEMMA FoundIs ==
  ASSUME NEW set, Converged(2 * NPhases, set) # {}
  PROVE  LET S == FindOpt(set)[2]
             L == FindOpt(set)[1]
         IN  /\ S \in Nat /\ L \in Nat /\ L >= 1 /\ S + L <= 2 * NPhases
             /\ \A j \in S .. S + L - 1 : j % NPhases \in set
             /\ \A a, b \in 0 .. 2 * NPhases - 1 :
                  a <= b /\ (\A j \in a .. b : j % NPhases \in set) => b - a + 1 <= L
<1> DEFINE n == 2 * NPhases
           C == Converged(n, set)
           L == FindOpt(set)[1]
<1>1. n \in Nat /\ n = 64
  BY DEF NPhases
<1>2. PICK S \in Starts(n, set) :
         /\ FindOpt(set) = <<LengthOf(n, set, S), S>>
         /\ \A j \in Starts(n, set) : LengthOf(n, set, j) <= LengthOf(n, set, S)
  BY <1>1, LongestIs DEF FindOpt
<1>3. L = LengthOf(n, set, S) /\ FindOpt(set)[2] = S
  BY <1>2
<1>4. \A i \in Starts(n, set) : i \in C
  BY DEF Starts
<1>5. \A i : i \in C <=> i \in 0 .. n - 1 /\ i % NPhases \in set
  BY DEF Converged
<1>6. \A i \in C : /\ i \in Nat /\ EndOf(n, set, i) \in Nat /\ EndOf(n, set, i) >= i
                   /\ EndOf(n, set, i) < n /\ EndOf(n, set, i) + 1 \notin C
                   /\ \A j \in i .. EndOf(n, set, i) : j \in C
  BY <1>1, <1>5, RunEnds
<1>7. \A i \in C : LengthOf(n, set, i) = EndOf(n, set, i) - i + 1
  BY DEF LengthOf
<1>8. ASSUME NEW a \in 0 .. n - 1, NEW b \in 0 .. n - 1, a <= b,
             \A j \in a .. b : j % NPhases \in set
      PROVE  b - a + 1 <= L
  <2>1. \A j \in a .. b : j \in C
    BY <1>1, <1>5, <1>8
  <2>2. a \in C
    BY <1>1, <2>1, <1>8
  <2>3. PICK s \in Starts(n, set) : s <= a /\ \A j \in s .. a : j \in C
    BY <1>1, <2>2, RunStarts
  <2> DEFINE e == EndOf(n, set, s)
  <2>4. /\ s \in Nat /\ e \in Nat /\ e >= s /\ e + 1 \notin C
        /\ LengthOf(n, set, s) = e - s + 1
    BY <1>4, <1>6, <1>7
  <2> HIDE DEF e, C
  <2>5. e >= b
    <3> SUFFICES ASSUME e < b PROVE FALSE
      BY <1>1, <2>4
    <3>1. e + 1 \in s .. a \/ e + 1 \in a .. b
      BY <1>1, <2>3, <2>4
    <3> QED
      BY <2>1, <2>3, <2>4, <3>1
  <2>6. e - s + 1 <= L
    BY <1>2, <1>3, <2>4
  <2>7. L \in Int
    BY <1>3, <1>4, <1>6, <1>7
  <2> HIDE DEF L
  <2> QED
    BY <1>1, <2>3, <2>4, <2>5, <2>6, <2>7
<1> DEFINE d == EndOf(n, set, S)
<1>9. /\ S \in Nat /\ d \in Nat /\ d >= S /\ d < n /\ L = d - S + 1
      /\ \A j \in S .. d : j \in C
  BY <1>3, <1>4, <1>6, <1>7
<1> HIDE DEF d, L, C
<1>10. /\ L \in Nat /\ L >= 1 /\ S + L <= n /\ S + L - 1 = d
  BY <1>1, <1>9
<1>11. \A j \in S .. S + L - 1 : j % NPhases \in set
  BY <1>5, <1>9, <1>10
<1> QED
  BY <1>3, <1>8, <1>9, <1>10, <1>11 DEF L

\* The field is long enough for every phase, and the phases come round.
LEMMA SetsConverge ==
  ASSUME NEW set \in SUBSET Phases
  PROVE  set # {} => Converged(2 * NPhases, set) # {}
<1>1. \A p \in Phases : p \in 0 .. 2 * NPhases - 1 /\ p % NPhases = p
  BY DEF Phases, NPhases
<1> QED
  BY <1>1 DEF Converged

LEMMA NothingFound ==
  ASSUME NEW set, Converged(2 * NPhases, set) = {}
  PROVE  FindOpt(set) = <<0, 0>>
<1>1. Starts(2 * NPhases, set) = {}
  BY DEF Starts
<1> QED
  BY <1>1 DEF FindOpt, LongestRun, Starts, Converged

LEMMA Middle ==
  ASSUME NEW L \in Nat, L >= 1
  PROVE  LET h == L \div 2
         IN  /\ h \in Nat /\ h <= L - 1 /\ 2 * h >= L - 1 /\ 2 * h <= L
OBVIOUS

(***************************************************************************)
(* The searched phase is a phase, and one that converges if any does.      *)
(***************************************************************************)
LEMMA SearchedIs ==
  ASSUME NEW set \in SUBSET Phases
  PROVE  /\ SearchedPhase(set) \in Phases
         /\ set # {} => SearchedPhase(set) \in set
<1> DEFINE S == FindOpt(set)[2]
           L == FindOpt(set)[1]
           x == S + L \div 2
<1>1. SearchedPhase(set) = x % NPhases
  BY DEF SearchedPhase
<1>2. CASE Converged(2 * NPhases, set) = {}
  <2>1. S = 0 /\ L = 0
    BY <1>2, NothingFound
  <2>2. set = {}
    BY <1>2, SetsConverge
  <2> HIDE DEF S, L
  <2>3. x % NPhases \in Phases
    BY <2>1 DEF NPhases, Phases
  <2> QED
    BY <1>1, <2>2, <2>3
<1>3. CASE Converged(2 * NPhases, set) # {}
  <2>1. /\ S \in Nat /\ L \in Nat /\ L >= 1
        /\ \A j \in S .. S + L - 1 : j % NPhases \in set
    BY <1>3, FoundIs
  <2> HIDE DEF S, L
  <2>2. x \in S .. S + L - 1
    BY <2>1, Middle
  <2>3. x % NPhases \in set
    BY <2>1, <2>2
  <2> QED
    BY <1>1, <2>3
<1> QED
  BY <1>2, <1>3

(***************************************************************************)
(* How far a phase is from those that fail: that far nothing fails, and at *)
(* that distance something does. Half way round is the furthest.           *)
(***************************************************************************)
Around(p, d) == {(p + d) % NPhases, (p - d) % NPhases}

LEMMA FailsNearby ==
  ASSUME NEW p \in Phases, NEW x \in Phases
  PROVE  \E d \in 0 .. 16 : x \in Around(p, d)
<1> USE DEF Phases, NPhases, Around
<1>1. CASE x >= p /\ x - p <= 16
  <2>1. x - p \in 0 .. 16 /\ (p + (x - p)) % 32 = x
    BY <1>1
  <2> QED
    BY <2>1
<1>2. CASE x >= p /\ x - p > 16
  <2>1. 32 - (x - p) \in 0 .. 16 /\ (p - (32 - (x - p))) % 32 = x
    BY <1>2
  <2> QED
    BY <2>1
<1>3. CASE x < p /\ p - x <= 16
  <2>1. p - x \in 0 .. 16 /\ (p - (p - x)) % 32 = x
    BY <1>3
  <2> QED
    BY <2>1
<1>4. CASE x < p /\ p - x > 16
  <2>1. 32 - (p - x) \in 0 .. 16 /\ (p + (32 - (p - x))) % 32 = x
    BY <1>4
  <2> QED
    BY <2>1
<1> QED
  BY <1>1, <1>2, <1>3, <1>4

LEMMA MarginIs ==
  ASSUME NEW set \in SUBSET Phases, set # Phases, NEW p \in Phases
  PROVE  LET m == Margin(p, set)
         IN  /\ m \in 0 .. 16 /\ ~(Around(p, m) \subseteq set)
             /\ \A e \in 0 .. m - 1 : Around(p, e) \subseteq set
<1> DEFINE Fails == {d \in Nat : ~(Around(p, d) \subseteq set)}
<1>1. PICK x \in Phases : x \notin set
  OBVIOUS
<1>2. PICK d \in 0 .. 16 : x \in Around(p, d)
  BY FailsNearby
<1>3. d \in Fails
  BY <1>1, <1>2
<1>4. PICK m \in Fails : \A k \in Fails : m <= k
  <2> HIDE DEF Fails
  <2>1. Fails \in SUBSET Nat
    BY DEF Fails
  <2> QED
    BY <1>3, <2>1, LeastNatural
<1>5. m \in 0 .. 16
  BY <1>3, <1>4
<1>6. \A e \in 0 .. m - 1 : Around(p, e) \subseteq set
  BY <1>4
<1>7. Margin(p, set) = CHOOSE k \in 0 .. NPhases : /\ ~(Around(p, k) \subseteq set)
                                               /\ \A e \in 0 .. k - 1 : Around(p, e) \subseteq set
  BY DEF Margin, Around
<1>8. m \in 0 .. NPhases /\ ~(Around(p, m) \subseteq set)
  BY <1>4, <1>5 DEF NPhases
<1> DEFINE k == Margin(p, set)
<1> HIDE DEF k, Fails
<1>9. /\ k \in 0 .. NPhases /\ ~(Around(p, k) \subseteq set)
      /\ \A e \in 0 .. k - 1 : Around(p, e) \subseteq set
  BY <1>6, <1>7, <1>8 DEF k
<1>10. k <= m
  BY <1>5, <1>8, <1>9 DEF NPhases
<1> QED
  BY <1>5, <1>9, <1>10 DEF k, NPhases

LEMMA RoundAndRound ==
  ASSUME NEW x \in Nat, NEW d \in Nat, NEW y \in Nat, y = x \/ y = x + NPhases
  PROVE  /\ ((x % NPhases) + d) % NPhases = (x + d) % NPhases
         /\ ((x % NPhases) - d) % NPhases = (x - d) % NPhases
         /\ (y + d) % NPhases = (x + d) % NPhases
         /\ (y - d) % NPhases = (x - d) % NPhases
BY DEF NPhases

\* Around the middle of the run nothing fails, half its length to either side.
LEMMA MiddleHasMargin ==
  ASSUME NEW set \in SUBSET Phases, set # Phases, set # {}
  PROVE  2 * Margin(SearchedPhase(set), set) >= FindOpt(set)[1]
<1> DEFINE S == FindOpt(set)[2]
           L == FindOpt(set)[1]
           h == L \div 2
           p == SearchedPhase(set)
           m == Margin(p, set)
<1>1. /\ S \in Nat /\ L \in Nat /\ L >= 1
      /\ \A j \in S .. S + L - 1 : j % NPhases \in set
  BY SetsConverge, FoundIs
<1>2. p = (S + h) % NPhases /\ p \in Phases
  BY SearchedIs DEF SearchedPhase
<1>3. m \in 0 .. 16 /\ ~(Around(p, m) \subseteq set)
  BY <1>2, MarginIs
<1> HIDE DEF S, L, p, m
<1>4. h \in Nat /\ h <= L - 1 /\ 2 * h >= L - 1 /\ 2 * h <= L
  BY <1>1, Middle
<1> HIDE DEF h
<1>5. ASSUME 2 * m < L PROVE FALSE
  <2>1. (S + h) + m \in S .. S + L - 1 /\ (S + h) - m \in S .. S + L - 1
    BY <1>1, <1>3, <1>4, <1>5
  <2>2. ((S + h) + m) % NPhases \in set /\ ((S + h) - m) % NPhases \in set
    BY <1>1, <2>1
  <2>3. S + h \in Nat /\ m \in Nat
    BY <1>1, <1>3, <1>4
  <2>4. (p + m) % NPhases \in set /\ (p - m) % NPhases \in set
    <3> DEFINE x == S + h
    <3>1. /\ x \in Nat /\ p = x % NPhases
          /\ (x + m) % NPhases \in set /\ (x - m) % NPhases \in set
      BY <1>2, <2>2, <2>3
    <3> HIDE DEF x
    <3>2. /\ ((x % NPhases) + m) % NPhases = (x + m) % NPhases
          /\ ((x % NPhases) - m) % NPhases = (x - m) % NPhases
      BY <2>3, <3>1, RoundAndRound
    <3> QED
      BY <3>1, <3>2
  <2> QED
    BY <1>3, <2>4 DEF Around
<1>6. L \in Nat /\ m \in Nat
  BY <1>1, <1>3
<1> QED
  BY <1>5, <1>6 DEF L, m, p

\* And no phase is further from those that fail, as its surroundings are a run.
LEMMA NoMarginIsWider ==
  ASSUME NEW set \in SUBSET Phases, set # Phases, set # {}, NEW q \in Phases
  PROVE  2 * Margin(q, set) <= FindOpt(set)[1] + 1
<1> DEFINE L == FindOpt(set)[1]
           m == Margin(q, set)
           y == IF q + m <= 32 THEN q + 32 ELSE q
           a == y - (m - 1)
           b == y + (m - 1)
<1>1. /\ L \in Nat /\ L >= 1
      /\ \A i, k \in 0 .. 2 * NPhases - 1 :
           i <= k /\ (\A j \in i .. k : j % NPhases \in set) => k - i + 1 <= L
  BY SetsConverge, FoundIs
<1>2. m \in 0 .. 16 /\ \A e \in 0 .. m - 1 : Around(q, e) \subseteq set
  BY MarginIs
<1>3. q \in 0 .. 31 /\ q \in Nat
  BY DEF Phases, NPhases
<1> HIDE DEF L, m
<1>4. CASE m = 0
  BY <1>1, <1>4 DEF L, m
<1>5. CASE m >= 1
  <2>1. /\ a \in 0 .. 63 /\ b \in 0 .. 63 /\ a <= b /\ b - a + 1 = 2 * m - 1
        /\ y \in Nat /\ (y = q \/ y = q + 32)
    BY <1>2, <1>3, <1>5
  <2>2. ASSUME NEW j \in a .. b PROVE j % NPhases \in set
    <3>1. \E e \in 0 .. m - 1 : j = y + e \/ j = y - e
      <4>1. CASE j >= y
        <5>1. j - y \in 0 .. m - 1 /\ j = y + (j - y)
          BY <1>2, <1>5, <2>1, <4>1
        <5> QED
          BY <5>1
      <4>2. CASE j < y
        <5>1. y - j \in 0 .. m - 1 /\ j = y - (y - j)
          BY <1>2, <1>5, <2>1, <4>2
        <5> QED
          BY <5>1
      <4> QED
        BY <2>1, <4>1, <4>2
    <3>2. PICK e \in 0 .. m - 1 : j = y + e \/ j = y - e
      BY <3>1
    <3> HIDE DEF y
    <3>3. e \in Nat /\ (q + e) % NPhases \in set /\ (q - e) % NPhases \in set
      BY <1>2, <3>2 DEF Around
    <3>4. (y + e) % NPhases = (q + e) % NPhases /\ (y - e) % NPhases = (q - e) % NPhases
      <4>1. y = q \/ y = q + NPhases
        BY <2>1 DEF NPhases
      <4> QED
        BY <1>3, <2>1, <3>3, <4>1, RoundAndRound
    <3> QED
      BY <3>2, <3>3, <3>4
  <2>3. a \in 0 .. 2 * NPhases - 1 /\ b \in 0 .. 2 * NPhases - 1
    BY <2>1 DEF NPhases
  <2> HIDE DEF a, b
  <2>4. b - a + 1 <= L
    BY <1>1, <2>1, <2>2, <2>3
  <2>5. 2 * m <= L + 1
    BY <1>1, <1>2, <2>1, <2>4
  <2> QED
    BY <2>5 DEF L, m
<1> QED
  BY <1>2, <1>4, <1>5

LEMMA SearchedIsWidest ==
  ASSUME NEW set \in SUBSET Phases, set # Phases
  PROVE  SearchedPhase(set) \in Widest(set)
<1> DEFINE p == SearchedPhase(set)
<1>1. p \in Phases
  BY SearchedIs
<1>2. \A q \in Phases : Margin(q, set) \in Nat
  BY MarginIs
<1>3. ASSUME NEW q \in Phases PROVE Margin(q, set) <= Margin(p, set)
  <2>1. CASE set = {}
    <3>1. \A e \in 0 .. Margin(q, set) - 1 : Around(q, e) \subseteq set
      BY MarginIs
    <3>2. Margin(q, set) = 0
      <4> SUFFICES ASSUME Margin(q, set) # 0 PROVE FALSE
        OBVIOUS
      <4>1. 0 \in 0 .. Margin(q, set) - 1
        BY <1>2
      <4> QED
        BY <2>1, <3>1, <4>1 DEF Around
    <3> QED
      BY <1>1, <1>2, <3>2
  <2>2. CASE set # {}
    <3> DEFINE L == FindOpt(set)[1]
               m == Margin(p, set)
               k == Margin(q, set)
    <3>1. 2 * m >= L /\ 2 * k <= L + 1 /\ L \in Nat
      BY <2>2, MiddleHasMargin, NoMarginIsWider, SetsConverge, FoundIs
    <3>2. m \in Nat /\ k \in Nat
      BY <1>1, <1>2
    <3> HIDE DEF m, k, L
    <3>3. k <= m
      BY <3>1, <3>2
    <3> QED
      BY <3>3 DEF m, k
  <2> QED
    BY <2>1, <2>2
<1> QED
  BY <1>1, <1>3 DEF Widest

-----------------------------------------------------------------------------
(***************************************************************************)
(* Types, and what the tries come to.                                      *)
(***************************************************************************)
Word == 0 .. 3

LEMMA WantedWordIs ==
  ASSUME NEW rf \in Nat, NEW tf \in Nat \ {0}, NEW bw \in Nat
  PROVE  WantedWord([rf |-> rf, tf |-> tf], bw) \in Word
<1> DEFINE n == (bw * 8 + tf \div 2) \div tf
<1>1. n \in Int
  <2>1. bw * 8 + tf \div 2 \in Int
    OBVIOUS
  <2> QED
    BY <2>1
<1>2. WantedWord([rf |-> rf, tf |-> tf], bw) = Clamp(n - 1, 0, 3)
  BY DEF WantedWord
<1> HIDE DEF n
<1>3. Clamp(n - 1, 0, 3) \in Word
  BY <1>1 DEF Clamp, Word
<1> QED
  BY <1>2, <1>3

LEMMA WordsAre ==
  ASSUME NEW clk \in [rf : Nat, tf : Nat \ {0}], NEW bw \in Nat
  PROVE  /\ WantedWord(clk, bw) \in Word /\ TxWord(clk, bw) \in Word
         /\ RxWord(clk, bw) \in Word
         /\ FirstPhases(clk, bw) \subseteq Phases
<1>1. WantedWord(clk, bw) \in Word
  <2>1. clk = [rf |-> clk.rf, tf |-> clk.tf] /\ clk.rf \in Nat /\ clk.tf \in Nat \ {0}
    OBVIOUS
  <2> QED
    BY <2>1, WantedWordIs
<1>2. TxWord(clk, bw) \in Word /\ RxWord(clk, bw) \in Word
  BY <1>1 DEF TxWord, RxWord, Word
<1>3. FirstPhases(clk, bw) \subseteq Phases
  BY DEF FirstPhases, Phases, NPhases
<1> QED
  BY <1>1, <1>2, <1>3

LEMMA ToneIs ==
  ASSUME NEW clk \in [rf : Nat, tf : Nat \ {0}], NEW bw \in Nat
  PROVE  TxTone(clk, bw) \in Nat /\ WideFor(TxTone(clk, bw)) \in Nat
<1>1. PICK w \in Word : w = TxWord(clk, bw)
  BY WordsAre
<1>2. PICK tf \in Nat : tf = clk.tf
  OBVIOUS
<1>3. tf * (w + 1) \in Nat
  BY <1>1, <1>2 DEF Word
<1>4. (tf * (w + 1)) \div 32 \in Nat
  BY <1>3
<1>5. TxTone(clk, bw) \in Nat
  BY <1>1, <1>2, <1>4 DEF TxTone
<1> QED
  BY <1>5 DEF WideFor

EnsmType == [state : {"run", "flush", "alert"}, pinCtrl : BOOLEAN]
ChipType == [tracking : BOOLEAN, inverted : BOOLEAN, bits : {"own", "cal"},
             filter : [rx : Nat, tx : Nat]]
DrvType  == [bw : Bandwidths, phase : Phases, savedPin : BOOLEAN]
CallType == [op : {"none", "quad", "bandwidth"}, saved : {"run", "flush", "alert"},
             want : [rx : Nat, tx : Nat], wide : BOOLEAN, bits : {"own", "cal"},
             found : Phases \cup {NoPhase}, phase : Phases \cup {NoPhase}, err : BOOLEAN]

Types ==
  /\ settings \in Settings /\ pin \in BOOLEAN
  /\ ensm \in EnsmType /\ chip \in ChipType /\ drv \in DrvType
  /\ pc \in Pcs /\ call \in CallType
  /\ result \in {"ok", "error"}

\* Of the phases only those that converge during the call are searched, the last
\* run is at the one the search found, and it is the last because it converged.
Tried ==
  /\ pc # "idle" => good \in Convergent
  /\ pc = "settle" => call.found = SearchedPhaseOf[good]
  /\ pc = "reinvert" /\ ~call.err /\ good # {} => call.phase \in good

TInv == Types /\ Tried

LEMMA SettingsAre ==
  ASSUME NEW s \in Settings
  PROVE  /\ s.clk \in [rf : Nat, tf : Nat \ {0}]
         /\ s.inverted \in BOOLEAN /\ s.pinCtrl \in BOOLEAN
         /\ s.clk.tf <= MaxClkTf
<1>1. s \in [clk : [rf : Nat, tf : 1 .. MaxClkTf], inverted : BOOLEAN, pinCtrl : BOOLEAN]
  BY SettingsAssumption
<1>2. MaxClkTf \in Nat
  BY SMT DEF MaxClkTf
<1>3. \A tf \in 1 .. MaxClkTf : tf \in Nat \ {0} /\ tf <= MaxClkTf
  BY <1>2
<1> QED
  BY <1>1, <1>3

LEMMA BandwidthsAre ==
  ASSUME NEW bw \in Bandwidths
  PROVE  bw \in [rx : Nat, tx : Nat] /\ bw.tx \in RfBandwidth
<1>1. ASSUME NEW width \in RfBandwidth PROVE width \in Nat
  BY <1>1, SMT DEF RfBandwidth
<1> QED
  BY <1>1, BandwidthsAssumption

(* A filter is tuned for what it is asked for at least, or as wide as it gets. *)
LEMMA TunedIs ==
  ASSUME NEW side \in {"rx", "tx"}, NEW bw \in Nat
  PROVE  /\ Tuned(side, bw) \in Nat /\ FilterMax[side] \in Nat
         /\ Tuned(side, bw) >= bw \/ Tuned(side, bw) = FilterMax[side]
<1>1. FilterMin[side] \in Nat /\ FilterMax[side] \in Nat
  BY SMT DEF FilterMin, FilterMax
<1>2. PICK low \in Nat, high \in Nat : low = FilterMin[side] /\ high = FilterMax[side]
  BY <1>1
<1>3. Clamp(bw, low, high) \in Nat /\ (Clamp(bw, low, high) >= bw \/ Clamp(bw, low, high) = high)
  BY DEF Clamp
<1> QED
  BY <1>2, <1>3 DEF Tuned

LEMMA SearchedOfIs ==
  ASSUME NEW set \in Convergent
  PROVE  /\ SearchedPhaseOf[set] = SearchedPhase(set) /\ SearchedPhaseOf[set] \in Phases
         /\ set # {} => SearchedPhaseOf[set] \in set
<1>1. SearchedPhaseOf[set] = SearchedPhase(set)
  BY DEF SearchedPhaseOf
<1>2. set \in SUBSET Phases
  BY ConvergentAssumption
<1> QED
  BY <1>1, <1>2, SearchedIs

LEMMA InitTInv == Init => TInv
<1> SUFFICES ASSUME Init PROVE TInv
  OBVIOUS
<1>1. settings \in Settings /\ settings.clk \in [rf : Nat, tf : Nat \ {0}]
      /\ settings.inverted \in BOOLEAN /\ settings.pinCtrl \in BOOLEAN
  BY SettingsAre DEF Init
<1>2. PICK bw \in Bandwidths :
        /\ \E phase \in SetupPhases(settings.clk, bw.tx \div 2) :
             drv = [bw |-> bw, phase |-> phase, savedPin |-> FALSE]
        /\ chip = [tracking |-> TRUE, inverted |-> settings.inverted, bits |-> "own",
                   filter |-> TunedFor(bw)]
  BY DEF Init
<1>3. /\ bw \in [rx : Nat, tx : Nat] /\ bw.tx \div 2 \in Nat
      /\ TunedFor(bw) \in [rx : Nat, tx : Nat]
  <2>1. bw \in [rx : Nat, tx : Nat]
    BY BandwidthsAre
  <2>2. Tuned("rx", bw.rx) \in Nat /\ Tuned("tx", bw.tx) \in Nat
    BY <2>1, TunedIs
  <2> QED
    BY <2>1, <2>2 DEF TunedFor
<1>4. SetupPhases(settings.clk, bw.tx \div 2) \subseteq Phases
  <2>1. FirstPhases(settings.clk, bw.tx \div 2) \subseteq Phases
    BY <1>1, <1>3, WordsAre
  <2>2. \A set \in Convergent : SearchedPhaseOf[set] \in Phases
    BY SearchedOfIs
  <2> QED
    BY <2>1, <2>2 DEF SetupPhases
<1>5. drv \in DrvType
  BY <1>2, <1>4 DEF DrvType
<1>6. chip \in ChipType
  BY <1>1, <1>2, <1>3 DEF ChipType
<1>7. ensm \in EnsmType
  BY <1>1 DEF Init, EnsmType
<1>8. call \in CallType
  BY DEF Init, NoCall, CallType
<1>9. pc = "idle" /\ result = "ok" /\ pin = TRUE
  BY DEF Init
<1>10. Types
  BY <1>1, <1>5, <1>6, <1>7, <1>8, <1>9 DEF Types, Pcs
<1>11. Tried
  BY <1>9 DEF Tried
<1> QED
  BY <1>10, <1>11 DEF TInv

LEMMA WideIs == Types => Wide \in Nat
<1> SUFFICES ASSUME Types PROVE Wide \in Nat
  OBVIOUS
<1>1. settings.clk \in [rf : Nat, tf : Nat \ {0}]
  BY SettingsAre DEF Types
<1>2. drv.bw \in [rx : Nat, tx : Nat]
  BY BandwidthsAre DEF Types, DrvType
<1>3. drv.bw.tx \div 2 \in Nat
  BY <1>2
<1> QED
  BY <1>1, <1>3, ToneIs DEF Wide

LEMMA CornerIs ==
  ASSUME Types, pc \in Filters
  PROVE  /\ Corner.side \in {"rx", "tx"} /\ Corner.bw \in Nat /\ Corner.next \in Pcs
         /\ Corner.next \notin {"idle", "settle", "reinvert"}
<1>1. drv.bw \in [rx : Nat, tx : Nat]
  BY BandwidthsAre DEF Types, DrvType
<1>2. call.want \in [rx : Nat, tx : Nat]
  BY DEF Types, CallType
<1>3. /\ Corner.side \in {"rx", "tx"} /\ Corner.next \in Pcs
      /\ Corner.next \notin {"idle", "settle", "reinvert"}
  BY DEF Filters, Corner, Pcs, Inner, Cals
<1>4. Wide \in Nat
  BY WideIs
<1>5. Corner.bw \in Nat
  <2>1. CASE pc = "set rx"
    BY <1>2, <2>1 DEF Corner
  <2>2. CASE pc = "set tx"
    BY <1>2, <2>2 DEF Corner
  <2>3. CASE pc \in {"widen rx", "widen tx"}
    BY <1>4, <2>3 DEF Corner
  <2>4. CASE pc = "narrow rx"
    BY <1>1, <2>4 DEF Corner
  <2>5. CASE pc = "narrow tx"
    BY <1>1, <2>5 DEF Corner
  <2> QED
    BY <2>1, <2>2, <2>3, <2>4, <2>5 DEF Filters
<1> QED
  BY <1>3, <1>5

LEMMA TunedFilter ==
  ASSUME Types, pc \in Filters, TuneFilter
  PROVE  chip' \in ChipType
<1>1. Corner.side \in {"rx", "tx"} /\ Tuned(Corner.side, Corner.bw) \in Nat
  BY CornerIs, TunedIs
<1>2. chip' = [chip EXCEPT !.filter = [@ EXCEPT ![Corner.side] = Tuned(Corner.side, Corner.bw)]]
  BY DEF TuneFilter
<1>3. chip \in ChipType /\ chip.filter \in [rx : Nat, tx : Nat]
  BY DEF Types, ChipType
<1>4. [chip.filter EXCEPT ![Corner.side] = Tuned(Corner.side, Corner.bw)] \in [rx : Nat, tx : Nat]
  BY <1>1, <1>3
<1> QED
  BY <1>2, <1>3, <1>4 DEF ChipType

LEMMA PlannedAre ==
  ASSUME Types
  PROVE  FirstPhases(settings.clk, drv.bw.tx \div 2) \subseteq Phases
<1>1. settings.clk \in [rf : Nat, tf : Nat \ {0}]
  BY SettingsAre DEF Types
<1>2. drv.bw \in [rx : Nat, tx : Nat]
  BY BandwidthsAre DEF Types, DrvType
<1>3. drv.bw.tx \div 2 \in Nat
  BY <1>2
<1> QED
  BY <1>1, <1>3, WordsAre

LEMMA RunAtTypes ==
  ASSUME Types, NEW phase \in Phases, NEW remember \in BOOLEAN, NEW to \in Pcs,
         RunAt(phase, remember, to)
  PROVE  Types'
<1>1. call' \in CallType
  BY DEF Types, CallType, RunAt
<1>2. drv' \in DrvType
  BY DEF Types, DrvType, RunAt
<1> QED
  BY <1>1, <1>2 DEF Types, RunAt, Go, Keep

LEMMA FailTypes ==
  ASSUME Types, pc # "idle", Fail, ensm' \in EnsmType, drv' \in DrvType, chip' \in ChipType
  PROVE  Types'
<1>1. NoCall \in CallType
  BY DEF NoCall, CallType
<1>2. [call EXCEPT !.err = TRUE] \in CallType
  BY DEF Types, CallType
<1>3. AfterError \in {"reinvert", "resume", "idle"}
  BY DEF AfterError
<1>4. /\ pc' \in Pcs /\ call' \in CallType /\ result' \in {"ok", "error"}
      /\ settings' = settings /\ pin' = pin
  BY <1>1, <1>2, <1>3 DEF Fail, Return, Go, Types, Pcs, Inner
<1> QED
  BY <1>4 DEF Types

LEMMA SpiTypes ==
  ASSUME Types, SpiError
  PROVE  ensm' \in EnsmType /\ chip' \in ChipType /\ drv' \in DrvType
<1>1. ensm' \in EnsmType
  <2>1. Taken \in EnsmType /\ ensm \in EnsmType
    BY DEF Taken, EnsmType, Types
  <2>2. [ensm EXCEPT !.state = call.saved] \in EnsmType
    BY DEF EnsmType, CallType, Types
  <2>3. [ensm EXCEPT !.pinCtrl = @ \/ PinsOn(drv.savedPin)] \in EnsmType
    <3>1. (ensm.pinCtrl \/ PinsOn(drv.savedPin)) \in BOOLEAN
      BY DEF PinsOn
    <3> QED
      BY <2>1, <3>1 DEF EnsmType
  <2>4. EnsmWritten \subseteq EnsmType
    BY <2>1, <2>2, <2>3 DEF EnsmWritten
  <2> QED
    BY <2>4 DEF SpiError
<1>2. chip' \in ChipType
  <2>1. chip \in ChipType /\ settings.inverted \in BOOLEAN /\ call.bits \in {"own", "cal"}
    BY SettingsAre DEF Types, CallType
  <2>2. CASE pc \in Filters
    <3>1. \A bw \in {Untuned, Tuned(Corner.side, Corner.bw)} :
            [chip EXCEPT !.filter[Corner.side] = bw] \in ChipType
      <4>1. Corner.side \in {"rx", "tx"} /\ Tuned(Corner.side, Corner.bw) \in Nat /\ Untuned \in Nat
        BY <2>2, CornerIs, TunedIs DEF Untuned
      <4> QED
        BY <2>1, <4>1 DEF ChipType
    <3>2. pc \notin {"pause", "uninvert", "bits", "reinvert", "bits back", "resume"}
      BY <2>2 DEF Filters
    <3>3. ChipWritten = {chip} \cup {[chip EXCEPT !.filter[Corner.side] = bw] :
                                      bw \in {Untuned, Tuned(Corner.side, Corner.bw)}}
      BY <2>2, <3>2 DEF ChipWritten
    <3> QED
      BY <2>1, <3>1, <3>3 DEF SpiError
  <2>3. CASE pc \notin Filters
    <3>1. \/ chip' = chip
          \/ \E on \in {TRUE, FALSE} : chip' = [chip EXCEPT !.tracking = on]
          \/ \E on \in {FALSE, settings.inverted} : chip' = [chip EXCEPT !.inverted = on]
          \/ \E bits \in {"cal", chip.bits, call.bits} : chip' = [chip EXCEPT !.bits = bits]
      BY <2>3 DEF SpiError, ChipWritten
    <3> QED
      BY <2>1, <3>1 DEF ChipType
  <2> QED
    BY <2>2, <2>3
<1>3. drv' \in DrvType
  BY DEF SpiError, Types, DrvType, EnsmType
<1> QED
  BY <1>1, <1>2, <1>3

LEMMA TypesKept == LInv /\ TInv /\ Next => Types'
<1> SUFFICES ASSUME LInv, TInv, Next PROVE Types'
  OBVIOUS
<1> USE DEF Go, Keep
<1>1. Types
  BY DEF TInv
<1>2. CASE Pause
  <2>1. chip' \in ChipType
    BY <1>1, <1>2 DEF Pause, Types, ChipType
  <2> QED
    BY <1>1, <1>2, <2>1 DEF Pause, Types, Pcs
<1>3. CASE ReadEnsm
  <2>1. call' \in CallType
    BY <1>1, <1>3 DEF ReadEnsm, Types, CallType, EnsmType
  <2>2. pc' \in Pcs
    BY <1>3 DEF ReadEnsm, Inside, Pcs, Inner, Filters
  <2> QED
    BY <1>1, <1>3, <2>1, <2>2 DEF ReadEnsm, Types
<1>4. CASE TakeEnsm
  <2>1. drv' \in DrvType
    BY <1>1, <1>4 DEF TakeEnsm, Types, DrvType, EnsmType
  <2>2. pc' \in Pcs
    BY <1>4 DEF TakeEnsm, Inside, Pcs, Inner, Filters
  <2>3. ensm' \in EnsmType
    BY <1>4 DEF TakeEnsm, Taken, EnsmType
  <2> QED
    BY <1>1, <1>4, <2>1, <2>2, <2>3 DEF TakeEnsm, Types
<1>5. CASE SetFilter
  <2>1. pc \in Filters /\ TuneFilter /\ pc' = Corner.next
    BY <1>5 DEF SetFilter
  <2>2. chip' \in ChipType /\ pc' \in Pcs
    BY <1>1, <2>1, TunedFilter, CornerIs
  <2>3. drv' \in DrvType
    <3>1. CASE pc = "set tx"
      <4>1. PICK want \in Bandwidths : want = call.want
        BY <1>1, <2>1, <3>1 DEF LInv, Pairs
      <4> QED
        BY <1>1, <1>5, <3>1, <4>1 DEF SetFilter, Types, DrvType
    <3>2. CASE pc # "set tx"
      BY <1>1, <1>5, <3>2 DEF SetFilter, Types
    <3> QED
      BY <3>1, <3>2
  <2> QED
    BY <1>1, <1>5, <2>2, <2>3 DEF SetFilter, Types
<1>6. CASE Plan
  <2>1. Widens(TxTone(settings.clk, drv.bw.tx \div 2), drv.bw) \in BOOLEAN
    BY DEF Widens
  <2>2. call' \in CallType
    BY <1>1, <1>6, <2>1 DEF Plan, Types, CallType
  <2> QED
    BY <1>1, <1>6, <2>2 DEF Plan, Types, Pcs, Inner, Filters
<1>7. CASE Uninvert \/ Words
  <2>1. chip' \in ChipType
    BY <1>1, <1>7 DEF Uninvert, Words, Types, ChipType
  <2> QED
    BY <1>1, <1>7, <2>1 DEF Uninvert, Words, Types, Pcs, Inner, Cals
<1>8. CASE TakeBits
  <2>1. chip' \in ChipType /\ call' \in CallType
    BY <1>1, <1>8 DEF TakeBits, Types, ChipType, CallType
  <2> QED
    BY <1>1, <1>8, <2>1 DEF TakeBits, Types, Pcs, Inner
<1>9. CASE TryPlanned
  <2>1. PICK phase \in FirstPhases(settings.clk, drv.bw.tx \div 2) :
          \/ RunAt(phase, TRUE, "reinvert")
          \/ RunAt(phase, FALSE, "last")
    BY <1>9 DEF TryPlanned
  <2>2. phase \in Phases
    BY <1>1, PlannedAre
  <2>3. "reinvert" \in Pcs /\ "last" \in Pcs
    BY DEF Pcs, Inner, Cals
  <2> QED
    BY <1>1, <2>1, <2>2, <2>3, RunAtTypes
<1>10. CASE TryLast
  <2>1. "reinvert" \in Pcs /\ "search" \in Pcs
    BY DEF Pcs, Inner, Cals
  <2>2. drv.phase \in Phases /\ AfterLastTry(drv.phase) \in Pcs
    BY <1>1, <2>1 DEF Types, DrvType, AfterLastTry
  <2>3. CASE drv.phase < NPhases - 1
    BY <1>1, <1>10, <2>2, <2>3, RunAtTypes DEF TryLast
  <2>4. CASE ~(drv.phase < NPhases - 1)
    BY <1>1, <1>10, <2>1, <2>4 DEF TryLast, Types
  <2> QED
    BY <2>3, <2>4
<1>11. CASE Search
  <2>1. good \in Convergent
    BY <1>11 DEF Search, TInv, Tried
  <2>2. SearchedPhaseOf[good] \in Phases /\ NPhases - 1 \in Phases
    BY <2>1, SearchedOfIs DEF Phases, NPhases
  <2>3. call' \in CallType
    BY <1>1, <1>11, <2>2 DEF Search, Types, CallType
  <2>4. drv' \in DrvType
    BY <1>1, <1>11, <2>2 DEF Search, Types, DrvType
  <2> QED
    BY <1>1, <1>11, <2>3, <2>4 DEF Search, Types, Pcs, Inner, Cals
<1>12. CASE Settle
  <2>1. good \in Convergent /\ call.found = SearchedPhaseOf[good]
    BY <1>12 DEF Settle, TInv, Tried
  <2>2. call.found \in Phases
    BY <2>1, SearchedOfIs
  <2>3. AfterSettle \in Pcs
    BY DEF AfterSettle, Pcs, Inner
  <2> QED
    BY <1>1, <1>12, <2>2, <2>3, RunAtTypes DEF Settle
<1>13. CASE Reinvert \/ PutBitsBack
  <2>1. settings.inverted \in BOOLEAN
    BY <1>1, SettingsAre DEF Types
  <2>2. chip' \in ChipType
    BY <1>1, <1>13, <2>1 DEF Reinvert, PutBitsBack, Types, ChipType, CallType
  <2>3. pc' \in Pcs
    BY <1>13 DEF Reinvert, PutBitsBack, AfterReinvert, Pcs, Inner, Filters
  <2> QED
    BY <1>1, <1>13, <2>2, <2>3 DEF Reinvert, PutBitsBack, Types
<1>14. CASE Resume
  <2>1. chip' \in ChipType
    BY <1>1, <1>14 DEF Resume, Types, ChipType
  <2> QED
    BY <1>1, <1>14, <2>1 DEF Resume, Types, Pcs
<1>15. NoCall \in CallType
  BY DEF NoCall, CallType
<1>16. CASE Restore
  <2>1. ensm' \in EnsmType
    BY <1>1, <1>16 DEF Restore, Types, EnsmType, CallType
  <2>2. pc' \in Pcs /\ call' \in CallType /\ result' \in {"ok", "error"}
    BY <1>1, <1>15, <1>16 DEF Restore, Return, Types, Pcs
  <2> QED
    BY <1>1, <1>16, <2>1, <2>2 DEF Restore, Return, Types
<1>17. CASE Pins
  <2>1. (ensm.pinCtrl \/ PinsOn(drv.savedPin)) \in BOOLEAN
    BY DEF PinsOn
  <2>2. ensm' \in EnsmType
    <3>1. ensm' = [ensm EXCEPT !.pinCtrl = ensm.pinCtrl \/ PinsOn(drv.savedPin)]
      BY <1>17 DEF Pins
    <3> QED
      BY <1>1, <2>1, <3>1 DEF Types, EnsmType
  <2>3. pc' \in Pcs /\ call' \in CallType /\ result' \in {"ok", "error"}
    BY <1>15, <1>17 DEF Pins, Return, Pcs
  <2> QED
    BY <1>1, <1>17, <2>2, <2>3 DEF Pins, Return, Types
<1>18. CASE SpiError
  BY <1>1, <1>18, SpiTypes, FailTypes, SpiWrites DEF LInv, IInv
<1>19. CASE Timeout
  <2>1. pc # "idle" /\ Fail /\ ensm' \in EnsmType /\ drv' \in DrvType
    BY <1>1, <1>19 DEF Timeout, Filters, Cals, Types
  <2>2. chip' \in ChipType
    <3>1. CASE pc \in Filters
      BY <1>1, <1>19, <3>1, TunedFilter DEF Timeout
    <3>2. CASE pc \notin Filters
      BY <1>1, <1>19, <3>2 DEF Timeout, Types
    <3> QED
      BY <3>1, <3>2
  <2> QED
    BY <1>1, <2>1, <2>2, FailTypes
<1>20. CASE QuadCal
  <2>1. drv.bw \in [rx : Nat, tx : Nat]
    BY <1>1, BandwidthsAre DEF Types, DrvType
  <2>2. call' \in CallType
    BY <1>15, <1>20, <2>1 DEF QuadCal, Call, NoCall, CallType
  <2> QED
    BY <1>1, <1>20, <2>2 DEF QuadCal, Call, Types, Pcs
<1>21. CASE UpdateRfBandwidth
  <2>1. PICK want \in Bandwidths : Call("bandwidth", want)
    BY <1>21 DEF UpdateRfBandwidth
  <2>2. want \in [rx : Nat, tx : Nat]
    BY BandwidthsAre
  <2>3. call' \in CallType
    BY <1>15, <2>1, <2>2 DEF Call, NoCall, CallType
  <2> QED
    BY <1>1, <2>1, <2>3 DEF Call, Types, Pcs
<1>22. CASE MovePin
  <2>1. pin' \in BOOLEAN
    BY <1>22 DEF MovePin
  <2> QED
    BY <1>1, <1>22, <2>1 DEF MovePin, Types
<1>23. CASE FollowPin
  <2>1. ensm' \in EnsmType
    BY <1>1, <1>23 DEF FollowPin, Types, EnsmType
  <2> QED
    BY <1>1, <1>23, <2>1 DEF FollowPin, Types
<1> QED
  BY <1>2, <1>3, <1>4, <1>5, <1>6, <1>7, <1>8, <1>9, <1>10, <1>11, <1>12, <1>13, <1>14, <1>16,
     <1>17, <1>18, <1>19, <1>20, <1>21, <1>22, <1>23 DEF Next, Steps

LEMMA TriedKept == LInv /\ TInv /\ Next => Tried'
<1> SUFFICES ASSUME LInv, TInv, Next PROVE Tried'
  OBVIOUS
<1> USE DEF Go, Keep, Tried
<1>1. Types /\ Tried
  BY DEF TInv
<1>2. CASE Pause \/ ReadEnsm \/ TakeEnsm
  BY <1>1, <1>2 DEF Pause, ReadEnsm, TakeEnsm, Inside
<1>3. CASE SetFilter
  <2>1. pc # "idle" /\ good' = good /\ pc' = Corner.next /\ pc \in Filters
    BY <1>3 DEF SetFilter, Filters
  <2>2. Corner.next \notin {"idle", "settle", "reinvert"}
    BY <1>1, <2>1, CornerIs
  <2> QED
    BY <1>1, <2>1, <2>2
<1>4. CASE Plan \/ Uninvert \/ TakeBits \/ Words
  BY <1>1, <1>4 DEF Plan, Uninvert, TakeBits, Words
<1>5. CASE TryPlanned
  <2>1. PICK phase \in FirstPhases(settings.clk, drv.bw.tx \div 2) :
          IF phase \in good THEN RunAt(phase, TRUE, "reinvert") ELSE RunAt(phase, FALSE, "last")
    BY <1>5 DEF TryPlanned
  <2>2. /\ pc # "idle" /\ good' = good /\ call'.phase = phase
        /\ pc' \in {"reinvert", "last"} /\ (pc' = "reinvert" => phase \in good)
    BY <1>1, <1>5, <2>1 DEF TryPlanned, RunAt, Types, CallType
  <2> QED
    BY <1>1, <2>2
<1>6. CASE TryLast
  <2>1. CASE drv.phase < NPhases - 1
    <3>1. /\ pc # "idle" /\ good' = good /\ call'.phase = drv.phase
          /\ pc' \in {"reinvert", "search"} /\ (pc' = "reinvert" => drv.phase \in good)
      BY <1>1, <1>6, <2>1 DEF TryLast, RunAt, AfterLastTry, Types, CallType
    <3> QED
      BY <1>1, <3>1
  <2>2. CASE ~(drv.phase < NPhases - 1)
    BY <1>1, <1>6, <2>2 DEF TryLast
  <2> QED
    BY <2>1, <2>2
<1>7. CASE Search
  <2>1. call'.found = SearchedPhaseOf[good] /\ good' = good /\ pc # "idle" /\ pc' = "settle"
    BY <1>1, <1>7 DEF Search, Types, CallType
  <2> QED
    BY <1>1, <2>1
<1>8. CASE Settle
  <2>1. /\ good \in Convergent /\ call.found = SearchedPhaseOf[good]
        /\ good' = good /\ pc' = "reinvert" /\ call'.phase = call.found
    BY <1>1, <1>8 DEF Settle, AfterSettle, RunAt, Types, CallType
  <2>2. good # {} => call.found \in good
    BY <2>1, SearchedOfIs
  <2> QED
    BY <2>1, <2>2
<1>9. CASE Reinvert \/ PutBitsBack \/ Resume
  BY <1>1, <1>9 DEF Reinvert, PutBitsBack, AfterReinvert, Resume
<1>10. CASE Restore \/ Pins
  BY <1>1, <1>10 DEF Restore, Pins, Return
<1>11. CASE SpiError \/ Timeout
  <2>1. pc # "idle" /\ Fail
    BY <1>11 DEF SpiError, Timeout, Filters, Cals
  <2>2. \/ pc' = "idle"
        \/ pc' \in {"reinvert", "resume"} /\ good' = good /\ call'.err = TRUE
    BY <1>1, <2>1 DEF Fail, AfterError, Return, Types, CallType
  <2> QED
    BY <1>1, <2>1, <2>2
<1>12. CASE QuadCal \/ UpdateRfBandwidth
  BY <1>1, <1>12 DEF QuadCal, UpdateRfBandwidth, Call
<1>13. CASE MovePin \/ FollowPin
  BY <1>1, <1>13 DEF MovePin, FollowPin
<1> QED
  BY <1>2, <1>3, <1>4, <1>5, <1>6, <1>7, <1>8, <1>9, <1>10, <1>11, <1>12, <1>13 DEF Next, Steps

-----------------------------------------------------------------------------
(***************************************************************************)
(* Pin control is in the chip, or it is remembered for the end of a call:  *)
(* by one that is on its way, or by one that found the chip in a flush     *)
(* state and didn't get to the end; then the chip is in ALERT, where the   *)
(* next call takes nothing and doesn't forget it.                          *)
(***************************************************************************)
PinsKept ==
  settings.pinCtrl =>
    /\ ensm.pinCtrl = TRUE
         \/ (drv.savedPin = TRUE /\ (ensm.state = "alert" \/ pc = "pins"))
    /\ pc = "take" => ensm.pinCtrl = TRUE

PinsRemembered == spiFaults = 0 => PinsKept

LEMMA PinsRememberedKept == LInv /\ TInv /\ PinsRemembered /\ Next => PinsRemembered'
<1> SUFFICES ASSUME LInv, TInv, PinsRemembered, Next, spiFaults' = 0 PROVE PinsKept'
  BY DEF PinsRemembered
<1>1. spiFaults = 0 /\ ~SpiError /\ settings' = settings
  BY FaultsAddUp, FieldsKept DEF LInv
<1>2. PinsKept
  BY <1>1 DEF PinsRemembered
<1>3. ensm \in EnsmType /\ drv \in DrvType
  BY DEF TInv, Types
<1> USE <1>1, <1>2 DEF PinsKept, Go, Keep
<1>4. CASE ReadEnsm
  BY <1>4 DEF ReadEnsm, Inside
<1>5. CASE TakeEnsm
  BY <1>3, <1>5 DEF TakeEnsm, Taken, Inside, DrvType
<1>6. CASE Pause \/ Plan \/ Uninvert \/ TakeBits \/ Words
  BY <1>6 DEF Pause, Plan, Uninvert, TakeBits, Words
<1>7. CASE SetFilter
  <2>1. drv'.savedPin = drv.savedPin /\ ensm' = ensm /\ pc \in Filters /\ pc' # "take"
    BY <1>3, <1>7 DEF SetFilter, DrvType, Corner, Filters
  <2> QED
    BY <2>1 DEF Filters
<1>8. CASE TryPlanned \/ TryLast \/ Search \/ Settle
  <2>1. /\ drv'.savedPin = drv.savedPin /\ ensm' = ensm
        /\ pc \notin {"pins", "take"} /\ pc' # "take"
    BY <1>3, <1>8 DEF TryPlanned, TryLast, AfterLastTry, Search, Settle, AfterSettle, RunAt, DrvType
  <2> QED
    BY <2>1
<1>9. CASE Reinvert \/ PutBitsBack \/ Resume
  BY <1>9 DEF Reinvert, PutBitsBack, AfterReinvert, Resume
<1>10. CASE Restore
  <2>1. CASE Restorable(call.saved)
    BY <1>3, <1>10, <2>1 DEF Restore, EnsmType
  <2>2. CASE ~Restorable(call.saved)
    BY <1>3, <1>10, <2>2 DEF Restore, Return
  <2> QED
    BY <2>1, <2>2
<1>11. CASE Pins
  <2>1. ensm'.pinCtrl = (ensm.pinCtrl \/ drv.savedPin) /\ pc' = "idle"
    BY <1>3, <1>11 DEF Pins, Return, PinsOn, EnsmType
  <2>2. settings.pinCtrl => ensm'.pinCtrl = TRUE
    BY <2>1
  <2> QED
    BY <2>1, <2>2
<1>12. CASE Timeout
  <2>1. UNCHANGED <<ensm, drv>> /\ pc # "pins" /\ pc' # "take"
    BY <1>12 DEF Timeout, Fail, AfterError, Return, Filters, Cals
  <2> QED
    BY <2>1
<1>13. CASE QuadCal \/ UpdateRfBandwidth
  BY <1>13 DEF QuadCal, UpdateRfBandwidth, Call
<1>14. CASE MovePin
  BY <1>14 DEF MovePin
<1>15. CASE FollowPin
  <2>1. ensm'.pinCtrl = ensm.pinCtrl /\ UNCHANGED <<drv, pc>>
    BY <1>3, <1>15 DEF FollowPin, EnsmType
  <2>2. ensm.pinCtrl = FALSE => ensm'.state = "alert"
    BY <1>3, <1>15 DEF FollowPin, EnsmType
  <2>3. ensm.pinCtrl \in BOOLEAN
    BY <1>3 DEF EnsmType
  <2> QED
    BY <2>1, <2>2, <2>3
<1> QED
  BY <1>1, <1>4, <1>5, <1>6, <1>7, <1>8, <1>9, <1>10, <1>11, <1>12, <1>13, <1>14, <1>15
     DEF Next, Steps

(* The last step of a call gives pin control back. *)
LEMMA PinsStep ==
  ASSUME LInv, TInv, PinsRemembered, [Next]_vars, pc = "pins", pc' = "idle", spiFaults' = 0
  PROVE  ensm'.pinCtrl = settings.pinCtrl
<1>1. Next
  BY DEF vars
<1>2. spiFaults = 0 /\ ~SpiError
  BY <1>1, FaultsAddUp DEF LInv
<1>3. Pins
  BY <1>1, <1>2 DEF Next, Steps, Pause, ReadEnsm, TakeEnsm, SetFilter, Filters, Plan, Uninvert, TakeBits,
       Words, TryPlanned, TryLast, Search, Settle, Reinvert, PutBitsBack, Resume, Restore,
       Timeout, Cals, QuadCal, UpdateRfBandwidth, Call, MovePin, FollowPin
<1>4. ensm \in EnsmType /\ drv \in DrvType /\ settings.pinCtrl \in BOOLEAN
  BY SettingsAre DEF TInv, Types
<1>5. ensm'.pinCtrl = (ensm.pinCtrl \/ drv.savedPin)
  BY <1>3, <1>4 DEF Pins, PinsOn, EnsmType
<1>6. CASE settings.pinCtrl = TRUE
  <2>1. ensm.pinCtrl = TRUE \/ drv.savedPin = TRUE
    BY <1>2, <1>6 DEF PinsRemembered, PinsKept
  <2> QED
    BY <1>5, <1>6, <2>1
<1>7. CASE settings.pinCtrl = FALSE
  <2>1. ensm.pinCtrl = FALSE /\ drv.savedPin = FALSE
    BY <1>2, <1>7 DEF LInv, IInv, Borrowed, RunKept
  <2> QED
    BY <1>5, <1>7, <2>1
<1> QED
  BY <1>4, <1>6, <1>7

-----------------------------------------------------------------------------
(***************************************************************************)
(* The tone of the calibration and the filters                             *)
(***************************************************************************)

(* The NCO words keep the two tones together at both ratios of the clocks. *)
LEMMA TonesMeet ==
  ASSUME NEW clk \in [rf : Nat, tf : Nat \ {0}], NEW bw \in Nat,
         clk.rf \in {clk.tf, 2 * clk.tf}
  PROVE  RxTone(clk, bw) = TxTone(clk, bw)
<1>1. PICK tf \in Nat \ {0} : tf = clk.tf
  OBVIOUS
<1>2. CASE clk.rf = clk.tf
  <2>1. clk.rf # 2 * clk.tf
    BY <1>1, <1>2
  <2>2. RxWord(clk, bw) = TxWord(clk, bw)
    BY <2>1 DEF RxWord, TxWord
  <2> QED
    BY <1>2, <2>2 DEF RxTone, TxTone
<1>3. CASE clk.rf = 2 * clk.tf
  <2>1. CASE WantedWord(clk, bw) = 3
    <3>1. RxWord(clk, bw) = 1 /\ TxWord(clk, bw) = 3
      BY <1>3, <2>1 DEF RxWord, TxWord
    <3>2. clk.rf * (1 + 1) = clk.tf * (3 + 1)
      BY <1>1, <1>3
    <3> QED
      BY <3>1, <3>2 DEF RxTone, TxTone
  <2>2. CASE WantedWord(clk, bw) # 3
    <3>1. RxWord(clk, bw) = 0 /\ TxWord(clk, bw) = 1
      BY <1>3, <2>2 DEF RxWord, TxWord
    <3>2. clk.rf * (0 + 1) = clk.tf * (1 + 1)
      BY <1>1, <1>3
    <3> QED
      BY <3>1, <3>2 DEF RxTone, TxTone
  <2> QED
    BY <2>1, <2>2
<1> QED
  BY <1>2, <1>3

(***************************************************************************)
(* A tone is never above 10 MHz: with a low word because of the clock, with *)
(* a higher one because it follows the bandwidth. So half the baseband      *)
(* bandwidth of the widest filters has room for it.                         *)
(***************************************************************************)
MaxTone == 10000

LEMMA WordFollows ==
  ASSUME NEW tf \in Nat \ {0}, NEW bw \in Nat, NEW n \in Int,
         n = (bw * 8 + tf \div 2) \div tf
  PROVE  n * tf <= bw * 8 + tf \div 2
  OBVIOUS

LEMMA TimesGrows ==
  ASSUME NEW tf \in Nat, NEW n \in Int, NEW k \in Int, k <= n
  PROVE  k * tf <= n * tf
<1>1. (n - k) * tf >= 0
  OBVIOUS
<1>2. (n - k) * tf = n * tf - k * tf
  OBVIOUS
<1> QED
  BY <1>1, <1>2

LEMMA ToneIsBounded ==
  ASSUME NEW clk \in [rf : Nat, tf : Nat \ {0}], clk.tf <= MaxClkTf,
         NEW bw \in Nat, bw <= 28000
  PROVE  TxTone(clk, bw) <= MaxTone
<1>1. PICK tf \in Nat \ {0} : tf = clk.tf
  OBVIOUS
<1>2. PICK w \in Word : w = TxWord(clk, bw)
  BY WordsAre
<1>3. w <= 1 \/ w = WantedWord(clk, bw)
  BY <1>2, WordsAre DEF TxWord, Word
<1> DEFINE n == (bw * 8 + tf \div 2) \div tf
<1>4. n \in Int
  OBVIOUS
<1>5. WantedWord(clk, bw) = Clamp(n - 1, 0, 3)
  BY <1>1 DEF WantedWord
<1>6. n * tf <= bw * 8 + tf \div 2
  BY <1>4, WordFollows
<1> HIDE DEF n
<1>7. w <= 1 \/ w <= n - 1
  BY <1>2, <1>3, <1>4, <1>5 DEF Clamp, Word
<1>8. w + 1 \in Int /\ (w + 1) * tf \in Int /\ n * tf \in Int
  BY <1>2, <1>4 DEF Word
<1>9. w + 1 <= 2 \/ w + 1 <= n
  BY <1>2, <1>4, <1>7 DEF Word
<1>10. (w + 1) * tf <= 2 * tf \/ (w + 1) * tf <= n * tf
  BY <1>4, <1>8, <1>9, TimesGrows
<1>11. PICK x \in Int : x = (w + 1) * tf
  BY <1>8
<1>12. tf * (w + 1) = x
  BY <1>2, <1>11 DEF Word
<1>13. x <= 2 * tf \/ x <= bw * 8 + tf \div 2
  BY <1>6, <1>8, <1>10, <1>11
<1>14. tf <= MaxClkTf
  BY <1>1
<1>15. x \div 32 <= MaxTone
  BY ONLY SMT, <1>13, <1>14, bw <= 28000, tf \in Nat, bw \in Nat, x \in Int DEF MaxClkTf, MaxTone
<1> QED
  BY <1>1, <1>2, <1>12, <1>15 DEF TxTone

LEMMA RoomEnough ==
  ASSUME NEW side \in {"rx", "tx"}, NEW bw \in Nat, NEW tone \in Nat,
         tone <= bw \div 8, tone <= MaxTone
  PROVE  \/ tone <= Tuned(side, bw) \div 8
         \/ Tuned(side, bw) = FilterMax[side] /\ tone <= Tuned(side, bw) \div 4
<1>1. PICK f \in Nat : f = Tuned(side, bw)
  BY TunedIs
<1>2. CASE f >= bw
  BY <1>1, <1>2
<1>3. CASE f = FilterMax[side]
  <2>1. MaxTone <= FilterMax[side] \div 4
    BY ONLY SMT DEF MaxTone, FilterMax
  <2>2. PICK m \in Nat : m = MaxTone
    BY SMT DEF MaxTone
  <2> QED
    BY <1>1, <1>3, <2>1, <2>2
<1> QED
  BY <1>1, <1>2, <1>3, TunedIs

Tone == TxTone(settings.clk, drv.bw.tx \div 2)

LEMMA ToneFits ==
  Types => /\ Tone \in Nat /\ Tone <= MaxTone /\ Wide = Tone * 8 /\ Wide \div 8 = Tone
           /\ settings.clk.rf \in {settings.clk.tf, 2 * settings.clk.tf} =>
                RxTone(settings.clk, drv.bw.tx \div 2) = Tone
<1> SUFFICES ASSUME Types
             PROVE  /\ Tone \in Nat /\ Tone <= MaxTone /\ Wide = Tone * 8 /\ Wide \div 8 = Tone
                    /\ settings.clk.rf \in {settings.clk.tf, 2 * settings.clk.tf} =>
                         RxTone(settings.clk, drv.bw.tx \div 2) = Tone
  OBVIOUS
<1>1. settings.clk \in [rf : Nat, tf : Nat \ {0}]
  BY SettingsAre DEF Types
<1>2. drv.bw \in [rx : Nat, tx : Nat]
  BY BandwidthsAre DEF Types, DrvType
<1>3. drv.bw.tx \div 2 \in Nat
  BY <1>2
<1>4. Tone \in Nat
  BY <1>1, <1>3, ToneIs DEF Tone
<1>5. Wide = Tone * 8
  BY DEF Wide, WideFor, Tone
<1>6. \A t \in Nat : (t * 8) \div 8 = t
  OBVIOUS
<1>7. Tone <= MaxTone
  <2>1. settings.clk.tf <= MaxClkTf
    BY SettingsAre DEF Types
  <2>2. drv.bw.tx \in RfBandwidth
    BY BandwidthsAre DEF Types, DrvType
  <2>3. ASSUME NEW width \in RfBandwidth PROVE width \div 2 <= 28000
    BY <2>3, SMT DEF RfBandwidth
  <2> QED
    BY <1>1, <1>3, <2>1, <2>2, <2>3, ToneIsBounded DEF Tone
<1> QED
  BY <1>1, <1>3, <1>4, <1>5, <1>6, <1>7, TonesMeet DEF Tone

(***************************************************************************)
(* Where the corners are known to be right: the current bandwidths if the  *)
(* tone fits them, wide enough for it if not. A call for a bandwidth sets  *)
(* both, so that it doesn't matter where a failed call left them.          *)
(***************************************************************************)
Known == NoFaults \/ call.op = "bandwidth"

Outside == {"idle", "pause", "read", "take", "resume", "restore", "pins"}

OnTheWay ==
  /\ pc = "set tx"    => chip.filter.rx = Tuned("rx", call.want.rx)
  /\ pc = "plan"      => chip.filter = TunedFor(drv.bw)
  /\ pc = "widen rx"  => call.wide = TRUE
  /\ pc = "widen tx"  => call.wide = TRUE /\ chip.filter.rx = Tuned("rx", Wide)
  /\ pc = "narrow tx" => chip.filter.rx = Tuned("rx", drv.bw.rx)
  /\ pc \in AtCorner  => IF call.wide = TRUE THEN chip.filter = TunedFor([rx |-> Wide, tx |-> Wide])
                         ELSE chip.filter = TunedFor(drv.bw) /\ ~Widens(Tone, drv.bw)

Corners ==
  /\ timeouts \in Nat
  /\ Known => OnTheWay
  /\ NoFaults /\ pc \in Outside => chip.filter = TunedFor(drv.bw)

LEMMA InitCorners == Init => Corners
<1> SUFFICES ASSUME Init PROVE Corners
  OBVIOUS
<1>1. timeouts \in Nat
  BY DEF Init
<1>2. chip.filter = TunedFor(drv.bw)
  BY DEF Init
<1>3. OnTheWay
  BY DEF Init, OnTheWay, AtCorner, Cals
<1> QED
  BY <1>1, <1>2, <1>3 DEF Corners

(* What the tone and the widened corner depend on. *)
LEMMA SameTone ==
  ASSUME settings' = settings, drv'.bw = drv.bw
  PROVE  Tone' = Tone /\ Wide' = Wide /\ Widens(Tone, drv.bw)' = Widens(Tone, drv.bw)
  BY DEF Tone, Wide, TxTone, TxWord, WantedWord, WideFor, Widens

(* A corner at a time. *)
LEMMA SetFilterCorners ==
  ASSUME LInv, TInv, SetFilter, Known, OnTheWay, settings' = settings
  PROVE  /\ OnTheWay'
         /\ pc' \in Outside => chip'.filter = TunedFor(drv'.bw)
<1>1. Types
  BY DEF TInv
<1>2. /\ pc \in Filters /\ pc' = Corner.next /\ call' = call
      /\ chip'.filter = [chip.filter EXCEPT ![Corner.side] = Tuned(Corner.side, Corner.bw)]
  BY <1>1 DEF SetFilter, TuneFilter, Go, Types, ChipType
<1>3. chip.filter = [rx |-> chip.filter.rx, tx |-> chip.filter.tx]
  BY <1>1 DEF Types, ChipType
<1> DEFINE rx == chip.filter.rx
           tx == chip.filter.tx
<1>6. CASE pc = "set rx"
  <2>1. pc' = "set tx" /\ chip'.filter.rx = Tuned("rx", call.want.rx)
    BY <1>2, <1>3, <1>6 DEF Corner
  <2> QED
    BY <1>2, <2>1 DEF OnTheWay, AtCorner, Cals, Outside
<1>7. CASE pc = "set tx"
  <2>1. pc' = "plan" /\ drv'.bw = call.want
    BY <1>1, <1>2, <1>7 DEF Corner, SetFilter, Types, DrvType
  <2>2. rx = Tuned("rx", call.want.rx)
    BY <1>7 DEF OnTheWay
  <2>3. chip'.filter = [rx |-> rx, tx |-> Tuned("tx", call.want.tx)]
    BY <1>2, <1>3, <1>7 DEF Corner
  <2>4. chip'.filter = TunedFor(drv'.bw)
    BY <2>1, <2>2, <2>3 DEF TunedFor
  <2> QED
    BY <2>1, <2>4 DEF OnTheWay, AtCorner, Cals, Outside
<1>8. CASE pc # "set tx"
  <2>1. drv' = drv
    BY <1>8 DEF SetFilter
  <2>2. Wide' = Wide
    BY <2>1, SameTone
  <2>3. CASE pc = "widen rx"
    <3>1. pc' = "widen tx" /\ chip'.filter.rx = Tuned("rx", Wide)
      BY <1>2, <1>3, <2>3 DEF Corner
    <3>2. call.wide = TRUE
      BY <2>3 DEF OnTheWay
    <3> QED
      BY <1>2, <2>2, <3>1, <3>2 DEF OnTheWay, AtCorner, Cals, Outside
  <2>4. CASE pc = "widen tx"
    <3>1. call.wide = TRUE /\ rx = Tuned("rx", Wide)
      BY <2>4 DEF OnTheWay
    <3>2. pc' = "uninvert" /\ chip'.filter = [rx |-> rx, tx |-> Tuned("tx", Wide)]
      BY <1>2, <1>3, <2>4 DEF Corner
    <3>3. call'.wide = TRUE /\ chip'.filter = TunedFor([rx |-> Wide', tx |-> Wide'])
      BY <1>2, <2>2, <3>1, <3>2 DEF TunedFor
    <3> QED
      BY <3>2, <3>3 DEF OnTheWay, AtCorner, Cals, Outside
  <2>5. CASE pc = "narrow rx"
    <3>1. pc' = "narrow tx" /\ chip'.filter.rx = Tuned("rx", drv.bw.rx)
      BY <1>2, <1>3, <2>5 DEF Corner
    <3> QED
      BY <2>1, <3>1 DEF OnTheWay, AtCorner, Cals, Outside
  <2>6. CASE pc = "narrow tx"
    <3>1. rx = Tuned("rx", drv.bw.rx)
      BY <2>6 DEF OnTheWay
    <3>2. pc' = "resume" /\ chip'.filter = [rx |-> rx, tx |-> Tuned("tx", drv.bw.tx)]
      BY <1>2, <1>3, <2>6 DEF Corner
    <3>3. chip'.filter = TunedFor(drv'.bw)
      BY <2>1, <3>1, <3>2 DEF TunedFor
    <3> QED
      BY <3>2, <3>3 DEF OnTheWay, AtCorner, Cals
  <2> QED
    BY <1>2, <1>6, <1>8, <2>3, <2>4, <2>5, <2>6 DEF Filters
<1> QED
  BY <1>6, <1>7, <1>8

(* Between the corners nothing moves but the step. *)
LEMMA SameCorners ==
  ASSUME Corners, settings' = settings, chip'.filter = chip.filter, drv'.bw = drv.bw,
         timeouts' \in Nat, NoFaults' => NoFaults,
         call'.op = call.op, call'.wide = call.wide,
         \/ pc' = pc /\ call'.want = call.want
         \/ pc \in AtCorner /\ pc' \in AtCorner
         \/ pc \in Outside /\ pc' \in Outside \cup {"set rx"}
         \/ pc \in Outside /\ pc' = "plan" /\ (NoFaults \/ call.op # "bandwidth")
         \/ pc' = "narrow rx"
         \/ ~NoFaults' /\ pc' \in Outside
         \/ ~NoFaults' /\ pc \in AtCorner /\ pc' = "reinvert"
         \/ pc = "bits back" /\ call.wide # TRUE /\ pc' = "resume"
  PROVE  Corners'
<1>1. Tone' = Tone /\ Wide' = Wide /\ Widens(Tone, drv.bw)' = Widens(Tone, drv.bw)
  BY SameTone
<1>2. Known' => Known
  BY DEF Known
<1>3. Known' => OnTheWay'
  <2> SUFFICES ASSUME Known' PROVE OnTheWay'
    OBVIOUS
  <2>1. OnTheWay
    BY <1>2 DEF Corners
  <2> QED
    BY <1>1, <1>2, <2>1 DEF Corners, Known, OnTheWay, AtCorner, Outside, Cals
<1>4. NoFaults' /\ pc' \in Outside => chip'.filter = TunedFor(drv'.bw)
  BY DEF Corners, Known, OnTheWay, AtCorner, Outside, Cals
<1> QED
  BY <1>3, <1>4 DEF Corners

(* Calls begin and end with the corners for the current bandwidths, as long *)
(* as nothing ever failed.                                                  *)
LEMMA OutsideCorners ==
  ASSUME Corners, pc \in Outside, pc' \in Outside, timeouts' \in Nat, NoFaults' => NoFaults,
         chip'.filter = chip.filter, drv'.bw = drv.bw
  PROVE  Corners'
  BY DEF Corners, OnTheWay, AtCorner, Outside, Cals

LEMMA FailedCorners ==
  ASSUME LInv, TInv, Corners, Fail, pc # "idle", ~NoFaults', drv'.bw = drv.bw, timeouts' \in Nat,
         settings' = settings, chip'.filter = chip.filter \/ pc \in Filters
  PROVE  Corners'
<1> USE DEF Go
<1>1. Types
  BY DEF TInv
<1>2. \/ pc' = "idle"
      \/ /\ pc \in Cals /\ pc' = "reinvert"
         /\ call'.op = call.op /\ call'.wide = call.wide /\ call'.want = call.want
      \/ pc \in Inner \ Cals /\ pc' = "resume"
  BY <1>1 DEF Fail, AfterError, Return, Types, CallType
<1>3. CASE pc' \in {"idle", "resume"}
  BY <1>3 DEF Corners, OnTheWay, AtCorner, Cals
<1>4. CASE pc \in Cals /\ pc' = "reinvert"
  <2>1. chip'.filter = chip.filter /\ drv'.bw = drv.bw
    BY <1>4 DEF Cals, Filters
  <2>2. pc \in AtCorner /\ pc' \in AtCorner
    BY <1>4 DEF AtCorner
  <2>3. call'.op = call.op /\ call'.wide = call.wide
    BY <1>2, <1>4
  <2> QED
    BY <2>1, <2>2, <2>3, SameCorners
<1> QED
  BY <1>2, <1>3, <1>4

LEMMA CornersKept == LInv /\ TInv /\ Corners /\ Next => Corners'
<1> SUFFICES ASSUME LInv, TInv, Corners, Next PROVE Corners'
  OBVIOUS
<1> USE DEF Go, Keep
<1>0. Types /\ call \in CallType /\ drv \in DrvType /\ chip \in ChipType
  BY DEF TInv, Types
<1>1. settings' = settings
  BY FieldsKept DEF LInv
<1>2. timeouts' \in Nat /\ (NoFaults' => NoFaults /\ ~SpiError /\ ~Timeout)
  BY FaultsAddUp DEF LInv, Corners, NoFaults
<1>3. CASE Pause \/ Resume
  <2>1. pc \in Outside /\ pc' \in Outside /\ chip'.filter = chip.filter /\ drv' = drv
    BY <1>0, <1>3 DEF Pause, Resume, Outside, ChipType
  <2> QED
    BY <1>2, <2>1, OutsideCorners
<1>4. CASE ReadEnsm \/ TakeEnsm
  <2>1. /\ pc \in Outside /\ chip'.filter = chip.filter /\ drv'.bw = drv.bw
        /\ call'.op = call.op /\ call'.wide = call.wide
    BY <1>0, <1>4 DEF ReadEnsm, TakeEnsm, Outside, CallType, DrvType
  <2>2. \/ pc' = "take"
        \/ pc' = "set rx"
        \/ pc' = "plan" /\ call.op # "bandwidth"
    BY <1>4 DEF ReadEnsm, TakeEnsm, Inside
  <2>3. \/ pc \in Outside /\ pc' \in Outside \cup {"set rx"}
        \/ pc \in Outside /\ pc' = "plan" /\ (NoFaults \/ call.op # "bandwidth")
    BY <2>1, <2>2 DEF Outside
  <2> QED
    BY <1>1, <1>2, <2>1, <2>3, SameCorners
<1>5. CASE SetFilter
  <2>1. call' = call
    BY <1>5 DEF SetFilter
  <2>2. Known' => Known
    BY <1>2, <2>1 DEF Known
  <2>3. CASE Known
    <3>1. /\ OnTheWay'
          /\ pc' \in Outside => chip'.filter = TunedFor(drv'.bw)
      BY <1>1, <1>5, <2>3, SetFilterCorners DEF Corners
    <3> QED
      BY <1>2, <3>1 DEF Corners
  <2>4. CASE ~Known
    BY <1>2, <2>2, <2>4 DEF Corners, Known
  <2> QED
    BY <2>3, <2>4
<1>6. CASE Plan
  <2> DEFINE wide == Widens(Tone, drv.bw)
  <2>1. /\ pc = "plan" /\ pc' = (IF wide THEN "widen rx" ELSE "uninvert")
        /\ call'.wide = wide /\ call'.op = call.op
        /\ chip'.filter = chip.filter /\ drv' = drv
    BY <1>0, <1>6 DEF Plan, Tone, CallType
  <2>2. Widens(Tone, drv.bw)' = wide /\ wide \in BOOLEAN
    <3>1. Widens(Tone, drv.bw)' = wide
      BY <1>1, <2>1, SameTone
    <3> QED
      BY <3>1 DEF Widens
  <2>3. Known' => chip.filter = TunedFor(drv.bw)
    BY <1>2, <2>1 DEF Corners, Known, OnTheWay
  <2> HIDE DEF wide
  <2>4. CASE wide = TRUE
    BY <1>2, <2>1, <2>4 DEF Corners, OnTheWay, AtCorner, Cals, Outside
  <2>5. CASE wide = FALSE
    <3>1. call'.wide = FALSE /\ pc' = "uninvert" /\ Widens(Tone, drv.bw)' = FALSE
      BY <2>1, <2>2, <2>5
    <3> QED
      BY <1>2, <2>1, <2>3, <3>1 DEF Corners, OnTheWay, AtCorner, Cals, Outside
  <2> QED
    BY <2>2, <2>4, <2>5
<1>7. CASE Uninvert \/ TakeBits \/ Words \/ Reinvert
  <2>1. /\ pc \in AtCorner /\ pc' \in AtCorner /\ chip'.filter = chip.filter /\ drv' = drv
        /\ call'.op = call.op /\ call'.wide = call.wide
    BY <1>0, <1>7 DEF Uninvert, TakeBits, Words, Reinvert, AtCorner, Cals, ChipType, CallType
  <2> QED
    BY <1>1, <1>2, <2>1, SameCorners
<1>8. CASE TryPlanned \/ TryLast \/ Search \/ Settle
  <2>1. /\ pc \in AtCorner /\ pc' \in AtCorner
    BY <1>8 DEF TryPlanned, TryLast, AfterLastTry, Search, Settle, AfterSettle, RunAt, AtCorner, Cals
  <2>2. /\ chip' = chip /\ drv'.bw = drv.bw
        /\ call'.op = call.op /\ call'.wide = call.wide
    BY <1>0, <1>8 DEF TryPlanned, TryLast, Search, Settle, RunAt, CallType, DrvType
  <2> QED
    BY <1>1, <1>2, <2>1, <2>2, SameCorners
<1>9. CASE PutBitsBack
  <2>1. /\ pc = "bits back" /\ chip'.filter = chip.filter /\ drv' = drv /\ call' = call
        /\ pc' = IF call.wide THEN "narrow rx" ELSE "resume"
    BY <1>0, <1>9 DEF PutBitsBack, AfterReinvert, ChipType
  <2>2. pc' = "narrow rx" \/ (pc = "bits back" /\ call.wide # TRUE /\ pc' = "resume")
    BY <1>0, <2>1 DEF CallType
  <2> QED
    BY <1>1, <1>2, <2>1, <2>2, SameCorners
<1>10. CASE Restore \/ Pins \/ QuadCal \/ UpdateRfBandwidth
  <2>1. pc \in Outside /\ pc' \in Outside /\ chip' = chip /\ drv' = drv
    BY <1>10 DEF Restore, Pins, Return, QuadCal, UpdateRfBandwidth, Call, Outside
  <2> QED
    BY <1>2, <2>1, OutsideCorners
<1>11. CASE SpiError
  <2>1. /\ Fail /\ pc # "idle" /\ drv'.bw = drv.bw /\ ~NoFaults'
        /\ chip'.filter = chip.filter \/ pc \in Filters
    BY <1>0, <1>2, <1>11, SpiWrites DEF LInv, IInv, DrvType
  <2> QED
    BY <1>1, <1>2, <2>1, FailedCorners
<1>12. CASE Timeout
  <2>1. /\ Fail /\ pc # "idle" /\ drv'.bw = drv.bw /\ ~NoFaults'
        /\ chip'.filter = chip.filter \/ pc \in Filters
    BY <1>2, <1>12 DEF Timeout, Filters, Cals
  <2> QED
    BY <1>1, <1>2, <2>1, FailedCorners
<1>13. CASE MovePin \/ FollowPin
  <2>1. UNCHANGED <<pc, call, chip, drv>>
    BY <1>13 DEF MovePin, FollowPin
  <2> QED
    BY <1>1, <1>2, <2>1, SameCorners
<1> QED
  BY <1>3, <1>4, <1>5, <1>6, <1>7, <1>8, <1>9, <1>10, <1>11, <1>12, <1>13 DEF Next, Steps

(***************************************************************************)
(* All together                                                            *)
(***************************************************************************)
CInv == LInv /\ TInv /\ PinsRemembered /\ Corners

LEMMA CInvInvariance == Spec => []CInv
<1>1. Init => CInv
  <2> SUFFICES ASSUME Init PROVE CInv
    OBVIOUS
  <2>1. PinsRemembered
    <3>1. ensm.pinCtrl = settings.pinCtrl /\ pc = "idle"
      BY DEF Init
    <3>2. settings.pinCtrl \in BOOLEAN
      BY SettingsAre DEF Init
    <3> QED
      BY <3>1, <3>2 DEF PinsRemembered, PinsKept
  <2> QED
    BY <2>1, InitLInv, InitTInv, InitCorners DEF CInv
<1>2. CInv /\ [Next]_vars => CInv'
  <2> SUFFICES ASSUME CInv, [Next]_vars PROVE CInv'
    OBVIOUS
  <2>1. CASE Next
    BY <2>1, LInvKept, TypesKept, TriedKept, PinsRememberedKept, CornersKept DEF CInv, TInv
  <2>2. CASE UNCHANGED vars
    <3>1. LInv'
      BY <2>2, LInvKept DEF CInv
    <3>2. TInv'
      BY <2>2 DEF CInv, TInv, Types, Tried, vars
    <3>3. PinsRemembered'
      BY <2>2 DEF CInv, PinsRemembered, PinsKept, vars, counts
    <3>4. Corners'
      <4>1. Tone' = Tone /\ Wide' = Wide /\ Widens(Tone, drv.bw)' = Widens(Tone, drv.bw)
        BY <2>2, SameTone DEF vars
      <4> QED
        BY <2>2, <4>1 DEF CInv, Corners, Known, NoFaults, OnTheWay, vars, counts
    <3> QED
      BY <3>1, <3>2, <3>3, <3>4 DEF CInv
  <2> QED
    BY <2>1, <2>2
<1> QED
  BY <1>1, <1>2, PTL DEF Spec

(***************************************************************************)
(* Types of the state; the phase offset fits its five bits, whatever it    *)
(* was searched from.                                                      *)
(***************************************************************************)
THEOREM TypesHold == Spec => []TypeOK
<1>1. CInv => TypeOK
  BY DEF CInv, TInv, Types, EnsmType, ChipType, DrvType, CallType, TypeOK
<1> QED
  BY <1>1, CInvInvariance, PTL

(***************************************************************************)
(* While the chip calibrates, both tones are at the same frequency and     *)
(* pass both filters, for any clocks and bandwidths; in a bandwidth call   *)
(* whatever earlier calls left.                                            *)
(***************************************************************************)
THEOREM TonesAlwaysMeetAndFit == Spec => []TonesMeetAndFit
<1>1. CInv => TonesMeetAndFit
  <2> SUFFICES ASSUME CInv, Calibrating
               PROVE  /\ settings.clk.rf \in {settings.clk.tf, 2 * settings.clk.tf} =>
                           RxTone(settings.clk, drv.bw.tx \div 2) = Tone
                      /\ NoFaults \/ call.op = "bandwidth" =>
                           \A side \in {"rx", "tx"} : Fits(Tone, side)
    BY DEF TonesMeetAndFit, Tone
  <2>1. /\ Tone \in Nat /\ Tone <= MaxTone /\ Wide \in Nat /\ Wide \div 8 = Tone
        /\ settings.clk.rf \in {settings.clk.tf, 2 * settings.clk.tf} =>
             RxTone(settings.clk, drv.bw.tx \div 2) = Tone
    BY ToneFits, WideIs DEF CInv, TInv
  <2>2. ASSUME Known, NEW side \in {"rx", "tx"} PROVE Fits(Tone, side)
    <3>1. IF call.wide = TRUE THEN chip.filter = TunedFor([rx |-> Wide, tx |-> Wide])
          ELSE chip.filter = TunedFor(drv.bw) /\ ~Widens(Tone, drv.bw)
      BY <2>2 DEF CInv, Corners, OnTheWay, AtCorner, Calibrating
    <3>2. \E bw \in Nat : chip.filter[side] = Tuned(side, bw) /\ Tone <= bw \div 8
      <4>1. CASE call.wide = TRUE
        <5>1. chip.filter[side] = Tuned(side, Wide)
          BY <3>1, <4>1 DEF TunedFor
        <5> QED
          BY <2>1, <5>1
      <4>2. CASE call.wide # TRUE
        <5>1. drv.bw \in [rx : Nat, tx : Nat]
          BY BandwidthsAre DEF CInv, TInv, Types, DrvType
        <5>2. ~(Tone > drv.bw.rx \div 8) /\ ~(Tone > drv.bw.tx \div 8)
          BY <3>1, <4>2 DEF Widens
        <5>3. drv.bw.rx \div 8 \in Nat /\ drv.bw.tx \div 8 \in Nat
          BY <5>1
        <5>4. Tone <= drv.bw.rx \div 8 /\ Tone <= drv.bw.tx \div 8
          BY <2>1, <5>2, <5>3
        <5>5. chip.filter[side] = Tuned(side, drv.bw[side])
          <6>1. chip.filter = [rx |-> Tuned("rx", drv.bw.rx), tx |-> Tuned("tx", drv.bw.tx)]
            BY <3>1, <4>2 DEF TunedFor
          <6>2. CASE side = "rx"
            BY <6>1, <6>2
          <6>3. CASE side = "tx"
            BY <6>1, <6>3
          <6> QED
            BY <6>2, <6>3
        <5> QED
          BY <5>1, <5>4, <5>5
      <4> QED
        BY <4>1, <4>2
    <3> QED
      BY <2>1, <3>2, RoomEnough DEF Fits
  <2> QED
    BY <2>1, <2>2 DEF Known
<1> QED
  BY <1>1, CInvInvariance, PTL

(***************************************************************************)
(* Unless a run fails, the last run converges if any phase offset does:    *)
(* for every one of the 2^32 sets of phases that may converge.             *)
(***************************************************************************)
THEOREM SearchConverges == Spec => []ConvergesIfAnyPhaseDoes
<1>1. CInv => ConvergesIfAnyPhaseDoes
  BY DEF CInv, TInv, Tried, ConvergesIfAnyPhaseDoes
<1> QED
  BY <1>1, CInvInvariance, PTL

(***************************************************************************)
(* And what a search settles on is as far as possible from the phases that *)
(* fail, round the circle, whichever they are.                             *)
(***************************************************************************)
THEOREM SearchIsWidest == Spec => []SearchPicksTheWidestMargin
<1>1. CInv => SearchPicksTheWidestMargin
  <2> SUFFICES ASSUME CInv, pc = "settle", good # Phases
               PROVE  call.found \in WidestOf[good]
    BY DEF SearchPicksTheWidestMargin
  <2>1. good \in Convergent /\ call.found = SearchedPhaseOf[good]
    BY DEF CInv, TInv, Tried
  <2>2. good \in SUBSET Phases /\ WidestOf[good] = Widest(good)
    BY <2>1, ConvergentAssumption DEF WidestOf
  <2>3. call.found = SearchedPhase(good)
    BY <2>1, SearchedOfIs
  <2> QED
    BY <2>2, <2>3, SearchedIsWidest
<1> QED
  BY <1>1, CInvInvariance, PTL

(***************************************************************************)
(* A call that gets to its end hands the chip back to the pins if it was   *)
(* set up for them, also after calls that could not, and never if not.     *)
(***************************************************************************)
THEOREM PinsAlwaysRuleAgain == Spec => PinsRuleAgain
<1>1. CInv /\ [Next]_vars =>
        [pc = "pins" /\ pc' = "idle" /\ spiFaults' = 0 => ensm'.pinCtrl = settings.pinCtrl]_vars
  BY PinsStep DEF CInv
<1> QED
  BY <1>1, CInvInvariance, PTL DEF Spec, PinsRuleAgain
=============================================================================
