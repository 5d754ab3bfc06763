------------------------------- MODULE DigTune -------------------------------
(***************************************************************************)
(* Digital interface tuning (dig_tune.rs) with what it borrows and has to  *)
(* give back: the TX attenuation it mutes, the loopback and the PRBS it    *)
(* switches on, the PN generator of the FPGA, the ENSM state and the pin   *)
(* control it takes over, and the delays it moves.                         *)
(*                                                                         *)
(* dig_tune runs inside init (post_setup) and inside the public calls that *)
(* change clocks or FIRs, up to three times in one call. Between calls the *)
(* user sets the attenuation, and with ENSM pin control the pins move the  *)
(* chip whenever they have it.                                             *)
(***************************************************************************)
EXTENDS Integers, Sequences

CONSTANTS Configs,      \* settings: [fdd, pins, tune, firTune, clockTune]
          Attens,       \* attenuations that are asked for, in quarter dB
          StartAtten,   \* tx_attenuation of the settings
          MaxAsks,      \* bound: set_tx_attenuation calls in a run
          MaxFaults     \* bound: SPI errors and calibration timeouts in a run

MaxAtten == 359    \* TxAttenuation::MAX
MinAtten == 0      \* TxAttenuation::MIN

Modes == {"RxAndTx", "RxOnly", "UseConfigured"}

ASSUME ConfigsAssumption ==
  Configs \subseteq [fdd : BOOLEAN, pins : BOOLEAN, tune : Modes,
                     firTune : BOOLEAN, clockTune : BOOLEAN]
ASSUME AttensAssumption ==
  /\ Attens \subseteq MinAtten..MaxAtten /\ StartAtten \in MinAtten..MaxAtten
  /\ MaxAsks \in Nat /\ MaxFaults \in Nat

VARIABLES
  config,      \* the settings
  ensm, fddMode, pinCtrl,   \* chip: ENSM state, its mode, pin control
  atten,       \* chip: TX attenuations
  loop, prbs,  \* chip: TX to RX loopback, PRBS injected into RX
  delays,      \* chip: where its RX and TX delays come from
  pn,          \* FPGA: sends the PN sequence
  savedPin,    \* driver: saved_pin_ctrl_enable
  attenCached, \* driver: tx1_atten_cached, tx2_atten_cached
  loopMode, bistConfig,     \* driver: tune.bist_loopback_mode, tune.bist_config
  mode,        \* driver: tune.dig_interface_tune
  stored,      \* driver: tune.rx_clk_data_delay, tune.tx_clk_data_delay
  fir,         \* driver: the FIRs that are not bypassed
  up,          \* init is over
  pc, todo,    \* the step that runs, and what the call has to do after it
  run,         \* locals of dig_tune, and of a forced ENSM state; atten is what
               \* the attenuation was when dig_tune began
  call, result, faults,
  asked, asks, \* what the user set the attenuations to, and how often
  failed       \* a sweep found no delay that works

ensmVars  == <<ensm, pinCtrl, savedPin>>
testVars  == <<loop, prbs, loopMode, bistConfig>>
attenVars == <<atten, attenCached>>
userVars  == <<asked, asks>>
callVars  == <<pc, todo, call, result, fir, mode, up>>
vars == <<config, ensmVars, fddMode, testVars, attenVars, delays, pn, stored, callVars,
          run, faults, userVars, failed>>

Sides    == {"rx", "tx"}
Channels == 1..2
Both(x)  == [c \in Channels |-> x]
Home     == IF config.fdd THEN "fdd" ELSE "rx"
NoRun    == [saved |-> "none", kind |-> "none", restore |-> FALSE, loop |-> FALSE,
             prbs |-> FALSE, muted |-> FALSE, atten |-> Both(MinAtten), result |-> "ok"]

(***************************************************************************)
(* After setup: the configured attenuation is in, nothing was ever muted.  *)
(***************************************************************************)
Init ==
  /\ config \in Configs
  /\ ensm = Home /\ fddMode = config.fdd /\ pinCtrl = config.pins /\ savedPin = FALSE
  /\ atten = Both(StartAtten) /\ attenCached = Both(MinAtten)
  /\ loop = FALSE /\ prbs = FALSE /\ loopMode = FALSE /\ bistConfig = FALSE /\ pn = FALSE
  /\ delays = [s \in Sides |-> "configured"] /\ stored = [s \in Sides |-> "configured"]
  /\ mode = config.tune /\ fir = {} /\ up = FALSE
  /\ pc = "idle" /\ todo = << >> /\ run = NoRun /\ call = "none" /\ result = "ok"
  /\ asked = Both(StartAtten) /\ asks = 0
  /\ faults = 0 /\ failed = FALSE

Fault == faults < MaxFaults /\ faults' = faults + 1
Fine  == UNCHANGED faults

(***************************************************************************)
(* A call is a list of phases, and each phase ends in Finish. The result   *)
(* of a tuning for the FIRs is thrown away, every other error ends the     *)
(* call: a FIR counts as bypassed after it, and a driver whose init fails  *)
(* is gone (InitFailure hands the peripherals back, the next init resets   *)
(* the chip and makes a new Engine: another behaviour).                    *)
(***************************************************************************)
Ignored == {"fir tune", "off tune"}    \* phases whose error is thrown away

EndCallKeepingMode(res) ==   \* mutant: an error leaves dig_tune's mode as it was
  /\ pc' = IF call = "init" /\ res # "ok" THEN "init failed" ELSE "idle"
  /\ up' = (up \/ (call = "init" /\ res = "ok"))
  /\ mode' = IF res = "ok" THEN config.tune ELSE mode
  /\ fir' = fir /\ todo' = << >> /\ call' = "none" /\ result' = res

EndCallHalfWay(res) ==   \* mutant: returns with phases left to do
  /\ pc' = "idle" /\ up' = TRUE /\ mode' = config.tune
  /\ UNCHANGED <<fir, todo>> /\ call' = "none" /\ result' = res

EndCall(res) ==
  /\ pc' = IF call = "init" /\ res # "ok" THEN "init failed" ELSE "idle"
  /\ up' = (up \/ (call = "init" /\ res = "ok"))
  /\ mode' = config.tune
  /\ fir' = IF res = "ok" THEN fir ELSE fir \ (CASE call = "rx fir" -> {"rx"}
                                              [] call = "tx fir" -> {"tx"}
                                              [] OTHER -> {})
  /\ todo' = << >> /\ call' = "none" /\ result' = res

Finish(res) ==
  LET counts == IF Head(todo) \in Ignored THEN "ok" ELSE res
  IN  IF counts = "ok" /\ Len(todo) > 1
      THEN /\ todo' = Tail(todo) /\ pc' = todo[2]
           /\ UNCHANGED <<call, result, fir, mode, up>>
      ELSE EndCall(counts)

Goto(step) == pc' = step /\ UNCHANGED <<todo, call, result, fir, mode, up>>

Begin(name, phases) ==
  /\ todo' = phases /\ pc' = phases[1] /\ call' = name
  /\ UNCHANGED <<result, up>>

UnchangedChip == UNCHANGED <<ensmVars, fddMode, testVars, attenVars, delays, pn, stored>>

(***************************************************************************)
(* post_setup and the two FIRs that are loaded after it (forced into alert *)
(* each). with_dig_tune_mode only takes a baseline when every clock change *)
(* retunes anyway; its end is put with the end of the call, since nothing  *)
(* reads the mode in between.                                              *)
(***************************************************************************)
ClockPhases(on) ==
  << "clocks" >> \o (IF config.firTune /\ on # {} THEN << "fir tune" >> ELSE << >>)
    \o << "update" >> \o (IF config.clockTune THEN << "clock tune" >> ELSE << >>)

PostSetup ==
  /\ pc = "idle" /\ ~up
  /\ Begin("init", << "full tune" >> \o ClockPhases(fir)
                   \o << "alert", "alert", "alert" >>)
  /\ mode' = IF config.clockTune THEN "UseConfigured" ELSE config.tune
  /\ UNCHANGED <<config, fir, run, faults, userVars, failed>> /\ UnchangedChip

SetSampleRate ==
  /\ pc = "idle" /\ up
  /\ Begin("rate", ClockPhases(fir))
  /\ UNCHANGED <<config, fir, mode, run, faults, userVars, failed>> /\ UnchangedChip

(* set_rx_fir_en_dis, set_tx_fir_en_dis and validate_enable_fir. *)
SetFirEnabled(side, enable) ==
  LET on   == IF enable THEN fir \cup {side} ELSE fir \ {side}
      name == IF side = "rx" THEN "rx fir" ELSE "tx fir"
  IN  /\ pc = "idle" /\ up /\ on # fir
      /\ fir' = on
      /\ Begin(name, ClockPhases(on)
                 \o (IF config.firTune /\ on = {} THEN << "off tune" >> ELSE << >>)
                 \o << "alert" >>)
      /\ UNCHANGED <<config, mode, run, faults, userVars, failed>> /\ UnchangedChip

(* load_rx_fir, load_tx_fir, set_bandwidths: forced into alert and back. *)
LoadOrCalibrate ==
  /\ pc = "idle" /\ up
  /\ Begin("load", << "alert" >>)
  /\ UNCHANGED <<config, fir, mode, run, faults, userVars, failed>> /\ UnchangedChip

(* set_tx_attenuation. An SPI error leaves any of the channels as it was.  *)
SetTxAttenuation(channels, a) ==
  /\ pc = "idle" /\ up /\ asks < MaxAsks
  /\ asks' = asks + 1
  /\ \/ /\ atten' = [c \in Channels |-> IF c \in channels THEN a ELSE atten[c]]
        /\ Fine /\ result' = "ok"
     \/ /\ \E written \in SUBSET channels :
             atten' = [c \in Channels |-> IF c \in written THEN a ELSE atten[c]]
        /\ Fault /\ result' = "Spi"
  /\ asked' = [c \in Channels |-> IF c \in channels THEN a ELSE asked[c]]
  /\ UNCHANGED <<config, ensmVars, fddMode, testVars, attenCached, delays, pn, stored, fir,
                 mode, up, pc, todo, run, call, failed>>

(***************************************************************************)
(* The clock chain and what depends on it (ClockTree) can only fail here.  *)
(***************************************************************************)
ChangeClocks ==
  /\ pc \in {"clocks", "update"}
  /\ run' = NoRun
  /\ \/ Fine /\ Finish("ok")
     \/ Fault /\ Finish("Spi")
     \/ Fine /\ pc = "clocks" /\ call # "init" /\ Finish("InvalidRate")
  /\ UNCHANGED <<config, userVars, failed>> /\ UnchangedChip

(***************************************************************************)
(* The ENSM. Forcing a state takes the pin control away and remembers that *)
(* it was on, in the one slot there is; a chip already there is left       *)
(* alone. Restoring goes back to a state that can be restored, and gives   *)
(* the pin control back.                                                   *)
(***************************************************************************)
ForceState(state) ==
  IF ensm = state THEN UNCHANGED ensmVars
  ELSE /\ ensm' = state /\ pinCtrl' = FALSE /\ savedPin' = pinCtrl

Restorable      == {"tx", "fdd", "rx", "alert"}

RestoreState(saved) ==
  /\ UNCHANGED savedPin
  /\ IF saved \in Restorable
     THEN ensm' = saved /\ pinCtrl' = (pinCtrl \/ savedPin)
     ELSE UNCHANGED <<ensm, pinCtrl>>

(* An SPI error before, between or after the writes. *)
AlertFails ==
  \/ ForceState("alert")
  \/ savedPin' \in {savedPin, pinCtrl} /\ UNCHANGED <<ensm, pinCtrl>>

RestoreFails(saved) ==
  \/ RestoreState(saved) \/ UNCHANGED ensmVars
  \/ /\ saved \in Restorable /\ ensm' \in {"alert", saved}
     /\ pinCtrl' \in {pinCtrl, FALSE} /\ UNCHANGED savedPin

ForceAlert ==
  /\ pc = "alert"
  /\ run' = [NoRun EXCEPT !.saved = ensm]
  /\ \/ ForceState("alert") /\ Fine /\ Goto("work")
     \/ AlertFails /\ Fault /\ Finish("Spi")
  /\ UNCHANGED <<config, fddMode, testVars, attenVars, delays, pn, stored, userVars, failed>>

(* The work's error is returned once the state is restored. *)
RestoreAfterWork ==
  /\ pc = "work"
  /\ \/ RestoreState(run.saved) /\ Fine /\ Finish("ok")
     \/ RestoreState(run.saved) /\ Fault /\ Finish("Timeout")
     \/ RestoreFails(run.saved) /\ Fault /\ Finish("Spi")
  /\ UNCHANGED <<config, fddMode, testVars, attenVars, delays, pn, stored, run, userVars,
                 failed>>

(* The pins, while they have the control, and the end of a flush.          *)
PinStates == IF config.fdd THEN {"alert", "fdd", "flush"} ELSE {"alert", "rx", "tx", "flush"}

Pins ==
  /\ \/ pinCtrl /\ ensm = "alert" /\ ensm' \in PinStates \ {"alert", "flush"}
     \/ pinCtrl /\ ensm \notin {"alert", "flush"} /\ ensm' = "flush"
     \/ ensm = "flush" /\ ensm' = "alert"
  /\ UNCHANGED <<config, fddMode, pinCtrl, savedPin, testVars, attenVars, delays, pn, stored,
                 callVars, run, faults, userVars, failed>>

(***************************************************************************)
(* dig_tune: "full tune" sweeps up to 61.44 MSPS and keeps what it finds,  *)
(* "fir tune" does not keep it, "clock tune" and "off tune" only put the   *)
(* stored delays back.                                                     *)
(***************************************************************************)
Tunings == {"full tune", "fir tune", "clock tune", "off tune"}

MutedTx1Only == [atten EXCEPT ![1] = MaxAtten]   \* mutant: TX2 goes on sending
Muted        == Both(MaxAtten)

UnmutedAsTx1(c) == attenCached[1]   \* mutant: TX1's attenuation for both
Unmuted(c)      == attenCached[c]

AfterSweep(side)     == IF side = "rx" /\ mode = "RxAndTx" THEN "tx" ELSE "stop"

NoFallback     == FALSE             \* mutant: a failed sweep leaves its delays
FallsBack      == run.result = "TuningFailed"

StoresAll == delays                 \* mutant: FIR tuning overwrites the original
StoresNew == IF run.kind = "fir tune" THEN stored ELSE delays

SaveEnsmState ==
  LET restore == mode = "UseConfigured" \/ pc \in {"clock tune", "off tune"}
  IN  /\ pc \in Tunings
      /\ run' = [NoRun EXCEPT !.kind = pc, !.saved = ensm, !.restore = restore,
                            !.atten = atten]
      /\ \/ Fine /\ Goto(IF restore THEN "delays" ELSE "mute")
         \/ Fault /\ Finish("Spi")
      /\ UNCHANGED <<config, userVars, failed>> /\ UnchangedChip

(* tx_mute(true), and FDD while tuning in TDD. *)
Mute ==
  /\ pc = "mute"
  /\ run' = [run EXCEPT !.loop = loopMode, !.prbs = bistConfig, !.muted = TRUE]
  /\ \/ attenCached' = atten /\ atten' = Muted /\ fddMode' = TRUE
        /\ Fine /\ Goto("rx")
     \/ /\ attenCached' \in {attenCached, [attenCached EXCEPT ![1] = atten[1]]}
        /\ UNCHANGED <<atten, fddMode>> /\ Fault /\ Finish("Spi")
     \/ /\ attenCached' = atten
        /\ \E muted \in SUBSET Channels :
             atten' = [c \in Channels |-> IF c \in muted THEN MaxAtten ELSE atten[c]]
        /\ fddMode' \in {fddMode, TRUE} /\ Fault /\ Finish("Spi")
  /\ UNCHANGED <<config, ensmVars, testVars, delays, pn, stored, userVars, failed>>

(***************************************************************************)
(* dig_tune_rx and dig_tune_tx. Whatever they return is kept until the     *)
(* test signals are off again.                                             *)
(***************************************************************************)
Keep(res) == run' = [run EXCEPT !.result = res]

StartRx ==
  /\ pc = "rx"
  /\ \/ /\ loopMode' = FALSE /\ loop' = FALSE /\ bistConfig' = TRUE /\ prbs' = TRUE
        /\ Fine /\ Goto("rx sweep") /\ UNCHANGED run
     \/ /\ \/ UNCHANGED testVars
           \/ loopMode' = FALSE /\ loop' \in {loop, FALSE} /\ UNCHANGED <<bistConfig, prbs>>
           \/ /\ loopMode' = FALSE /\ loop' = FALSE
              /\ bistConfig' = TRUE /\ prbs' \in {prbs, TRUE}
        /\ Fault /\ Keep("Spi") /\ Goto("stop")
  /\ UNCHANGED <<config, ensm, pinCtrl, savedPin, fddMode, attenVars, delays, pn, stored,
                 userVars, failed>>

StartTx ==
  /\ pc = "tx"
  /\ bistConfig' = FALSE
  /\ \/ /\ prbs' = FALSE /\ loopMode' = TRUE /\ loop' = TRUE /\ pn' = TRUE
        /\ Fine /\ Goto("tx sweep") /\ UNCHANGED run
     \/ /\ \/ prbs' \in {prbs, FALSE} /\ UNCHANGED <<loopMode, loop>>
           \/ prbs' = FALSE /\ loopMode' = TRUE /\ loop' \in {loop, TRUE}
        /\ Fault /\ Keep("Spi") /\ Goto("stop") /\ UNCHANGED pn
  /\ UNCHANGED <<config, ensm, pinCtrl, savedPin, fddMode, attenVars, delays, stored,
                 userVars, failed>>

(***************************************************************************)
(* dig_tune_delay: set_intf_delay forces alert and then FDD again and      *)
(* again, so the slot for the pin control ends up with what the first      *)
(* force left: off. A sweep without a window leaves its last delays.       *)
(***************************************************************************)
Sweep(side) ==
  /\ \/ /\ ensm' = "fdd" /\ pinCtrl' = FALSE /\ savedPin' = FALSE /\ Fine
        /\ \/ /\ delays' = [delays EXCEPT ![side] =
                   IF run.kind = "full tune" THEN "tuned" ELSE "tuned with FIR"]
              /\ UNCHANGED <<run, failed>>
              /\ Goto(AfterSweep(side))
           \/ /\ delays' = [delays EXCEPT ![side] = "swept"]
              /\ failed' = TRUE /\ Keep("TuningFailed") /\ Goto("stop")
     \/ /\ \/ AlertFails
           \/ ensm' \in {"alert", "fdd"} /\ pinCtrl' = FALSE /\ savedPin' = FALSE
        /\ delays' \in {delays, [delays EXCEPT ![side] = "swept"]}
        /\ Fault /\ Keep("Spi") /\ Goto("stop") /\ UNCHANGED failed
  /\ UNCHANGED <<config, fddMode, testVars, attenVars, stored, userVars>>

SweepRx == pc = "rx sweep" /\ Sweep("rx") /\ UNCHANGED pn
SweepTx == pc = "tx sweep" /\ Sweep("tx") /\ pn' = FALSE

(* The loopback and the PRBS as they were; only the chip's PRBS is.        *)
StopTestSignals ==
  /\ pc = "stop"
  /\ UNCHANGED bistConfig
  /\ \/ /\ loopMode' = run.loop /\ loop' = run.loop /\ prbs' = run.prbs
        /\ run' = [run EXCEPT !.restore = FallsBack,
                              !.result = IF run.kind = "full tune" THEN run.result ELSE "ok"]
        /\ Fine /\ Goto("delays")
     \/ /\ \/ UNCHANGED <<loopMode, loop, prbs>>
           \/ loopMode' = run.loop /\ loop' \in {loop, run.loop} /\ UNCHANGED prbs
           \/ loopMode' = run.loop /\ loop' = run.loop /\ prbs' = run.prbs
        /\ Fault /\ Finish("Spi") /\ UNCHANGED run
  /\ UNCHANGED <<config, ensmVars, fddMode, attenVars, delays, pn, stored, userVars, failed>>

PutDelays ==
  /\ pc = "delays"
  /\ \/ /\ run.restore
        /\ ForceState("alert") /\ delays' = stored
        /\ Fine /\ Goto("leave") /\ UNCHANGED stored
     \/ /\ run.restore
        /\ AlertFails
        /\ \E written \in SUBSET Sides :
             delays' = [s \in Sides |-> IF s \in written THEN stored[s] ELSE delays[s]]
        /\ Fault /\ Finish("Spi") /\ UNCHANGED stored
     \/ /\ ~run.restore
        /\ stored' = StoresNew
        /\ Fine /\ Goto("leave") /\ UNCHANGED <<ensmVars, delays>>
     \/ /\ ~run.restore /\ run.kind # "fir tune"
        /\ stored' \in {stored, [stored EXCEPT !["rx"] = delays["rx"]]}
        /\ Fault /\ Finish("Spi") /\ UNCHANGED <<ensmVars, delays>>
  /\ UNCHANGED <<config, fddMode, testVars, attenVars, pn, run, userVars, failed>>

LeaveTuning ==
  /\ pc = "leave"
  /\ \/ fddMode' = config.fdd /\ RestoreState(run.saved) /\ Fine /\ Goto("unmute")
     \/ /\ fddMode' \in {fddMode, config.fdd} /\ RestoreFails(run.saved)
        /\ Fault /\ Finish("Spi")
  /\ UNCHANGED <<config, testVars, attenVars, delays, pn, stored, run, userVars, failed>>

(* tx_mute(false), whether tx_mute(true) came before it or not. *)
Unmute ==
  /\ pc = "unmute"
  /\ \/ atten' = [c \in Channels |-> Unmuted(c)] /\ Fine /\ Finish(run.result)
     \/ /\ \E written \in SUBSET Channels :
             atten' = [c \in Channels |-> IF c \in written THEN Unmuted(c) ELSE atten[c]]
        /\ Fault /\ Finish("Spi")
  /\ UNCHANGED <<config, ensmVars, fddMode, testVars, attenCached, delays, pn, stored, run,
                 userVars, failed>>

(***************************************************************************)
Calls ==
  \/ PostSetup \/ SetSampleRate \/ LoadOrCalibrate
  \/ \E s \in Sides, e \in BOOLEAN : SetFirEnabled(s, e)
  \/ \E channels \in SUBSET Channels \ {{}}, a \in Attens : SetTxAttenuation(channels, a)

Steps ==
  \/ ChangeClocks \/ ForceAlert \/ RestoreAfterWork
  \/ SaveEnsmState \/ Mute \/ StartRx \/ SweepRx \/ StartTx \/ SweepTx
  \/ StopTestSignals \/ PutDelays \/ LeaveTuning \/ Unmute

Next == Calls \/ Steps \/ Pins

Spec == Init /\ [][Next]_vars /\ WF_vars(Steps)

(***************************************************************************)
(* Properties.                                                             *)
(***************************************************************************)
States == {"alert", "tx", "rx", "fdd", "flush"}
Origins == {"configured", "tuned", "tuned with FIR", "swept"}

TypeOK ==
  /\ config \in Configs
  /\ ensm \in States /\ {fddMode, pinCtrl, savedPin} \subseteq BOOLEAN
  /\ {loop, prbs, loopMode, bistConfig, pn, up, failed} \subseteq BOOLEAN
  /\ {atten, attenCached, asked} \subseteq [Channels -> MinAtten..MaxAtten]
  /\ {delays, stored} \subseteq [Sides -> Origins]
  /\ mode \in Modes /\ fir \subseteq Sides
  /\ result \in {"ok", "Spi", "Timeout", "TuningFailed", "InvalidRate"}
  /\ asks \in 0..MaxAsks /\ faults \in 0..MaxFaults
  /\ todo = << >> <=> pc \in {"idle", "init failed"}

(***************************************************************************)
(* "mute, the PRBS must not go out on the antenna": while the FPGA sends   *)
(* the PN sequence both channels are at full attenuation, whatever fails.  *)
(***************************************************************************)
PnOnlyWhileMuted == pn => atten = Both(MaxAtten)

(***************************************************************************)
(* Between calls everything borrowed is back. with_dig_tune_mode "puts the *)
(* configured mode back afterwards no matter what" and the PN generator is *)
(* stopped, on every way out. A chip under SPI control is in the state and *)
(* the duplex mode it runs in, through all the forcing in between. And RX  *)
(* has its antenna, without loopback and PRBS, as long as both directions  *)
(* are tuned and no sweep failed: after an RX sweep alone the driver       *)
(* believes that the PRBS was on, and the next tuning "puts it back"       *)
(* (README).                                                               *)
(***************************************************************************)
TuningGivesBack ==
  /\ pc \in {"idle", "init failed"} => mode = config.tune /\ ~pn
  /\ pc = "idle" /\ faults = 0 =>
       /\ ~config.pins => ensm = Home /\ fddMode = config.fdd
       /\ ~failed /\ config.tune # "RxOnly" => ~loop /\ ~prbs

(***************************************************************************)
(* The delays a running driver would put back were configured or found by  *)
(* a complete sweep, whatever failed since; and those are the ones in the  *)
(* chip if nothing failed but a sweep.                                     *)
(***************************************************************************)
NoHalfSweptDelays ==
  /\ up => \A s \in Sides : stored[s] # "swept"
  /\ pc = "idle" /\ faults = 0 => \A s \in Sides : delays[s] # "swept"

(***************************************************************************)
(* "With FIRs off, put the original delays back": the ones from before any *)
(* FIR was tuned for, however often that has been done since.              *)
(***************************************************************************)
DelaysBackWithFirsOff ==
  pc = "alert" /\ call \in {"rx fir", "tx fir"} /\ fir = {} /\ config.firTune /\ faults = 0
    => delays = stored /\ \A s \in Sides : stored[s] # "tuned with FIR"

(***************************************************************************)
(* A tuning that muted TX ends with the attenuation it began with, on each *)
(* channel, also when its sweep failed.                                    *)
(***************************************************************************)
TuningKeepsAttenuation ==
  [][pc = "unmute" /\ run.muted /\ faults' = 0 => atten' = run.atten]_vars

(***************************************************************************)
(* set_tx_attenuation: "Sets the TX attenuation". Not kept: putting the    *)
(* delays back unmutes without having muted, and so goes back to the       *)
(* attenuation of the last mute, or to 0 dB if there was none.             *)
(***************************************************************************)
AttenuationIsWhatWasAsked == pc = "idle" /\ faults = 0 => atten = asked
=============================================================================
