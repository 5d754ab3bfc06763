-------------------------------- MODULE Setup --------------------------------
(***************************************************************************)
(* Init and the calls that change shared registers afterwards, access by   *)
(* access: Ad9361::init with setup and post_setup, set_gain_mode,          *)
(* set_sample_rate and set_tx_attenuation. Any access can fail, with or    *)
(* without having reached the chip. A failed init gives everything back    *)
(* and the next one starts from a reset; a later failure keeps the driver  *)
(* and the chip as they are, and the caller may call again.                *)
(***************************************************************************)
EXTENDS SetupSteps

CONSTANTS Settings,    \* settings that init is called with
          Rates,       \* sample rates that are asked for
          Modes,       \* gain modes that are asked for
          Cuts,        \* where clock changes of the tuning break off
          MaxCalls,    \* bound: calls after init
          MaxFaults    \* bound: SPI errors

Channels  == {1, 2}
GainModes == {"manual", "fast", "slow", "hybrid"}

ASSUME BoundsAssumption == MaxCalls \in Nat /\ MaxFaults \in Nat

\* Rates are told apart from what else a field may hold.
ASSUME RatesAssumption == Rates \cap {"reset", "zero", "cal"} = {}

ASSUME CutsAssumption == Cuts \subseteq Nat

ASSUME ModesAssumption ==
  Modes \subseteq GainModes /\ \A set \in Settings : set.modes \in [Channels -> GainModes]

VARIABLES
  s,         \* the settings
  call,      \* the call that runs
  todo,      \* what it has left to do
  chip,      \* what each field of each register holds
  drv,       \* driver: cached rate, gain modes, whether init has returned it
  saved,     \* the register that was read to be put back
  calls, faults,
  spoilt     \* history: what a failed call may have left, and none has redone

vars == <<s, call, todo, chip, drv, saved, calls, faults, spoilt>>

(***************************************************************************)
(* The calls, and their accesses.                                          *)
(***************************************************************************)
Idle      == [op |-> "idle"]
Off       == [op |-> "off"]
InitCalls == [op : {"init"}, rate : Rates, cut : [rx : Cuts, tx : Cuts]]
ModeCalls == [op : {"mode"}, c : Channels, mode : Modes]
RateCalls == [op : {"rate"}, rate : Rates]
Atten     == [op |-> "atten"]

Script(set, k) ==
  CASE k.op = "init"  -> InitScript(set, k.rate, k.cut)
    [] k.op = "mode"  -> SetGainModeScript(set, k.c, k.mode)
    [] k.op = "rate"  -> SetTrxClockChain(set, k.rate)
    [] k.op = "atten" -> SetTxAtten

Running == todo # << >>
Due     == Head(todo)
Last    == Len(todo) = 1

(***************************************************************************)
(* Values of the fields that are worked out by the driver.                 *)
(***************************************************************************)
PowerOf(d) == IF \E c \in Channels : d.modes[c] = "fast" THEN "fast" ELSE d.rate

Worked(v, old) ==
  CASE v = "rate" -> drv.rate [] v = "power" -> PowerOf(drv) [] v = "saved" -> old [] OTHER -> v

SavedField(f) == IF f \in DOMAIN saved THEN saved[f] ELSE "zero"

After(a) ==    \* the register after access a
  [f \in FieldsOf[a.reg] |-> IF f \in DOMAIN a.vals THEN Worked(a.vals[f], SavedField(f))
                             ELSE IF a.op = "write" THEN "zero" ELSE chip[a.reg][f]]

AfterReset == [n \in Names |-> [f \in FieldsOf[n] |-> "reset"]]
NewDriver(set) == [rate |-> "reset", modes |-> set.modes, up |-> FALSE]

-----------------------------------------------------------------------------
Init == /\ s \in Settings /\ call \in InitCalls /\ todo = Script(s, call)
        /\ chip = AfterReset
        /\ drv = NewDriver(s)
        /\ saved = << >>
        /\ calls = 0 /\ faults = 0 /\ spoilt = {}

Call(k) ==
  /\ call = Idle /\ calls < MaxCalls
  /\ call' = k /\ todo' = Script(s, k) /\ calls' = calls + 1
  /\ UNCHANGED <<s, chip, drv, saved, faults, spoilt>>

SetGainMode      == \E k \in ModeCalls : Call(k)
SetSampleRate    == \E k \in RateCalls : Call(k)
SetTxAttenuation == Call(Atten)

(***************************************************************************)
(* What a call that fails leaves behind, and one that succeeds redoes.     *)
(***************************************************************************)
Spoils(k) ==
  CASE k.op = "mode" -> {<<"mode", k.c>>, <<"channel", k.c>>, <<"gain timing">>}
    [] k.op = "rate" -> {<<"gain timing">>, <<"other timing">>}
    [] OTHER         -> {<<"atten">>}

Redoes(k) == CASE k.op = "mode" -> {<<"mode", k.c>>, <<"gain timing">>}
               [] OTHER         -> Spoils(k)

Proceed ==
  /\ todo' = Tail(todo)
  /\ IF Last
     THEN /\ call' = Idle /\ saved' = << >>
          /\ spoilt' = IF drv.up THEN spoilt \ Redoes(call) ELSE {}
     ELSE UNCHANGED <<call, saved, spoilt>>

Settle(d) == drv' = [d EXCEPT !.up = @ \/ Last]

(* An access to the chip. *)
AccessChip ==
  /\ Running /\ Due.op \in {"write", "modify"}
  /\ chip' = [chip EXCEPT ![Due.reg] = After(Due)]
  /\ Proceed /\ Settle(drv)
  /\ UNCHANGED <<s, calls, faults>>

ReadForLater ==
  /\ Running /\ Due.op = "save"
  /\ saved' = chip[Due.reg]
  /\ todo' = Tail(todo)
  /\ UNCHANGED <<s, call, chip, drv, calls, faults, spoilt>>

(* The driver remembers a rate, or gain modes. *)
Remember ==
  /\ Running /\ Due.op \in {"rate", "modes"}
  /\ Settle(IF Due.op = "rate" THEN [drv EXCEPT !.rate = Due.rate]
            ELSE [drv EXCEPT !.modes = [c \in Channels |->
                   IF c \in DOMAIN Due.modes THEN Due.modes[c] ELSE @[c]]])
  /\ Proceed
  /\ UNCHANGED <<s, chip, calls, faults>>

GiveUp ==
  /\ call' = IF drv.up THEN Idle ELSE Off
  /\ todo' = << >> /\ saved' = << >>
  /\ spoilt' = IF drv.up THEN spoilt \cup Spoils(call) ELSE {}

(* An SPI error. What was to be written may be in the chip. *)
SpiError ==
  /\ Running /\ Due.op \in {"write", "modify", "save"} /\ faults < MaxFaults
  /\ faults' = faults + 1
  /\ \/ UNCHANGED chip
     \/ Due.op # "save" /\ chip' = [chip EXCEPT ![Due.reg] = After(Due)]
  /\ GiveUp
  /\ UNCHANGED <<s, drv, calls>>

(* Rates that aren't those of any sample rate may be rejected: InvalidRate, *)
(* GainControlTiming or RssiDurationTooShort.                               *)
Reject ==
  /\ Running /\ drv.up /\ drv.rate = "mixed" /\ call.op = "mode"
  /\ Due.op = "modify" /\ {"rate", "power"} \cap {Due.vals[f] : f \in DOMAIN Due.vals} # {}
  /\ GiveUp
  /\ UNCHANGED <<s, chip, drv, calls, faults>>

(* No delay of a sweep works: TuningFailed, which fails init. *)
NoWindow ==
  /\ Running /\ Due.op = "write" /\ Due.reg \in {"RxClockDataDelay", "TxClockDataDelay"}
  /\ \E f \in DOMAIN Due.vals : Due.vals[f] = "cal"
  /\ GiveUp
  /\ UNCHANGED <<s, chip, drv, calls, faults>>

InitAgain ==
  /\ call = Off
  /\ call' \in InitCalls /\ todo' = Script(s, call')
  /\ chip' = AfterReset /\ drv' = NewDriver(s)
  /\ UNCHANGED <<s, saved, calls, faults, spoilt>>

Next == \/ SetGainMode \/ SetSampleRate \/ SetTxAttenuation
        \/ AccessChip \/ ReadForLater \/ Remember
        \/ SpiError \/ Reject \/ NoWindow \/ InitAgain

Spec == Init /\ [][Next]_vars

-----------------------------------------------------------------------------
(***************************************************************************)
(* Properties, of what is in the chip while no call runs.                  *)
(***************************************************************************)
InUse == call = Idle

\* The fields that some step of the set up sets to what the settings, the
\* modes or the rates ask for.
Owned ==
  LET script   == Setup(s, CHOOSE rate \in Rates : TRUE)
      accesses == {script[i] : i \in DOMAIN script}
  IN  UNION {{<<a.reg, f>> : f \in {f \in DOMAIN a.vals : a.vals[f] \notin {"cal", "zero", "saved"}}} :
             a \in {a \in accesses : a.op \in {"write", "modify"}}}

(***************************************************************************)
(* What does get wiped. rssi_gain_step_calib overwrites RSSI settings, and *)
(* the update that follows in init leaves timing in RX samples alone.      *)
(* set_intf_delay forces a state inside a forced one, which remembers the  *)
(* pin control as off (control.rs:219), so that a tuning loses it. The     *)
(* hybrid bit, one for both channels, is set by the mode of the channel    *)
(* that was changed last (gain_control.rs:819).                            *)
(***************************************************************************)
Wiped(set, n, f) ==
  \/ set.in_samples /\ n \in {"RssiConfig", "MeasureDuration01"}
  \/ set.ensm_pin_ctrl /\ set.tune # "no" /\ f = "enable_ensm_pin_ctrl"
  \/ f = "slow_attack_hybrid_mode"

NotRedone ==
  {<<"RxEnableFilterControl", Rx(c)>> : c \in {c \in Channels : <<"channel", c>> \in spoilt}}
  \cup IF <<"atten">> \in spoilt
       THEN {<<"Tx2DigAtten", "immediately_update_tpc_atten">>} ELSE {}

(***************************************************************************)
(* Several parts share a register, some write it whole, and the synth, DC  *)
(* offset, quadrature and RSSI calibrations and the tuning borrow from it: *)
(* after init, and whatever is called, fails or is called again from then  *)
(* on, every field that anybody has set holds its own value and not a zero *)
(* or what was borrowed for, but for the three exceptions above.           *)
(***************************************************************************)
NothingIsWiped ==
  InUse => \A o \in Owned \ NotRedone :
             ~Wiped(s, o[1], o[2]) => chip[o[1]][o[2]] \notin {"reset", "zero", "cal"}

GainTiming ==
  {<<"AgcAttackDelay", "agc_attack_delay">>, <<"PeakWaitTime", "peak_overload_wait_time">>,
   <<"FastConfig2SettlingDelay", "settling_delay">>,
   <<"DigitalSatCounter", "double_gain_counter">>,
   <<"FastEnergyDetectCount", "energy_detect_count">>}

OtherTiming ==
  {<<"TempSense2", "measurement_time_interval">>,
   <<"AuxadcClockDivider", "auxadc_clock_divider">>}
  \cup IF s.in_samples THEN {}
       ELSE {<<"MeasureDuration01", "measurement_duration_0">>,
             <<"MeasureDuration23", "measurement_duration_3">>,
             <<"RssiConfig", "default_rssi_meas_mode">>}

(***************************************************************************)
(* bb_clk_update "refreshes everything that depends on the baseband        *)
(* rates", and gc_update also what depends on the modes: what is in the    *)
(* chip fits the driver's rates and modes. After a failed call, as soon as *)
(* one has succeeded that refreshes it.                                    *)
(***************************************************************************)
TimingFollowsTheClocks ==
  InUse =>
    /\ <<"gain timing">> \notin spoilt =>
         /\ \A o \in GainTiming : chip[o[1]][o[2]] = drv.rate
         /\ chip["DecPowerMeasureDuration0"]["dec_power_measurement_duration"] = PowerOf(drv)
    /\ <<"other timing">> \notin spoilt =>
         \A o \in OtherTiming : chip[o[1]][o[2]] = drv.rate

(***************************************************************************)
(* "The channel is switched off briefly during the change": only that one  *)
(* is, while the call runs, and it is on again afterwards. A call that     *)
(* fails may leave it off; no later call turns it on again, as set_gain_   *)
(* mode goes back to the channels it has found on.                         *)
(***************************************************************************)
OnlyTheChangedChannelPauses ==
  drv.up => \A c \in Channels :
    \/ chip["RxEnableFilterControl"][Rx(c)] = "set"
    \/ <<"channel", c>> \in spoilt
    \/ call # Idle /\ call.op = "mode" /\ call.c = c

(***************************************************************************)
(* gain_mode answers from the driver: the mode it gives for a channel is   *)
(* the one in the chip, unless the last change of that channel failed.     *)
(***************************************************************************)
DriverKnowsTheModes ==
  InUse => \A c \in Channels :
    <<"mode", c>> \notin spoilt => chip["AgcConfig1"][GainModeField(c)] = drv.modes[c]
=============================================================================
